---------------------------- MODULE MCStreamKeys ----------------------------
(* What an application passes to the setters. *)
EXTENDS StreamKeys

MCKeyLens == {<<16, 14>>, <<16, 12>>, <<24, 14>>, <<32, 14>>, <<32, 12>>, <<0, 0>>}
MCServices == {Both}
MCRccs == {<<0, 0>>, <<1, 1>>, <<3, 1>>, <<2, 0>>}
=============================================================================
