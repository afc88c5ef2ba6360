------------------------------- MODULE MCSession -------------------------------
(* Session for TLC. *)
EXTENDS Session

(* The addresses: the template, one context per entry of the list, and one to
   allocate the new stream of an update, or to be lost by one that fails,
   while they are all in use. *)
MCIds == 1 .. MaxStreams + 2
================================================================================
