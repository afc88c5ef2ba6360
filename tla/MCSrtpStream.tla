------------------------------ MODULE MCSrtpStream ------------------------------
(***************************************************************************)
(* SrtpStream for TLC.  The widths of the counters are scaled down and     *)
(* ordered as in the code: two sequence numbers on each side of            *)
(* the median, a window no larger than the median, a soft limit no larger  *)
(* than the initial limit, and a counter larger than both.                 *)
(***************************************************************************)
EXTENDS SrtpStream, TLC

KeySymmetry == Permutations(Keys)
================================================================================
