----------------------------- MODULE MCSrtcpStream ------------------------------
(* Model checking of SrtcpStream: no definitions are needed beyond its own. *)
EXTENDS SrtcpStream
================================================================================
