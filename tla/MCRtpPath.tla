------------------------------- MODULE MCRtpPath --------------------------------
(* Model checking of RtpPath: no definitions are needed beyond its own. *)
EXTENDS RtpPath
================================================================================
