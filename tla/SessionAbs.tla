------------------------------- MODULE SessionAbs -------------------------------
(***************************************************************************)
(* What an SRTP session promises its application: a table of streams, each *)
(* with a direction that is set once and an index that only grows, and a   *)
(* template that lets streams of its own direction appear.  Each step is a *)
(* call, and what it may do to the table depends on the call, the stream   *)
(* it names and the status it returns: a call changes no other stream than *)
(* the one it names, and a call that fails changes nothing, but for a      *)
(* packet that cannot be protected and the two kinds of update.            *)
(***************************************************************************)
EXTENDS Integers

CONSTANTS Ssrcs, MaxIndex

VARIABLES
    open,    \* the session exists
    side,    \* the direction of the template, "none" without one
    table,   \* the streams by SSRC: [direction, index]
    result   \* the last call: [call, ssrc, status]

vars == <<open, side, table, result>>

Init ==
    /\ open = FALSE /\ side = "none" /\ table = <<>>
    /\ result.call = "none"

(* The step is a call that returns the status: of the session, or of one
   stream. *)
Returns(call, status) == result'.call = call /\ result'.status = status
ReturnsFor(call, ssrc, status) ==
    result' = [call |-> call, ssrc |-> ssrc, status |-> status]

(* The table with a stream set, and with streams gone. *)
With(ssrc, direction, index) ==
    [s \in DOMAIN table \cup {ssrc} |->
        IF s = ssrc THEN [direction |-> direction, index |-> index]
                    ELSE table[s]]
Without(gone) == [s \in DOMAIN table \ gone |-> table[s]]

Open ==
    /\ ~open
    /\ Returns("create", "ok")
    /\ open' = TRUE
    /\ UNCHANGED <<side, table>>

Close ==
    /\ open
    /\ Returns("dealloc", "ok")
    /\ open' = FALSE /\ side' = "none" /\ table' = <<>>

SetTemplate(direction) ==
    /\ open
    /\ side = "none"
    /\ Returns("add", "ok")
    /\ side' = direction
    /\ UNCHANGED <<open, table>>

(* The application adds a stream. *)
Join(ssrc) ==
    /\ open
    /\ ssrc \notin DOMAIN table
    /\ ReturnsFor("add", ssrc, "ok")
    /\ table' = With(ssrc, "unknown", 0)
    /\ UNCHANGED <<open, side>>

(* The application removes a stream, or its update fails: that stream is gone
   and no other. *)
Leave(ssrc) ==
    /\ open
    /\ ssrc \in DOMAIN table
    /\ ReturnsFor("remove", ssrc, "ok") \/ ReturnsFor("update", ssrc, "alloc_fail")
    /\ table' = Without({ssrc})
    /\ UNCHANGED <<open, side>>

(* An update of the template runs out of memory: this may cost any streams. *)
Lose(gone) ==
    /\ open
    /\ side # "none"
    /\ gone \subseteq DOMAIN table
    /\ Returns("update_template", "alloc_fail")
    /\ table' = Without(gone)
    /\ UNCHANGED <<open, side>>

(* New keys, for a stream or for the template and its streams. *)
Rekey ==
    /\ open
    /\ Returns("update", "ok") \/ Returns("update_template", "ok")
    /\ UNCHANGED <<open, side, table>>

(* Every call may fail and leave the table as it was. *)
Refuse ==
    /\ result'.status # "ok"
    /\ UNCHANGED <<open, side, table>>

SideOf(call) == IF call = "protect" THEN "sender" ELSE "receiver"

(* A packet is handled (n = 1), or protecting it fails once the stream is
   known (n = 0). *)
Handled(call, ssrc, n) ==
    /\ n = 1 \/ call = "protect"
    /\ ReturnsFor(call, ssrc, IF n = 1 THEN "ok" ELSE "fail")

(* The first packet of an SSRC that the template serves. *)
Appear(call, ssrc, n) ==
    /\ open
    /\ ssrc \notin DOMAIN table
    /\ side = SideOf(call)
    /\ Handled(call, ssrc, n)
    /\ table' = With(ssrc, side, n)
    /\ UNCHANGED <<open, side>>

(* A packet of a stream, in the only direction the stream has. *)
Packet(call, ssrc, n) ==
    /\ open
    /\ ssrc \in DOMAIN table
    /\ table[ssrc].direction \in {"unknown", SideOf(call)}
    /\ table[ssrc].index + n <= MaxIndex
    /\ Handled(call, ssrc, n)
    /\ table' = With(ssrc, SideOf(call), table[ssrc].index + n)
    /\ UNCHANGED <<open, side>>

Next ==
    \/ Open \/ Close \/ Rekey \/ Refuse
    \/ \E d \in {"sender", "receiver"} : SetTemplate(d)
    \/ \E gone \in SUBSET Ssrcs : Lose(gone)
    \/ \E ssrc \in Ssrcs :
          \/ Join(ssrc) \/ Leave(ssrc)
          \/ \E call \in {"protect", "unprotect"}, n \in {0, 1} :
                Appear(call, ssrc, n) \/ Packet(call, ssrc, n)

Spec == Init /\ [][Next]_vars
================================================================================
