------------------------------ MODULE SrtcpStream -------------------------------
(***************************************************************************)
(* One srtp_stream_ctx_t as the RTCP packet functions see it:              *)
(* srtp_protect_rtcp, srtp_unprotect_rtcp and their AEAD variants          *)
(* (srtp/srtp.c).  The direction is shared with the RTP functions, whose   *)
(* effect on it is the action RtpCall.                                     *)
(*                                                                         *)
(* A packet is the 31-bit index in its trailer and whether its tag         *)
(* verifies.  The index goes into the IV and under the tag as it is read   *)
(* from the packet, so nothing has to be estimated.                        *)
(***************************************************************************)
EXTENDS Rdb

VARIABLES
    rdb,        \* rtcp_rdb
    direction,  \* dir_unknown, dir_srtp_sender or dir_srtp_receiver
    used,       \* history: the indices protected by this stream
    accepted,   \* history: the indices accepted by this stream
    last        \* the last call, its status and the index it recorded

vars == <<rdb, direction, used, accepted, last>>

Packets == [index : RtcpIndices, verifies : BOOLEAN]

NoIndex == -1

Calls == {"none", "protect", "unprotect", "rtp", "update"}
Statuses == {"ok", "direction_mismatch", "malformed", "key_expired",
             "replay_old", "replay_fail", "auth_fail", "cipher_fail"}

Outcome(call, status, index) ==
    [call |-> call, status |-> status, index |-> index]

(* Type correctness: the counter stays in 31 bits and the bits in the
   window. *)
TypeOK ==
    /\ rdb \in RdbType
    /\ direction \in {"unknown", "sender", "receiver"}
    /\ used \in SUBSET RtcpIndices
    /\ accepted \in SUBSET RtcpIndices
    /\ last \in [call : Calls, status : Statuses,
                 index : RtcpIndices \cup {NoIndex}]

Init ==
    /\ rdb = RdbInit
    /\ direction = "unknown"
    /\ used = {}
    /\ accepted = {}
    /\ last = Outcome("none", "ok", NoIndex)

-----------------------------------------------------------------------------
(* The stream already receives: the SSRC collides. *)
ProtectCollision ==
    /\ direction = "receiver"
    /\ last' = Outcome("protect", "direction_mismatch", NoIndex)
    /\ UNCHANGED <<rdb, direction, used, accepted>>

(* bad_mki or buffer_small: the direction is set, no index is taken. *)
ProtectMalformed ==
    /\ direction # "receiver"
    /\ direction' = "sender"
    /\ last' = Outcome("protect", "malformed", NoIndex)
    /\ UNCHANGED <<rdb, used, accepted>>

ProtectExpired ==
    /\ direction # "receiver"
    /\ RdbIncrement(rdb).status # "ok"
    /\ direction' = "sender"
    /\ last' = Outcome("protect", RdbIncrement(rdb).status, NoIndex)
    /\ UNCHANGED <<rdb, used, accepted>>

(* The counter is advanced before the packet is encrypted: an error of the
   cipher or the tag leaves the index used. *)
ProtectPacket(status) ==
    LET next == RdbIncrement(rdb)
    IN  /\ direction # "receiver"
        /\ next.status = "ok"
        /\ direction' = "sender"
        /\ rdb' = next.rdb
        /\ used' = used \cup {next.rdb.window_start}
        /\ last' = Outcome("protect", status, next.rdb.window_start)
        /\ UNCHANGED accepted

Protect ==
    \/ ProtectCollision
    \/ ProtectMalformed
    \/ ProtectExpired
    \/ \E status \in {"ok", "cipher_fail"} : ProtectPacket(status)

-----------------------------------------------------------------------------
UnprotectCollision ==
    /\ direction = "sender"
    /\ last' = Outcome("unprotect", "direction_mismatch", NoIndex)
    /\ UNCHANGED <<rdb, direction, used, accepted>>

(* bad_mki, a length error, an E bit other than the policy's (AES-CM), or an
   output buffer that is too small. *)
UnprotectMalformed ==
    /\ direction # "sender"
    /\ last' = Outcome("unprotect", "malformed", NoIndex)
    /\ UNCHANGED <<rdb, direction, used, accepted>>

UnprotectRefused(p) ==
    /\ direction # "sender"
    /\ RdbCheck(rdb, p.index) # "ok"
    /\ last' = Outcome("unprotect", RdbCheck(rdb, p.index), NoIndex)
    /\ UNCHANGED <<rdb, direction, used, accepted>>

(* The tag does not verify, or the cipher fails on a packet whose tag does. *)
UnprotectFailed(p) ==
    /\ direction # "sender"
    /\ RdbCheck(rdb, p.index) = "ok"
    /\ last' = Outcome("unprotect",
                       IF p.verifies THEN "cipher_fail" ELSE "auth_fail",
                       NoIndex)
    /\ UNCHANGED <<rdb, direction, used, accepted>>

UnprotectPacket(p) ==
    /\ direction # "sender"
    /\ RdbCheck(rdb, p.index) = "ok"
    /\ p.verifies
    /\ direction' = "receiver"
    /\ rdb' = RdbAddIndex(rdb, p.index)
    /\ accepted' = accepted \cup {p.index}
    /\ last' = Outcome("unprotect", "ok", p.index)
    /\ UNCHANGED used

Unprotect(p) ==
    \/ UnprotectCollision
    \/ UnprotectMalformed
    \/ UnprotectRefused(p)
    \/ UnprotectFailed(p)
    \/ UnprotectPacket(p)

-----------------------------------------------------------------------------
(* srtp_protect or srtp_unprotect has set the direction of the stream. *)
RtpCall ==
    /\ direction = "unknown"
    /\ direction' \in {"sender", "receiver"}
    /\ last' = Outcome("rtp", "ok", NoIndex)
    /\ UNCHANGED <<rdb, used, accepted>>

(* stream_update and update_template_stream_cb copy the old stream's
   rtcp_rdb, bitmask included, and its direction into the new one. *)
Update ==
    /\ last' = Outcome("update", "ok", NoIndex)
    /\ UNCHANGED <<rdb, direction, used, accepted>>

Next ==
    \/ Protect
    \/ \E p \in Packets : Unprotect(p)
    \/ RtpCall
    \/ Update

Spec == Init /\ [][Next]_vars

-----------------------------------------------------------------------------
(***************************************************************************)
(* Properties                                                              *)
(***************************************************************************)

(* The two uses of the database never meet: it is fresh while the stream has
   no direction; a sender's bitmask is empty and
   its counter is the number of the last packet, with no index left out or
   used twice; a receiver's bits are exactly the accepted indices of the
   window, and the window ends at or before the highest of them. *)
RdbExact ==
    /\ direction = "unknown" => rdb = RdbInit /\ accepted = {}
    /\ used = 1 .. (IF direction = "sender" THEN rdb.window_start ELSE 0)
    /\ direction = "sender" => rdb.bitmask = {} /\ accepted = {}
    /\ direction # "sender" =>
         /\ \A b \in 0 .. RdbBits - 1 :
               b \in rdb.bitmask <=> rdb.window_start + b \in accepted
         /\ \A i \in accepted : i < rdb.window_start + RdbBits
         /\ rdb.window_start > 0 =>
               rdb.window_start + RdbBits - 1 \in accepted

(* No index is used or accepted twice in the life of the stream, over updates
   that keep the keys and at the end of the 31 bits. *)
RtcpRecordOnce ==
    last'.index # NoIndex => last'.index \notin used \cup accepted

RtcpIndexOnce == [][RtcpRecordOnce]_vars

(* A receiver refuses an index only when it has accepted it, or has accepted
   one a whole window later. *)
RefusedForCause ==
    direction # "sender" =>
        \A i \in RtcpIndices :
            RdbCheck(rdb, i) # "ok" =>
                i \in accepted \/ \E j \in accepted : j >= i + RdbBits
================================================================================
