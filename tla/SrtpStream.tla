------------------------------- MODULE SrtpStream -------------------------------
(***************************************************************************)
(* One srtp_stream_ctx_t as the RTP packet functions see it: srtp_protect, *)
(* srtp_unprotect and their AEAD variants, srtp_stream_set_roc, and the    *)
(* replacement of the stream by srtp_stream_update (srtp/srtp.c).          *)
(*                                                                         *)
(* A packet is its sequence number, the rollover counter of the sender     *)
(* that produced it (on a ROC-carrying packet also the counter it carries),*)
(* the master key it names and whether its tag was produced by a holder of *)
(* that key.  Encryption is abstracted to the index that forms the IV; a   *)
(* tag verifies when the packet is genuine and the receiver puts the       *)
(* sender's counter into the MAC (AES-CM) or the IV (AEAD).                *)
(***************************************************************************)
EXTENDS Rdbx, KeyLimit

CONSTANTS
    Keys,            \* the session keys of the stream (one per MKI)
    RccMode,         \* rcc_mode: 0 for none, or RFC 4771 mode 1, 2, 3
    RocTxRate,       \* roc_tx_rate R
    Aead,            \* the RTP cipher is AES-GCM
    AuthService,     \* rtp_services & sec_serv_auth, with a tag
    AllowRepeatTx,   \* allow_repeat_tx
    KeepKeys,        \* srtp_stream_update is given the keys in use
    MaxIndex         \* bound on the packet index (code: 2^64 - 1)

(* What srtp_policy_validate_rcc lets through: a rate, modes 1 and 2 without
   AES-GCM and mode 3 with it. *)
ASSUME StreamAssumption ==
    /\ RccMode \in 0 .. 3
    /\ RocTxRate \in Nat \ {0}
    /\ {Aead, AuthService, AllowRepeatTx, KeepKeys} \subseteq BOOLEAN
    /\ RccMode \in {1, 2} => ~Aead
    /\ RccMode = 3 => Aead
    /\ MaxIndex \in Nat

VARIABLES
    rdbx,         \* rtp_rdbx
    pending_roc,  \* ROC set by the application, 0 when there is none
    direction,    \* dir_unknown, dir_srtp_sender or dir_srtp_receiver
    limit,        \* the usage limit of each session key
    sent,         \* history: the indices protected under the current keys
    received,     \* history: the indices accepted under the current keys
    last          \* the last call and its outcome

vars == <<rdbx, pending_roc, direction, limit, sent, received, last>>

Packets == [seq : Seqs, roc : Rocs, key : Keys, genuine : BOOLEAN]

NoIndex == -1

Calls == {"none", "protect", "unprotect", "rtcp", "set_roc", "update"}
Statuses == {"ok", "direction_mismatch", "bad_mki", "key_expired", "malformed",
             "pkt_idx_old", "replay_old", "replay_fail", "auth_fail",
             "cipher_fail"}
Events == KeyEvents \cup {"ssrc_collision"}

(* What a call came to, with the index it recorded in the database and the one
   it used in the cipher, if any. *)
OutcomeType == [call : Calls, status : Statuses, event : Events,
                index : Nat \cup {NoIndex}, est : Nat \cup {NoIndex}]

(* Type correctness: every field stays in the range its C type gives it, the
   two lists of recorded indices are indices, and the key counters stay in
   their 64 bits. *)
TypeOK ==
    /\ rdbx \in RdbxType
    /\ pending_roc \in Rocs
    /\ direction \in {"unknown", "sender", "receiver"}
    /\ limit \in [Keys -> LimitType]
    /\ sent \in SUBSET Nat
    /\ received \in SUBSET Nat
    /\ last \in OutcomeType

(* The outcome of a call that records no packet index. *)
Outcome(call, status, event) ==
    [call |-> call, status |-> status, event |-> event,
     index |-> NoIndex, est |-> NoIndex]

(* A stream as srtp_stream_init leaves it. *)
Init ==
    /\ rdbx = RdbxInit
    /\ pending_roc = 0
    /\ direction = "unknown"
    /\ limit = [k \in Keys |-> KeyLimitSet]
    /\ sent = {}
    /\ received = {}
    /\ last = Outcome("none", "ok", "normal")

-----------------------------------------------------------------------------
(***************************************************************************)
(* The packet index                                                        *)
(***************************************************************************)

(* Mutant of EstimateIndex: the local ROC is used, not the given one. *)
EstimateIndexLocal(roc, seq) ==
    LET est == GetRoc(rdbx) * SeqMax + seq
        gap == est - rdbx.index
    IN  [status |-> CASE gap > SeqMedian  -> "pkt_idx_adv"
                      [] gap < -SeqMedian -> "pkt_idx_old"
                      [] OTHER            -> "ok",
         est    |-> est,
         delta  |-> IF gap \in -SeqMedian .. SeqMedian THEN gap ELSE 0]

(* srtp_estimate_index: the index of seq under a given ROC, compared with the
   highest index seen. *)
EstimateIndex(roc, seq) ==
    LET est == roc * SeqMax + seq
        gap == est - rdbx.index
    IN  [status |-> CASE gap > SeqMedian  -> "pkt_idx_adv"
                      [] gap < -SeqMedian -> "pkt_idx_old"
                      [] OTHER            -> "ok",
         est    |-> est,
         delta  |-> IF gap \in -SeqMedian .. SeqMedian THEN gap ELSE 0]

(* srtp_get_est_pkt_index: a pending ROC takes the place of the guess. *)
GetEstPktIndex(seq) ==
    IF pending_roc # 0
    THEN EstimateIndex(pending_roc, seq)
    ELSE LET g == RdbxEstimateIndex(rdbx, seq)
         IN  [status |-> "ok", est |-> g.guess, delta |-> g.delta]

(* rcc_carry: the packet carries the sender's ROC. *)
RccCarry(seq) == RccMode # 0 /\ seq % RocTxRate = 0

(* The index a received packet is processed under: from the carried ROC if it
   carries one, whatever the local state says, and estimated otherwise. *)
ReceiveIndex(p) ==
    IF RccCarry(p.seq) THEN EstimateIndex(p.roc, p.seq)
                       ELSE GetEstPktIndex(p.seq)

(* The verdict of estimation and replay check: an index far ahead is not
   looked up in the window. *)
IndexStatus(e) ==
    IF e.status = "ok" THEN RdbxCheck(rdbx, e.delta) ELSE e.status

(* The database after the index of e is recorded: an index far ahead resets
   the window, any other is added to it. *)
Recorded(e) ==
    IF e.status = "pkt_idx_adv"
    THEN RdbxAddIndex(RdbxSetRocSeq(rdbx, e.est \div SeqMax, e.est % SeqMax), 0)
    ELSE RdbxAddIndex(rdbx, e.delta)

(* The index the database then holds for the packet. *)
RecordedIndex(e) ==
    IF e.status = "pkt_idx_adv" THEN e.est ELSE rdbx.index + e.delta

(* Every packet function ends its index handling this way. *)
RecordIndex(e) ==
    /\ RecordedIndex(e) <= MaxIndex
    /\ rdbx' = Recorded(e)
    /\ pending_roc' = IF e.status = "pkt_idx_adv" THEN 0 ELSE pending_roc

(* srtp_key_limit_update on the limit of key k. *)
UseKey(k) == limit' = [limit EXCEPT ![k] = KeyLimitUpdate(@).limit]
KeyEvent(k) == KeyLimitUpdate(limit[k]).event

-----------------------------------------------------------------------------
(***************************************************************************)
(* srtp_protect and srtp_protect_aead                                      *)
(***************************************************************************)

(* The stream already receives: the SSRC collides. *)
ProtectCollision ==
    /\ direction = "receiver"
    /\ last' = Outcome("protect", "direction_mismatch", "ssrc_collision")
    /\ UNCHANGED <<rdbx, pending_roc, direction, limit, sent, received>>

(* No session key at the given MKI index; the direction is set by then. *)
ProtectBadMki ==
    /\ direction # "receiver"
    /\ direction' = "sender"
    /\ last' = Outcome("protect", "bad_mki", "normal")
    /\ UNCHANGED <<rdbx, pending_roc, limit, sent, received>>

(* The key's usage limit is charged before anything else is looked at. *)
ProtectExpired(k) ==
    /\ direction # "receiver"
    /\ KeyEvent(k) = "hard_limit"
    /\ direction' = "sender"
    /\ UseKey(k)
    /\ last' = Outcome("protect", "key_expired", "hard_limit")
    /\ UNCHANGED <<rdbx, pending_roc, sent, received>>

(* buffer_small, cryptex_err or parse_err: the key has been charged, no index
   has been taken. *)
ProtectMalformed(k) ==
    /\ direction # "receiver"
    /\ KeyEvent(k) # "hard_limit"
    /\ direction' = "sender"
    /\ UseKey(k)
    /\ last' = Outcome("protect", "malformed", KeyEvent(k))
    /\ UNCHANGED <<rdbx, pending_roc, sent, received>>

(* The verdicts on which a packet is protected: allow_repeat_tx forgives an
   index that is in the window already. *)
MayProtect(status) ==
    \/ status \in {"ok", "pkt_idx_adv"}
    \/ AllowRepeatTx /\ status = "replay_fail"

ProtectRefused(seq, k) ==
    LET status == IndexStatus(GetEstPktIndex(seq))
    IN  /\ direction # "receiver"
        /\ KeyEvent(k) # "hard_limit"
        /\ ~MayProtect(status)
        /\ direction' = "sender"
        /\ UseKey(k)
        /\ last' = Outcome("protect", status, KeyEvent(k))
        /\ UNCHANGED <<rdbx, pending_roc, sent, received>>

(* The index is recorded before the packet is encrypted: a failure of the
   cipher, of the tag or in the header extension leaves it recorded. *)
ProtectPacket(seq, k, status) ==
    LET e == GetEstPktIndex(seq)
    IN  /\ direction # "receiver"
        /\ KeyEvent(k) # "hard_limit"
        /\ MayProtect(IndexStatus(e))
        /\ direction' = "sender"
        /\ UseKey(k)
        /\ RecordIndex(e)
        /\ sent' = sent \cup {RecordedIndex(e)}
        /\ last' = [call |-> "protect", status |-> status,
                    event |-> KeyEvent(k),
                    index |-> RecordedIndex(e), est |-> e.est]
        /\ UNCHANGED received

Protect(seq, k) ==
    \/ ProtectCollision
    \/ ProtectBadMki
    \/ ProtectExpired(k)
    \/ ProtectMalformed(k)
    \/ ProtectRefused(seq, k)
    \/ ProtectPacket(seq, k, "ok")
    \/ ProtectPacket(seq, k, "cipher_fail")

-----------------------------------------------------------------------------
(***************************************************************************)
(* srtp_unprotect and srtp_unprotect_aead                                  *)
(***************************************************************************)

(* The packet has a tag that is verified: in RCC mode 1 only the packets that
   carry the ROC have one. *)
Authenticated(seq) ==
    Aead \/ (AuthService /\ (RccMode = 1 => RccCarry(seq)))

(* Mutant of Verifies: the ROC is not part of what the tag covers. *)
VerifiesIgnoresRoc(p) == Authenticated(p.seq) => p.genuine

(* The tag of p verifies when the index in use has the sender's ROC. *)
Verifies(p) ==
    Authenticated(p.seq) =>
        p.genuine /\ ReceiveIndex(p).est = p.roc * SeqMax + p.seq

MayUnprotect(p) == IndexStatus(ReceiveIndex(p)) \in {"ok", "pkt_idx_adv"}

UnprotectCollision ==
    /\ direction = "sender"
    /\ last' = Outcome("unprotect", "direction_mismatch", "ssrc_collision")
    /\ UNCHANGED <<rdbx, pending_roc, direction, limit, sent, received>>

(* Everything that is wrong with a packet before its tag is looked at: no
   session key for its MKI, or a length, extension or cipher error. *)
UnprotectMalformed ==
    /\ direction # "sender"
    /\ \E status \in {"bad_mki", "malformed"} :
          last' = Outcome("unprotect", status, "normal")
    /\ UNCHANGED <<rdbx, pending_roc, direction, limit, sent, received>>

(* The index is behind the window, or in it already. *)
UnprotectRefused(p) ==
    /\ direction # "sender"
    /\ ~MayUnprotect(p)
    /\ last' = Outcome("unprotect", IndexStatus(ReceiveIndex(p)), "normal")
    /\ UNCHANGED <<rdbx, pending_roc, direction, limit, sent, received>>

(* The tag does not verify.  AEAD charges the key before it decrypts, and so
   may find it expired first; AES-CM charges it for verified packets only. *)
UnprotectAuthFail(p) ==
    /\ direction # "sender"
    /\ MayUnprotect(p)
    /\ ~Verifies(p)
    /\ IF Aead
       THEN /\ UseKey(p.key)
            /\ last' = Outcome("unprotect",
                               IF KeyEvent(p.key) = "hard_limit"
                               THEN "key_expired" ELSE "auth_fail",
                               KeyEvent(p.key))
       ELSE /\ last' = Outcome("unprotect", "auth_fail", "normal")
            /\ UNCHANGED limit
    /\ UNCHANGED <<rdbx, pending_roc, direction, sent, received>>

UnprotectExpired(p) ==
    /\ direction # "sender"
    /\ MayUnprotect(p)
    /\ Verifies(p)
    /\ KeyEvent(p.key) = "hard_limit"
    /\ UseKey(p.key)
    /\ last' = Outcome("unprotect", "key_expired", "hard_limit")
    /\ UNCHANGED <<rdbx, pending_roc, direction, sent, received>>

(* An error in the header extension, in cryptex or in the cipher after the
   tag has verified: the key is charged and the index is not recorded. *)
UnprotectFailed(p) ==
    /\ direction # "sender"
    /\ MayUnprotect(p)
    /\ Verifies(p)
    /\ KeyEvent(p.key) # "hard_limit"
    /\ UseKey(p.key)
    /\ last' = Outcome("unprotect", "cipher_fail", KeyEvent(p.key))
    /\ UNCHANGED <<rdbx, pending_roc, direction, sent, received>>

(* Every check has passed: the packet is recorded and the stream receives. *)
UnprotectPacket(p) ==
    LET e == ReceiveIndex(p)
    IN  /\ direction # "sender"
        /\ MayUnprotect(p)
        /\ Verifies(p)
        /\ KeyEvent(p.key) # "hard_limit"
        /\ UseKey(p.key)
        /\ direction' = "receiver"
        /\ RecordIndex(e)
        /\ received' = received \cup {RecordedIndex(e)}
        /\ last' = [call |-> "unprotect", status |-> "ok",
                    event |-> KeyEvent(p.key),
                    index |-> RecordedIndex(e), est |-> e.est]
        /\ UNCHANGED sent

Unprotect(p) ==
    \/ UnprotectCollision
    \/ UnprotectMalformed
    \/ UnprotectRefused(p)
    \/ UnprotectAuthFail(p)
    \/ UnprotectExpired(p)
    \/ UnprotectFailed(p)
    \/ UnprotectPacket(p)

-----------------------------------------------------------------------------
(* srtp_stream_set_roc *)
SetRoc(roc) ==
    /\ pending_roc' = roc
    /\ last' = Outcome("set_roc", "ok", "normal")
    /\ UNCHANGED <<rdbx, direction, limit, sent, received>>

(* srtp_protect_rtcp or srtp_unprotect_rtcp is the first to use the stream and
   sets its direction. *)
RtcpCall ==
    /\ direction = "unknown"
    /\ direction' \in {"sender", "receiver"}
    /\ last' = Outcome("rtcp", "ok", "normal")
    /\ UNCHANGED <<rdbx, pending_roc, limit, sent, received>>

(* Mutant of Update: the packet index is not restored. *)
UpdateFromZero ==
    /\ rdbx' = RdbxInit
    /\ pending_roc' = 0
    /\ limit' = [k \in Keys |-> KeyLimitSet]
    /\ sent' = IF KeepKeys THEN sent ELSE {}
    /\ received' = IF KeepKeys THEN received ELSE {}
    /\ last' = Outcome("update", "ok", "normal")
    /\ UNCHANGED direction

(* stream_update and update_template_stream_cb: the stream is replaced by a
   fresh one, of which only the packet index, the RTCP database (not modelled
   here) and the direction are restored. *)
Update ==
    /\ rdbx' = [RdbxInit EXCEPT !.index = rdbx.index]
    /\ pending_roc' = 0
    /\ limit' = [k \in Keys |-> KeyLimitSet]
    /\ sent' = IF KeepKeys THEN sent ELSE {}
    /\ received' = IF KeepKeys THEN received ELSE {}
    /\ last' = Outcome("update", "ok", "normal")
    /\ UNCHANGED direction

Next ==
    \/ \E seq \in Seqs, k \in Keys : Protect(seq, k)
    \/ \E p \in Packets : Unprotect(p)
    \/ RtcpCall
    \/ \E roc \in Rocs : SetRoc(roc)
    \/ Update

Spec == Init /\ [][Next]_vars

-----------------------------------------------------------------------------
(***************************************************************************)
(* Properties                                                              *)
(***************************************************************************)

Handled == sent \cup received

(* The replay window is exact: no recorded index lies above the database's
   index, and a bit of the bitmask is set exactly when the index it stands for
   was recorded under the current keys (srtp_rdbx_add_index, through every
   shift, reset and replacement of the window). *)
WindowExact == Exact(rdbx, Handled)

(* No index is recorded twice under the same keys, by either packet function:
   a received packet is accepted once, and no two packets are sent with the
   same keystream unless the policy allows repeats. *)
RecordOnce ==
    last'.index # NoIndex /\ ~(AllowRepeatTx /\ last'.call = "protect") =>
        last'.index \notin Handled

IndexRecordedOnce == [][RecordOnce]_vars

(* The index that goes into the replay database is the one that formed the IV
   and the MAC, up to the 48 bits these have. *)
RecordedIsCipherIndex ==
    last.index # NoIndex => last.index % IndexSpace = last.est

(* The highest index never moves backwards, over packets, set_roc and update;
   in particular the unchecked refusal of srtp_rdbx_set_roc_seq never
   happens. *)
IndexMonotone == [][rdbx'.index >= rdbx.index]_vars

(* A stream carries one direction: it is never used both to protect and to
   unprotect packets under the same keys, and the direction that has been set
   is the one of every packet recorded. *)
OneDirection ==
    /\ sent # {} => direction = "sender"
    /\ received # {} => direction = "receiver"

(* A packet that is not reordered by more than the window, nor ahead by half
   of the sequence numbers, is never refused: its index is estimated right,
   with or without the ROC in the packet, from any state reached. *)
NoFalseReject ==
    pending_roc = 0 =>
        \A i \in Nat \cap
             (rdbx.index - WindowSize + 1) .. (rdbx.index + SeqMedian - 1) :
            LET e == ReceiveIndex([seq |-> i % SeqMax, roc |-> i \div SeqMax])
            IN  i \notin Handled /\ i < IndexSpace =>
                    e.est = i /\ IndexStatus(e) = "ok"

(* The hard limit of a key is never met without the warning of the soft
   limit: the key was in the state past_soft_limit, or already expired. *)
WarnedStep ==
    last'.event = "hard_limit" =>
        \E k \in Keys : limit[k] # limit'[k] /\ limit[k].state # "normal"

WarnedBeforeExpiry == [][WarnedStep]_vars

-----------------------------------------------------------------------------
(***************************************************************************)
(* What the documentation says and the code does not keep                  *)
(***************************************************************************)

(* include/srtp.h on srtp_event_t: when a key expires the stream enters an
   expired state "in which no more packets can be protected or unprotected".
   srtp_key_limit_update decrements past zero and never reads the state. *)
ExpiredKeyStaysExpired ==
    [][\A k \in Keys :
         limit[k].state = "expired" /\ limit'[k] # limit[k] =>
             last'.call = "update" \/ last'.status # "ok"]_vars
================================================================================
