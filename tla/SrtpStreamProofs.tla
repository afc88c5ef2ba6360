---------------------------- MODULE SrtpStreamProofs ----------------------------
(***************************************************************************)
(* The safety properties of SrtpStream, for every width of the counters,   *)
(* every window, RCC mode and rate, and every bound on the index.          *)
(***************************************************************************)
EXTENDS SrtpStream, RdbxProofs

(* What every index estimate of the packet functions satisfies. *)
GoodEstimate(e) ==
    /\ e.status \in {"ok", "pkt_idx_adv", "pkt_idx_old"}
    /\ e.est \in Nat
    /\ e.delta \in Int
    /\ e.status = "ok" => /\ e.delta < SeqMax
                          /\ rdbx.index + e.delta \in Nat
                          /\ e.est = (rdbx.index + e.delta) % IndexSpace
    /\ e.status = "pkt_idx_adv" => /\ e.est - rdbx.index > SeqMedian
                                   /\ e.est < IndexSpace

(* The types of the widths. *)
LEMMA Widths ==
    /\ SeqMedian \in Nat \ {0} /\ RocMax \in Nat \ {0}
    /\ SeqMax \in Nat \ {0} /\ SeqMax = SeqMedian + SeqMedian
    /\ IndexSpace \in Nat \ {0}
    /\ WindowSize \in Nat \ {0} /\ WindowSize <= SeqMedian
  BY RdbxAssumption DEF SeqMax, IndexSpace

(* An index under a ROC and a sequence number fits in 48 bits. *)
LEMMA IndexFits ==
    ASSUME NEW roc \in Rocs, NEW seq \in Seqs
    PROVE  /\ roc * SeqMax + seq \in Nat
           /\ roc * SeqMax + seq < IndexSpace
           /\ (roc * SeqMax + seq) % IndexSpace = roc * SeqMax + seq
  <1>1. roc \in Nat /\ roc <= RocMax - 1 /\ seq \in Nat /\ seq <= SeqMax - 1
    BY Widths DEF Rocs, Seqs
  <1>2. roc * SeqMax <= (RocMax - 1) * SeqMax
    BY <1>1, Widths
  <1>3. (RocMax - 1) * SeqMax = RocMax * SeqMax - SeqMax
    BY Widths
  <1>4. roc * SeqMax + seq \in Nat /\ roc * SeqMax + seq < IndexSpace
    BY <1>1, <1>2, <1>3, Widths DEF IndexSpace
  <1> QED BY <1>4, Widths

(* srtp_estimate_index gives a good estimate. *)
LEMMA EstimateIndexGood ==
    ASSUME TypeOK, NEW roc \in Rocs, NEW seq \in Seqs
    PROVE  GoodEstimate(EstimateIndex(roc, seq))
  <1> DEFINE e == EstimateIndex(roc, seq)
             est == roc * SeqMax + seq
             gap == est - rdbx.index
  <1>1. est \in Nat /\ est < IndexSpace /\ est % IndexSpace = est
    BY IndexFits
  <1>2. rdbx.index \in Nat
    BY DEF TypeOK, RdbxType
  <1>3. /\ gap > SeqMedian => e.status = "pkt_idx_adv"
        /\ gap < -SeqMedian => e.status = "pkt_idx_old"
        /\ ~(gap > SeqMedian) /\ ~(gap < -SeqMedian) => e.status = "ok"
        /\ e.est = est
        /\ e.delta = IF gap \in -SeqMedian .. SeqMedian THEN gap ELSE 0
    BY <1>1, <1>2, Widths DEF EstimateIndex
  <1> SUFFICES GoodEstimate(e)
    OBVIOUS
  <1> HIDE DEF e, est
  <1>4. CASE gap > SeqMedian
    BY <1>1, <1>2, <1>3, <1>4, Widths DEF GoodEstimate
  <1>5. CASE gap < -SeqMedian
    BY <1>1, <1>2, <1>3, <1>5, Widths DEF GoodEstimate
  <1>6. CASE gap \in -SeqMedian .. SeqMedian
    <2>1. e.status = "ok" /\ e.delta = gap
      BY <1>2, <1>3, <1>6, Widths
    <2>2. rdbx.index + gap = est /\ gap < SeqMax
      BY <1>1, <1>2, <1>6, Widths
    <2> QED BY <1>1, <1>2, <1>3, <2>1, <2>2 DEF GoodEstimate
  <1>7. gap \in Int
    BY <1>1, <1>2
  <1> QED BY <1>4, <1>5, <1>6, <1>7, Widths

(* So does srtp_get_est_pkt_index. *)
LEMMA GetEstPktIndexGood ==
    ASSUME TypeOK, NEW seq \in Seqs
    PROVE  GoodEstimate(GetEstPktIndex(seq))
  <1>1. CASE pending_roc # 0
    BY <1>1, EstimateIndexGood DEF GetEstPktIndex, TypeOK
  <1>2. CASE pending_roc = 0
    <2> DEFINE g == RdbxEstimateIndex(rdbx, seq)
    <2>1. GetEstPktIndex(seq)
            = [status |-> "ok", est |-> g.guess, delta |-> g.delta]
      BY <1>2 DEF GetEstPktIndex
    <2>2. /\ g.delta \in -SeqMedian .. SeqMax - 1
          /\ g.guess \in Nat
          /\ rdbx.index + g.delta \in Nat
          /\ g.guess = (rdbx.index + g.delta) % IndexSpace
      BY EstimateFacts DEF TypeOK
    <2> HIDE DEF g
    <2>3. g.delta \in Int /\ g.delta < SeqMax
      BY <2>2, Widths
    <2> QED BY <2>1, <2>2, <2>3 DEF GoodEstimate
  <1> QED BY <1>1, <1>2

(* And the index of a received packet. *)
LEMMA ReceiveIndexGood ==
    ASSUME TypeOK, NEW p \in Packets
    PROVE  GoodEstimate(ReceiveIndex(p))
  <1>1. p.seq \in Seqs /\ p.roc \in Rocs
    BY DEF Packets
  <1> QED BY <1>1, EstimateIndexGood, GetEstPktIndexGood DEF ReceiveIndex

(* Recording an estimate the check has not called old: the database stays
   exact and does not move back, the recorded index is the cipher's index, and
   it is new unless the check said replay_fail. *)
LEMMA RecordFacts ==
    ASSUME TypeOK, NEW indices \in SUBSET Int, Exact(rdbx, indices),
           NEW e, GoodEstimate(e),
           IndexStatus(e) \in {"ok", "pkt_idx_adv", "replay_fail"}
    PROVE  /\ Recorded(e) \in RdbxType
           /\ Recorded(e).index >= rdbx.index
           /\ RecordedIndex(e) \in Nat
           /\ RecordedIndex(e) % IndexSpace = e.est
           /\ Exact(Recorded(e), indices \cup {RecordedIndex(e)})
           /\ IndexStatus(e) # "replay_fail" => RecordedIndex(e) \notin indices
  <1>1. rdbx \in RdbxType /\ rdbx.index \in Nat
    BY DEF TypeOK, RdbxType
  <1>3. CASE e.status = "pkt_idx_adv"
    <2>1. e.est \in Nat /\ e.est - rdbx.index > SeqMedian /\ e.est < IndexSpace
      BY <1>3 DEF GoodEstimate
    <2>2. /\ Recorded(e) \in RdbxType
          /\ Recorded(e).index = e.est
          /\ Exact(Recorded(e), indices \cup {e.est})
          /\ e.est \notin indices
      <3> DEFINE est == e.est
                 r == RdbxAddIndex(
                        RdbxSetRocSeq(rdbx, est \div SeqMax, est % SeqMax), 0)
      <3>1. Recorded(e) = r
        BY <1>3 DEF Recorded
      <3> HIDE DEF est
      <3>2. /\ r \in RdbxType /\ r.index = est
            /\ Exact(r, indices \cup {est}) /\ est \notin indices
        <4>1. est \in Nat /\ est - rdbx.index > SeqMedian
          BY <2>1 DEF est
        <4> QED BY <1>1, <4>1, JumpFacts, Zenon
      <3> HIDE DEF r
      <3> QED BY <3>1, <3>2 DEF est
    <2>3. e.est >= rdbx.index /\ e.est % IndexSpace = e.est
      BY <1>1, <2>1, Widths
    <2> QED BY <1>3, <2>1, <2>2, <2>3 DEF RecordedIndex
  <1>4. CASE e.status = "ok"
    <2>1. /\ e.delta \in Int /\ e.delta < SeqMax
          /\ rdbx.index + e.delta \in Nat
          /\ e.est = (rdbx.index + e.delta) % IndexSpace
      BY <1>4 DEF GoodEstimate
    <2>2. IndexStatus(e) = RdbxCheck(rdbx, e.delta)
      BY <1>4 DEF IndexStatus
    <2>3. Recorded(e) = RdbxAddIndex(rdbx, e.delta)
          /\ RecordedIndex(e) = rdbx.index + e.delta
      BY <1>4 DEF Recorded, RecordedIndex
    <2>4. e.delta > 0 \/ (WindowSize - 1) + e.delta >= 0
      BY <1>1, <2>1, <2>2, CheckFacts
    <2>5. RdbxCheck(rdbx, e.delta) = "ok" => rdbx.index + e.delta \notin indices
      BY <1>1, <2>1, CheckFacts
    <2>6. /\ Recorded(e) \in RdbxType
          /\ Recorded(e).index
               = IF e.delta > 0 THEN rdbx.index + e.delta ELSE rdbx.index
          /\ Exact(Recorded(e), indices \cup {rdbx.index + e.delta})
      BY <1>1, <2>1, <2>3, <2>4, AddIndexFacts, Zenon
    <2>7. Recorded(e).index >= rdbx.index
      BY <1>1, <2>1, <2>6
    <2>8. IndexStatus(e) \in {"ok", "replay_fail"}
      BY <2>2 DEF RdbxCheck
    <2> QED BY <2>1, <2>2, <2>3, <2>5, <2>6, <2>7, <2>8
  <1>5. CASE e.status = "pkt_idx_old"
    BY <1>5 DEF IndexStatus
  <1> QED BY <1>3, <1>4, <1>5 DEF GoodEstimate

(* srtp_key_limit_update returns a limit and an event. *)
LEMMA KeyLimitFacts ==
    ASSUME NEW l \in LimitType
    PROVE  /\ KeyLimitUpdate(l).limit \in LimitType
           /\ KeyLimitUpdate(l).event \in KeyEvents
  <1> DEFINE left == (l.num_left - 1) % CounterMax
  <1>1. l.num_left \in Int /\ l.state \in KeyStates /\ CounterMax \in Nat \ {0}
        /\ SoftLimit \in Nat
    BY KeyLimitAssumption DEF LimitType
  <1>2. left \in 0 .. CounterMax - 1
    BY <1>1
  <1> HIDE DEF left
  <1>3. CASE left >= SoftLimit
    <2>1. KeyLimitUpdate(l)
            = [limit |-> [l EXCEPT !.num_left = left], event |-> "normal"]
      BY <1>1, <1>2, <1>3, KeyLimitAssumption DEF KeyLimitUpdate, left
    <2> QED BY <1>2, <2>1 DEF LimitType, KeyEvents
  <1>4. CASE ~(left >= SoftLimit) /\ left < 1
    <2>1. KeyLimitUpdate(l)
            = [limit |-> [num_left |-> left, state |-> "expired"],
               event |-> "hard_limit"]
      BY <1>1, <1>2, <1>4 DEF KeyLimitUpdate, left
    <2> QED BY <1>2, <2>1 DEF LimitType, KeyEvents, KeyStates
  <1>5. CASE ~(left >= SoftLimit) /\ ~(left < 1)
    <2>1. KeyLimitUpdate(l)
            = [limit |-> [num_left |-> left,
                          state |-> IF l.state = "normal"
                                    THEN "past_soft_limit" ELSE l.state],
               event |-> "soft_limit"]
      BY <1>1, <1>2, <1>5 DEF KeyLimitUpdate, left
    <2> QED BY <1>1, <1>2, <2>1 DEF LimitType, KeyEvents, KeyStates
  <1> QED BY <1>3, <1>4, <1>5

(* Charging a key keeps the limits in their type. *)
LEMMA UseKeyFacts ==
    ASSUME TypeOK, NEW k \in Keys
    PROVE  /\ KeyEvent(k) \in KeyEvents
           /\ UseKey(k) => limit' \in [Keys -> LimitType]
  <1>1. limit \in [Keys -> LimitType] /\ limit[k] \in LimitType
    BY DEF TypeOK
  <1>2. KeyLimitUpdate(limit[k]).limit \in LimitType
        /\ KeyLimitUpdate(limit[k]).event \in KeyEvents
    BY <1>1, KeyLimitFacts
  <1> QED BY <1>1, <1>2 DEF UseKey, KeyEvent

(* The outcome of a call that records nothing. *)
LEMMA OutcomeFacts ==
    ASSUME NEW call \in Calls, NEW status \in Statuses, NEW event \in Events
    PROVE  /\ Outcome(call, status, event) \in OutcomeType
           /\ Outcome(call, status, event).index = NoIndex
           /\ Outcome(call, status, event).call = call
           /\ Outcome(call, status, event).status = status
           /\ Outcome(call, status, event).event = event
  BY DEF Outcome, OutcomeType

(* The verdicts of estimation and replay check. *)
LEMMA IndexStatusFacts ==
    ASSUME NEW e, GoodEstimate(e)
    PROVE  IndexStatus(e) \in {"ok", "pkt_idx_adv", "pkt_idx_old",
                               "replay_old", "replay_fail"}
  BY DEF GoodEstimate, IndexStatus, RdbxCheck

(* Recording an index, whatever the history: types and monotony. *)
LEMMA RecordIndexFacts ==
    ASSUME TypeOK, NEW e, GoodEstimate(e), RecordIndex(e),
           IndexStatus(e) \in {"ok", "pkt_idx_adv", "replay_fail"}
    PROVE  /\ rdbx' \in RdbxType
           /\ rdbx'.index >= rdbx.index
           /\ pending_roc' \in Rocs
           /\ RecordedIndex(e) \in Nat
           /\ RecordedIndex(e) % IndexSpace = e.est
  <1>1. PICK indices \in SUBSET Int : Exact(rdbx, indices)
    BY SelfExact DEF TypeOK
  <1>2. 0 \in Rocs /\ pending_roc \in Rocs
    BY Widths DEF Rocs, TypeOK
  <1>3. rdbx' = Recorded(e) /\ pending_roc' \in {0, pending_roc}
    BY DEF RecordIndex
  <1>4. /\ Recorded(e) \in RdbxType
        /\ Recorded(e).index >= rdbx.index
        /\ RecordedIndex(e) \in Nat
        /\ RecordedIndex(e) % IndexSpace = e.est
    BY <1>1, RecordFacts, Zenon
  <1> QED BY <1>2, <1>3, <1>4

(***************************************************************************)
(* Type correctness                                                        *)
(***************************************************************************)

(* A step that records nothing, and what is left to show of it. *)
LEMMA NothingRecorded ==
    ASSUME TypeOK, last' \in OutcomeType,
           direction' \in {"unknown", "sender", "receiver"},
           limit' \in [Keys -> LimitType],
           UNCHANGED <<rdbx, pending_roc, sent, received>>
    PROVE  TypeOK'
  BY DEF TypeOK

LEMMA ProtectType ==
    ASSUME TypeOK, NEW seq \in Seqs, NEW k \in Keys, Protect(seq, k)
    PROVE  TypeOK'
  <1>t. /\ direction \in {"unknown", "sender", "receiver"}
        /\ limit \in [Keys -> LimitType]
    BY DEF TypeOK
  <1>e. KeyEvent(k) \in Events
    BY UseKeyFacts DEF Events
  <1>u. UseKey(k) => limit' \in [Keys -> LimitType]
    BY UseKeyFacts
  <1>1. CASE ProtectCollision
    <2>1. Outcome("protect", "direction_mismatch", "ssrc_collision")
             \in OutcomeType
      BY OutcomeFacts DEF Calls, Statuses, Events
    <2> QED BY <1>1, <1>t, <2>1, NothingRecorded DEF ProtectCollision
  <1>2. CASE ProtectBadMki
    <2>1. Outcome("protect", "bad_mki", "normal") \in OutcomeType
      BY OutcomeFacts DEF Calls, Statuses, Events, KeyEvents
    <2> QED BY <1>2, <1>t, <2>1, NothingRecorded, SMTT(30) DEF ProtectBadMki
  <1>3. CASE ProtectExpired(k)
    <2>1. Outcome("protect", "key_expired", "hard_limit") \in OutcomeType
      BY OutcomeFacts DEF Calls, Statuses, Events, KeyEvents
    <2> QED BY <1>3, <1>u, <2>1, NothingRecorded, SMTT(30) DEF ProtectExpired
  <1>4. CASE ProtectMalformed(k)
    <2>1. Outcome("protect", "malformed", KeyEvent(k)) \in OutcomeType
      BY <1>e, OutcomeFacts DEF Calls, Statuses
    <2> QED BY <1>4, <1>u, <2>1, NothingRecorded DEF ProtectMalformed
  <1>5. CASE ProtectRefused(seq, k)
    <2> DEFINE status == IndexStatus(GetEstPktIndex(seq))
    <2>1. status \in {"pkt_idx_old", "replay_old", "replay_fail"}
      BY <1>5, GetEstPktIndexGood, IndexStatusFacts
         DEF ProtectRefused, MayProtect
    <2>2. last' = Outcome("protect", status, KeyEvent(k))
          /\ UseKey(k) /\ direction' = "sender"
          /\ UNCHANGED <<rdbx, pending_roc, sent, received>>
      BY <1>5 DEF ProtectRefused
    <2> HIDE DEF status
    <2>3. last' \in OutcomeType
      BY <1>e, <2>1, <2>2, OutcomeFacts DEF Calls, Statuses
    <2> QED BY <1>u, <2>2, <2>3, NothingRecorded
  <1>6. ASSUME NEW status \in {"ok", "cipher_fail"},
               ProtectPacket(seq, k, status)
        PROVE  TypeOK'
    <2> DEFINE e == GetEstPktIndex(seq)
    <2>1. GoodEstimate(e)
      BY GetEstPktIndexGood
    <2>2. IndexStatus(e) \in {"ok", "pkt_idx_adv", "replay_fail"}
      BY <1>6 DEF ProtectPacket, MayProtect
    <2>3. /\ RecordIndex(e) /\ UseKey(k) /\ direction' = "sender"
          /\ sent' = sent \cup {RecordedIndex(e)} /\ received' = received
          /\ last' = [call |-> "protect", status |-> status,
                      event |-> KeyEvent(k),
                      index |-> RecordedIndex(e), est |-> e.est]
      BY <1>6 DEF ProtectPacket
    <2>4. e.est \in Nat
      BY <2>1 DEF GoodEstimate
    <2> HIDE DEF e
    <2>5. rdbx' \in RdbxType /\ pending_roc' \in Rocs /\ RecordedIndex(e) \in Nat
      BY <2>1, <2>2, <2>3, RecordIndexFacts
    <2>6. last' \in OutcomeType
      BY <1>e, <2>3, <2>4, <2>5 DEF OutcomeType, Calls, Statuses
    <2> QED BY <1>u, <2>3, <2>5, <2>6, Zenon DEF TypeOK
  <1> QED BY <1>1, <1>2, <1>3, <1>4, <1>5, <1>6 DEF Protect

LEMMA UnprotectType ==
    ASSUME TypeOK, NEW p \in Packets, Unprotect(p)
    PROVE  TypeOK'
  <1>p. p.key \in Keys
    BY DEF Packets
  <1>t. /\ direction \in {"unknown", "sender", "receiver"}
        /\ limit \in [Keys -> LimitType]
    BY DEF TypeOK
  <1>e. KeyEvent(p.key) \in Events
    BY <1>p, UseKeyFacts DEF Events
  <1>u. UseKey(p.key) => limit' \in [Keys -> LimitType]
    BY <1>p, UseKeyFacts
  <1>n. "normal" \in Events /\ "hard_limit" \in Events
    BY DEF Events, KeyEvents
  <1>1. CASE UnprotectCollision
    <2>1. Outcome("unprotect", "direction_mismatch", "ssrc_collision")
             \in OutcomeType
      BY OutcomeFacts DEF Calls, Statuses, Events
    <2> QED BY <1>1, <1>t, <2>1, NothingRecorded DEF UnprotectCollision
  <1>2. CASE UnprotectMalformed
    <2>1. PICK status \in {"bad_mki", "malformed"} :
             last' = Outcome("unprotect", status, "normal")
      BY <1>2 DEF UnprotectMalformed
    <2>2. last' \in OutcomeType
      BY <1>n, <2>1, OutcomeFacts DEF Calls, Statuses
    <2> QED BY <1>2, <1>t, <2>2, NothingRecorded DEF UnprotectMalformed
  <1>3. CASE UnprotectRefused(p)
    <2> DEFINE status == IndexStatus(ReceiveIndex(p))
    <2>1. status \in {"pkt_idx_old", "replay_old", "replay_fail"}
      BY <1>3, ReceiveIndexGood, IndexStatusFacts
         DEF UnprotectRefused, MayUnprotect
    <2>2. last' = Outcome("unprotect", status, "normal")
          /\ UNCHANGED <<rdbx, pending_roc, direction, limit, sent, received>>
      BY <1>3 DEF UnprotectRefused
    <2> HIDE DEF status
    <2>3. last' \in OutcomeType
      BY <1>n, <2>1, <2>2, OutcomeFacts DEF Calls, Statuses
    <2> QED BY <1>t, <2>2, <2>3, NothingRecorded
  <1>4. CASE UnprotectAuthFail(p)
    <2>1. /\ Outcome("unprotect", "key_expired", KeyEvent(p.key)) \in OutcomeType
          /\ Outcome("unprotect", "auth_fail", KeyEvent(p.key)) \in OutcomeType
          /\ Outcome("unprotect", "auth_fail", "normal") \in OutcomeType
      BY <1>e, <1>n, OutcomeFacts DEF Calls, Statuses
    <2>2. last' \in OutcomeType
      BY <1>4, <2>1 DEF UnprotectAuthFail
    <2>3. limit' \in [Keys -> LimitType]
      BY <1>4, <1>t, <1>u DEF UnprotectAuthFail
    <2> QED BY <1>4, <1>t, <2>2, <2>3, NothingRecorded DEF UnprotectAuthFail
  <1>5. CASE UnprotectExpired(p)
    <2>1. Outcome("unprotect", "key_expired", "hard_limit") \in OutcomeType
      BY <1>n, OutcomeFacts DEF Calls, Statuses
    <2> QED BY <1>5, <1>t, <1>u, <2>1, NothingRecorded DEF UnprotectExpired
  <1>6. CASE UnprotectFailed(p)
    <2>1. Outcome("unprotect", "cipher_fail", KeyEvent(p.key)) \in OutcomeType
      BY <1>e, OutcomeFacts DEF Calls, Statuses
    <2> QED BY <1>6, <1>t, <1>u, <2>1, NothingRecorded DEF UnprotectFailed
  <1>7. CASE UnprotectPacket(p)
    <2> DEFINE e == ReceiveIndex(p)
    <2>1. GoodEstimate(e)
      BY ReceiveIndexGood
    <2>2. IndexStatus(e) \in {"ok", "pkt_idx_adv", "replay_fail"}
      BY <1>7 DEF UnprotectPacket, MayUnprotect
    <2>3. /\ RecordIndex(e) /\ UseKey(p.key) /\ direction' = "receiver"
          /\ received' = received \cup {RecordedIndex(e)} /\ sent' = sent
          /\ last' = [call |-> "unprotect", status |-> "ok",
                      event |-> KeyEvent(p.key),
                      index |-> RecordedIndex(e), est |-> e.est]
      BY <1>7 DEF UnprotectPacket
    <2>4. e.est \in Nat
      BY <2>1 DEF GoodEstimate
    <2> HIDE DEF e
    <2>5. rdbx' \in RdbxType /\ pending_roc' \in Rocs /\ RecordedIndex(e) \in Nat
      BY <2>1, <2>2, <2>3, RecordIndexFacts
    <2>6. last' \in OutcomeType
      BY <1>e, <2>3, <2>4, <2>5 DEF OutcomeType, Calls, Statuses
    <2> QED BY <1>u, <2>3, <2>5, <2>6, Zenon DEF TypeOK
  <1> QED BY <1>1, <1>2, <1>3, <1>4, <1>5, <1>6, <1>7 DEF Unprotect

(* A fresh limit is a limit. *)
LEMMA FreshLimit == KeyLimitSet \in LimitType
  BY KeyLimitAssumption DEF KeyLimitSet, LimitType, KeyStates

(* Every field of the stream keeps its type: SrtpStream!TypeOK is an
   invariant, in particular the bitmask never gets a bit outside the window
   and no index or key counter leaves its range. *)
THEOREM TypeCorrect == Spec => []TypeOK
  <1>1. Init => TypeOK
    <2> SUFFICES ASSUME Init PROVE TypeOK
      OBVIOUS
    <2>1. rdbx \in RdbxType /\ pending_roc \in Rocs
      BY Widths DEF Init, RdbxInit, RdbxType, Rocs
    <2>2. limit \in [Keys -> LimitType]
      BY FreshLimit, SMTT(30) DEF Init
    <2>3. last \in OutcomeType
      BY OutcomeFacts DEF Init, Calls, Statuses, Events, KeyEvents
    <2> QED BY <2>1, <2>2, <2>3 DEF Init, TypeOK
  <1>2. TypeOK /\ [Next]_vars => TypeOK'
    <2> SUFFICES ASSUME TypeOK, [Next]_vars PROVE TypeOK'
      OBVIOUS
    <2>1. ASSUME NEW seq \in Seqs, NEW k \in Keys, Protect(seq, k)
          PROVE  TypeOK'
      BY <2>1, ProtectType
    <2>2. ASSUME NEW p \in Packets, Unprotect(p) PROVE TypeOK'
      BY <2>2, UnprotectType, SMTT(30)
    <2>n. /\ Outcome("set_roc", "ok", "normal") \in OutcomeType
          /\ Outcome("update", "ok", "normal") \in OutcomeType
          /\ Outcome("rtcp", "ok", "normal") \in OutcomeType
      BY OutcomeFacts DEF Calls, Statuses, Events, KeyEvents
    <2>3. ASSUME NEW roc \in Rocs, SetRoc(roc) PROVE TypeOK'
      BY <2>3, <2>n DEF SetRoc, TypeOK
    <2>4. CASE Update
      <3>1. rdbx' \in RdbxType /\ pending_roc' \in Rocs
        BY <2>4, Widths DEF Update, RdbxInit, RdbxType, Rocs, TypeOK
      <3>2. limit' \in [Keys -> LimitType]
        BY <2>4, FreshLimit DEF Update
      <3>3. last' \in OutcomeType
        BY <2>4, <2>n DEF Update
      <3> QED BY <2>4, <3>1, <3>2, <3>3 DEF Update, TypeOK
    <2>5. CASE RtcpCall
      BY <2>5, <2>n DEF RtcpCall, TypeOK
    <2>6. CASE UNCHANGED vars
      BY <2>6 DEF vars, TypeOK
    <2> QED BY <2>1, <2>2, <2>3, <2>4, <2>5, <2>6 DEF Next
  <1> QED BY <1>1, <1>2, PTL DEF Spec

(***************************************************************************)
(* The three kinds of steps                                                *)
(***************************************************************************)

(* A call that leaves the database and the histories alone. *)
Quiet ==
    /\ UNCHANGED <<rdbx, sent, received>>
    /\ last'.index = NoIndex

(* A call that records the index of the estimate e. *)
Recording(e) ==
    /\ GoodEstimate(e)
    /\ IndexStatus(e) \in {"ok", "pkt_idx_adv", "replay_fail"}
    /\ IndexStatus(e) = "replay_fail" => AllowRepeatTx /\ last'.call = "protect"
    /\ RecordIndex(e)
    /\ Handled' = Handled \cup {RecordedIndex(e)}
    /\ last'.index = RecordedIndex(e)
    /\ last'.est = e.est

LEMMA ProtectKinds ==
    ASSUME TypeOK, NEW seq \in Seqs, NEW k \in Keys, Protect(seq, k)
    PROVE  Quiet \/ \E e : Recording(e)
  <1>1. CASE ProtectCollision
    BY <1>1 DEF ProtectCollision, Outcome, Quiet
  <1>2. CASE ProtectBadMki
    BY <1>2 DEF ProtectBadMki, Outcome, Quiet
  <1>3. CASE ProtectExpired(k)
    BY <1>3 DEF ProtectExpired, Outcome, Quiet
  <1>4. CASE ProtectMalformed(k)
    BY <1>4 DEF ProtectMalformed, Outcome, Quiet
  <1>5. CASE ProtectRefused(seq, k)
    BY <1>5 DEF ProtectRefused, Outcome, Quiet
  <1>6. ASSUME NEW status, ProtectPacket(seq, k, status)
        PROVE  \E e : Recording(e)
    <2> DEFINE e == GetEstPktIndex(seq)
    <2>1. GoodEstimate(e)
      BY GetEstPktIndexGood
    <2>2. /\ IndexStatus(e) \in {"ok", "pkt_idx_adv", "replay_fail"}
          /\ IndexStatus(e) = "replay_fail" =>
               AllowRepeatTx /\ last'.call = "protect"
      BY <1>6 DEF ProtectPacket, MayProtect
    <2>3. RecordIndex(e) /\ sent' = sent \cup {RecordedIndex(e)}
          /\ received' = received
          /\ last'.index = RecordedIndex(e) /\ last'.est = e.est
      BY <1>6 DEF ProtectPacket
    <2> HIDE DEF e
    <2>4. Handled' = Handled \cup {RecordedIndex(e)}
      BY <2>3 DEF Handled
    <2> QED BY <2>1, <2>2, <2>3, <2>4 DEF Recording
  <1> QED BY <1>1, <1>2, <1>3, <1>4, <1>5, <1>6 DEF Protect

LEMMA UnprotectKinds ==
    ASSUME TypeOK, NEW p \in Packets, Unprotect(p)
    PROVE  Quiet \/ \E e : Recording(e)
  <1>1. CASE UnprotectCollision
    BY <1>1 DEF UnprotectCollision, Outcome, Quiet
  <1>2. CASE UnprotectMalformed
    BY <1>2 DEF UnprotectMalformed, Outcome, Quiet
  <1>3. CASE UnprotectRefused(p)
    BY <1>3 DEF UnprotectRefused, Outcome, Quiet
  <1>4. CASE UnprotectAuthFail(p)
    BY <1>4 DEF UnprotectAuthFail, Outcome, Quiet
  <1>5. CASE UnprotectExpired(p)
    BY <1>5 DEF UnprotectExpired, Outcome, Quiet
  <1>6. CASE UnprotectFailed(p)
    BY <1>6 DEF UnprotectFailed, Outcome, Quiet
  <1>7. CASE UnprotectPacket(p)
    <2> DEFINE e == ReceiveIndex(p)
    <2>1. GoodEstimate(e)
      BY ReceiveIndexGood
    <2>2. IndexStatus(e) \in {"ok", "pkt_idx_adv"}
      BY <1>7 DEF UnprotectPacket, MayUnprotect
    <2>3. RecordIndex(e) /\ received' = received \cup {RecordedIndex(e)}
          /\ sent' = sent
          /\ last'.index = RecordedIndex(e) /\ last'.est = e.est
      BY <1>7 DEF UnprotectPacket
    <2> HIDE DEF e
    <2>4. Handled' = Handled \cup {RecordedIndex(e)}
      BY <2>3 DEF Handled
    <2> QED BY <2>1, <2>2, <2>3, <2>4 DEF Recording
  <1> QED BY <1>1, <1>2, <1>3, <1>4, <1>5, <1>6, <1>7 DEF Unprotect

LEMMA StepKinds ==
    ASSUME TypeOK, Next
    PROVE  Quiet \/ Update \/ \E e : Recording(e)
  <1>1. ASSUME NEW roc \in Rocs, SetRoc(roc) PROVE Quiet
    BY <1>1 DEF SetRoc, Outcome, Quiet
  <1>2. RtcpCall => Quiet
    BY DEF RtcpCall, Outcome, Quiet
  <1> QED BY <1>1, <1>2, ProtectKinds, UnprotectKinds DEF Next

(***************************************************************************)
(* The safety properties                                                   *)
(***************************************************************************)

(* The inductive invariant behind the exactness of the window. *)
WindowInv == TypeOK /\ WindowExact

LEMMA WindowStep ==
    ASSUME ~KeepKeys, WindowInv, [Next]_vars
    PROVE  WindowExact' /\ (~UNCHANGED vars => RecordOnce)
  <1>1. TypeOK /\ Exact(rdbx, Handled) /\ Handled \in SUBSET Int
    BY DEF WindowInv, WindowExact, TypeOK, Handled
  <1>2. CASE Quiet
    BY <1>1, <1>2 DEF Quiet, WindowExact, Handled, Exact, RecordOnce
  <1>3. ASSUME NEW e, Recording(e) PROVE WindowExact' /\ RecordOnce
    <2>1. /\ Exact(Recorded(e), Handled \cup {RecordedIndex(e)})
          /\ IndexStatus(e) # "replay_fail" => RecordedIndex(e) \notin Handled
      BY <1>1, <1>3, RecordFacts DEF Recording
    <2>2. rdbx' = Recorded(e) /\ Handled' = Handled \cup {RecordedIndex(e)}
          /\ last'.index = RecordedIndex(e)
          /\ (IndexStatus(e) = "replay_fail" =>
                AllowRepeatTx /\ last'.call = "protect")
      BY <1>3 DEF Recording, RecordIndex
    <2>3. WindowExact' <=> Exact(rdbx', Handled')
      BY DEF WindowExact, Exact
    <2> QED BY <2>1, <2>2, <2>3 DEF RecordOnce
  <1>4. CASE Update
    <2>1. rdbx'.bitmask = {} /\ Handled' = {} /\ last'.index = NoIndex
      BY <1>4, <1>1 DEF Update, RdbxInit, Handled, Outcome
    <2> QED BY <2>1 DEF WindowExact, Exact, RecordOnce
  <1>5. CASE UNCHANGED vars
    BY <1>1, <1>5 DEF vars, WindowExact, Handled, Exact
  <1> QED BY <1>1, <1>2, <1>3, <1>4, <1>5, StepKinds

(* The replay window is exact (SrtpStream!WindowExact): through every packet,
   jump, set_roc and rekeying, a bit of the bitmask is set exactly when its
   index was recorded under the current keys. *)
THEOREM WindowIsExact == ~KeepKeys => (Spec => []WindowExact)
  <1> SUFFICES ASSUME ~KeepKeys PROVE Spec => []WindowExact
    OBVIOUS
  <1>1. Init => WindowExact
    BY DEF Init, RdbxInit, WindowExact, Handled, Exact
  <1>2. TypeOK /\ WindowExact /\ [Next]_vars => WindowExact'
    BY WindowStep DEF WindowInv
  <1> QED BY <1>1, <1>2, TypeCorrect, PTL DEF Spec

(* No packet index is recorded twice under the same keys
   (SrtpStream!IndexRecordedOnce), by srtp_protect or srtp_unprotect. *)
THEOREM RecordedOnce == ~KeepKeys => (Spec => IndexRecordedOnce)
  <1> SUFFICES ASSUME ~KeepKeys PROVE Spec => [][RecordOnce]_vars
    BY DEF IndexRecordedOnce
  <1>1. TypeOK /\ WindowExact /\ [Next]_vars => [RecordOnce]_vars
    BY WindowStep DEF WindowInv
  <1> QED BY <1>1, WindowIsExact, TypeCorrect, PTL DEF Spec

(* The highest index never moves back (SrtpStream!IndexMonotone), whatever
   the application sets or updates. *)
THEOREM NeverBack == Spec => IndexMonotone
  <1>1. TypeOK /\ [Next]_vars => [rdbx'.index >= rdbx.index]_vars
    <2> SUFFICES ASSUME TypeOK, Next PROVE rdbx'.index >= rdbx.index
      OBVIOUS
    <2>1. rdbx.index \in Nat
      BY DEF TypeOK, RdbxType
    <2>2. ASSUME NEW e, Recording(e) PROVE rdbx'.index >= rdbx.index
      BY <2>2, RecordIndexFacts DEF Recording
    <2>3. CASE Quiet
      BY <2>1, <2>3 DEF Quiet
    <2>4. CASE Update
      BY <2>1, <2>4 DEF Update, RdbxInit
    <2> QED BY <2>2, <2>3, <2>4, StepKinds
  <1> QED BY <1>1, TypeCorrect, PTL DEF Spec, IndexMonotone

(* The index in the replay database is the one the cipher used
   (SrtpStream!RecordedIsCipherIndex), also when a pending or a carried ROC
   takes the place of the guess. *)
THEOREM CipherIndexRecorded == Spec => []RecordedIsCipherIndex
  <1>1. Init => RecordedIsCipherIndex
    BY DEF Init, Outcome, RecordedIsCipherIndex
  <1>2. TypeOK /\ RecordedIsCipherIndex /\ [Next]_vars => RecordedIsCipherIndex'
    <2> SUFFICES ASSUME TypeOK, RecordedIsCipherIndex, [Next]_vars
                 PROVE  RecordedIsCipherIndex'
      OBVIOUS
    <2>1. ASSUME NEW e, Recording(e) PROVE RecordedIsCipherIndex'
      BY <2>1, RecordIndexFacts DEF Recording, RecordedIsCipherIndex
    <2>2. CASE Quiet
      BY <2>2 DEF Quiet, RecordedIsCipherIndex
    <2>3. CASE Update
      BY <2>3 DEF Update, Outcome, RecordedIsCipherIndex
    <2>4. CASE UNCHANGED vars
      BY <2>4 DEF vars, RecordedIsCipherIndex
    <2> QED BY <2>1, <2>2, <2>3, <2>4, StepKinds
  <1> QED BY <1>1, <1>2, TypeCorrect, PTL DEF Spec

(* A stream is used in one direction only (SrtpStream!OneDirection): the
   checks at the top of both packet functions keep the two histories apart. *)
THEOREM SingleDirection == Spec => []OneDirection
  <1>1. Init => OneDirection
    BY DEF Init, OneDirection
  <1>2. OneDirection /\ [Next]_vars => OneDirection'
    <2> SUFFICES ASSUME OneDirection, [Next]_vars PROVE OneDirection'
      OBVIOUS
    <2> USE DEF OneDirection
    <2>1. ASSUME NEW seq \in Seqs, NEW k \in Keys, Protect(seq, k)
          PROVE  OneDirection'
      <3>1. CASE ProtectCollision
        BY <3>1 DEF ProtectCollision
      <3>2. CASE ProtectBadMki
        BY <3>2 DEF ProtectBadMki
      <3>3. CASE ProtectExpired(k)
        BY <3>3 DEF ProtectExpired
      <3>4. CASE ProtectMalformed(k)
        BY <3>4 DEF ProtectMalformed
      <3>5. CASE ProtectRefused(seq, k)
        BY <3>5 DEF ProtectRefused
      <3>6. ASSUME NEW status, ProtectPacket(seq, k, status)
            PROVE  OneDirection'
        BY <3>6 DEF ProtectPacket
      <3> QED BY <2>1, <3>1, <3>2, <3>3, <3>4, <3>5, <3>6 DEF Protect
    <2>2. ASSUME NEW p \in Packets, Unprotect(p) PROVE OneDirection'
      <3>1. CASE UnprotectCollision
        BY <3>1 DEF UnprotectCollision
      <3>2. CASE UnprotectMalformed
        BY <3>2 DEF UnprotectMalformed
      <3>3. CASE UnprotectRefused(p)
        BY <3>3 DEF UnprotectRefused
      <3>4. CASE UnprotectAuthFail(p)
        BY <3>4 DEF UnprotectAuthFail
      <3>5. CASE UnprotectExpired(p)
        BY <3>5 DEF UnprotectExpired
      <3>6. CASE UnprotectFailed(p)
        BY <3>6 DEF UnprotectFailed
      <3>7. CASE UnprotectPacket(p)
        BY <3>7 DEF UnprotectPacket
      <3> QED BY <2>2, <3>1, <3>2, <3>3, <3>4, <3>5, <3>6, <3>7 DEF Unprotect
    <2>3. ASSUME NEW roc \in Rocs, SetRoc(roc) PROVE OneDirection'
      BY <2>3 DEF SetRoc
    <2>4. CASE Update
      BY <2>4 DEF Update
    <2>5. CASE RtcpCall
      BY <2>5 DEF RtcpCall
    <2>6. CASE UNCHANGED vars
      BY <2>6 DEF vars
    <2> QED BY <2>1, <2>2, <2>3, <2>4, <2>5, <2>6 DEF Next
  <1> QED BY <1>1, <1>2, PTL DEF Spec

(* Two numbers less than one cycle apart with the same remainder are equal. *)
LEMMA CongruentClose ==
    ASSUME NEW a \in Nat, NEW b \in Nat, NEW m \in Nat \ {0},
           a % m = b % m, a - b < m, b - a < m
    PROVE  a = b
  <1>1. /\ a = (a \div m) * m + (a % m) /\ a \div m \in Nat
        /\ b = (b \div m) * m + (b % m) /\ b \div m \in Nat
    BY DivMod, Zenon
  <1>2. ASSUME NEW q \in Nat, NEW t \in Nat, q < t PROVE (t - q) * m >= m
    BY <1>2
  <1>3. a - b = ((a \div m) - (b \div m)) * m
        /\ b - a = ((b \div m) - (a \div m)) * m
    BY <1>1
  <1>4. ~(a \div m < b \div m) /\ ~(b \div m < a \div m)
    BY <1>1, <1>2, <1>3
  <1> QED BY <1>1, <1>4

(* srtp_rdbx_estimate_index finds the index of a packet that is close to the
   highest one. *)
LEMMA EstimateExact ==
    ASSUME NEW r \in RdbxType, NEW i \in Nat,
           r.index - WindowSize + 1 <= i, i <= r.index + SeqMedian - 1
    PROVE  RdbxEstimateIndex(r, i % SeqMax).delta = i - r.index
  <1> DEFINE s == i % SeqMax
             g == RdbxEstimateIndex(r, s)
  <1>1. r.index \in Nat
    BY DEF RdbxType
  <1>2. s \in Seqs
    BY Widths, DivMod DEF Seqs
  <1>3. /\ g.delta \in -SeqMedian .. SeqMax - 1
        /\ r.index + g.delta \in Nat
        /\ (r.index + g.delta) % SeqMax = s
    BY <1>2, EstimateFacts
  <1>4. CASE r.index > SeqMedian
    <2>1. g.delta \in -SeqMedian .. SeqMedian
      BY <1>1, <1>2, <1>4, GuessFacts DEF RdbxEstimateIndex
    <2> HIDE DEF g
    <2>2. (r.index + g.delta) - i < SeqMax /\ i - (r.index + g.delta) < SeqMax
      BY <1>1, <2>1, Widths
    <2>3. r.index + g.delta = i
      BY <1>3, <2>2, Widths, CongruentClose
    <2>4. g.delta = i - r.index
      BY <1>1, <2>1, <2>3, Widths
    <2> QED BY <2>4 DEF g
  <1>5. CASE r.index <= SeqMedian
    <2>1. i <= SeqMax - 1
      BY <1>1, <1>5, Widths
    <2>2. s = i
      BY <2>1, Widths
    <2> QED BY <1>1, <1>5, <2>2, Widths DEF RdbxEstimateIndex
  <1> QED BY <1>1, <1>4, <1>5, Widths

(* A genuine packet within the window, or ahead by less than half of the
   sequence numbers, is never refused (SrtpStream!NoFalseReject): its index is
   estimated exactly and found new. *)
THEOREM InOrderAccepted == ~KeepKeys => (Spec => []NoFalseReject)
  <1> SUFFICES ASSUME ~KeepKeys PROVE Spec => []NoFalseReject
    OBVIOUS
  <1>1. TypeOK /\ WindowExact => NoFalseReject
    <2> SUFFICES ASSUME TypeOK, WindowExact, pending_roc = 0, NEW i \in Nat,
                        i \in (rdbx.index - WindowSize + 1)
                                 .. (rdbx.index + SeqMedian - 1),
                        i \notin Handled, i < IndexSpace
                 PROVE  LET e == ReceiveIndex([seq |-> i % SeqMax,
                                               roc |-> i \div SeqMax])
                        IN  e.est = i /\ IndexStatus(e) = "ok"
      BY DEF NoFalseReject
    <2> DEFINE p == [seq |-> i % SeqMax, roc |-> i \div SeqMax]
               e == ReceiveIndex(p)
    <2>1. rdbx \in RdbxType /\ rdbx.index \in Nat
      BY DEF TypeOK, RdbxType
    <2>2. /\ rdbx.index - WindowSize + 1 <= i
          /\ i <= rdbx.index + SeqMedian - 1
      BY <2>1, Widths
    <2>3. i = (i \div SeqMax) * SeqMax + (i % SeqMax) /\ i % SeqMax \in Seqs
      BY Widths, DivMod, Zenon DEF Seqs
    <2>4. e.status = "ok" /\ e.est = i /\ e.delta = i - rdbx.index
      <3>1. CASE RccCarry(p.seq)
        <4>1. e = EstimateIndex(i \div SeqMax, i % SeqMax)
          BY <3>1 DEF ReceiveIndex
        <4>2. i - rdbx.index \in -SeqMedian .. SeqMedian
          BY <2>1, <2>2, Widths
        <4>3. ~(i - rdbx.index > SeqMedian) /\ ~(i - rdbx.index < -SeqMedian)
          BY <2>1, <4>2, Widths
        <4> HIDE DEF e
        <4> QED BY <2>3, <4>1, <4>2, <4>3 DEF EstimateIndex
      <3>2. CASE ~RccCarry(p.seq)
        <4> DEFINE g == RdbxEstimateIndex(rdbx, i % SeqMax)
        <4>1. e = [status |-> "ok", est |-> g.guess, delta |-> g.delta]
          BY <3>2 DEF ReceiveIndex, GetEstPktIndex
        <4>2. g.delta = i - rdbx.index
          BY <2>1, <2>2, EstimateExact
        <4>3. g.guess = (rdbx.index + g.delta) % IndexSpace
          BY <2>1, <2>3, EstimateFacts
        <4> HIDE DEF g, e
        <4>4. rdbx.index + g.delta = i
          BY <2>1, <4>2
        <4>5. i % IndexSpace = i
          BY Widths
        <4> QED BY <4>1, <4>2, <4>3, <4>4, <4>5
      <3> QED BY <3>1, <3>2
    <2> HIDE DEF e
    <2>5. RdbxCheck(rdbx, e.delta) = "ok"
      <3>1. CASE e.delta > 0
        BY <3>1 DEF RdbxCheck
      <3>2. CASE ~(e.delta > 0)
        <4> DEFINE b == (WindowSize - 1) + e.delta
        <4>1. b \in Bits /\ ~(b < 0) /\ rdbx.index - (WindowSize - 1) + b = i
          BY <2>1, <2>2, <2>4, <3>2, Widths DEF Bits
        <4>2. b \notin rdbx.bitmask
          BY <4>1 DEF WindowExact, Exact
        <4> QED BY <3>2, <4>1, <4>2 DEF RdbxCheck
      <3> QED BY <3>1, <3>2
    <2> QED BY <2>4, <2>5 DEF IndexStatus, e
  <1> QED BY <1>1, WindowIsExact, TypeCorrect, PTL

(***************************************************************************)
(* The limits of the keys                                                  *)
(***************************************************************************)

(* The inductive invariant behind the warning: a key whose state says that it
   has not passed the soft limit has at least as many packets left. *)
LimitInv ==
    \A k \in Keys : limit[k].state = "normal" => limit[k].num_left >= SoftLimit

(* One use of a key. *)
LEMMA UseKeyStep ==
    ASSUME TypeOK, LimitInv, NEW k \in Keys, UseKey(k)
    PROVE  /\ LimitInv'
           /\ KeyEvent(k) = "hard_limit" =>
                 limit[k] # limit'[k] /\ limit[k].state # "normal"
  <1> DEFINE left == (limit[k].num_left - 1) % CounterMax
  <1>1. /\ limit[k] \in LimitType
        /\ limit' = [limit EXCEPT ![k] = KeyLimitUpdate(limit[k]).limit]
        /\ DOMAIN limit = Keys
    BY DEF TypeOK, UseKey
  <1>2. /\ limit[k].num_left \in 0 .. CounterMax - 1
        /\ limit[k].state = "normal" => limit[k].num_left >= SoftLimit
    BY <1>1 DEF LimitType, LimitInv
  <1>3. /\ limit[k].num_left > 0 => left = limit[k].num_left - 1
        /\ limit[k].num_left = 0 => left = CounterMax - 1
        /\ left \in Nat
    BY <1>2, KeyLimitAssumption
  <1>4. /\ left >= SoftLimit =>
              /\ KeyLimitUpdate(limit[k]).event = "normal"
              /\ KeyLimitUpdate(limit[k]).limit
                    = [limit[k] EXCEPT !.num_left = left]
        /\ left < SoftLimit =>
              KeyLimitUpdate(limit[k]).limit.state # "normal"
        /\ KeyLimitUpdate(limit[k]).event = "hard_limit" =>
              /\ left < 1
              /\ KeyLimitUpdate(limit[k]).limit.num_left = left
    BY <1>3, KeyLimitAssumption DEF KeyLimitUpdate
  <1>5. LimitInv'
    BY <1>1, <1>3, <1>4, KeyLimitAssumption DEF LimitInv, LimitType
  <1>6. ASSUME KeyEvent(k) = "hard_limit"
        PROVE  limit[k] # limit'[k] /\ limit[k].state # "normal"
    <2>1. left < 1 /\ limit'[k].num_left = left
      BY <1>1, <1>4, <1>6 DEF KeyEvent
    <2>2. limit[k].num_left = 1
      BY <2>1, <1>2, <1>3, KeyLimitAssumption
    <2> QED BY <2>1, <2>2, <1>2, <1>3, KeyLimitAssumption
  <1> QED BY <1>5, <1>6

(* What a step does to the limits and reports: one of the keys is used and its
   event reported, the limits stay, or they are set anew. *)
LimitStep ==
    \/ \E k \in Keys : UseKey(k) /\ last'.event \in {KeyEvent(k), "normal"}
    \/ limit' = limit /\ last'.event # "hard_limit"
    \/ limit' = [k \in Keys |-> KeyLimitSet] /\ last'.event # "hard_limit"

LEMMA LimitKinds ==
    ASSUME Next
    PROVE  LimitStep
  <1> USE DEF LimitStep, Outcome
  <1>1. ASSUME NEW seq \in Seqs, NEW k \in Keys, Protect(seq, k)
        PROVE  LimitStep
    <2>1. CASE ProtectCollision \/ ProtectBadMki
      BY <2>1 DEF ProtectCollision, ProtectBadMki
    <2>2. CASE ProtectExpired(k)
      BY <2>2 DEF ProtectExpired
    <2>3. CASE ProtectMalformed(k)
      BY <2>3 DEF ProtectMalformed
    <2>4. CASE ProtectRefused(seq, k)
      BY <2>4 DEF ProtectRefused
    <2>5. ASSUME NEW status, ProtectPacket(seq, k, status) PROVE LimitStep
      BY <2>5 DEF ProtectPacket
    <2> QED BY <1>1, <2>1, <2>2, <2>3, <2>4, <2>5 DEF Protect
  <1>2. ASSUME NEW p \in Packets, Unprotect(p) PROVE LimitStep
    <2>0. p.key \in Keys
      BY <1>2 DEF Packets
    <2>1. CASE UnprotectCollision \/ UnprotectMalformed \/ UnprotectRefused(p)
      <3> SUFFICES limit' = limit /\ last'.event # "hard_limit"
        OBVIOUS
      <3>1. CASE UnprotectCollision
        BY <3>1 DEF UnprotectCollision
      <3>2. CASE UnprotectMalformed
        BY <3>2 DEF UnprotectMalformed
      <3>3. CASE UnprotectRefused(p)
        BY <3>3 DEF UnprotectRefused
      <3> QED BY <2>1, <3>1, <3>2, <3>3
    <2>2. CASE UnprotectAuthFail(p)
      BY <2>0, <2>2 DEF UnprotectAuthFail
    <2>3. CASE UnprotectExpired(p)
      BY <2>0, <2>3 DEF UnprotectExpired
    <2>4. CASE UnprotectFailed(p)
      BY <2>0, <2>4 DEF UnprotectFailed
    <2>5. CASE UnprotectPacket(p)
      BY <2>0, <2>5 DEF UnprotectPacket
    <2> QED BY <1>2, <2>1, <2>2, <2>3, <2>4, <2>5 DEF Unprotect
  <1>3. ASSUME NEW roc \in Rocs, SetRoc(roc) PROVE LimitStep
    BY <1>3 DEF SetRoc
  <1>4. CASE RtcpCall
    BY <1>4 DEF RtcpCall
  <1>5. CASE Update
    BY <1>5 DEF Update
  <1> QED BY <1>1, <1>2, <1>3, <1>4, <1>5 DEF Next

(* Every key, whatever its limit, is reported to have passed the soft limit
   before srtp_key_limit_update reports the hard limit and the packet
   functions refuse it. *)
THEOREM WarnedFirst == Spec => WarnedBeforeExpiry
  <1>1. Init => LimitInv
    BY KeyLimitAssumption DEF Init, LimitInv, KeyLimitSet
  <1>2. TypeOK /\ LimitInv /\ [Next]_vars => LimitInv' /\ [WarnedStep]_vars
    <2> SUFFICES ASSUME TypeOK, LimitInv, [Next]_vars
                 PROVE  LimitInv' /\ [WarnedStep]_vars
      OBVIOUS
    <2>1. CASE UNCHANGED vars
      BY <2>1 DEF vars, LimitInv
    <2>2. CASE Next
      <3>1. LimitStep
        BY <2>2, LimitKinds
      <3>2. ASSUME NEW k \in Keys, UseKey(k),
                   last'.event \in {KeyEvent(k), "normal"}
            PROVE  LimitInv' /\ WarnedStep
        BY <3>2, UseKeyStep DEF WarnedStep
      <3>3. CASE limit' = limit /\ last'.event # "hard_limit"
        BY <3>3 DEF LimitInv, WarnedStep
      <3>4. CASE /\ limit' = [k \in Keys |-> KeyLimitSet]
                 /\ last'.event # "hard_limit"
        BY <3>4, KeyLimitAssumption DEF LimitInv, KeyLimitSet, WarnedStep
      <3> QED BY <3>1, <3>2, <3>3, <3>4 DEF LimitStep
    <2> QED BY <2>1, <2>2
  <1>3. Spec => []TypeOK
    BY TypeCorrect
  <1> QED BY <1>1, <1>2, <1>3, PTL DEF Spec, WarnedBeforeExpiry
================================================================================
