------------------------------ MODULE RtpPathProofs ------------------------------
(***************************************************************************)
(* The safety properties of RtpPath for every width, window, key limit and *)
(* RCC mode, and any loss, repetition, reordering and corruption.          *)
(***************************************************************************)
EXTENDS RtpPath, RdbxProofs

-----------------------------------------------------------------------------
(* Estimating and recording, with the database as a parameter: both streams
   of the path work this way. *)

EstimateAt(d, roc, seq) ==
    LET est == roc * SeqMax + seq
        gap == est - d.index
    IN  [status |-> CASE gap > SeqMedian  -> "pkt_idx_adv"
                      [] gap < -SeqMedian -> "pkt_idx_old"
                      [] OTHER            -> "ok",
         est    |-> est,
         delta  |-> IF gap \in -SeqMedian .. SeqMedian THEN gap ELSE 0]

LocalEstimate(d, pending, seq) ==
    IF pending # 0
    THEN EstimateAt(d, pending, seq)
    ELSE LET g == RdbxEstimateIndex(d, seq)
         IN  [status |-> "ok", est |-> g.guess, delta |-> g.delta]

StatusOf(d, e) == IF e.status = "ok" THEN RdbxCheck(d, e.delta) ELSE e.status

RecordedIn(d, e) ==
    IF e.status = "pkt_idx_adv"
    THEN RdbxAddIndex(RdbxSetRocSeq(d, e.est \div SeqMax, e.est % SeqMax), 0)
    ELSE RdbxAddIndex(d, e.delta)

IndexIn(d, e) == IF e.status = "pkt_idx_adv" THEN e.est ELSE d.index + e.delta

(* What an estimate for the sequence number seq satisfies. *)
Sound(d, e, seq) ==
    /\ e.status \in {"ok", "pkt_idx_adv", "pkt_idx_old"}
    /\ e.est \in Nat /\ e.est < IndexSpace
    /\ e.est % SeqMax = seq
    /\ e.delta \in Int
    /\ e.status = "ok" => /\ e.delta < SeqMax
                          /\ d.index + e.delta \in Nat
                          /\ e.est = (d.index + e.delta) % IndexSpace
    /\ e.status = "pkt_idx_adv" => e.est - d.index > SeqMedian

LEMMA PathWidths ==
    /\ SeqMedian \in Nat \ {0} /\ RocMax \in Nat \ {0}
    /\ SeqMax \in Nat \ {0} /\ SeqMax = SeqMedian + SeqMedian
    /\ IndexSpace \in Nat \ {0} /\ IndexSpace = RocMax * SeqMax
    /\ WindowSize \in Nat \ {0} /\ WindowSize <= SeqMedian
  BY RdbxAssumption DEF SeqMax, IndexSpace

(* An index is put together from a ROC and a sequence number, and taken apart
   into them. *)
LEMMA PathIndexFits ==
    ASSUME NEW roc \in Rocs, NEW seq \in Seqs
    PROVE  LET i == roc * SeqMax + seq
           IN  /\ i \in Nat /\ i < IndexSpace /\ i % IndexSpace = i
               /\ i \div SeqMax = roc /\ i % SeqMax = seq
  <1>1. roc \in Nat /\ roc <= RocMax - 1 /\ seq \in Nat /\ seq <= SeqMax - 1
        /\ seq \in 0 .. SeqMax - 1
    BY PathWidths DEF Rocs, Seqs
  <1>2. roc * SeqMax <= (RocMax - 1) * SeqMax
    BY <1>1, PathWidths
  <1>3. (RocMax - 1) * SeqMax = RocMax * SeqMax - SeqMax
    BY PathWidths
  <1>4. roc * SeqMax + seq \in Nat /\ roc * SeqMax + seq < IndexSpace
    BY <1>1, <1>2, <1>3, PathWidths
  <1>5. (roc * SeqMax + seq) % IndexSpace = roc * SeqMax + seq
    BY <1>4, PathWidths
  <1>6. (roc * SeqMax + seq) \div SeqMax = roc /\ (roc * SeqMax + seq) % SeqMax = seq
    BY <1>1, PathWidths, DivModUnique, Zenon
  <1> QED BY <1>4, <1>5, <1>6

(* In the other direction. *)
LEMMA IndexParts ==
    ASSUME NEW i \in Nat, i < IndexSpace
    PROVE  /\ i \div SeqMax \in Rocs /\ i % SeqMax \in Seqs
           /\ (i \div SeqMax) * SeqMax + (i % SeqMax) = i
  <1> DEFINE q == i \div SeqMax
             r == i % SeqMax
  <1>1. q \in Nat /\ r \in 0 .. SeqMax - 1 /\ i = q * SeqMax + r
    BY PathWidths, DivMod, Zenon
  <1> HIDE DEF q, r
  <1>2. q < RocMax
    <2> SUFFICES ASSUME q >= RocMax PROVE FALSE
      BY <1>1, PathWidths
    <2>1. q * SeqMax >= RocMax * SeqMax
      BY <1>1, PathWidths
    <2> QED BY <1>1, <2>1, PathWidths
  <1>3. q \in Rocs /\ r \in Seqs
    BY <1>1, <1>2, PathWidths DEF Rocs, Seqs
  <1> QED BY <1>1, <1>3 DEF q, r

LEMMA EstimateAtSound ==
    ASSUME NEW d \in RdbxType, NEW roc \in Rocs, NEW seq \in Seqs
    PROVE  /\ Sound(d, EstimateAt(d, roc, seq), seq)
           /\ EstimateAt(d, roc, seq).est = roc * SeqMax + seq
  <1> DEFINE e == EstimateAt(d, roc, seq)
             est == roc * SeqMax + seq
             gap == est - d.index
  <1>1. est \in Nat /\ est < IndexSpace /\ est % IndexSpace = est
        /\ est % SeqMax = seq
    BY PathIndexFits
  <1>2. d.index \in Nat
    BY DEF RdbxType
  <1>3. /\ gap > SeqMedian => e.status = "pkt_idx_adv"
        /\ gap < -SeqMedian => e.status = "pkt_idx_old"
        /\ ~(gap > SeqMedian) /\ ~(gap < -SeqMedian) => e.status = "ok"
        /\ e.est = est
        /\ e.delta = IF gap \in -SeqMedian .. SeqMedian THEN gap ELSE 0
    BY <1>1, <1>2, PathWidths DEF EstimateAt
  <1> SUFFICES Sound(d, e, seq)
    BY <1>3
  <1> HIDE DEF e, est
  <1>4. CASE gap > SeqMedian
    BY <1>1, <1>2, <1>3, <1>4, PathWidths DEF Sound
  <1>5. CASE gap < -SeqMedian
    BY <1>1, <1>2, <1>3, <1>5, PathWidths DEF Sound
  <1>6. CASE gap \in -SeqMedian .. SeqMedian
    <2>1. e.status = "ok" /\ e.delta = gap
      BY <1>2, <1>3, <1>6, PathWidths
    <2>2. d.index + gap = est
      BY <1>1, <1>2
    <2>3. gap < SeqMax
      <3>1. SeqMedian \in Nat \ {0} /\ SeqMax = SeqMedian + SeqMedian
        BY PathWidths
      <3> QED BY <1>6, <3>1
    <2> QED BY <1>1, <1>2, <1>3, <1>6, <2>1, <2>2, <2>3 DEF Sound
  <1>7. gap \in Int
    BY <1>1, <1>2
  <1> QED BY <1>4, <1>5, <1>6, <1>7, PathWidths

LEMMA LocalEstimateSound ==
    ASSUME NEW d \in RdbxType, NEW pending \in Rocs, NEW seq \in Seqs
    PROVE  Sound(d, LocalEstimate(d, pending, seq), seq)
  <1>1. CASE pending # 0
    BY <1>1, EstimateAtSound DEF LocalEstimate
  <1>2. CASE pending = 0
    <2> DEFINE g == RdbxEstimateIndex(d, seq)
               x == d.index + g.delta
    <2>1. LocalEstimate(d, pending, seq)
            = [status |-> "ok", est |-> g.guess, delta |-> g.delta]
      BY <1>2 DEF LocalEstimate
    <2>2. /\ g.delta \in -SeqMedian .. SeqMax - 1
          /\ g.guess \in Nat /\ x \in Nat /\ x % SeqMax = seq
          /\ g.guess = x % IndexSpace
      BY EstimateFacts
    <2> HIDE DEF g
    <2>3. g.delta \in Int /\ g.delta < SeqMax
      BY <2>2, PathWidths
    <2> DEFINE q == x \div SeqMax
    <2>4. q \in Nat /\ x = q * SeqMax + seq /\ seq \in 0 .. SeqMax - 1
      <3>1. q \in Nat /\ x % SeqMax \in 0 .. SeqMax - 1
            /\ x = q * SeqMax + (x % SeqMax)
        BY <2>2, PathWidths, DivMod, Zenon
      <3> QED BY <2>2, <3>1
    <2> HIDE DEF x, q
    <2>5. g.guess = (q % RocMax) * SeqMax + seq
      <3>1. (q * SeqMax + seq) % (RocMax * SeqMax) = (q % RocMax) * SeqMax + seq
        <4>1. q \in Nat /\ seq \in 0 .. SeqMax - 1
          BY <2>4
        <4>2. SeqMax \in Nat \ {0} /\ RocMax \in Nat \ {0}
          BY PathWidths
        <4> QED BY <4>1, <4>2, ModProduct, Zenon
      <3>2. IndexSpace = RocMax * SeqMax
        BY PathWidths
      <3>3. g.guess = (q * SeqMax + seq) % (RocMax * SeqMax)
        BY <2>2, <2>4, <3>2, Zenon
      <3> QED BY <3>1, <3>3, Zenon
    <2>6. q % RocMax \in Rocs
      BY <2>4, PathWidths DEF Rocs
    <2>7. g.guess < IndexSpace /\ g.guess % SeqMax = seq
      <3>1. \A roc \in Rocs : /\ roc * SeqMax + seq < IndexSpace
                              /\ (roc * SeqMax + seq) % SeqMax = seq
        BY PathIndexFits
      <3> QED BY <2>5, <2>6, <3>1, Zenon
    <2> QED BY <2>1, <2>2, <2>3, <2>7 DEF Sound, x
  <1> QED BY <1>1, <1>2

(* Recording a sound estimate that is not refused as old: the database keeps
   its type and the index it records is the estimate, in 48 bits. *)
LEMMA RecordSound ==
    ASSUME NEW d \in RdbxType, NEW e, NEW seq, Sound(d, e, seq),
           StatusOf(d, e) \in {"ok", "pkt_idx_adv", "replay_fail"}
    PROVE  /\ RecordedIn(d, e) \in RdbxType
           /\ IndexIn(d, e) % IndexSpace = e.est
  <1>1. d.index \in Nat
    BY DEF RdbxType
  <1>2. PICK indices \in SUBSET Int : Exact(d, indices)
    BY SelfExact
  <1>3. CASE e.status = "pkt_idx_adv"
    <2>1. e.est \in Nat /\ e.est - d.index > SeqMedian /\ e.est < IndexSpace
      BY <1>3 DEF Sound
    <2>2. \A est \in Nat : est - d.index > SeqMedian =>
            RdbxAddIndex(RdbxSetRocSeq(d, est \div SeqMax, est % SeqMax), 0)
              \in RdbxType
      BY <1>2, JumpFacts, Zenon
    <2>3. RecordedIn(d, e) \in RdbxType
      BY <1>3, <2>1, <2>2, Zenon DEF RecordedIn
    <2>4. e.est % IndexSpace = e.est
      BY <2>1, PathWidths
    <2> QED BY <1>3, <2>3, <2>4 DEF IndexIn
  <1>4. CASE e.status = "ok"
    <2>1. /\ e.delta \in Int /\ e.delta < SeqMax
          /\ d.index + e.delta \in Nat
          /\ e.est = (d.index + e.delta) % IndexSpace
      BY <1>4 DEF Sound
    <2>2. StatusOf(d, e) = RdbxCheck(d, e.delta)
      BY <1>4 DEF StatusOf
    <2>3. e.delta > 0 \/ (WindowSize - 1) + e.delta >= 0
      <3>1. RdbxCheck(d, e.delta) # "replay_old" =>
              e.delta > 0 \/ (WindowSize - 1) + e.delta >= 0
        BY <1>2, <2>1, CheckFacts
      <3> QED BY <2>2, <3>1
    <2>4. RdbxAddIndex(d, e.delta) \in RdbxType
      BY <1>2, <2>1, <2>3, AddIndexFacts, Zenon
    <2> QED BY <1>4, <2>1, <2>4 DEF RecordedIn, IndexIn
  <1>5. CASE e.status = "pkt_idx_old"
    BY <1>5 DEF StatusOf
  <1> QED BY <1>3, <1>4, <1>5 DEF Sound

-----------------------------------------------------------------------------
(* The two streams in these terms. *)

LEMMA SenderMeans ==
    ASSUME NEW seq, NEW e, NEW roc
    PROVE  /\ S!EstimateIndex(roc, seq) = EstimateAt(s_rdbx, roc, seq)
           /\ S!GetEstPktIndex(seq) = LocalEstimate(s_rdbx, s_pending_roc, seq)
           /\ S!IndexStatus(e) = StatusOf(s_rdbx, e)
           /\ S!Recorded(e) = RecordedIn(s_rdbx, e)
           /\ S!RecordedIndex(e) = IndexIn(s_rdbx, e)
  <1>1. S!SeqMax = SeqMax /\ S!Bits = Bits
    BY DEF S!SeqMax, SeqMax, S!Bits, Bits
  <1>2. \A d : S!RdbxEstimateIndex(d, seq) = RdbxEstimateIndex(d, seq)
    BY DEF S!RdbxEstimateIndex, RdbxEstimateIndex, S!IndexGuess, IndexGuess,
           S!SeqMax, SeqMax
  <1>3. \A d, x : S!RdbxCheck(d, x) = RdbxCheck(d, x)
    BY DEF S!RdbxCheck, RdbxCheck
  <1>4. \A d, x : S!RdbxAddIndex(d, x) = RdbxAddIndex(d, x)
    BY DEF S!RdbxAddIndex, RdbxAddIndex, S!LeftShift, LeftShift,
           S!SeqMax, SeqMax, S!Bits, Bits
  <1>5. \A d, x, y : S!RdbxSetRocSeq(d, x, y) = RdbxSetRocSeq(d, x, y)
    BY DEF S!RdbxSetRocSeq, RdbxSetRocSeq, S!SeqMax, SeqMax
  <1>6. \A r : S!EstimateIndex(r, seq) = EstimateAt(s_rdbx, r, seq)
    BY DEF S!EstimateIndex, EstimateAt, S!SeqMax, SeqMax
  <1>7. S!GetEstPktIndex(seq) = LocalEstimate(s_rdbx, s_pending_roc, seq)
    BY <1>2, <1>6 DEF S!GetEstPktIndex, LocalEstimate
  <1>8. S!IndexStatus(e) = StatusOf(s_rdbx, e)
    BY <1>3 DEF S!IndexStatus, StatusOf
  <1>9. S!Recorded(e) = RecordedIn(s_rdbx, e)
    BY <1>1, <1>4, <1>5 DEF S!Recorded, RecordedIn
  <1>10. S!RecordedIndex(e) = IndexIn(s_rdbx, e)
    BY DEF S!RecordedIndex, IndexIn
  <1> QED BY <1>6, <1>7, <1>8, <1>9, <1>10

LEMMA ReceiverMeans ==
    ASSUME NEW seq, NEW e, NEW roc
    PROVE  /\ R!EstimateIndex(roc, seq) = EstimateAt(r_rdbx, roc, seq)
           /\ R!GetEstPktIndex(seq) = LocalEstimate(r_rdbx, r_pending_roc, seq)
           /\ R!IndexStatus(e) = StatusOf(r_rdbx, e)
           /\ R!Recorded(e) = RecordedIn(r_rdbx, e)
           /\ R!RecordedIndex(e) = IndexIn(r_rdbx, e)
  <1>1. R!SeqMax = SeqMax /\ R!Bits = Bits
    BY DEF R!SeqMax, SeqMax, R!Bits, Bits
  <1>2. \A d : R!RdbxEstimateIndex(d, seq) = RdbxEstimateIndex(d, seq)
    BY DEF R!RdbxEstimateIndex, RdbxEstimateIndex, R!IndexGuess, IndexGuess,
           R!SeqMax, SeqMax
  <1>3. \A d, x : R!RdbxCheck(d, x) = RdbxCheck(d, x)
    BY DEF R!RdbxCheck, RdbxCheck
  <1>4. \A d, x : R!RdbxAddIndex(d, x) = RdbxAddIndex(d, x)
    BY DEF R!RdbxAddIndex, RdbxAddIndex, R!LeftShift, LeftShift,
           R!SeqMax, SeqMax, R!Bits, Bits
  <1>5. \A d, x, y : R!RdbxSetRocSeq(d, x, y) = RdbxSetRocSeq(d, x, y)
    BY DEF R!RdbxSetRocSeq, RdbxSetRocSeq, R!SeqMax, SeqMax
  <1>6. \A r : R!EstimateIndex(r, seq) = EstimateAt(r_rdbx, r, seq)
    BY DEF R!EstimateIndex, EstimateAt, R!SeqMax, SeqMax
  <1>7. R!GetEstPktIndex(seq) = LocalEstimate(r_rdbx, r_pending_roc, seq)
    BY <1>2, <1>6 DEF R!GetEstPktIndex, LocalEstimate
  <1>8. R!IndexStatus(e) = StatusOf(r_rdbx, e)
    BY <1>3 DEF R!IndexStatus, StatusOf
  <1>9. R!Recorded(e) = RecordedIn(r_rdbx, e)
    BY <1>1, <1>4, <1>5 DEF R!Recorded, RecordedIn
  <1>10. R!RecordedIndex(e) = IndexIn(r_rdbx, e)
    BY DEF R!RecordedIndex, IndexIn
  <1> QED BY <1>6, <1>7, <1>8, <1>9, <1>10

-----------------------------------------------------------------------------
(* The inductive invariant *)

(* Every packet has a tag: not so in RCC mode 1. *)
EveryTag == Aead \/ (AuthService /\ RccMode # 1)

WasSent(i) == \E j \in s_sent : j % IndexSpace = i

(* A packet in the network is one the sender protected, under the index it
   says, and where there is a tag the ROC it carries is the one of its index. *)
OnTheWay(p) ==
    /\ p.seq \in Seqs /\ p.roc \in Rocs
    /\ Aead \/ AuthService => p.index = p.roc * SeqMax + p.seq
    /\ WasSent(p.index)

PathInv ==
    /\ s_rdbx \in RdbxType /\ s_pending_roc \in Rocs
    /\ r_rdbx \in RdbxType /\ r_pending_roc \in Rocs
    /\ app_seq \in Seqs
    /\ \A p \in net : OnTheWay(p)
    /\ EveryTag => \A i \in r_received : WasSent(i % IndexSpace)

LEMMA PathInvInit == Init => PathInv
  <1> SUFFICES ASSUME Init PROVE PathInv
    OBVIOUS
  <1>1. /\ s_rdbx = [index |-> 0, bitmask |-> {}] /\ s_pending_roc = 0
        /\ r_rdbx = [index |-> 0, bitmask |-> {}] /\ r_pending_roc = 0
        /\ r_received = {}
    BY DEF Init, S!Init, R!Init, S!RdbxInit, R!RdbxInit
  <1>2. 0 \in Rocs /\ [index |-> 0, bitmask |-> {}] \in RdbxType
    BY PathWidths DEF Rocs, RdbxType
  <1> QED BY <1>1, <1>2 DEF Init, PathInv

(* srtp_protect on the next packet: the index that goes into the packet is the
   one that is recorded. *)
LEMMA SendKeeps ==
    ASSUME PathInv, Send
    PROVE  PathInv'
  <1> DEFINE e == LocalEstimate(s_rdbx, s_pending_roc, app_seq)
             new == IndexIn(s_rdbx, e)
  <1>1. PICK k \in Keys : /\ S!ProtectPacket(app_seq, k, "ok")
                          /\ app_seq' = (app_seq + 1) % SeqMax
                          /\ Transmit(k, s_last'.est)
                          /\ UNCHANGED receiver
    BY DEF Send
  <1>2. /\ S!GetEstPktIndex(app_seq) = e
        /\ S!IndexStatus(e) = StatusOf(s_rdbx, e)
        /\ S!Recorded(e) = RecordedIn(s_rdbx, e)
        /\ S!RecordedIndex(e) = new
    <2>1. \A seq, f : /\ S!GetEstPktIndex(seq)
                           = LocalEstimate(s_rdbx, s_pending_roc, seq)
                      /\ S!IndexStatus(f) = StatusOf(s_rdbx, f)
                      /\ S!Recorded(f) = RecordedIn(s_rdbx, f)
                      /\ S!RecordedIndex(f) = IndexIn(s_rdbx, f)
      BY SenderMeans, Zenon
    <2> QED BY <2>1, Zenon
  <1>3. Sound(s_rdbx, e, app_seq)
    <2>1. \A d \in RdbxType, roc \in Rocs, seq \in Seqs :
            Sound(d, LocalEstimate(d, roc, seq), seq)
      BY LocalEstimateSound, Zenon
    <2> QED BY <2>1, Zenon DEF PathInv
  <1> HIDE DEF e
  <1>4. /\ StatusOf(s_rdbx, e) \in {"ok", "pkt_idx_adv", "replay_fail"}
        /\ s_rdbx' = RecordedIn(s_rdbx, e)
        /\ s_pending_roc' \in {0, s_pending_roc}
        /\ s_sent' = s_sent \cup {new}
        /\ s_last'.est = e.est
    BY <1>1, <1>2 DEF S!ProtectPacket, S!MayProtect, S!RecordIndex
  <1>5. RecordedIn(s_rdbx, e) \in RdbxType /\ new % IndexSpace = e.est
    <2>1. \A d \in RdbxType : \A f, seq :
            Sound(d, f, seq)
            /\ StatusOf(d, f) \in {"ok", "pkt_idx_adv", "replay_fail"} =>
              /\ RecordedIn(d, f) \in RdbxType
              /\ IndexIn(d, f) % IndexSpace = f.est
      BY RecordSound, Zenon
    <2>2. s_rdbx \in RdbxType
      BY DEF PathInv
    <2> QED BY <1>3, <1>4, <2>1, <2>2, Zenon
  <1> HIDE DEF new
  <1>6. e.est \in Nat /\ e.est < IndexSpace /\ e.est % SeqMax = app_seq
    BY <1>3 DEF Sound
  <1>7. \A i : WasSent(i) => WasSent(i)'
    BY <1>4, Zenon DEF WasSent
  <1>8. \A i : i = e.est => WasSent(i)'
    BY <1>4, <1>5, Zenon DEF WasSent
  <1>9. ASSUME NEW p \in net'
        PROVE  OnTheWay(p)'
    <2>1. CASE p \in net
      BY <1>7, <2>1, Zenon DEF PathInv, OnTheWay
    <2>2. CASE p \notin net
      <3>1. PICK roc \in CarriedRocs(app_seq, e.est) :
              p = [seq |-> app_seq, roc |-> roc, key |-> k, genuine |-> TRUE,
                   index |-> e.est]
        BY <1>1, <1>4, <2>2 DEF Transmit
      <3>2. p.seq = app_seq /\ p.roc = roc /\ p.index = e.est
        BY <3>1
      <3>3. /\ e.est \div SeqMax \in Rocs
            /\ (e.est \div SeqMax) * SeqMax + app_seq = e.est
        BY <1>6, IndexParts
      <3>4. roc \in Rocs
        BY <3>1, <3>3, Zenon DEF CarriedRocs
      <3>5. Aead \/ AuthService => roc = e.est \div SeqMax
        BY <3>1, Zenon DEF CarriedRocs
      <3>6. Aead \/ AuthService => e.est = roc * SeqMax + app_seq
        BY <3>3, <3>5
      <3>7. app_seq \in Seqs
        BY DEF PathInv
      <3>8. WasSent(p.index)'
        BY <1>8, <3>2, Zenon
      <3>9. Aead \/ AuthService => p.index = p.roc * SeqMax + p.seq
        BY <3>2, <3>6, Zenon
      <3>10. p.seq \in Seqs /\ p.roc \in Rocs
        BY <3>2, <3>4, <3>7, Zenon
      <3> QED BY <3>8, <3>9, <3>10, Zenon DEF OnTheWay
    <2> QED BY <2>1, <2>2
  <1>10. s_rdbx' \in RdbxType /\ s_pending_roc' \in Rocs
    <2>1. 0 \in Rocs /\ s_pending_roc \in Rocs
      BY PathWidths DEF Rocs, PathInv
    <2> QED BY <1>4, <1>5, <2>1, Zenon
  <1>11. app_seq' \in Seqs
    BY <1>1, PathWidths DEF Seqs, PathInv
  <1>12. r_rdbx' = r_rdbx /\ r_pending_roc' = r_pending_roc
         /\ r_received' = r_received
    BY <1>1 DEF receiver
  <1>13. EveryTag => \A i \in r_received' : WasSent(i % IndexSpace)'
    BY <1>7, <1>12, Zenon DEF PathInv
  <1>14. r_rdbx' \in RdbxType /\ r_pending_roc' \in Rocs
    BY <1>12 DEF PathInv
  <1> QED BY <1>9, <1>10, <1>11, <1>13, <1>14, Zenon DEF PathInv, EveryTag

(* The index srtp_unprotect works with is one of the sequence number's. *)
LEMMA ReceiveSound ==
    ASSUME PathInv, NEW p, p.seq \in Seqs, p.roc \in Rocs
    PROVE  /\ Sound(r_rdbx, R!ReceiveIndex(p), p.seq)
           /\ R!RccCarry(p.seq) =>
                R!ReceiveIndex(p) = EstimateAt(r_rdbx, p.roc, p.seq)
  <1>1. \A roc, seq : /\ R!EstimateIndex(roc, seq) = EstimateAt(r_rdbx, roc, seq)
                      /\ R!GetEstPktIndex(seq)
                           = LocalEstimate(r_rdbx, r_pending_roc, seq)
    BY ReceiverMeans, Zenon
  <1>2. r_rdbx \in RdbxType /\ r_pending_roc \in Rocs
    BY DEF PathInv
  <1>3. \A d \in RdbxType, roc \in Rocs, seq \in Seqs :
          /\ Sound(d, LocalEstimate(d, roc, seq), seq)
          /\ Sound(d, EstimateAt(d, roc, seq), seq)
    BY LocalEstimateSound, EstimateAtSound, Zenon
  <1> QED BY <1>1, <1>2, <1>3, Zenon DEF R!ReceiveIndex

(* Every outcome of srtp_unprotect: a packet is recorded under the index its
   tag verifies with, which is the one it was sent with. *)
LEMMA DeliverKeeps ==
    ASSUME PathInv, NEW p, p.seq \in Seqs, p.roc \in Rocs,
           EveryTag /\ p.genuine => WasSent(p.roc * SeqMax + p.seq),
           Deliver(p)
    PROVE  PathInv'
  <1> DEFINE e == R!ReceiveIndex(p)
             new == IndexIn(r_rdbx, e)
  <1>1. /\ s_rdbx' = s_rdbx /\ s_pending_roc' = s_pending_roc /\ s_sent' = s_sent
        /\ app_seq' = app_seq /\ net' = net
    BY DEF Deliver, sender
  <1>2. \A i : WasSent(i)' <=> WasSent(i)
    BY <1>1, Zenon DEF WasSent
  <1>3. \A q \in net' : OnTheWay(q)'
    BY <1>1, <1>2, Zenon DEF PathInv, OnTheWay
  <1>4. CASE R!UnprotectPacket(p)
    <2>1. Sound(r_rdbx, e, p.seq)
      BY ReceiveSound
    <2>2. /\ R!IndexStatus(e) = StatusOf(r_rdbx, e)
          /\ R!Recorded(e) = RecordedIn(r_rdbx, e)
          /\ R!RecordedIndex(e) = new
      <3>1. \A f : /\ R!IndexStatus(f) = StatusOf(r_rdbx, f)
                   /\ R!Recorded(f) = RecordedIn(r_rdbx, f)
                   /\ R!RecordedIndex(f) = IndexIn(r_rdbx, f)
        BY ReceiverMeans, Zenon
      <3> QED BY <3>1, Zenon
    <2>3. /\ R!IndexStatus(e) \in {"ok", "pkt_idx_adv"}
          /\ R!Authenticated(p.seq) =>
               p.genuine /\ e.est = p.roc * R!SeqMax + p.seq
          /\ r_rdbx' = R!Recorded(e)
          /\ r_pending_roc' = IF e.status = "pkt_idx_adv" THEN 0 ELSE r_pending_roc
          /\ r_received' = r_received \cup {R!RecordedIndex(e)}
      BY <1>4 DEF R!UnprotectPacket, R!MayUnprotect, R!Verifies, R!RecordIndex
    <2> HIDE DEF e
    <2>4. R!SeqMax = SeqMax
      BY DEF R!SeqMax, SeqMax
    <2>5. RecordedIn(r_rdbx, e) \in RdbxType /\ new % IndexSpace = e.est
      <3>1. \A d \in RdbxType : \A f, seq :
              Sound(d, f, seq)
              /\ StatusOf(d, f) \in {"ok", "pkt_idx_adv", "replay_fail"} =>
                /\ RecordedIn(d, f) \in RdbxType
                /\ IndexIn(d, f) % IndexSpace = f.est
        BY RecordSound, Zenon
      <3>2. r_rdbx \in RdbxType
        BY DEF PathInv
      <3>3. StatusOf(r_rdbx, e) \in {"ok", "pkt_idx_adv", "replay_fail"}
        BY <2>2, <2>3
      <3> QED BY <2>1, <3>1, <3>2, <3>3, Zenon
    <2>6. r_rdbx' \in RdbxType
      BY <2>2, <2>3, <2>5, Zenon
    <2>7. r_pending_roc' \in Rocs
      <3>1. 0 \in Rocs /\ r_pending_roc \in Rocs
        BY PathWidths DEF Rocs, PathInv
      <3> QED BY <2>3, <3>1
    <2>8. EveryTag => WasSent(e.est)
      <3>1. EveryTag => R!Authenticated(p.seq)
        BY Zenon DEF EveryTag, R!Authenticated
      <3> QED BY <2>3, <2>4, <3>1, Zenon
    <2>9. EveryTag => \A i \in r_received' : WasSent(i % IndexSpace)
      <3>1. r_received' = r_received \cup {new}
        BY <2>2, <2>3, Zenon
      <3>2. EveryTag => WasSent(new % IndexSpace)
        BY <2>5, <2>8, Zenon
      <3>3. EveryTag => \A i \in r_received : WasSent(i % IndexSpace)
        BY DEF PathInv
      <3> HIDE DEF new
      <3> QED BY <3>1, <3>2, <3>3, Zenon
    <2>10. EveryTag => \A i \in r_received' : WasSent(i % IndexSpace)'
      BY <1>2, <2>9, Zenon
    <2>11. s_rdbx' \in RdbxType /\ s_pending_roc' \in Rocs /\ app_seq' \in Seqs
      BY <1>1 DEF PathInv
    <2> QED BY <1>3, <2>6, <2>7, <2>10, <2>11, Zenon DEF PathInv, EveryTag
  <1>5. CASE ~R!UnprotectPacket(p)
    <2>1. /\ r_rdbx' = r_rdbx /\ r_pending_roc' = r_pending_roc
          /\ r_received' = r_received
      BY <1>5 DEF Deliver, R!UnprotectRefused, R!UnprotectAuthFail,
                  R!UnprotectExpired
    <2>2. EveryTag => \A i \in r_received' : WasSent(i % IndexSpace)'
      BY <1>2, <2>1, Zenon DEF PathInv
    <2>3. /\ s_rdbx' \in RdbxType /\ s_pending_roc' \in Rocs /\ app_seq' \in Seqs
          /\ r_rdbx' \in RdbxType /\ r_pending_roc' \in Rocs
      BY <1>1, <2>1 DEF PathInv
    <2> QED BY <1>3, <2>2, <2>3, Zenon DEF PathInv, EveryTag
  <1> QED BY <1>4, <1>5

LEMMA SignalRocKeeps ==
    ASSUME PathInv, SignalRoc
    PROVE  PathInv'
  <1>1. /\ s_rdbx' = s_rdbx /\ s_pending_roc' = s_pending_roc /\ s_sent' = s_sent
        /\ app_seq' = app_seq /\ net' = net
        /\ r_rdbx' = r_rdbx /\ r_received' = r_received
        /\ r_pending_roc' = GetRoc(s_rdbx)
    BY DEF SignalRoc, sender, R!SetRoc
  <1>2. GetRoc(s_rdbx) \in Rocs
    <2>1. s_rdbx.index \in Nat
      BY DEF PathInv, RdbxType
    <2>2. s_rdbx.index \div SeqMax \in Nat
      BY <2>1, PathWidths
    <2> QED BY <2>2, PathWidths DEF GetRoc, Rocs
  <1>3. \A i : WasSent(i)' <=> WasSent(i)
    BY <1>1, Zenon DEF WasSent
  <1>4. \A q \in net' : OnTheWay(q)'
    BY <1>1, <1>3, Zenon DEF PathInv, OnTheWay
  <1>5. EveryTag => \A i \in r_received' : WasSent(i % IndexSpace)'
    BY <1>1, <1>3, Zenon DEF PathInv
  <1>6. /\ s_rdbx' \in RdbxType /\ s_pending_roc' \in Rocs /\ app_seq' \in Seqs
        /\ r_rdbx' \in RdbxType /\ r_pending_roc' \in Rocs
    BY <1>1, <1>2 DEF PathInv
  <1> QED BY <1>4, <1>5, <1>6, Zenon DEF PathInv, EveryTag

LEMMA PathInvHolds == Spec => []PathInv
  <1>1. PathInv /\ [Next]_vars => PathInv'
    <2> SUFFICES ASSUME PathInv, [Next]_vars PROVE PathInv'
      OBVIOUS
    <2>1. CASE Send
      BY <2>1, SendKeeps
    <2>2. ASSUME NEW p \in net, Deliver(p) PROVE PathInv'
      <3>1. OnTheWay(p)
        BY DEF PathInv
      <3>2. p.seq \in Seqs /\ p.roc \in Rocs
            /\ (EveryTag => WasSent(p.roc * SeqMax + p.seq))
        BY <3>1, Zenon DEF OnTheWay, EveryTag
      <3> QED BY <2>2, <3>2, DeliverKeeps
    <2>3. ASSUME NEW p \in R!Packets, ~p.genuine, Deliver(p) PROVE PathInv'
      <3>1. R!Seqs = Seqs /\ R!Rocs = Rocs
        BY DEF R!Seqs, Seqs, R!Rocs, Rocs, R!SeqMax, SeqMax
      <3>2. p.seq \in Seqs /\ p.roc \in Rocs
        BY <3>1 DEF R!Packets
      <3> QED BY <2>3, <3>2, DeliverKeeps
    <2>4. CASE SignalRoc
      BY <2>4, SignalRocKeeps
    <2>5. CASE UNCHANGED vars
      <3>1. /\ s_rdbx' = s_rdbx /\ s_pending_roc' = s_pending_roc
            /\ s_sent' = s_sent /\ app_seq' = app_seq /\ net' = net
            /\ r_rdbx' = r_rdbx /\ r_received' = r_received
            /\ r_pending_roc' = r_pending_roc
        BY <2>5 DEF vars, sender, receiver
      <3> QED BY <3>1 DEF PathInv, OnTheWay, WasSent, EveryTag
    <2> QED BY <2>1, <2>2, <2>3, <2>4, <2>5, Zenon DEF Next
  <1> QED BY <1>1, PathInvInit, PTL DEF Spec

-----------------------------------------------------------------------------
(* What srtp_unprotect accepts was sent, under the index it was sent with
   (RtpPath!ReceivedWasSent): for every width, window and RCC mode, over any
   loss, repetition, reordering and corruption, with ROCs set by the
   application or carried in packets. *)
THEOREM AcceptsOnlySent == Spec => []ReceivedWasSent
  <1>1. PathInv => ReceivedWasSent
    BY Zenon DEF PathInv, ReceivedWasSent, WasSent, EveryTag
  <1> QED BY <1>1, PathInvHolds, PTL

(* A packet that carries the ROC puts a receiver that is behind, however far,
   at its sender's index (RtpPath!CarriedRocSynchronizes), as long as the
   service has a tag to carry it in. *)
THEOREM CarriedRocWorks == Aead \/ AuthService => (Spec => []CarriedRocSynchronizes)
  <1> SUFFICES ASSUME Aead \/ AuthService PROVE Spec => []CarriedRocSynchronizes
    OBVIOUS
  <1>1. PathInv => CarriedRocSynchronizes
    <2> SUFFICES ASSUME PathInv, NEW p \in net, S!RccCarry(p.seq),
                        p.index > r_rdbx.index
                 PROVE  R!ReceiveIndex(p).est = p.index /\ R!MayUnprotect(p)
      BY DEF CarriedRocSynchronizes
    <2> DEFINE e == R!ReceiveIndex(p)
    <2>1. /\ p.seq \in Seqs /\ p.roc \in Rocs
          /\ p.index = p.roc * SeqMax + p.seq
      BY Zenon DEF PathInv, OnTheWay
    <2>2. r_rdbx \in RdbxType /\ r_rdbx.index \in Nat
      BY DEF PathInv, RdbxType
    <2>3. e = EstimateAt(r_rdbx, p.roc, p.seq)
      <3>1. R!RccCarry(p.seq)
        BY DEF S!RccCarry, R!RccCarry
      <3> QED BY <2>1, <3>1, ReceiveSound
    <2> HIDE DEF e
    <2>4. p.index \in Nat
      BY <2>1, PathIndexFits
    <2>5. /\ e.est = p.index
          /\ p.index - r_rdbx.index > SeqMedian => e.status = "pkt_idx_adv"
          /\ ~(p.index - r_rdbx.index > SeqMedian) =>
               e.status = "ok" /\ e.delta = p.index - r_rdbx.index
      BY <2>1, <2>2, <2>3, <2>4, PathWidths DEF EstimateAt
    <2>6. R!IndexStatus(e) = StatusOf(r_rdbx, e)
      <3>1. \A f : R!IndexStatus(f) = StatusOf(r_rdbx, f)
        BY ReceiverMeans, Zenon
      <3> QED BY <3>1, Zenon
    <2>7. StatusOf(r_rdbx, e) \in {"ok", "pkt_idx_adv"}
      BY <2>2, <2>4, <2>5 DEF StatusOf, RdbxCheck
    <2> QED BY <2>5, <2>6, <2>7 DEF R!MayUnprotect, e
  <1> QED BY <1>1, PathInvHolds, PTL
=============================================================================
