--------------------------- MODULE SrtcpStreamProofs ----------------------------
(***************************************************************************)
(* The safety properties of SrtcpStream for every window and every width   *)
(* of the SRTCP index.                                                     *)
(***************************************************************************)
EXTENDS SrtcpStream, TLAPS

(* The bits of a receiver's window and what they stand for: the part of
   RdbExact that speaks of a database and a set of indices. *)
Window(r, indices) ==
    /\ \A b \in 0 .. RdbBits - 1 :
          b \in r.bitmask <=> r.window_start + b \in indices
    /\ \A i \in indices : i < r.window_start + RdbBits
    /\ r.window_start > 0 => r.window_start + RdbBits - 1 \in indices

(* srtp_rdb_add_index keeps the window exact, whatever index srtp_rdb_check
   has let through. *)
LEMMA AddIndexFacts ==
    ASSUME NEW r \in RdbType, NEW indices \in SUBSET RtcpIndices,
           Window(r, indices), NEW i \in RtcpIndices, i >= r.window_start
    PROVE  /\ RdbAddIndex(r, i) \in RdbType
           /\ Window(RdbAddIndex(r, i), indices \cup {i})
  <1> DEFINE delta == i - r.window_start
             shift == delta - (RdbBits - 1)
             n == RdbAddIndex(r, i)
  <1>1. /\ r.window_start \in Nat /\ r.window_start <= RtcpMax
        /\ r.bitmask \subseteq 0 .. RdbBits - 1
        /\ i \in Nat /\ i <= RtcpMax
        /\ RdbBits \in Nat \ {0} /\ RtcpMax \in Nat
        /\ \A j \in indices : j \in Nat
    BY RdbAssumption DEF RdbType, RtcpIndices
  <1>2. CASE delta < RdbBits
    <2>1. n = [r EXCEPT !.bitmask = @ \cup {delta}]
      BY <1>1, <1>2 DEF RdbAddIndex
    <2>2. /\ n.window_start = r.window_start
          /\ n.bitmask = r.bitmask \cup {delta}
          /\ delta \in 0 .. RdbBits - 1
      BY <1>1, <1>2, <2>1 DEF RdbType
    <2>3. n \in RdbType
      BY <1>1, <2>1, <2>2 DEF RdbType, RtcpIndices
    <2> HIDE DEF n
    <2>4. ASSUME NEW b \in 0 .. RdbBits - 1
          PROVE  b \in n.bitmask <=> n.window_start + b \in indices \cup {i}
      <3>1. b \in r.bitmask <=> r.window_start + b \in indices
        BY DEF Window
      <3>2. b = delta <=> r.window_start + b = i
        BY <1>1
      <3> QED BY <2>2, <3>1, <3>2
    <2>5. \A j \in indices \cup {i} : j < n.window_start + RdbBits
      BY <1>1, <1>2, <2>2 DEF Window
    <2>6. n.window_start > 0 =>
             n.window_start + RdbBits - 1 \in indices \cup {i}
      BY <2>2 DEF Window
    <2> QED BY <2>3, <2>4, <2>5, <2>6 DEF Window, n
  <1>3. CASE ~(delta < RdbBits)
    <2>1. n = [window_start |-> r.window_start + shift,
               bitmask |-> {b \in 0 .. RdbBits - 1 : b + shift \in r.bitmask}
                             \cup {RdbBits - 1}]
      BY <1>1, <1>3 DEF RdbAddIndex
    <2>2. shift \in Nat /\ shift >= 1 /\ r.window_start + shift = i - (RdbBits - 1)
          /\ RdbBits - 1 \in 0 .. RdbBits - 1
      BY <1>1, <1>3
    <2>3. n.window_start = i - (RdbBits - 1)
          /\ n.window_start = r.window_start + shift
      BY <2>1, <2>2
    <2>4. n \in RdbType
      BY <1>1, <2>1, <2>2 DEF RdbType, RtcpIndices
    <2>5. ASSUME NEW b \in 0 .. RdbBits - 1
          PROVE  b \in n.bitmask <=> n.window_start + b \in indices \cup {i}
      <3>1. b \in n.bitmask <=> b + shift \in r.bitmask \/ b = RdbBits - 1
        BY <2>1
      <3>2. n.window_start + b = i <=> b = RdbBits - 1
        BY <1>1, <2>3
      <3>3. CASE b + shift \in 0 .. RdbBits - 1
        <4>1. b + shift \in r.bitmask <=>
                r.window_start + (b + shift) \in indices
          BY <3>3 DEF Window
        <4>2. r.window_start + (b + shift) = n.window_start + b
          BY <1>1, <2>2, <2>3
        <4> QED BY <3>1, <3>2, <4>1, <4>2
      <3>4. CASE b + shift \notin 0 .. RdbBits - 1
        <4>1. b + shift \notin r.bitmask
          BY <1>1, <3>4
        <4>2. n.window_start + b >= r.window_start + RdbBits
          BY <1>1, <2>2, <2>3, <3>4
        <4>3. n.window_start + b \notin indices
          BY <1>1, <2>2, <2>3, <4>2 DEF Window
        <4> QED BY <3>1, <3>2, <4>1, <4>3
      <3> QED BY <3>3, <3>4
    <2> HIDE DEF n
    <2>6. \A j \in indices \cup {i} : j < n.window_start + RdbBits
      BY <1>1, <2>2, <2>3 DEF Window
    <2>7. n.window_start + RdbBits - 1 = i
      BY <1>1, <2>3
    <2> QED BY <2>4, <2>5, <2>6, <2>7 DEF Window, n
  <1> QED BY <1>2, <1>3

(* srtp_rdb_check lets an index through only when it is new and not before
   the window. *)
LEMMA CheckFacts ==
    ASSUME NEW r \in RdbType, NEW indices \in SUBSET RtcpIndices,
           Window(r, indices), NEW i \in RtcpIndices, RdbCheck(r, i) = "ok"
    PROVE  i >= r.window_start /\ i \notin indices
  <1>1. /\ r.window_start \in Nat /\ i \in Nat /\ RdbBits \in Nat \ {0}
        /\ \A j \in indices : j \in Nat
    BY RdbAssumption DEF RdbType, RtcpIndices
  <1>2. CASE i >= r.window_start + RdbBits
    BY <1>1, <1>2 DEF Window
  <1>3. CASE ~(i >= r.window_start + RdbBits)
    <2>1. ~(i < r.window_start) /\ i - r.window_start \notin r.bitmask
      BY <1>3 DEF RdbCheck
    <2>2. i - r.window_start \in 0 .. RdbBits - 1
          /\ r.window_start + (i - r.window_start) = i
      BY <1>1, <1>3, <2>1
    <2>3. i \notin indices
      BY <2>1, <2>2 DEF Window
    <2> QED BY <1>1, <2>1, <2>3
  <1> QED BY <1>2, <1>3

(* The inductive invariant. *)
Inv == TypeOK /\ RdbExact

(* What the invariant says in each direction, and back. *)
LEMMA InvCases ==
    /\ RdbExact <=>
         /\ direction = "unknown" => rdb = RdbInit /\ accepted = {}
         /\ used = 1 .. (IF direction = "sender" THEN rdb.window_start ELSE 0)
         /\ direction = "sender" => rdb.bitmask = {} /\ accepted = {}
         /\ direction # "sender" => Window(rdb, accepted)
  BY DEF RdbExact, Window

LEMMA ProtectStep ==
    ASSUME Inv, Protect
    PROVE  Inv' /\ RtcpRecordOnce
  <1> USE DEF Calls, Statuses
  <1>1. /\ TypeOK /\ RdbExact
        /\ rdb \in RdbType /\ rdb.window_start \in Nat
        /\ rdb.window_start <= RtcpMax /\ RtcpMax \in Nat
    BY RdbAssumption DEF Inv, TypeOK, RdbType, RtcpIndices
  <1>2. CASE ProtectCollision
    BY <1>1, <1>2
       DEF ProtectCollision, Outcome, Inv, TypeOK, RdbExact, RtcpRecordOnce
  <1>s. direction # "receiver" =>
          /\ used = 1 .. rdb.window_start
          /\ rdb.bitmask = {} /\ accepted = {}
    BY <1>1 DEF TypeOK, RdbExact, RdbInit
  <1>3. ASSUME direction # "receiver", direction' = "sender",
               UNCHANGED <<rdb, used, accepted>>, last'.index = NoIndex,
               last' \in [call : Calls, status : Statuses,
                          index : RtcpIndices \cup {NoIndex}]
        PROVE  Inv' /\ RtcpRecordOnce
    BY <1>1, <1>s, <1>3 DEF Inv, TypeOK, RdbExact, RtcpRecordOnce
  <1>4. CASE ProtectMalformed
    BY <1>3, <1>4 DEF ProtectMalformed, Outcome
  <1>5. CASE ProtectExpired
    BY <1>3, <1>5 DEF ProtectExpired, Outcome, RdbIncrement
  <1>6. ASSUME NEW status \in {"ok", "cipher_fail"}, ProtectPacket(status)
        PROVE  Inv' /\ RtcpRecordOnce
    <2> DEFINE n == rdb.window_start + 1
    <2>1. rdb.window_start < RtcpMax
          /\ RdbIncrement(rdb).rdb = [rdb EXCEPT !.window_start = n]
      BY <1>1, <1>6 DEF ProtectPacket, RdbIncrement
    <2>2. /\ direction # "receiver" /\ direction' = "sender"
          /\ rdb' = [rdb EXCEPT !.window_start = n]
          /\ used' = used \cup {n} /\ accepted' = accepted
          /\ last' = [call |-> "protect", status |-> status, index |-> n]
      BY <1>1, <1>6, <2>1 DEF ProtectPacket, Outcome, RdbType
    <2>3. n \in RtcpIndices /\ n \notin 1 .. rdb.window_start
          /\ (1 .. rdb.window_start) \cup {n} = 1 .. n
      BY <1>1, <2>1 DEF RtcpIndices
    <2> HIDE DEF n
    <2>4. rdb' \in RdbType /\ rdb'.window_start = n /\ rdb'.bitmask = {}
      BY <1>1, <1>s, <2>2, <2>3 DEF RdbType
    <2>5. TypeOK'
      BY <1>1, <2>2, <2>3, <2>4 DEF TypeOK
    <2>6. RdbExact'
      BY <1>s, <2>2, <2>3, <2>4 DEF RdbExact
    <2>7. RtcpRecordOnce
      BY <1>s, <2>2, <2>3 DEF RtcpRecordOnce
    <2> QED BY <2>5, <2>6, <2>7 DEF Inv
  <1> QED BY <1>2, <1>4, <1>5, <1>6 DEF Protect

LEMMA UnprotectStep ==
    ASSUME Inv, NEW p \in Packets, Unprotect(p)
    PROVE  Inv' /\ RtcpRecordOnce
  <1> USE DEF Calls, Statuses
  <1>1. TypeOK /\ RdbExact /\ p.index \in RtcpIndices
    BY DEF Inv, Packets
  <1>2. ASSUME UNCHANGED <<rdb, direction, used, accepted>>,
               last'.index = NoIndex,
               last' \in [call : Calls, status : Statuses,
                          index : RtcpIndices \cup {NoIndex}]
        PROVE  Inv' /\ RtcpRecordOnce
    BY <1>1, <1>2 DEF Inv, TypeOK, RdbExact, RtcpRecordOnce
  <1>3. CASE UnprotectCollision
    BY <1>2, <1>3 DEF UnprotectCollision, Outcome
  <1>4. CASE UnprotectMalformed
    BY <1>2, <1>4 DEF UnprotectMalformed, Outcome
  <1>5. CASE UnprotectRefused(p)
    <2>1. RdbCheck(rdb, p.index) \in {"replay_old", "replay_fail"}
      BY <1>5 DEF UnprotectRefused, RdbCheck
    <2> QED BY <1>2, <1>5, <2>1 DEF UnprotectRefused, Outcome
  <1>6. CASE UnprotectFailed(p)
    BY <1>2, <1>6 DEF UnprotectFailed, Outcome
  <1>7. CASE UnprotectPacket(p)
    <2>1. /\ direction # "sender" /\ RdbCheck(rdb, p.index) = "ok"
          /\ direction' = "receiver"
          /\ rdb' = RdbAddIndex(rdb, p.index)
          /\ accepted' = accepted \cup {p.index} /\ used' = used
          /\ last' = [call |-> "unprotect", status |-> "ok",
                      index |-> p.index]
      BY <1>7 DEF UnprotectPacket, Outcome
    <2>2. /\ rdb \in RdbType /\ accepted \in SUBSET RtcpIndices
          /\ Window(rdb, accepted) /\ used = 1 .. 0
      BY <1>1, <2>1, InvCases DEF TypeOK
    <2>3. p.index >= rdb.window_start /\ p.index \notin accepted
      BY <1>1, <2>1, <2>2, CheckFacts
    <2>4. rdb' \in RdbType /\ Window(rdb', accepted')
      BY <1>1, <2>1, <2>2, <2>3, AddIndexFacts
    <2>5. TypeOK'
      BY <1>1, <2>1, <2>2, <2>4, Zenon DEF TypeOK
    <2>6. RdbExact'
      BY <2>1, <2>2, <2>4 DEF RdbExact, Window
    <2>7. RtcpRecordOnce
      BY <2>1, <2>2, <2>3, <1>1 DEF RtcpRecordOnce, RtcpIndices
    <2> QED BY <2>5, <2>6, <2>7 DEF Inv
  <1> QED BY <1>3, <1>4, <1>5, <1>6, <1>7 DEF Unprotect

LEMMA InvStep ==
    ASSUME Inv, [Next]_vars
    PROVE  Inv' /\ (~UNCHANGED vars => RtcpRecordOnce)
  <1> USE DEF Calls, Statuses
  <1>1. CASE Protect
    BY <1>1, ProtectStep
  <1>2. ASSUME NEW p \in Packets, Unprotect(p)
        PROVE  Inv' /\ RtcpRecordOnce
    BY <1>2, UnprotectStep
  <1>3. CASE RtpCall
    <2>1. rdb = RdbInit /\ accepted = {} /\ used = 1 .. 0
      BY <1>3 DEF Inv, RdbExact, RtpCall
    <2>2. TypeOK'
      BY <1>3 DEF Inv, TypeOK, RtpCall, Outcome
    <2>3. RdbExact' /\ RtcpRecordOnce
      BY <1>3, <2>1, RdbAssumption
         DEF RdbExact, RtpCall, Outcome, RdbInit, RtcpRecordOnce
    <2> QED BY <2>2, <2>3 DEF Inv
  <1>4. CASE Update
    BY <1>4 DEF Inv, TypeOK, RdbExact, RtcpRecordOnce, Update, Outcome
  <1>5. CASE UNCHANGED vars
    BY <1>5 DEF Inv, TypeOK, RdbExact, vars
  <1> QED BY <1>1, <1>2, <1>3, <1>4, <1>5 DEF Next

LEMMA InvInit == Init => Inv
  <1> SUFFICES ASSUME Init PROVE Inv
    OBVIOUS
  <1>1. TypeOK
    BY RdbAssumption
       DEF Init, TypeOK, RdbInit, RdbType, RtcpIndices, Outcome, Calls, Statuses
  <1>2. RdbExact
    BY RdbAssumption DEF Init, RdbExact, RdbInit
  <1> QED BY <1>1, <1>2 DEF Inv

(* The SRTCP database keeps its type (SrtcpStream!TypeOK): neither use of it
   leaves the 31 bits or the window. *)
THEOREM RtcpTypeCorrect == Spec => []TypeOK
  <1>1. Inv /\ [Next]_vars => Inv'
    BY InvStep
  <1>2. Inv => TypeOK
    BY DEF Inv
  <1> QED BY <1>1, <1>2, InvInit, PTL DEF Spec

(* A sender's counter and a receiver's window never mix, and each is exact
   (SrtcpStream!RdbExact), over RTP calls and updates. *)
THEOREM RtcpDatabaseExact == Spec => []RdbExact
  <1>1. Inv /\ [Next]_vars => Inv'
    BY InvStep
  <1>2. Inv => RdbExact
    BY DEF Inv
  <1> QED BY <1>1, <1>2, InvInit, PTL DEF Spec

(* No SRTCP index is used or accepted twice (SrtcpStream!RtcpIndexOnce), in
   particular not after the 31 bits are used up. *)
THEOREM RtcpRecordedOnce == Spec => RtcpIndexOnce
  <1>1. Inv /\ [Next]_vars => Inv'
    BY InvStep
  <1>2. Inv /\ [Next]_vars => [RtcpRecordOnce]_vars
    BY InvStep
  <1> QED BY <1>1, <1>2, InvInit, PTL DEF Spec, RtcpIndexOnce

(* A receiver refuses nothing but replays and what is a whole window late
   (SrtcpStream!RefusedForCause). *)
THEOREM RtcpRefusedForCause == Spec => []RefusedForCause
  <1>1. Inv /\ [Next]_vars => Inv'
    BY InvStep
  <1>2. Inv => RefusedForCause
    <2> SUFFICES ASSUME Inv, direction # "sender", NEW i \in RtcpIndices,
                        RdbCheck(rdb, i) # "ok"
                 PROVE  i \in accepted \/ \E j \in accepted : j >= i + RdbBits
      BY DEF RefusedForCause
    <2>1. /\ rdb.window_start \in Nat /\ i \in Nat /\ RdbBits \in Nat \ {0}
          /\ Window(rdb, accepted)
      BY RdbAssumption, InvCases DEF Inv, TypeOK, RdbType, RtcpIndices
    <2>2. CASE i < rdb.window_start
      <3>1. rdb.window_start + RdbBits - 1 \in accepted
        BY <2>1, <2>2 DEF Window
      <3>2. rdb.window_start + RdbBits - 1 >= i + RdbBits
        BY <2>1, <2>2
      <3> QED BY <3>1, <3>2
    <2>3. CASE ~(i < rdb.window_start)
      <3>1. i - rdb.window_start \in rdb.bitmask
            /\ ~(i >= rdb.window_start + RdbBits)
        BY <2>3 DEF RdbCheck
      <3>2. i - rdb.window_start \in 0 .. RdbBits - 1
            /\ rdb.window_start + (i - rdb.window_start) = i
        BY <2>1, <2>3, <3>1
      <3> QED BY <2>1, <3>1, <3>2 DEF Window
    <2> QED BY <2>2, <2>3
  <1> QED BY <1>1, <1>2, InvInit, PTL DEF Spec
================================================================================
