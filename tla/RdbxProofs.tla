------------------------------- MODULE RdbxProofs -------------------------------
(***************************************************************************)
(* What the operations of the replay database compute, for every width of  *)
(* the counters and every window.                                          *)
(***************************************************************************)
EXTENDS Rdbx, TLAPS

(* Division with remainder, as the shifts and masks of the packet index use
   it. *)
LEMMA DivMod ==
    ASSUME NEW a \in Nat, NEW b \in Nat \ {0}
    PROVE  /\ a \div b \in Nat
           /\ a % b \in 0 .. b - 1
           /\ a = (a \div b) * b + (a % b)
  OBVIOUS

(* Division is monotone. *)
LEMMA DivMonotone ==
    ASSUME NEW a \in Nat, NEW c \in Nat, NEW b \in Nat \ {0}, a <= c
    PROVE  a \div b <= c \div b
  OBVIOUS

(* The sequence number and the rollover counter of an index are what it was
   put together from. *)
LEMMA DivModUnique ==
    ASSUME NEW q \in Nat, NEW b \in Nat \ {0}, NEW r \in 0 .. b - 1
    PROVE  /\ (q * b + r) \div b = q
           /\ (q * b + r) % b = r
  OBVIOUS

(* Multiplication distributes and associates. *)
LEMMA Distribute ==
    ASSUME NEW u \in Int, NEW v \in Int, NEW m \in Int, NEW b \in Int
    PROVE  (u * m + v) * b = u * (m * b) + v * b
  OBVIOUS

(* The remainder by a product of two widths: the ROC wraps, the sequence
   number stays. *)
LEMMA ModProduct ==
    ASSUME NEW x \in Nat, NEW m \in Nat \ {0}, NEW b \in Nat \ {0},
           NEW r \in 0 .. b - 1
    PROVE  (x * b + r) % (m * b) = (x % m) * b + r
  <1> DEFINE q == x \div m
             t == (x % m) * b + r
  <1>1. q \in Nat /\ x % m \in 0 .. m - 1 /\ x = q * m + (x % m)
    BY DivMod, Zenon
  <1>2. m * b \in Nat \ {0}
    OBVIOUS
  <1>3. t \in 0 .. (m * b) - 1
    <2>1. (x % m) * b <= (m - 1) * b
      BY <1>1
    <2>2. (m - 1) * b = m * b - b
      OBVIOUS
    <2>3. (x % m) * b \in Nat
      BY <1>1
    <2> QED BY <2>1, <2>2, <2>3
  <1>4. x * b + r = q * (m * b) + t
    <2> DEFINE u == x % m
    <2>1. x * b = (q * m + u) * b /\ q \in Int /\ u \in Int /\ m \in Int /\ b \in Int
      BY <1>1
    <2>2. (q * m + u) * b = q * (m * b) + u * b
      <3> HIDE DEF q, u
      <3> QED BY <2>1, Distribute
    <2> DEFINE v == q * (m * b)
               w == u * b
    <2>3. v \in Int /\ w \in Int /\ r \in Int /\ x * b = v + w
      BY <2>1, <2>2
    <2> HIDE DEF v, w
    <2>4. (v + w) + r = v + (w + r)
      BY <2>3
    <2> QED BY <2>3, <2>4, Zenon DEF v, w
  <1>5. (q * (m * b) + t) % (m * b) = t
    <2> DEFINE n == m * b
    <2>1. q \in Nat /\ n \in Nat \ {0} /\ t \in 0 .. n - 1
      BY <1>1, <1>2, <1>3
    <2> HIDE DEF q, t, n
    <2>2. (q * n + t) % n = t
      BY <2>1, DivModUnique, Zenon
    <2> QED BY <2>2 DEF n
  <1> QED BY <1>4, <1>5, Zenon

(* Stepping a wrapped counter by one, up or down, and wrapping it again. *)
LEMMA ModStep ==
    ASSUME NEW q \in Nat, NEW m \in Nat \ {0}, NEW d \in {-1, 0, 1}, q + d >= 0
    PROVE  ((q % m) + d) % m = (q + d) % m
  <1> DEFINE k == q \div m
             r == q % m
  <1>1. k \in Nat /\ r \in 0 .. m - 1 /\ q = k * m + r
    BY DivMod, Zenon
  <1>2. CASE r + d \in 0 .. m - 1
    <2>1. q + d = k * m + (r + d)
      BY <1>1
    <2>2. (k * m + (r + d)) % m = r + d
      <3> DEFINE l == r + d
      <3> HIDE DEF k, l
      <3>1. (k * m + l) % m = l
        BY <1>1, <1>2, DivModUnique, Zenon DEF l
      <3> QED BY <3>1 DEF l
    <2>3. (r + d) % m = r + d
      BY <1>2
    <2> QED BY <2>1, <2>2, <2>3
  <1>3. CASE r + d = m
    <2>1. q + d = (k + 1) * m + 0
      BY <1>1, <1>3
    <2>2. ((k + 1) * m + 0) % m = 0
      BY <1>1, DivModUnique
    <2>3. (1 * m + 0) % m = 0
      BY DivModUnique
    <2> QED BY <2>1, <2>2, <2>3, <1>3
  <1>4. CASE r + d = -1
    <2>1. k # 0
      BY <1>1, <1>4
    <2>2. q + d = (k - 1) * m + (m - 1)
      BY <1>1, <1>4
    <2>3. ((k - 1) * m + (m - 1)) % m = m - 1
      <3> DEFINE j == k - 1
                 l == m - 1
      <3>1. j \in Nat /\ l \in 0 .. m - 1
        BY <1>1, <2>1
      <3> HIDE DEF j, l
      <3>2. (j * m + l) % m = l
        BY <3>1, DivModUnique
      <3> QED BY <3>2 DEF j, l
    <2>4. (-1) % m = m - 1
      OBVIOUS
    <2> QED BY <2>2, <2>3, <2>4, <1>4
  <1> QED BY <1>1, <1>2, <1>3, <1>4

-----------------------------------------------------------------------------
(* srtp_index_guess above the median: the guess lies within a median of the
   local index, its sequence number is the one asked for, the ROC never goes
   below zero, and the 48 bits of the guess are those of local + delta. *)
LEMMA GuessFacts ==
    ASSUME NEW local \in Nat, local > SeqMedian, NEW s \in Seqs
    PROVE  LET g == IndexGuess(local, s)
           IN  /\ g.delta \in -SeqMedian .. SeqMedian
               /\ g.guess \in Nat
               /\ local + g.delta \in Nat
               /\ (local + g.delta) % SeqMax = s
               /\ g.guess = (local + g.delta) % IndexSpace
  <1> DEFINE q == local \div SeqMax
             ls == local % SeqMax
             step == IF ls < SeqMedian
                     THEN IF s - ls > SeqMedian THEN -1 ELSE 0
                     ELSE IF ls - SeqMedian > s THEN 1 ELSE 0
             g == IndexGuess(local, s)
             x == q + step
  <1>1. SeqMedian \in Nat \ {0} /\ SeqMax \in Nat \ {0} /\ RocMax \in Nat \ {0}
        /\ SeqMax = SeqMedian + SeqMedian /\ s \in 0 .. SeqMax - 1
    BY RdbxAssumption DEF SeqMax, Seqs
  <1>2. q \in Nat /\ ls \in 0 .. SeqMax - 1 /\ local = q * SeqMax + ls
    BY <1>1, DivMod, Zenon
  <1>3. step \in {-1, 0, 1}
    OBVIOUS
  <1>4. /\ g.delta = s - ls + step * SeqMax
        /\ g.guess = (((q % RocMax) + step) % RocMax) * SeqMax + s
    BY DEF IndexGuess
  <1> HIDE DEF q, ls, g
  <1>5. g.delta \in -SeqMedian .. SeqMedian
    BY <1>1, <1>2, <1>4
  <1>6. x \in Nat
    <2>1. CASE q = 0
      <3>1. ls = local
        BY <1>1, <1>2, <2>1
      <3> QED BY <1>1, <1>2, <3>1, <2>1
    <2>2. CASE q # 0
      BY <1>2, <1>3, <2>2
    <2> QED BY <2>1, <2>2
  <1>7. local + g.delta = x * SeqMax + s
    BY <1>1, <1>2, <1>4
  <1> HIDE DEF step
  <1>8. ((q % RocMax) + step) % RocMax = x % RocMax
    <2>1. q \in Nat /\ RocMax \in Nat \ {0} /\ q + step >= 0
      BY <1>1, <1>2, <1>6
    <2> QED BY <2>1, <1>3, ModStep, Zenon
  <1> HIDE DEF x
  <1>9. (x * SeqMax + s) % IndexSpace = (x % RocMax) * SeqMax + s
    <2>1. SeqMax \in Nat \ {0} /\ RocMax \in Nat \ {0} /\ s \in 0 .. SeqMax - 1
      BY <1>1
    <2> QED BY <2>1, <1>6, ModProduct, Zenon DEF IndexSpace
  <1>10. (x * SeqMax + s) % SeqMax = s
    BY <1>1, <1>6, DivModUnique
  <1>11. x * SeqMax + s \in Nat /\ (x % RocMax) * SeqMax + s \in Nat
    <2>1. x % RocMax \in Nat
      BY <1>1, <1>6
    <2> QED BY <1>1, <1>6, <2>1
  <1> QED BY <1>4, <1>5, <1>7, <1>8, <1>9, <1>10, <1>11 DEF g

(* srtp_rdbx_estimate_index: the same from any index, but for the deltas of a
   young stream, which reach almost one rollover ahead. *)
LEMMA EstimateFacts ==
    ASSUME NEW rdbx \in RdbxType, NEW s \in Seqs
    PROVE  LET g == RdbxEstimateIndex(rdbx, s)
           IN  /\ g.delta \in -SeqMedian .. SeqMax - 1
               /\ g.guess \in Nat
               /\ rdbx.index + g.delta \in Nat
               /\ (rdbx.index + g.delta) % SeqMax = s
               /\ g.guess = (rdbx.index + g.delta) % IndexSpace
  <1>1. SeqMedian \in Nat \ {0} /\ SeqMax \in Nat \ {0} /\ RocMax \in Nat \ {0}
        /\ SeqMax = SeqMedian + SeqMedian /\ s \in 0 .. SeqMax - 1
        /\ rdbx.index \in Nat
    BY RdbxAssumption DEF SeqMax, Seqs, RdbxType
  <1>2. CASE rdbx.index > SeqMedian
    BY <1>1, <1>2, GuessFacts DEF RdbxEstimateIndex
  <1>3. CASE ~(rdbx.index > SeqMedian)
    <2>1. RdbxEstimateIndex(rdbx, s) = [guess |-> s, delta |-> s - rdbx.index]
      BY <1>3 DEF RdbxEstimateIndex
    <2>2. rdbx.index + (s - rdbx.index) = s
      BY <1>1
    <2>3. s - rdbx.index \in -SeqMedian .. SeqMax - 1
      BY <1>1, <1>3
    <2>4. IndexSpace \in Nat /\ SeqMax <= IndexSpace
      BY <1>1 DEF IndexSpace
    <2>5. s % IndexSpace = s /\ s % SeqMax = s
      BY <1>1, <2>4
    <2> QED BY <1>1, <2>1, <2>2, <2>3, <2>4, <2>5
  <1> QED BY <1>2, <1>3

-----------------------------------------------------------------------------
(* srtp_rdbx_check on an exact database: an index it lets through is new, and
   an index it does not call too old is in the window or above it. *)
LEMMA CheckFacts ==
    ASSUME NEW rdbx \in RdbxType, NEW indices \in SUBSET Int,
           Exact(rdbx, indices), NEW delta \in Int
    PROVE  /\ RdbxCheck(rdbx, delta) = "ok" => rdbx.index + delta \notin indices
           /\ RdbxCheck(rdbx, delta) # "replay_old" =>
                 delta > 0 \/ (WindowSize - 1) + delta >= 0
  <1>1. rdbx.index \in Nat /\ WindowSize \in Nat \ {0}
    BY RdbxAssumption DEF RdbxType
  <1>2. RdbxCheck(rdbx, delta) # "replay_old" =>
                 delta > 0 \/ (WindowSize - 1) + delta >= 0
    BY <1>1 DEF RdbxCheck
  <1>3. ASSUME RdbxCheck(rdbx, delta) = "ok"
        PROVE  rdbx.index + delta \notin indices
    <2>1. CASE delta > 0
      <3>1. rdbx.index + delta > rdbx.index
        BY <1>1, <2>1
      <3> QED BY <1>1, <3>1 DEF Exact
    <2>2. CASE ~(delta > 0)
      <3> DEFINE b == (WindowSize - 1) + delta
      <3>1. b \in Bits /\ b \notin rdbx.bitmask
        BY <1>1, <1>3, <2>2 DEF RdbxCheck, Bits
      <3>2. rdbx.index - (WindowSize - 1) + b = rdbx.index + delta
        BY <1>1
      <3> HIDE DEF b
      <3> QED BY <3>1, <3>2 DEF Exact
    <2> QED BY <2>1, <2>2
  <1> QED BY <1>2, <1>3

(* srtp_rdbx_add_index keeps the database exact, whether it moves the window
   or sets a bit in it; the cast of delta to 16 bits loses nothing. *)
LEMMA AddIndexFacts ==
    ASSUME NEW rdbx \in RdbxType, NEW indices \in SUBSET Int,
           Exact(rdbx, indices), NEW delta \in Int,
           delta < SeqMax, rdbx.index + delta \in Nat,
           delta > 0 \/ (WindowSize - 1) + delta >= 0
    PROVE  LET r == RdbxAddIndex(rdbx, delta)
           IN  /\ r \in RdbxType
               /\ r.index = IF delta > 0 THEN rdbx.index + delta ELSE rdbx.index
               /\ Exact(r, indices \cup {rdbx.index + delta})
  <1> DEFINE r == RdbxAddIndex(rdbx, delta)
             new == rdbx.index + delta
  <1>1. /\ rdbx.index \in Nat /\ rdbx.bitmask \subseteq Bits
        /\ WindowSize \in Nat \ {0} /\ SeqMax \in Nat
    BY RdbxAssumption DEF RdbxType, SeqMax
  <1>2. WindowSize - 1 \in Bits
    BY <1>1 DEF Bits
  <1>3. CASE delta > 0
    <2>1. delta % SeqMax = delta
      BY <1>1, <1>3
    <2>2. r = [index |-> new,
               bitmask |-> LeftShift(rdbx.bitmask, delta) \cup {WindowSize - 1}]
      BY <1>3, <2>1, Zenon DEF RdbxAddIndex
    <2>3. r \in RdbxType
      BY <1>2, <2>2 DEF RdbxType, LeftShift
    <2>4. \A i \in indices \cup {new} : i <= r.index
      BY <1>1, <1>3, <2>2 DEF Exact
    <2>5. ASSUME NEW b \in Bits
          PROVE  b \in r.bitmask <=>
                   r.index - (WindowSize - 1) + b \in indices \cup {new}
      <3>1. b \in Int /\ b <= WindowSize - 1
        BY <1>1 DEF Bits
      <3>2. CASE b = WindowSize - 1
        BY <1>1, <1>2, <2>2, <3>2
      <3>3. CASE b # WindowSize - 1 /\ b + delta \in Bits
        <4>1. b + delta \in rdbx.bitmask <=>
                rdbx.index - (WindowSize - 1) + (b + delta) \in indices
          BY <3>3 DEF Exact
        <4>2. rdbx.index - (WindowSize - 1) + (b + delta)
                = new - (WindowSize - 1) + b
          BY <1>1, <3>1
        <4>3. new - (WindowSize - 1) + b # new
          BY <1>1, <3>1, <3>3
        <4> QED BY <2>2, <3>3, <4>1, <4>2, <4>3 DEF LeftShift
      <3>4. CASE b # WindowSize - 1 /\ b + delta \notin Bits
        <4>1. b + delta > WindowSize - 1
          BY <1>1, <1>3, <3>4 DEF Bits
        <4>2. new - (WindowSize - 1) + b > rdbx.index
          BY <1>1, <3>1, <4>1
        <4>3. new - (WindowSize - 1) + b \notin indices
          <5>1. \A i \in indices : ~(i > rdbx.index)
            BY <1>1 DEF Exact
          <5> QED BY <4>2, <5>1, Zenon
        <4>4. new - (WindowSize - 1) + b # new
          BY <1>1, <3>1, <3>4
        <4> QED BY <1>1, <2>2, <3>4, <4>3, <4>4 DEF LeftShift
      <3> QED BY <3>2, <3>3, <3>4
    <2> QED BY <1>3, <2>2, <2>3, <2>4, <2>5 DEF Exact
  <1>4. CASE ~(delta > 0)
    <2> DEFINE c == WindowSize - 1 + delta
    <2>1. c \in Bits
      BY <1>1, <1>4 DEF Bits
    <2>2. r = [rdbx EXCEPT !.bitmask = rdbx.bitmask \cup {c}]
      BY <1>4 DEF RdbxAddIndex
    <2>3. r \in RdbxType /\ r.index = rdbx.index
          /\ r.bitmask = rdbx.bitmask \cup {c}
      BY <2>1, <2>2 DEF RdbxType
    <2>4. \A i \in indices \cup {new} : i <= r.index
      <3>1. new <= rdbx.index
        BY <1>1, <1>4
      <3> HIDE DEF new, r
      <3> QED BY <2>3, <3>1 DEF Exact
    <2>5. ASSUME NEW b \in Bits
          PROVE  b \in r.bitmask <=>
                   r.index - (WindowSize - 1) + b \in indices \cup {new}
      <3>1. b \in Int
        BY <1>1 DEF Bits
      <3>2. b = c <=> rdbx.index - (WindowSize - 1) + b = new
        BY <1>1, <3>1
      <3>3. b \in rdbx.bitmask <=>
              rdbx.index - (WindowSize - 1) + b \in indices
        BY DEF Exact
      <3> HIDE DEF c, new
      <3> QED BY <2>3, <3>2, <3>3
    <2> QED BY <1>4, <2>3, <2>4, <2>5 DEF Exact
  <1> QED BY <1>3, <1>4

(* A jump of more than a median: srtp_rdbx_set_roc_seq does not refuse, the
   cleared window hides nothing because all of it lies behind the new one, and
   the index is new. *)
LEMMA JumpFacts ==
    ASSUME NEW rdbx \in RdbxType, NEW indices \in SUBSET Int,
           Exact(rdbx, indices), NEW est \in Nat, est - rdbx.index > SeqMedian
    PROVE  LET r == RdbxAddIndex(
                      RdbxSetRocSeq(rdbx, est \div SeqMax, est % SeqMax), 0)
           IN  /\ r \in RdbxType
               /\ r.index = est
               /\ Exact(r, indices \cup {est})
               /\ est \notin indices
  <1> DEFINE m == RdbxSetRocSeq(rdbx, est \div SeqMax, est % SeqMax)
             r == RdbxAddIndex(m, 0)
  <1>1. /\ rdbx.index \in Nat /\ rdbx.bitmask \subseteq Bits
        /\ SeqMax \in Nat \ {0}
    BY RdbxAssumption DEF RdbxType, SeqMax
  <1>2. WindowSize \in Nat \ {0} /\ SeqMedian \in Nat /\ WindowSize <= SeqMedian
    BY RdbxAssumption
  <1>3. rdbx.index \div SeqMax <= est \div SeqMax
    <2>1. rdbx.index <= est
      BY <1>1, <1>2
    <2> QED BY <1>1, <2>1, DivMonotone
  <1>4. (est \div SeqMax) * SeqMax + (est % SeqMax) = est
    BY <1>1, DivMod
  <1>5. m = [index |-> est, bitmask |-> {}]
    <2>1. ~(est \div SeqMax < rdbx.index \div SeqMax)
      BY <1>1, <1>3, DivMod
    <2> QED BY <1>4, <2>1, Zenon DEF RdbxSetRocSeq
  <1>6. r = [index |-> est, bitmask |-> {WindowSize - 1}]
    <2> HIDE DEF m
    <2>1. r = [m EXCEPT !.bitmask = m.bitmask \cup {WindowSize - 1 + 0}]
      BY DEF RdbxAddIndex
    <2>2. WindowSize - 1 + 0 = WindowSize - 1
      BY <1>2
    <2> HIDE DEF r
    <2> QED BY <1>5, <2>1, <2>2, Zenon
  <1>7. r \in RdbxType
    BY <1>2, <1>6 DEF RdbxType, Bits
  <1>8. \A i \in indices : i <= rdbx.index
    BY DEF Exact
  <1>9. est \notin indices /\ \A i \in indices \cup {est} : i <= est
    BY <1>1, <1>2, <1>8
  <1>10. ASSUME NEW b \in Bits
         PROVE  b \in {WindowSize - 1} <=>
                  est - (WindowSize - 1) + b \in indices \cup {est}
    <2>1. b \in Nat /\ b <= WindowSize - 1
      BY <1>2 DEF Bits
    <2>2. est - (WindowSize - 1) + b > rdbx.index
      BY <1>1, <1>2, <2>1
    <2>3. est - (WindowSize - 1) + b \notin indices
      BY <1>1, <1>2, <1>8, <2>1, <2>2
    <2>4. est - (WindowSize - 1) + b = est <=> b = WindowSize - 1
      BY <1>2, <2>1
    <2> QED BY <2>3, <2>4
  <1> QED BY <1>6, <1>7, <1>9, <1>10 DEF Exact

(* Every database is exact for the indices its own bits stand for. *)
LEMMA SelfExact ==
    ASSUME NEW rdbx \in RdbxType
    PROVE  \E indices \in SUBSET Int : Exact(rdbx, indices)
  <1> DEFINE H == {i \in Int : i - rdbx.index + (WindowSize - 1) \in rdbx.bitmask}
  <1>1. rdbx.index \in Nat /\ rdbx.bitmask \subseteq Bits /\ WindowSize \in Nat
    BY RdbxAssumption DEF RdbxType
  <1>2. \A i \in H : i <= rdbx.index
    BY <1>1 DEF Bits
  <1>3. ASSUME NEW b \in Bits
        PROVE  b \in rdbx.bitmask <=> rdbx.index - (WindowSize - 1) + b \in H
    <2> DEFINE i == rdbx.index - (WindowSize - 1) + b
    <2>1. i \in Int /\ i - rdbx.index + (WindowSize - 1) = b
      BY <1>1 DEF Bits
    <2> HIDE DEF i
    <2>2. b \in rdbx.bitmask <=> i \in H
      BY <2>1
    <2> QED BY <2>2 DEF i
  <1>4. Exact(rdbx, H)
    BY <1>2, <1>3 DEF Exact
  <1>5. H \in SUBSET Int
    OBVIOUS
  <1> HIDE DEF H
  <1> QED BY <1>4, <1>5
================================================================================
