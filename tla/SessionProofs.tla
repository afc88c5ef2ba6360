------------------------------ MODULE SessionProofs ------------------------------
(***************************************************************************)
(* The ownership of memory in a session, for any number of streams and     *)
(* any set of failing allocations.                                         *)
(***************************************************************************)
EXTENDS Session, SequenceTheorems, WellFoundedInduction, TLAPS

(* A set of naturals that is not empty has a least element. *)
LEMMA LeastExists ==
    ASSUME NEW T, T \subseteq Nat, T # {}
    PROVE  Min(T) \in T
  <1> DEFINE Below == {s \in Nat \X Nat : s[1] < s[2]}
  <1>1. OpToRel(<, Nat) = Below
    BY DEF OpToRel
  <1>2. PICK x \in T : \A y \in T : ~(<<y, x>> \in Below)
    <2>1. IsWellFoundedOn(Below, Nat)
      BY <1>1, NatLessThanWellFounded, Zenon
    <2> HIDE DEF Below
    <2> QED BY <2>1, WFMin, Zenon
  <1>3. ASSUME NEW y \in T PROVE x <= y
    <2>1. x \in Nat /\ y \in Nat
      OBVIOUS
    <2>2. y < x => <<y, x>> \in Below
      BY <2>1
    <2>3. ~(y < x)
      BY <1>2, <2>2, Zenon
    <2> QED BY <2>1, <2>3
  <1>4. \E z \in T : \A y \in T : z =< y
    BY <1>3, Zenon
  <1> QED BY <1>4, Zenon DEF Min

-----------------------------------------------------------------------------
(* The stream list *)

(* A list in which no context stands twice. *)
Simple(l) ==
    /\ l \in Seq(Ids)
    /\ \A i, j \in DOMAIN l : l[i] = l[j] => i = j

LEMMA EmptySimple == Simple(<<>>) /\ Range(<<>>) = {}
  BY DEF Simple, Range

LEMMA AppendSimple ==
    ASSUME NEW l, Simple(l), NEW f \in Ids, f \notin Range(l)
    PROVE  /\ Simple(Append(l, f))
           /\ Range(Append(l, f)) = Range(l) \cup {f}
  <1> DEFINE m == Append(l, f)
  <1>1. l \in Seq(Ids) /\ Len(l) \in Nat /\ DOMAIN l = 1 .. Len(l)
    BY DEF Simple
  <1>2. /\ m \in Seq(Ids) /\ DOMAIN m = 1 .. Len(l) + 1
        /\ \A i \in 1 .. Len(l) : m[i] = l[i]
        /\ m[Len(l) + 1] = f
    BY <1>1
  <1> HIDE DEF m
  <1>3. \A i \in DOMAIN l : l[i] # f
    BY DEF Range
  <1>4. Simple(m)
    BY <1>1, <1>2, <1>3 DEF Simple
  <1>5. Range(m) = Range(l) \cup {f}
    <2>1. DOMAIN m = DOMAIN l \cup {Len(l) + 1}
      BY <1>1, <1>2
    <2>2. \A i \in DOMAIN l : m[i] = l[i]
      BY <1>1, <1>2
    <2>3. \A x : (\E i \in DOMAIN m : x = m[i])
                   <=> (\E i \in DOMAIN l : x = l[i]) \/ x = f
      BY <1>2, <2>1, <2>2
    <2> QED BY <2>3, ZenonT(60) DEF Range
  <1> QED BY <1>4, <1>5 DEF m

(* The entries behind the first n, one by one *)
LEMMA BehindFacts ==
    ASSUME NEW l \in Seq(Ids), NEW n \in DOMAIN l
    PROVE  LET m == SubSeq(l, n + 1, Len(l))
           IN  /\ m \in Seq(Ids) /\ Len(m) = Len(l) - n
               /\ DOMAIN m = 1 .. Len(l) - n
               /\ \A i \in 1 .. Len(l) - n : m[i] = l[i + n]
  <1> DEFINE m == SubSeq(l, n + 1, Len(l))
  <1>1. /\ Len(l) \in Nat /\ n \in Nat /\ 1 <= n /\ n <= Len(l)
        /\ n + 1 \in Int /\ Len(l) \in Int
    OBVIOUS
  <1>2. \A i \in n + 1 .. Len(l) : l[i] \in Ids
    OBVIOUS
  <1>3. ASSUME NEW a \in Int, NEW b \in Int, \A i \in a .. b : l[i] \in Ids
        PROVE  /\ SubSeq(l, a, b) \in Seq(Ids)
               /\ Len(SubSeq(l, a, b)) = IF a <= b THEN b - a + 1 ELSE 0
               /\ \A i \in 1 .. b - a + 1 : SubSeq(l, a, b)[i] = l[a + i - 1]
    BY <1>3, SubSeqProperties
  <1>4. /\ m \in Seq(Ids)
        /\ Len(m) = (IF n + 1 <= Len(l) THEN Len(l) - (n + 1) + 1 ELSE 0)
        /\ \A i \in 1 .. Len(l) - (n + 1) + 1 : m[i] = l[n + 1 + i - 1]
    BY <1>1, <1>2, <1>3, Zenon
  <1> HIDE DEF m
  <1>5. Len(m) = Len(l) - n
    BY <1>1, <1>4
  <1>6. DOMAIN m = 1 .. Len(m)
    BY <1>4
  <1>7. ASSUME NEW i \in 1 .. Len(l) - n PROVE m[i] = l[i + n]
    <2>1. i \in 1 .. Len(l) - (n + 1) + 1 /\ n + 1 + i - 1 = i + n
      BY <1>1
    <2> QED BY <1>4, <2>1, Zenon
  <1> QED BY <1>4, <1>5, <1>6, <1>7, Zenon DEF m

(* What is left of a list behind its first n entries. *)
LEMMA TailSimple ==
    ASSUME NEW l, Simple(l), NEW n \in DOMAIN l
    PROVE  LET m == SubSeq(l, n + 1, Len(l))
           IN  /\ Simple(m)
               /\ Range(m) = Range(l) \ {l[i] : i \in 1 .. n}
  <1> DEFINE m == SubSeq(l, n + 1, Len(l))
  <1>1. l \in Seq(Ids) /\ Len(l) \in Nat /\ DOMAIN l = 1 .. Len(l)
        /\ n \in Nat /\ n >= 1 /\ n <= Len(l)
    BY DEF Simple
  <1>2. /\ m \in Seq(Ids) /\ DOMAIN m = 1 .. Len(l) - n
        /\ \A i \in 1 .. Len(l) - n : m[i] = l[i + n]
    BY <1>1, BehindFacts, Zenon
  <1> HIDE DEF m
  <1>3. Simple(m)
    <2> SUFFICES ASSUME NEW i \in DOMAIN m, NEW j \in DOMAIN m, m[i] = m[j]
                 PROVE  i = j
      BY <1>2 DEF Simple
    <2>1. l[i + n] = l[j + n] /\ i + n \in DOMAIN l /\ j + n \in DOMAIN l
      BY <1>1, <1>2
    <2>2. i + n = j + n
      BY <2>1, Zenon DEF Simple
    <2> QED BY <1>1, <1>2, <2>2
  <1>4. ASSUME NEW x \in Range(m)
        PROVE  x \in Range(l) \ {l[i] : i \in 1 .. n}
    <2>1. PICK i \in DOMAIN m : x = m[i]
      BY DEF Range
    <2>2. x = l[i + n] /\ i + n \in DOMAIN l /\ i + n > n
      BY <1>1, <1>2, <2>1
    <2>3. ASSUME NEW j \in 1 .. n, x = l[j] PROVE FALSE
      <3>1. j \in DOMAIN l /\ j # i + n
        BY <1>1, <1>2, <2>2
      <3> QED BY <2>2, <2>3, <3>1, Zenon DEF Simple
    <2> QED BY <2>2, <2>3, Zenon DEF Range
  <1>5. ASSUME NEW x \in Range(l) \ {l[i] : i \in 1 .. n}
        PROVE  x \in Range(m)
    <2>1. PICK i \in DOMAIN l : x = l[i]
      BY DEF Range
    <2>2. i \notin 1 .. n
      BY <2>1
    <2>3. i - n \in DOMAIN m /\ m[i - n] = l[(i - n) + n] /\ (i - n) + n = i
      BY <1>1, <1>2, <2>2
    <2> QED BY <2>1, <2>3 DEF Range
  <1>6. Range(m) = Range(l) \ {l[i] : i \in 1 .. n}
    BY <1>4, <1>5, Zenon
  <1> QED BY <1>3, <1>6 DEF m

LEMMA RemovedSimple ==
    ASSUME NEW l, Simple(l), NEW n \in DOMAIN l
    PROVE  /\ Simple(Removed(l, n))
           /\ Range(Removed(l, n)) = Range(l) \ {l[n]}
  <1> DEFINE m == Removed(l, n)
             From(i) == IF i < n THEN i ELSE i + 1
  <1>1. l \in Seq(Ids) /\ Len(l) \in Nat /\ DOMAIN l = 1 .. Len(l)
        /\ n \in Nat /\ n >= 1 /\ n <= Len(l)
    BY DEF Simple
  <1>2. /\ m \in Seq(Ids) /\ DOMAIN m = 1 .. Len(l) - 1
        /\ \A i \in 1 .. Len(l) - 1 : m[i] = l[From(i)]
    <2> DEFINE a == SubSeq(l, 1, n - 1)
               b == SubSeq(l, n + 1, Len(l))
    <2>1. /\ a \in Seq(Ids) /\ Len(a) = n - 1
          /\ \A i \in 1 .. n - 1 : a[i] = l[i]
      BY <1>1
    <2>2. /\ b \in Seq(Ids) /\ Len(b) = Len(l) - n
          /\ \A i \in 1 .. Len(l) - n : b[i] = l[i + n]
      BY <1>1, BehindFacts, Zenon
    <2>3. m = a \o b
      BY DEF Removed
    <2> HIDE DEF a, b, m
    <2>4. /\ a \o b \in Seq(Ids) /\ Len(a \o b) = Len(l) - 1
          /\ \A i \in 1 .. Len(l) - 1 :
               (a \o b)[i] = IF i <= n - 1 THEN a[i] ELSE b[i - (n - 1)]
      <3>1. n - 1 \in Nat /\ Len(l) - n \in Nat
            /\ (n - 1) + (Len(l) - n) = Len(l) - 1
        BY <1>1
      <3>2. /\ a \o b \in Seq(Ids)
            /\ Len(a \o b) = Len(a) + Len(b)
            /\ \A i \in 1 .. Len(a) + Len(b) :
                 (a \o b)[i] = IF i <= Len(a) THEN a[i] ELSE b[i - Len(a)]
        <4>1. a \in Seq(Ids) /\ b \in Seq(Ids)
          BY <2>1, <2>2
        <4> QED BY <4>1, ConcatProperties, Zenon
      <3>3. Len(a) = n - 1 /\ Len(a) + Len(b) = Len(l) - 1
        BY <2>1, <2>2, <3>1
      <3> QED BY <3>2, <3>3, Zenon
    <2>5. ASSUME NEW i \in 1 .. Len(l) - 1 PROVE m[i] = l[From(i)]
      <3>1. CASE i < n
        <4>1. i \in 1 .. n - 1 /\ i <= n - 1
          BY <1>1, <3>1
        <4> QED BY <2>1, <2>3, <2>4, <3>1, <4>1
      <3>2. CASE ~(i < n)
        <4>1. i - (n - 1) \in 1 .. Len(l) - n /\ ~(i <= n - 1)
              /\ (i - (n - 1)) + n = i + 1
          BY <1>1, <3>2
        <4>2. m[i] = b[i - (n - 1)]
          BY <2>3, <2>4, <4>1, Zenon
        <4>3. b[i - (n - 1)] = l[(i - (n - 1)) + n]
          BY <2>2, <4>1
        <4> QED BY <3>2, <4>1, <4>2, <4>3
      <3> QED BY <3>1, <3>2
    <2> QED BY <2>3, <2>4, <2>5
  <1> HIDE DEF m
  <1>3. \A i \in DOMAIN m : From(i) \in DOMAIN l /\ From(i) # n /\ m[i] = l[From(i)]
    BY <1>1, <1>2
  <1>4. \A i, j \in DOMAIN m : From(i) = From(j) => i = j
    BY <1>1, <1>2
  <1>5. \A i \in DOMAIN l : i # n => \E j \in DOMAIN m : From(j) = i
    <2> SUFFICES ASSUME NEW i \in DOMAIN l, i # n
                 PROVE  \E j \in DOMAIN m : From(j) = i
      OBVIOUS
    <2>1. CASE i < n
      <3>1. i \in DOMAIN m /\ From(i) = i
        BY <1>1, <1>2, <2>1
      <3> QED BY <3>1
    <2>2. CASE i > n
      <3>1. i - 1 \in DOMAIN m /\ From(i - 1) = i
        BY <1>1, <1>2, <2>2
      <3> QED BY <3>1
    <2> QED BY <1>1, <2>1, <2>2
  <1> HIDE DEF From
  <1>6. Simple(m)
    BY <1>2, <1>3, <1>4, Zenon DEF Simple
  <1>7. Range(m) = Range(l) \ {l[n]}
    <2>1. ASSUME NEW x \in Range(m) PROVE x \in Range(l) \ {l[n]}
      <3>1. PICK i \in DOMAIN m : x = m[i]
        BY Zenon DEF Range
      <3>2. From(i) \in DOMAIN l /\ From(i) # n /\ x = l[From(i)]
        BY <1>3, <3>1
      <3>3. l[From(i)] # l[n]
        BY <3>2, Zenon DEF Simple
      <3> QED BY <3>2, <3>3, Zenon DEF Range
    <2>2. ASSUME NEW x \in Range(l) \ {l[n]} PROVE x \in Range(m)
      <3>1. PICK i \in DOMAIN l : x = l[i]
        BY Zenon DEF Range
      <3>2. i # n
        BY <3>1
      <3>3. PICK j \in DOMAIN m : From(j) = i
        BY <1>5, <3>2
      <3>4. x = m[j]
        BY <1>3, <3>1, <3>3
      <3> QED BY <3>4, Zenon DEF Range
    <2> QED BY <2>1, <2>2, Zenon
  <1> QED BY <1>6, <1>7 DEF m

-----------------------------------------------------------------------------
(* The memory *)

(* No call of the session leaks: the failures of UpdateTemplateFails leave the
   new template's key material behind. *)
Tidy == Failures \cap {"template_init", "list"} = {}

Cells(L, t) == L \cup ({t} \ {Nil})

(* The contexts of the list L and the template t, and the key material: what a
   context refers to is allocated, if no call leaks nothing else is, and only
   the template's is shared. *)
Memory(L, t, st, ks) ==
    /\ L \subseteq Ids /\ t \in Ids \cup {Nil} /\ t \notin L
    /\ st \in [Cells(L, t) -> StreamType]
    /\ \A id \in Cells(L, t) : st[id].keys \in ks
    /\ Tidy => \A k \in ks : \E id \in Cells(L, t) : st[id].keys = k
    /\ \A id, other \in Cells(L, t) :
          id # other /\ st[id].keys = st[other].keys =>
              t # Nil /\ st[id].keys = st[t].keys

LEMMA NilIsNoId == Nil \notin Ids
  BY SessionAssumption DEF Nil

LEMMA FreshFacts ==
    ASSUME Available # {}
    PROVE  Fresh \in Ids /\ Fresh \notin DOMAIN stream /\ Fresh \notin keys
  <1>1. Available \subseteq Nat
    BY SessionAssumption, Zenon DEF Available
  <1>2. Min(Available) \in Available
    <2>1. \A T : T \subseteq Nat /\ T # {} => Min(T) \in T
      BY LeastExists, Zenon
    <2> QED BY <1>1, <2>1, Zenon
  <1> QED BY <1>2, Zenon DEF Fresh, Available

(* srtp_stream_dealloc on some streams of the list. *)
LEMMA FreeKeeps ==
    ASSUME NEW L, Memory(L, template, stream, keys), NEW gone \in SUBSET L
    PROVE  /\ Memory(L \ gone, template, Without(gone),
                     keys \ Freed(gone, template))
           /\ ~BadFree(gone, template)
  <1> DEFINE C == Cells(L, template)
             D == Cells(L \ gone, template)
             st == Without(gone)
             free == Freed(gone, template)
  <1>1. /\ DOMAIN stream = C /\ D = C \ gone /\ D \subseteq C /\ gone \subseteq C
        /\ template # Nil => template \in D
    BY Zenon DEF Memory, Cells
  <1>2. DOMAIN st = D /\ \A id \in D : st[id] = stream[id]
    BY <1>1 DEF Without
  <1>3. \A k : k \in free <=> \E i \in gone : /\ k = stream[i].keys
                                              /\ \/ template = Nil
                                                 \/ k # stream[template].keys
    BY Zenon DEF Freed
  <1>4. \A id, other \in C :
          id # other /\ stream[id].keys = stream[other].keys =>
              template # Nil /\ stream[id].keys = stream[template].keys
    BY DEF Memory
  <1>5. \A id \in C : stream[id].keys \in keys
    BY DEF Memory
  <1>6. st \in [D -> StreamType]
    <2>1. \A id \in D : stream[id] \in StreamType
      BY <1>1, Zenon DEF Memory
    <2> QED BY <1>1, <2>1 DEF Without
  <1> HIDE DEF free, st, D
  <1>7. \A id \in D : st[id].keys \in keys \ free
    <2> SUFFICES ASSUME NEW id \in D PROVE stream[id].keys \in keys \ free
      BY <1>2, Zenon
    <2>1. ASSUME NEW i \in gone, stream[id].keys = stream[i].keys
          PROVE  template # Nil /\ stream[id].keys = stream[template].keys
      <3>1. id # i /\ id \in C /\ i \in C
        BY <1>1
      <3> QED BY <1>4, <2>1, <3>1, Zenon
    <2>2. stream[id].keys \notin free
      BY <1>3, <2>1, Zenon
    <2> QED BY <1>1, <1>5, <2>2, Zenon
  <1>8. ASSUME Tidy, NEW k \in keys \ free
        PROVE  \E id \in D : st[id].keys = k
    <2>1. PICK id \in C : stream[id].keys = k
      BY <1>8, Zenon DEF Memory
    <2>2. CASE id \in gone
      <3>1. template # Nil /\ k = stream[template].keys
        BY <1>3, <1>8, <2>1, <2>2, Zenon
      <3> QED BY <1>1, <1>2, <3>1, Zenon
    <2>3. CASE id \notin gone
      BY <1>1, <1>2, <2>1, <2>3, Zenon
    <2> QED BY <2>2, <2>3
  <1>9. \A id, other \in D :
          id # other /\ st[id].keys = st[other].keys =>
              template # Nil /\ st[id].keys = st[template].keys
    BY <1>1, <1>2, <1>4, Zenon
  <1>10. /\ L \ gone \subseteq Ids /\ template \in Ids \cup {Nil}
         /\ template \notin L \ gone
    BY DEF Memory
  <1>11. Memory(L \ gone, template, st, keys \ free)
    BY <1>6, <1>7, <1>8, <1>9, <1>10, Zenon DEF Memory, D
  <1>12. ~BadFree(gone, template)
    <2>1. free \subseteq keys
      <3> SUFFICES ASSUME NEW k \in free PROVE k \in keys
        BY Zenon
      <3>1. PICK i \in gone : k = stream[i].keys
        BY <1>3, Zenon
      <3> QED BY <1>1, <1>5, <3>1
    <2>2. \A i, j \in gone :
            ~(i # j /\ stream[i].keys = stream[j].keys /\ stream[i].keys \in free)
      BY <1>1, <1>3, <1>4, Zenon
    <2> QED BY <2>1, <2>2, Zenon DEF BadFree, free
  <1> QED BY <1>11, <1>12 DEF free, st

(* A stream with key material of its own is added. *)
LEMMA AddKeeps ==
    ASSUME NEW L, NEW t, NEW st, NEW ks, Memory(L, t, st, ks),
           NEW f \in Ids, f \notin Cells(L, t), f \notin ks,
           NEW s \in StreamType, s.keys = f
    PROVE  Memory(L \cup {f}, t, With(st, f, s), ks \cup {f})
  <1> DEFINE C == Cells(L, t)
             D == Cells(L \cup {f}, t)
             new == With(st, f, s)
  <1>1. /\ DOMAIN st = C /\ D = C \cup {f}
        /\ t # Nil => t \in C
        /\ L \cup {f} \subseteq Ids /\ t \in Ids \cup {Nil} /\ t \notin L \cup {f}
    <2>1. DOMAIN st = C /\ L \subseteq Ids /\ t \in Ids \cup {Nil} /\ t \notin L
      BY DEF Memory
    <2>2. D = C \cup {f} /\ (t # Nil => t \in C)
      BY DEF Cells
    <2>3. t # f
      <3>1. t # Nil => t # f
        BY <2>2
      <3> QED BY <3>1, NilIsNoId
    <2> QED BY <2>1, <2>2, <2>3, Zenon
  <1>2. new \in [D -> StreamType]
    <2>1. \A id \in C : st[id] \in StreamType
      BY DEF Memory
    <2> QED BY <1>1, <2>1 DEF With
  <1>3. new[f] = s /\ \A id \in C : id # f /\ new[id] = st[id]
    BY <1>1 DEF With
  <1> HIDE DEF new, C, D
  <1>4. \A id \in C : st[id].keys \in ks
    BY DEF Memory, C
  <1>5. \A id \in D : new[id].keys \in ks \cup {f}
    BY <1>1, <1>3, <1>4, Zenon
  <1>6. Tidy => \A k \in ks \cup {f} : \E id \in D : new[id].keys = k
    <2>1. Tidy => \A k \in ks : \E id \in C : st[id].keys = k
      BY DEF Memory, C
    <2> QED BY <1>1, <1>3, <2>1, ZenonT(60)
  <1>7. \A id, other \in D :
          id # other /\ new[id].keys = new[other].keys =>
              t # Nil /\ new[id].keys = new[t].keys
    <2>1. \A id, other \in C :
            id # other /\ st[id].keys = st[other].keys =>
              t # Nil /\ st[id].keys = st[t].keys
      BY DEF Memory, C
    <2>2. \A id \in C : new[id].keys # new[f].keys
      BY <1>3, <1>4, Zenon
    <2> SUFFICES ASSUME NEW id \in D, NEW other \in D, id # other,
                        new[id].keys = new[other].keys
                 PROVE  t # Nil /\ new[id].keys = new[t].keys
      BY Zenon
    <2>3. id \in C /\ other \in C
      BY <1>1, <2>2, Zenon
    <2>4. new[id] = st[id] /\ new[other] = st[other]
      BY <1>3, <2>3
    <2>5. t # Nil /\ st[id].keys = st[t].keys
      BY <2>1, <2>3, <2>4, Zenon
    <2> QED BY <1>1, <1>3, <2>4, <2>5, Zenon
  <1> QED BY <1>1, <1>2, <1>5, <1>6, <1>7, Zenon DEF Memory, D, new

(* A clone of the template is added. *)
LEMMA CloneKeeps ==
    ASSUME NEW L, NEW t, NEW st, NEW ks, Memory(L, t, st, ks), t # Nil,
           NEW f \in Ids, f \notin Cells(L, t),
           NEW s \in StreamType, s.keys = st[t].keys
    PROVE  Memory(L \cup {f}, t, With(st, f, s), ks)
  <1> DEFINE C == Cells(L, t)
             D == Cells(L \cup {f}, t)
             new == With(st, f, s)
  <1>1. /\ DOMAIN st = C /\ D = C \cup {f} /\ t \in C
        /\ L \cup {f} \subseteq Ids /\ t \in Ids \cup {Nil} /\ t \notin L \cup {f}
    BY NilIsNoId, Zenon DEF Memory, Cells
  <1>2. new \in [D -> StreamType]
    <2>1. \A id \in C : st[id] \in StreamType
      BY DEF Memory
    <2> QED BY <1>1, <2>1 DEF With
  <1>3. new[f] = s /\ \A id \in C : id # f /\ new[id] = st[id]
    BY <1>1 DEF With
  <1> HIDE DEF new, C, D
  <1>4. \A id \in D : new[id].keys \in ks
    <2>1. \A id \in C : st[id].keys \in ks
      BY DEF Memory, C
    <2> QED BY <1>1, <1>3, <2>1, Zenon
  <1>5. Tidy => \A k \in ks : \E id \in D : new[id].keys = k
    <2>1. Tidy => \A k \in ks : \E id \in C : st[id].keys = k
      BY DEF Memory, C
    <2> QED BY <1>1, <1>3, <2>1, Zenon
  <1>6. \A id, other \in D :
          id # other /\ new[id].keys = new[other].keys =>
              t # Nil /\ new[id].keys = new[t].keys
    <2>1. \A id, other \in C :
            id # other /\ st[id].keys = st[other].keys =>
              t # Nil /\ st[id].keys = st[t].keys
      BY DEF Memory, C
    <2>2. new[f].keys = st[t].keys /\ new[t].keys = st[t].keys
      BY <1>1, <1>3
    <2> SUFFICES ASSUME NEW id \in D, NEW other \in D, id # other,
                        new[id].keys = new[other].keys
                 PROVE  new[id].keys = st[t].keys
      BY <2>2, Zenon
    <2>3. CASE id = f \/ other = f
      BY <2>2, <2>3, Zenon
    <2>4. CASE id # f /\ other # f
      <3>1. id \in C /\ other \in C
        BY <1>1, <2>4, Zenon
      <3>2. new[id] = st[id] /\ new[other] = st[other]
        BY <1>3, <3>1
      <3> QED BY <2>1, <3>1, <3>2, Zenon
    <2> QED BY <2>3, <2>4
  <1> QED BY <1>1, <1>2, <1>4, <1>5, <1>6, Zenon DEF Memory, D, new

(* The first template. *)
LEMMA TemplateKeeps ==
    ASSUME NEW L, NEW st, NEW ks, Memory(L, Nil, st, ks),
           NEW f \in Ids, f \notin L, f \notin ks,
           NEW s \in StreamType, s.keys = f
    PROVE  Memory(L, f, With(st, f, s), ks \cup {f})
  <1> DEFINE new == With(st, f, s)
             D == Cells(L, f)
  <1>1. /\ Cells(L, Nil) = L /\ DOMAIN st = L /\ D = L \cup {f}
        /\ L \subseteq Ids /\ f # Nil
    <2>1. f # Nil
      BY NilIsNoId, Zenon
    <2>2. Cells(L, Nil) = L /\ D = L \cup {f}
      BY <2>1 DEF Cells
    <2> QED BY <2>1, <2>2, Zenon DEF Memory
  <1>2. new \in [D -> StreamType]
    <2>1. \A id \in L : st[id] \in StreamType
      BY <1>1 DEF Memory
    <2> QED BY <1>1, <2>1 DEF With
  <1>3. new[f] = s /\ \A id \in L : id # f /\ new[id] = st[id]
    BY <1>1 DEF With
  <1> HIDE DEF new, D
  <1>4. \A id \in L : st[id].keys \in ks
    BY <1>1 DEF Memory
  <1>5. \A id \in D : new[id].keys \in ks \cup {f}
    BY <1>1, <1>3, <1>4, Zenon
  <1>6. Tidy => \A k \in ks \cup {f} : \E id \in D : new[id].keys = k
    <2>1. Tidy => \A k \in ks : \E id \in L : st[id].keys = k
      BY <1>1 DEF Memory
    <2> QED BY <1>1, <1>3, <2>1, ZenonT(60)
  <1>7. \A id, other \in D :
          ~(id # other /\ new[id].keys = new[other].keys)
    <2>1. \A id, other \in L : id # other => st[id].keys # st[other].keys
      BY <1>1 DEF Memory
    <2>2. \A id \in L : new[id].keys # new[f].keys
      BY <1>3, <1>4, Zenon
    <2> SUFFICES ASSUME NEW id \in D, NEW other \in D, id # other,
                        new[id].keys = new[other].keys
                 PROVE  FALSE
      BY Zenon
    <2>3. id \in L /\ other \in L
      BY <1>1, <2>2, Zenon
    <2>4. new[id] = st[id] /\ new[other] = st[other]
      BY <1>3, <2>3
    <2> QED BY <2>1, <2>3, <2>4, Zenon
  <1>8. \A id, other \in D :
          id # other /\ new[id].keys = new[other].keys =>
              f # Nil /\ new[id].keys = new[f].keys
    BY <1>7, Zenon
  <1>9. L \subseteq Ids /\ f \in Ids \cup {Nil} /\ f \notin L
    BY <1>1, Zenon
  <1> QED BY <1>2, <1>5, <1>6, <1>8, <1>9, Zenon DEF Memory, D, new

(* Fields other than the key material change. *)
LEMMA FieldsKeep ==
    ASSUME NEW L, NEW t, NEW st, NEW ks, Memory(L, t, st, ks),
           NEW new \in [Cells(L, t) -> StreamType],
           \A id \in Cells(L, t) : new[id].keys = st[id].keys
    PROVE  Memory(L, t, new, ks)
  <1>1. t # Nil => t \in Cells(L, t)
    BY DEF Cells
  <1> QED BY <1>1, Zenon DEF Memory

(* A new template at f takes the place of the one at t: the clones have its key
   material, the other contexts keep theirs. *)
Rekeyed(new, st, L, t, f) ==
    /\ new \in [Cells(L, f) -> StreamType]
    /\ new[f].keys = f
    /\ \A id \in L : new[id].keys = IF st[id].keys = st[t].keys
                                    THEN f ELSE st[id].keys

LEMMA RetemplateKeeps ==
    ASSUME NEW L, NEW t, NEW st, NEW ks, Memory(L, t, st, ks), t # Nil,
           NEW f \in Ids, f \notin L, f \notin ks,
           NEW new, Rekeyed(new, st, L, t, f)
    PROVE  Memory(L, f, new, (ks \ {st[t].keys}) \cup {f})
  <1>1. /\ Cells(L, f) = L \cup {f} /\ Cells(L, t) = L \cup {t}
        /\ L \subseteq Ids /\ f # Nil
    <2>1. f # Nil
      BY NilIsNoId, Zenon
    <2>2. Cells(L, f) = L \cup {f} /\ Cells(L, t) = L \cup {t}
      BY <2>1 DEF Cells
    <2> QED BY <2>1, <2>2, Zenon DEF Memory
  <1>2. \A id \in L \cup {t} : st[id].keys \in ks
    BY <1>1 DEF Memory
  <1>3. \A id \in L : /\ st[id].keys = st[t].keys => new[id].keys = f
                      /\ st[id].keys # st[t].keys => new[id].keys = st[id].keys
    BY DEF Rekeyed
  <1> USE DEF Rekeyed
  <1>4. \A id \in L \cup {f} : new[id].keys \in (ks \ {st[t].keys}) \cup {f}
    BY <1>2, <1>3, Zenon
  <1>5. Tidy => \A k \in (ks \ {st[t].keys}) \cup {f} :
                  \E id \in L \cup {f} : new[id].keys = k
    <2>1. Tidy => \A k \in ks : \E id \in L \cup {t} : st[id].keys = k
      BY <1>1 DEF Memory
    <2> QED BY <1>3, <2>1, Zenon
  <1>6. \A id, other \in L \cup {f} :
          id # other /\ new[id].keys = new[other].keys => new[id].keys = f
    <2>1. \A id, other \in L :
            id # other /\ st[id].keys = st[other].keys =>
              st[id].keys = st[t].keys
      BY <1>1, Zenon DEF Memory
    <2>2. \A id \in L : st[id].keys # f
      BY <1>2, Zenon
    <2> SUFFICES ASSUME NEW id \in L \cup {f}, NEW other \in L \cup {f},
                        id # other, new[id].keys = new[other].keys,
                        new[id].keys # f
                 PROVE  FALSE
      BY Zenon
    <2>3. id \in L /\ other \in L
      BY Zenon
    <2>4. /\ st[id].keys # st[t].keys
          /\ new[id].keys = st[id].keys /\ new[other].keys = st[other].keys
      BY <1>3, <2>3, Zenon
    <2> QED BY <2>1, <2>3, <2>4, Zenon
  <1> QED BY <1>1, <1>4, <1>5, <1>6, Zenon DEF Memory

(* srtp_dealloc releases everything. *)
LEMMA DeallocKeeps ==
    ASSUME NEW L, Memory(L, template, stream, keys)
    PROVE  LET shared == IF template = Nil THEN {} ELSE {stream[template].keys}
           IN  /\ Memory({}, Nil, Without(L \cup {template}),
                         keys \ (Freed(L, template) \cup shared))
               /\ ~BadFree(L, template)
               /\ shared \subseteq keys
  <1> DEFINE shared == IF template = Nil THEN {} ELSE {stream[template].keys}
             st == Without(L \cup {template})
             left == keys \ (Freed(L, template) \cup shared)
  <1>1. ~BadFree(L, template)
    BY FreeKeeps, Zenon
  <1>2. /\ DOMAIN stream = Cells(L, template)
        /\ Cells(L, template) \subseteq L \cup {template}
        /\ Cells({}, Nil) = {}
        /\ template # Nil => template \in Cells(L, template)
    BY Zenon DEF Memory, Cells
  <1>3. shared \subseteq keys
    BY <1>2 DEF Memory
  <1>4. st \in [{} -> StreamType]
    BY <1>2 DEF Without
  <1>5. ASSUME Tidy, NEW k \in left PROVE FALSE
    <2>1. PICK id \in Cells(L, template) : stream[id].keys = k
      BY <1>5, Zenon DEF Memory
    <2>2. template # Nil => k # stream[template].keys
      BY <1>5
    <2>3. id \in L
      BY <2>1, <2>2, Zenon DEF Cells
    <2>4. k \in Freed(L, template)
      BY <2>1, <2>2, <2>3, Zenon DEF Freed
    <2> QED BY <1>5, <2>4
  <1> HIDE DEF st, left, shared
  <1>6. Memory({}, Nil, st, left)
    BY <1>2, <1>4, <1>5, Zenon DEF Memory
  <1> QED BY <1>1, <1>3, <1>6 DEF st, left, shared

-----------------------------------------------------------------------------
(* The inductive invariant *)

SessionInv ==
    /\ Simple(list)
    /\ Memory(Range(list), template, stream, keys)
    /\ "list" \notin Failures => ~fault

LEMMA SessionInvInit == Init => SessionInv
  <1> SUFFICES ASSUME Init PROVE SessionInv
    OBVIOUS
  <1>1. Cells({}, Nil) = {}
    BY DEF Cells
  <1>2. stream \in [{} -> StreamType]
    BY DEF Init
  <1>3. Memory({}, Nil, stream, {})
    BY <1>1, <1>2, Zenon DEF Memory
  <1>4. list = <<>> /\ template = Nil /\ keys = {} /\ ~fault
    BY DEF Init
  <1> QED BY <1>3, <1>4, EmptySimple, Zenon DEF SessionInv

(* What the lookup of an SSRC finds. *)
LEMMA PositionFacts ==
    ASSUME NEW ssrc, list \in Seq(Ids)
    PROVE  /\ Listed(ssrc) => /\ Position(ssrc) \in DOMAIN list
                              /\ GetStream(ssrc) \in Range(list)
                              /\ stream[GetStream(ssrc)].ssrc = ssrc
           /\ ~Listed(ssrc) => \A i \in DOMAIN list : stream[list[i]].ssrc # ssrc
  <1> DEFINE I == {i \in 1 .. Len(list) : stream[list[i]].ssrc = ssrc}
  <1>1. DOMAIN list = 1 .. Len(list) /\ Len(list) \in Nat
    OBVIOUS
  <1>2. Position(ssrc) = IF I # {} THEN Min(I) ELSE 0
    BY DEF Position, Find
  <1>3. I \subseteq Nat /\ 0 \notin I
    BY <1>1
  <1>4. I # {} => Min(I) \in I
    <2>1. \A T : T \subseteq Nat /\ T # {} => Min(T) \in T
      BY LeastExists, Zenon
    <2> HIDE DEF I
    <2> QED BY <1>3, <2>1, Zenon
  <1>5. Listed(ssrc) <=> I # {}
    <2> HIDE DEF I
    <2> QED BY <1>2, <1>3, <1>4 DEF Listed
  <1>6. Listed(ssrc) => Position(ssrc) \in I
    <2> HIDE DEF I
    <2> QED BY <1>2, <1>4, <1>5
  <1>7. \A i : i \in I <=> i \in DOMAIN list /\ stream[list[i]].ssrc = ssrc
    BY <1>1
  <1> HIDE DEF I
  <1> QED BY <1>5, <1>6, <1>7, Zenon DEF GetStream, Range

(* Calls that change neither the list nor the memory. *)
LEMMA QuietKeeps ==
    ASSUME SessionInv, UNCHANGED <<list, template, stream, keys, fault>>
    PROVE  SessionInv'
  BY DEF SessionInv

LEMMA CreateNoListKeeps ==
    ASSUME SessionInv, CreateNoList
    PROVE  SessionInv'
  BY DEF SessionInv, CreateNoList

LEMMA DeallocStepKeeps ==
    ASSUME SessionInv, Dealloc
    PROVE  SessionInv'
  <1> DEFINE shared == IF template = Nil THEN {} ELSE {stream[template].keys}
  <1>1. \A L : Memory(L, template, stream, keys) =>
          /\ Memory({}, Nil, Without(L \cup {template}),
                    keys \ (Freed(L, template) \cup shared))
          /\ ~BadFree(L, template)
          /\ shared \subseteq keys
    BY DeallocKeeps
  <1>2. /\ list' = <<>> /\ template' = Nil
        /\ stream' = Without(Range(list) \cup {template})
        /\ keys' = keys \ (Freed(Range(list), template) \cup shared)
        /\ fault' = (fault \/ BadFree(Range(list), template)
                          \/ ~(shared \subseteq keys))
    BY DEF Dealloc
  <1> HIDE DEF shared
  <1>3. Memory(Range(list), template, stream, keys)
    BY DEF SessionInv
  <1>4. Memory({}, Nil, stream', keys')
    BY <1>1, <1>2, <1>3, Zenon
  <1>5. "list" \notin Failures => ~fault'
    BY <1>1, <1>2, <1>3, Zenon DEF SessionInv
  <1>6. Simple(list') /\ Range(list') = {}
    BY <1>2, EmptySimple, Zenon
  <1>7. Memory(Range(list'), template', stream', keys')
    BY <1>2, <1>4, <1>6, Zenon
  <1> QED BY <1>5, <1>6, <1>7, Zenon DEF SessionInv

(* The address of a new context is in use nowhere. *)
LEMMA FreshInSession ==
    ASSUME SessionInv, Available # {}
    PROVE  /\ Fresh \in Ids /\ Fresh \notin keys
           /\ Fresh \notin Cells(Range(list), template)
           /\ Fresh \notin Range(list)
  <1>1. DOMAIN stream = Cells(Range(list), template)
    BY DEF SessionInv, Memory
  <1> QED BY <1>1, FreshFacts, Zenon DEF Cells

LEMMA NewStreamType ==
    ASSUME NEW ssrc \in Ssrcs \cup {Nil}, NEW d \in Directions, Fresh \in Ids
    PROVE  NewStream(ssrc, d) \in StreamType /\ NewStream(ssrc, d).keys = Fresh
  BY SessionAssumption DEF NewStream, StreamType

LEMMA AddTemplateKeeps ==
    ASSUME SessionInv, NEW d \in {"sender", "receiver"}, AddTemplate(d)
    PROVE  SessionInv'
  <1> DEFINE s == NewStream(Nil, d)
  <1>1. /\ Fresh \in Ids /\ Fresh \notin keys /\ Fresh \notin Range(list)
    BY FreshInSession DEF AddTemplate
  <1>2. s \in StreamType /\ s.keys = Fresh
    BY <1>1, NewStreamType DEF Directions
  <1>3. \A L, st, ks : \A f \in Ids, x \in StreamType :
          Memory(L, Nil, st, ks) /\ f \notin L /\ f \notin ks /\ x.keys = f =>
            Memory(L, f, With(st, f, x), ks \cup {f})
    BY TemplateKeeps, Zenon
  <1>4. Memory(Range(list), Nil, stream, keys)
    BY Zenon DEF SessionInv, AddTemplate
  <1> HIDE DEF s
  <1>5. Memory(Range(list), Fresh, With(stream, Fresh, s), keys \cup {Fresh})
    BY <1>1, <1>2, <1>3, <1>4, Zenon
  <1>6. /\ list' = list /\ template' = Fresh /\ fault' = fault
        /\ stream' = With(stream, Fresh, s) /\ keys' = keys \cup {Fresh}
    BY DEF AddTemplate, s
  <1> HIDE DEF AddTemplate
  <1>7. Memory(Range(list'), template', stream', keys')
    BY <1>5, <1>6
  <1> QED BY <1>6, <1>7 DEF SessionInv

LEMMA AddStreamKeeps ==
    ASSUME SessionInv, NEW ssrc \in Ssrcs, AddStream(ssrc)
    PROVE  SessionInv'
  <1> DEFINE s == NewStream(ssrc, "unknown")
  <1>1. /\ Fresh \in Ids /\ Fresh \notin keys /\ Fresh \notin Range(list)
        /\ Fresh \notin Cells(Range(list), template)
    BY FreshInSession DEF AddStream
  <1>2. s \in StreamType /\ s.keys = Fresh
    BY <1>1, NewStreamType DEF Directions
  <1>3. ASSUME NEW L, NEW t, NEW st, NEW ks, NEW f \in Ids, NEW x \in StreamType,
               Memory(L, t, st, ks), f \notin Cells(L, t), f \notin ks, x.keys = f
        PROVE  Memory(L \cup {f}, t, With(st, f, x), ks \cup {f})
    BY <1>3, AddKeeps
  <1>4. Memory(Range(list), template, stream, keys) /\ Simple(list)
    BY DEF SessionInv
  <1> HIDE DEF s
  <1>5. Memory(Range(list) \cup {Fresh}, template, With(stream, Fresh, s),
               keys \cup {Fresh})
    BY <1>1, <1>2, <1>3, <1>4, Zenon
  <1>6. /\ list' = Append(list, Fresh) /\ template' = template /\ fault' = fault
        /\ stream' = With(stream, Fresh, s) /\ keys' = keys \cup {Fresh}
    BY DEF AddStream, s
  <1>7. Simple(list') /\ Range(list') = Range(list) \cup {Fresh}
    <2>1. \A l : \A f \in Ids : Simple(l) /\ f \notin Range(l) =>
            Simple(Append(l, f)) /\ Range(Append(l, f)) = Range(l) \cup {f}
      BY AppendSimple, Zenon
    <2> QED BY <1>1, <1>4, <1>6, <2>1, Zenon
  <1>8. Memory(Range(list'), template', stream', keys')
    BY <1>5, <1>6, <1>7, Zenon
  <1> QED BY <1>6, <1>7, <1>8, Zenon DEF SessionInv

(* A stream of the list is taken out and deallocated. *)
LEMMA RemovalKeeps ==
    ASSUME SessionInv, NEW ssrc, Listed(ssrc)
    PROVE  LET id == GetStream(ssrc)
               rest == Removed(list, Position(ssrc))
           IN  /\ Simple(rest) /\ Range(rest) = Range(list) \ {id}
               /\ id \in Range(list)
               /\ Memory(Range(rest), template, Without({id}),
                         keys \ Freed({id}, template))
               /\ ~BadFree({id}, template)
  <1> DEFINE id == GetStream(ssrc)
             rest == Removed(list, Position(ssrc))
  <1>1. Simple(list) /\ Memory(Range(list), template, stream, keys)
    BY DEF SessionInv
  <1>2. Position(ssrc) \in DOMAIN list /\ id \in Range(list)
    BY <1>1, PositionFacts DEF Simple
  <1>3. Simple(rest) /\ Range(rest) = Range(list) \ {id}
    <2>1. \A l : \A n \in DOMAIN l : Simple(l) =>
            /\ Simple(Removed(l, n))
            /\ Range(Removed(l, n)) = Range(l) \ {l[n]}
      BY RemovedSimple, Zenon
    <2> QED BY <1>1, <1>2, <2>1, Zenon DEF GetStream
  <1> HIDE DEF id, rest
  <1>4. \A L, gone : Memory(L, template, stream, keys) /\ gone \in SUBSET L =>
          /\ Memory(L \ gone, template, Without(gone),
                    keys \ Freed(gone, template))
          /\ ~BadFree(gone, template)
    BY FreeKeeps, Zenon
  <1>5. /\ Memory(Range(list) \ {id}, template, Without({id}),
                  keys \ Freed({id}, template))
        /\ ~BadFree({id}, template)
    BY <1>1, <1>2, <1>4, Zenon
  <1> QED BY <1>2, <1>3, <1>5, Zenon DEF id, rest

LEMMA RemoveStreamKeeps ==
    ASSUME SessionInv, NEW ssrc, RemoveStream(ssrc) \/ UpdateStreamFails(ssrc)
    PROVE  SessionInv'
  <1> DEFINE id == GetStream(ssrc)
             rest == Removed(list, Position(ssrc))
  <1>1. /\ Listed(ssrc) /\ template' = template
        /\ list' = rest /\ stream' = Without({id})
        /\ keys' = keys \ Freed({id}, template)
        /\ fault' = (fault \/ BadFree({id}, template))
    BY DEF RemoveStream, UpdateStreamFails
  <1>2. /\ Simple(rest)
        /\ Memory(Range(rest), template, Without({id}),
                  keys \ Freed({id}, template))
        /\ ~BadFree({id}, template)
    BY <1>1, RemovalKeeps
  <1> HIDE DEF id, rest
  <1>3. Simple(list') /\ Memory(Range(list'), template', stream', keys')
    BY <1>1, <1>2
  <1>4. "list" \notin Failures => ~fault'
    BY <1>1, <1>2, Zenon DEF SessionInv
  <1> QED BY <1>3, <1>4, Zenon DEF SessionInv

(* The index and direction of one context are replaced. *)
LEMMA TakeOverKeeps ==
    ASSUME NEW L, NEW t, NEW st, NEW ks, Memory(L, t, st, ks), NEW x,
           NEW i \in 0 .. MaxIndex, NEW d \in Directions
    PROVE  Memory(L, t, [st EXCEPT ![x].index = i, ![x].direction = d], ks)
  <1> DEFINE new == [st EXCEPT ![x].index = i, ![x].direction = d]
  <1>1. st \in [Cells(L, t) -> StreamType]
    BY DEF Memory
  <1>2. /\ new \in [Cells(L, t) -> StreamType]
        /\ \A id \in Cells(L, t) : new[id].keys = st[id].keys
    <2>1. CASE x \in Cells(L, t)
      BY <1>1, <2>1, Zenon DEF StreamType
    <2>2. CASE x \notin Cells(L, t)
      BY <1>1, <2>2, Zenon
    <2> QED BY <2>1, <2>2
  <1> HIDE DEF new
  <1>3. Memory(L, t, new, ks)
    BY <1>2, FieldsKeep
  <1> QED BY <1>3 DEF new

LEMMA UpdateStreamKeeps ==
    ASSUME SessionInv, NEW ssrc \in Ssrcs, UpdateStream(ssrc)
    PROVE  SessionInv'
  <1> DEFINE old == GetStream(ssrc)
             rest == Removed(list, Position(ssrc))
             kept == keys \ Freed({old}, template)
             s == NewStream(ssrc, "unknown")
             contexts == With(Without({old}), Fresh, s)
  <1>1. /\ Listed(ssrc) /\ Available # {} /\ template' = template
        /\ list' = Append(rest, Fresh)
        /\ keys' = kept \cup {Fresh}
        /\ fault' = (fault \/ BadFree({old}, template))
        /\ \E x : stream' = [contexts EXCEPT
                               ![x].index = stream[old].index,
                               ![x].direction = stream[old].direction]
    BY Zenon DEF UpdateStream
  <1>2. /\ Simple(rest) /\ Range(rest) = Range(list) \ {old}
        /\ old \in Range(list)
        /\ Memory(Range(rest), template, Without({old}), kept)
        /\ ~BadFree({old}, template)
    BY <1>1, RemovalKeeps, Zenon
  <1>3. /\ Fresh \in Ids /\ Fresh \notin keys /\ Fresh \notin Range(list)
        /\ Fresh \notin Cells(Range(list), template)
    BY <1>1, FreshInSession
  <1>4. s \in StreamType /\ s.keys = Fresh
    BY <1>3, NewStreamType DEF Directions
  <1>5. stream[old] \in StreamType
    <2>1. stream \in [Cells(Range(list), template) -> StreamType]
      BY DEF SessionInv, Memory
    <2>2. old \in Cells(Range(list), template)
      BY <1>2, Zenon DEF Cells
    <2> QED BY <2>1, <2>2
  <1>6. Fresh \notin kept /\ Fresh \notin Range(rest)
        /\ Fresh \notin Cells(Range(rest), template)
    BY <1>2, <1>3, Zenon DEF Cells
  <1> HIDE DEF old, rest, kept, s
  <1>7. Memory(Range(rest) \cup {Fresh}, template, contexts, keys')
    <2>1. ASSUME NEW L, NEW t, NEW st, NEW ks, NEW f \in Ids, NEW x \in StreamType,
                 Memory(L, t, st, ks), f \notin Cells(L, t), f \notin ks, x.keys = f
          PROVE  Memory(L \cup {f}, t, With(st, f, x), ks \cup {f})
      BY <2>1, AddKeeps
    <2> QED BY <1>1, <1>2, <1>3, <1>4, <1>6, <2>1, ZenonT(60)
  <1> HIDE DEF contexts
  <1>8. Memory(Range(rest) \cup {Fresh}, template, stream', keys')
    <2>1. stream[old].index \in 0 .. MaxIndex /\ stream[old].direction \in Directions
      BY <1>5 DEF StreamType
    <2>2. ASSUME NEW L, NEW t, NEW st, NEW ks, NEW x,
                 NEW i \in 0 .. MaxIndex, NEW d \in Directions, Memory(L, t, st, ks)
          PROVE  Memory(L, t, [st EXCEPT ![x].index = i, ![x].direction = d], ks)
      BY <2>2, TakeOverKeeps
    <2>3. PICK x : stream' = [contexts EXCEPT
                                ![x].index = stream[old].index,
                                ![x].direction = stream[old].direction]
      BY <1>1, Zenon
    <2>4. Memory(Range(rest) \cup {Fresh}, template,
                 [contexts EXCEPT ![x].index = stream[old].index,
                                  ![x].direction = stream[old].direction], keys')
      BY <1>7, <2>1, <2>2, Zenon
    <2> QED BY <2>3, <2>4
  <1>9. Simple(list') /\ Range(list') = Range(rest) \cup {Fresh}
    <2>1. \A l : \A f \in Ids : Simple(l) /\ f \notin Range(l) =>
            Simple(Append(l, f)) /\ Range(Append(l, f)) = Range(l) \cup {f}
      BY AppendSimple, Zenon
    <2> QED BY <1>1, <1>2, <1>3, <1>6, <2>1, Zenon
  <1>10. Memory(Range(list'), template', stream', keys')
    BY <1>1, <1>8, <1>9, Zenon
  <1>11. "list" \notin Failures => ~fault'
    BY <1>1, <1>2, Zenon DEF SessionInv
  <1> QED BY <1>9, <1>10, <1>11, Zenon DEF SessionInv

LEMMA UpdateTemplateKeeps ==
    ASSUME SessionInv, UpdateTemplate
    PROVE  SessionInv'
  <1> DEFINE L == Range(list)
             f == Fresh
             t == template
  <1>1. /\ t # Nil /\ Available # {} /\ template' = f /\ list' = list
        /\ stream' = [id \in (DOMAIN stream \ {t}) \cup {f} |->
                        IF id = f
                        THEN NewStream(Nil, stream[t].direction)
                        ELSE IF stream[id].keys = stream[t].keys
                        THEN [stream[id] EXCEPT
                                 !.keys = f, !.direction = stream[t].direction]
                        ELSE stream[id]]
        /\ keys' = (keys \ {stream[t].keys}) \cup {f}
        /\ fault' = (fault \/ stream[t].keys \notin keys)
    BY Zenon DEF UpdateTemplate, IsClone, Dangling
  <1>2. Simple(list) /\ Memory(L, t, stream, keys)
    BY DEF SessionInv
  <1>3. f \in Ids /\ f \notin keys /\ f \notin L /\ f \notin Cells(L, t)
    BY <1>1, FreshInSession, Zenon
  <1>4. /\ Cells(L, t) = L \cup {t} /\ t \notin L /\ f # Nil
        /\ Cells(L, f) = L \cup {f}
    <2>1. f # Nil
      BY <1>3, NilIsNoId, Zenon
    <2> QED BY <1>1, <1>2, <2>1, Zenon DEF Cells, Memory
  <1>5. /\ DOMAIN stream = L \cup {t}
        /\ \A id \in L \cup {t} : stream[id] \in StreamType
    BY <1>2, <1>4 DEF Memory
  <1>6. stream[t].direction \in Directions
    BY <1>5 DEF StreamType
  <1>7. /\ NewStream(Nil, stream[t].direction) \in StreamType
        /\ NewStream(Nil, stream[t].direction).keys = f
    <2>1. \A d \in Directions : /\ NewStream(Nil, d) \in StreamType
                                /\ NewStream(Nil, d).keys = Fresh
      BY <1>3, NewStreamType, Zenon
    <2> QED BY <1>6, <2>1
  <1> HIDE DEF L, f, t
  <1>8. (DOMAIN stream \ {t}) \cup {f} = L \cup {f}
    BY <1>4, <1>5, Zenon
  <1>9. /\ DOMAIN stream' = L \cup {f}
        /\ stream' = [id \in L \cup {f} |-> stream'[id]]
        /\ stream'[f] = NewStream(Nil, stream[t].direction)
        /\ \A id \in L :
             stream'[id] = IF stream[id].keys = stream[t].keys
                           THEN [stream[id] EXCEPT
                                   !.keys = f, !.direction = stream[t].direction]
                           ELSE stream[id]
    BY <1>1, <1>3, <1>8, Zenon
  <1>10. ASSUME NEW id \in L
         PROVE  /\ stream'[id] \in StreamType
                /\ stream'[id].keys = IF stream[id].keys = stream[t].keys
                                      THEN f ELSE stream[id].keys
    <2>1. stream[id] \in StreamType
      BY <1>5
    <2>2. CASE stream[id].keys = stream[t].keys
      <3>1. stream'[id] = [stream[id] EXCEPT
                             !.keys = f, !.direction = stream[t].direction]
        BY <1>9, <2>2, Zenon
      <3> QED BY <1>3, <1>6, <2>1, <2>2, <3>1, Zenon DEF StreamType
    <2>3. CASE stream[id].keys # stream[t].keys
      BY <1>9, <2>1, <2>3, Zenon
    <2> QED BY <2>2, <2>3
  <1>11. stream' \in [Cells(L, f) -> StreamType] /\ stream'[f].keys = f
    BY <1>4, <1>7, <1>9, <1>10, ZenonT(60)
  <1>12. Memory(L, f, stream', keys')
    <2>1. ASSUME NEW X, NEW y, NEW st, NEW ks, NEW g, NEW new,
                 Memory(X, y, st, ks), y # Nil,
                 g \in Ids, g \notin X, g \notin ks, Rekeyed(new, st, X, y, g)
          PROVE  Memory(X, g, new, (ks \ {st[y].keys}) \cup {g})
      BY <2>1, RetemplateKeeps
    <2>2. Rekeyed(stream', stream, L, t, f)
      BY <1>10, <1>11 DEF Rekeyed
    <2> QED BY <1>1, <1>2, <1>3, <1>11, <2>1, <2>2, Zenon
  <1>13. Simple(list') /\ Memory(Range(list'), template', stream', keys')
    BY <1>1, <1>2, <1>12, Zenon DEF L
  <1>14. "list" \notin Failures => ~fault'
    <2>1. stream[t].keys \in keys
      BY <1>2, <1>4, Zenon DEF Memory
    <2> QED BY <1>1, <2>1, Zenon DEF SessionInv
  <1> QED BY <1>13, <1>14, Zenon DEF SessionInv

LEMMA UpdateTemplateStopsKeeps ==
    ASSUME SessionInv, NEW n, UpdateTemplateStops(n)
    PROVE  SessionInv'
  <1> DEFINE gone == {list[i] : i \in 1 .. n}
             rest == SubSeq(list, n + 1, Len(list))
  <1>1. /\ n \in DOMAIN list /\ template' = template
        /\ list' = rest /\ stream' = Without(gone)
        /\ keys' = keys \ Freed(gone, template)
        /\ fault' = (fault \/ BadFree(gone, template))
    BY DEF UpdateTemplateStops
  <1>2. Simple(list) /\ Memory(Range(list), template, stream, keys)
    BY DEF SessionInv
  <1>3. Simple(rest) /\ Range(rest) = Range(list) \ gone
    <2>1. \A l : \A m \in DOMAIN l : Simple(l) =>
            /\ Simple(SubSeq(l, m + 1, Len(l)))
            /\ Range(SubSeq(l, m + 1, Len(l))) = Range(l) \ {l[i] : i \in 1 .. m}
      BY TailSimple, Zenon
    <2> QED BY <1>1, <1>2, <2>1, Zenon
  <1>4. gone \in SUBSET Range(list)
    <2>1. DOMAIN list = 1 .. Len(list) /\ Len(list) \in Nat
      BY <1>2 DEF Simple
    <2>2. 1 .. n \subseteq DOMAIN list
      BY <1>1, <2>1
    <2> QED BY <2>2, Zenon DEF Range
  <1> HIDE DEF gone, rest
  <1>5. /\ Memory(Range(list) \ gone, template, Without(gone),
                  keys \ Freed(gone, template))
        /\ ~BadFree(gone, template)
    <2>1. \A L, g : Memory(L, template, stream, keys) /\ g \in SUBSET L =>
            /\ Memory(L \ g, template, Without(g), keys \ Freed(g, template))
            /\ ~BadFree(g, template)
      BY FreeKeeps, Zenon
    <2> QED BY <1>2, <1>4, <2>1, Zenon
  <1>6. Simple(list') /\ Memory(Range(list'), template', stream', keys')
    BY <1>1, <1>3, <1>5
  <1>7. "list" \notin Failures => ~fault'
    BY <1>1, <1>5, Zenon DEF SessionInv
  <1> QED BY <1>6, <1>7, Zenon DEF SessionInv

(* The only call that leaks. *)
LEMMA UpdateTemplateFailsKeeps ==
    ASSUME SessionInv, UpdateTemplateFails
    PROVE  SessionInv'
  <1>1. /\ list' = list /\ template' = template /\ stream' = stream
        /\ fault' = fault /\ keys' = keys \cup {Fresh} /\ ~Tidy
    BY DEF UpdateTemplateFails, Tidy
  <1>2. Memory(Range(list), template, stream, keys \cup {Fresh})
    BY <1>1, Zenon DEF SessionInv, Memory
  <1>3. Memory(Range(list'), template', stream', keys')
    BY <1>1, <1>2
  <1> QED BY <1>1, <1>3 DEF SessionInv

LEMMA CloneTemplateKeeps ==
    ASSUME SessionInv, NEW call, NEW ssrc \in Ssrcs,
           NEW d \in {"sender", "receiver"}, NEW recorded \in {0, 1},
           CloneTemplate(call, ssrc, d, recorded)
    PROVE  SessionInv'
  <1> DEFINE s == [CloneOf(template, ssrc, d) EXCEPT !.index = recorded]
  <1>1. /\ TemplateDirection = d /\ Available # {} /\ recorded <= MaxIndex
        /\ list' = Append(list, Fresh) /\ template' = template /\ keys' = keys
        /\ stream' = With(stream, Fresh, s)
        /\ fault' = (fault \/ stream[template].keys \notin keys)
    BY DEF CloneTemplate, Dangling
  <1>2. Memory(Range(list), template, stream, keys) /\ Simple(list)
    BY DEF SessionInv
  <1>3. /\ Fresh \in Ids /\ Fresh \notin Range(list)
        /\ Fresh \notin Cells(Range(list), template)
    BY <1>1, FreshInSession
  <1>4. template # Nil
    BY <1>1 DEF TemplateDirection
  <1>5. template \in Cells(Range(list), template)
    BY <1>4 DEF Cells
  <1>6. stream[template] \in StreamType /\ stream[template].keys \in keys
    BY <1>2, <1>5 DEF Memory
  <1>7. s \in StreamType /\ s.keys = stream[template].keys
    BY <1>1, <1>6, SessionAssumption DEF CloneOf, StreamType, Directions
  <1> HIDE DEF s
  <1>8. Memory(Range(list) \cup {Fresh}, template, With(stream, Fresh, s), keys)
    <2>1. ASSUME NEW L, NEW t, NEW st, NEW ks, NEW f \in Ids, NEW x \in StreamType,
                 Memory(L, t, st, ks), t # Nil, f \notin Cells(L, t),
                 x.keys = st[t].keys
          PROVE  Memory(L \cup {f}, t, With(st, f, x), ks)
      BY <2>1, CloneKeeps
    <2> QED BY <1>2, <1>3, <1>4, <1>7, <2>1, Zenon
  <1>9. Simple(list') /\ Range(list') = Range(list) \cup {Fresh}
    <2>1. \A l : \A f \in Ids : Simple(l) /\ f \notin Range(l) =>
            Simple(Append(l, f)) /\ Range(Append(l, f)) = Range(l) \cup {f}
      BY AppendSimple, Zenon
    <2> QED BY <1>1, <1>2, <1>3, <2>1, Zenon
  <1>10. Memory(Range(list'), template', stream', keys')
    BY <1>1, <1>8, <1>9, Zenon
  <1>11. "list" \notin Failures => ~fault'
    BY <1>1, <1>6, Zenon DEF SessionInv
  <1> QED BY <1>9, <1>10, <1>11, Zenon DEF SessionInv

LEMMA UseStreamKeeps ==
    ASSUME SessionInv, NEW call, NEW ssrc \in Ssrcs,
           NEW d \in {"sender", "receiver"}, NEW recorded \in {0, 1},
           UseStream(call, ssrc, d, recorded)
    PROVE  SessionInv'
  <1> DEFINE id == GetStream(ssrc)
             C == Cells(Range(list), template)
             dir == IF call = "protect" \/ recorded = 1
                    THEN d ELSE stream[id].direction
             idx == stream[id].index + recorded
  <1>1. /\ Listed(ssrc) /\ idx <= MaxIndex
        /\ list' = list /\ template' = template /\ keys' = keys
        /\ fault' = (fault \/ stream[id].keys \notin keys)
        /\ stream' = [stream EXCEPT
                         ![id].direction = IF call = "protect" \/ recorded = 1
                                           THEN d ELSE @,
                         ![id].index = @ + recorded]
    BY DEF UseStream, Dangling
  <1>2. Memory(Range(list), template, stream, keys) /\ Simple(list)
    BY DEF SessionInv
  <1>3. id \in C
    <2>1. id \in Range(list)
      BY <1>1, <1>2, PositionFacts DEF Simple
    <2> QED BY <2>1, Zenon DEF Cells
  <1>4. /\ stream \in [C -> StreamType] /\ stream[id] \in StreamType
        /\ stream[id].keys \in keys
    BY <1>2, <1>3, SMTT(30) DEF Memory
  <1>5. idx \in 0 .. MaxIndex /\ dir \in Directions
    BY <1>1, <1>4, SessionAssumption DEF StreamType, Directions
  <1> HIDE DEF id, C
  <1>6. stream' = [stream EXCEPT ![id] = [@ EXCEPT !.direction = dir,
                                                   !.index = idx]]
    BY <1>1, <1>3, <1>4, Zenon DEF StreamType
  <1> HIDE DEF dir, idx
  <1>7. /\ stream' \in [C -> StreamType]
        /\ \A x \in C : stream'[x].keys = stream[x].keys
    BY <1>3, <1>4, <1>5, <1>6, Zenon DEF StreamType
  <1>8. Memory(Range(list), template, stream', keys)
    <2>1. \A L, t, st, ks : \A new \in [Cells(L, t) -> StreamType] :
            Memory(L, t, st, ks)
            /\ (\A x \in Cells(L, t) : new[x].keys = st[x].keys) =>
              Memory(L, t, new, ks)
      BY FieldsKeep, Zenon
    <2> QED BY <1>2, <1>7, <2>1, Zenon DEF C
  <1>9. Simple(list') /\ Memory(Range(list'), template', stream', keys')
    BY <1>1, <1>2, <1>8
  <1>10. "list" \notin Failures => ~fault'
    BY <1>1, <1>4, Zenon DEF SessionInv
  <1> QED BY <1>9, <1>10, Zenon DEF SessionInv

LEMMA ManageKeeps ==
    ASSUME SessionInv, Manage
    PROVE  SessionInv'
  <1>1. CASE Create \/ CreateFails \/ AddTemplateRefused \/ AddFails
             \/ \E ssrc \in Ssrcs : RemoveUnknown(ssrc)
    <2>1. UNCHANGED <<list, template, stream, keys, fault>>
      BY <1>1 DEF Create, CreateFails, AddTemplateRefused, AddFails, RemoveUnknown
    <2> QED BY <2>1, QuietKeeps
  <1>2. CASE CreateNoList
    BY <1>2, CreateNoListKeeps
  <1>3. CASE Dealloc
    BY <1>3, DeallocStepKeeps
  <1>4. CASE \E d \in {"sender", "receiver"} : AddTemplate(d)
    BY <1>4, AddTemplateKeeps, Zenon
  <1>5. CASE \E ssrc \in Ssrcs : AddStream(ssrc)
    BY <1>5, AddStreamKeeps, Zenon
  <1>6. CASE \E ssrc \in Ssrcs : RemoveStream(ssrc)
    BY <1>6, RemoveStreamKeeps, Zenon
  <1> QED BY <1>1, <1>2, <1>3, <1>4, <1>5, <1>6, Zenon DEF Manage

LEMMA RekeyKeeps ==
    ASSUME SessionInv, Rekey
    PROVE  SessionInv'
  <1>1. CASE \E ssrc \in Ssrcs : UpdateStream(ssrc)
    BY <1>1, UpdateStreamKeeps, Zenon
  <1>2. CASE \E ssrc \in Ssrcs : UpdateStreamFails(ssrc)
    BY <1>2, RemoveStreamKeeps, Zenon
  <1>3. CASE UpdateRefused
    BY <1>3, QuietKeeps DEF UpdateRefused
  <1>4. CASE UpdateTemplate
    BY <1>4, UpdateTemplateKeeps
  <1>5. CASE \E n \in 1 .. MaxStreams : UpdateTemplateStops(n)
    BY <1>5, UpdateTemplateStopsKeeps, Zenon
  <1>6. CASE UpdateTemplateFails
    BY <1>6, UpdateTemplateFailsKeeps
  <1> QED BY <1>1, <1>2, <1>3, <1>4, <1>5, <1>6, Zenon DEF Rekey

(* A packet function finds no stream, finds one of the other direction, clones
   the template or uses a stream. *)
PacketQuiet(call, ssrc) ==
    \E d \in {"sender", "receiver"} :
        NoContext(call, ssrc, d) \/ CloneFails(call, ssrc, d)
        \/ Collision(call, ssrc, d)

PacketWork(call, ssrc) ==
    \E d \in {"sender", "receiver"}, n \in {0, 1} :
        CloneTemplate(call, ssrc, d, n) \/ UseStream(call, ssrc, d, n)

LEMMA PacketKinds ==
    ASSUME NEW ssrc, Protect(ssrc) \/ Unprotect(ssrc)
    PROVE  \E call \in {"protect", "unprotect"} :
             PacketQuiet(call, ssrc) \/ PacketWork(call, ssrc)
  <1>1. CASE Protect(ssrc)
    BY <1>1, Zenon DEF Protect, PacketQuiet, PacketWork
  <1>2. CASE Unprotect(ssrc)
    BY <1>2, Zenon DEF Unprotect, PacketQuiet, PacketWork
  <1> QED BY <1>1, <1>2

LEMMA PacketKeeps ==
    ASSUME SessionInv, NEW ssrc \in Ssrcs, Protect(ssrc) \/ Unprotect(ssrc)
    PROVE  SessionInv'
  <1>1. PICK call : PacketQuiet(call, ssrc) \/ PacketWork(call, ssrc)
    BY PacketKinds, Zenon
  <1>2. CASE PacketQuiet(call, ssrc)
    <2>1. UNCHANGED <<list, template, stream, keys, fault>>
      BY <1>2 DEF PacketQuiet, NoContext, CloneFails, Collision
    <2> QED BY <2>1, QuietKeeps, SMTT(30)
  <1>3. CASE PacketWork(call, ssrc)
    BY <1>3, CloneTemplateKeeps, UseStreamKeeps, Zenon DEF PacketWork
  <1> QED BY <1>1, <1>2, <1>3

LEMMA SessionInvHolds == Spec => []SessionInv
  <1>1. SessionInv /\ [Next]_vars => SessionInv'
    <2> SUFFICES ASSUME SessionInv, [Next]_vars PROVE SessionInv'
      OBVIOUS
    <2>1. CASE UNCHANGED vars
      BY <2>1, QuietKeeps DEF vars
    <2> QED BY <2>1, ManageKeeps, RekeyKeeps, PacketKeeps, Zenon DEF Next
  <1> QED BY <1>1, SessionInvInit, PTL DEF Spec

-----------------------------------------------------------------------------
(* Whatever fails, only the template's key material is shared
   (Session!SharedWithTemplateOnly): srtp_stream_dealloc, which spares what the
   stream has in common with the template, never takes another stream's. *)
THEOREM OnlyTemplateShared == Spec => []SharedWithTemplateOnly
  <1>1. SessionInv => SharedWithTemplateOnly
    <2> SUFFICES ASSUME SessionInv PROVE SharedWithTemplateOnly
      OBVIOUS
    <2>1. DOMAIN stream = Cells(Range(list), template)
      BY DEF SessionInv, Memory
    <2> QED BY <2>1, Zenon DEF SessionInv, Memory, SharedWithTemplateOnly, IsClone
  <1> QED BY <1>1, SessionInvHolds, PTL

(* No call touches memory that is not allocated or frees it twice
   (Session!NoFault), in a session of any size and with any failing allocation
   but the one of the stream list. *)
THEOREM MemorySafe == "list" \notin Failures => (Spec => []NoFault)
  <1> SUFFICES ASSUME "list" \notin Failures PROVE Spec => []NoFault
    OBVIOUS
  <1>1. SessionInv => NoFault
    BY Zenon DEF SessionInv, NoFault
  <1> QED BY <1>1, SessionInvHolds, PTL

(* The session holds exactly the memory it can reach (Session!NoLeak), unless
   an update cannot initialise the new template or allocate the new list. *)
THEOREM NothingLeaks == Tidy => (Spec => []NoLeak)
  <1> SUFFICES ASSUME Tidy PROVE Spec => []NoLeak
    OBVIOUS
  <1>1. SessionInv => NoLeak
    <2> SUFFICES ASSUME SessionInv PROVE NoLeak
      OBVIOUS
    <2>1. DOMAIN stream = Reachable /\ Reachable = Cells(Range(list), template)
      BY DEF SessionInv, Memory, Reachable, Cells
    <2>2. /\ \A id \in Reachable : stream[id].keys \in keys
          /\ \A k \in keys : \E id \in Reachable : stream[id].keys = k
      BY <2>1, Zenon DEF SessionInv, Memory
    <2> QED BY <2>1, <2>2, Zenon DEF NoLeak
  <1> QED BY <1>1, SessionInvHolds, PTL

=============================================================================
