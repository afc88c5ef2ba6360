-------------------------- MODULE CryptoKernelProofs --------------------------
(***************************************************************************)
(* The safety properties of CryptoKernel for every set of application       *)
(* types, every relation Passing and any number of failures.                *)
(***************************************************************************)
EXTENDS CryptoKernel, TLAPS

----------------------------------------------------------------------------
(* The calls of a self-test *)

CallNames ==
  {"alloc", "init", "length", "key_length", "set_iv", "set_aad", "encrypt",
   "decrypt", "compare", "invert", "start", "compute", "dealloc"}

(* Where a part of a self-test allocates and releases its context. *)
Brackets(s, allocs, deallocs) ==
  /\ s \in Seq(CallNames)
  /\ \A n \in 1..Len(s) : s[n] = "alloc" <=> n \in allocs
  /\ \A n \in 1..Len(s) : s[n] = "dealloc" <=> n \in deallocs

LEMMA EncryptTestShape ==
    ASSUME NEW t
    PROVE  /\ Brackets(EncryptTest(t), {1}, {})
           /\ Len(EncryptTest(t)) > 1
  <1> DEFINE s == EncryptTest(t)
  <1>1. CASE IsGcm(t)
    <2>1. SetAad(t) = <<"set_aad">>
      BY <1>1 DEF SetAad
    <2>2. /\ s \in Seq(CallNames) /\ Len(s) = 7
          /\ s[1] = "alloc" /\ s[2] = "init" /\ s[3] = "length"
          /\ s[4] = "set_iv" /\ s[5] = "set_aad" /\ s[6] = "encrypt"
          /\ s[7] = "compare"
      BY <2>1 DEF EncryptTest, CallNames
    <2> QED BY <2>2 DEF Brackets
  <1>2. CASE ~IsGcm(t)
    <2>1. SetAad(t) = <<>>
      BY <1>2 DEF SetAad
    <2>2. /\ s \in Seq(CallNames) /\ Len(s) = 6
          /\ s[1] = "alloc" /\ s[2] = "init" /\ s[3] = "length"
          /\ s[4] = "set_iv" /\ s[5] = "encrypt" /\ s[6] = "compare"
      BY <2>1 DEF EncryptTest, CallNames
    <2> QED BY <2>2 DEF Brackets
  <1> QED BY <1>1, <1>2

LEMMA DecryptTestShape ==
    ASSUME NEW t
    PROVE  /\ Brackets(DecryptTest(t), {}, {Len(DecryptTest(t))})
           /\ Len(DecryptTest(t)) > 1
  <1> DEFINE s == DecryptTest(t)
  <1>1. CASE IsGcm(t)
    <2>1. SetAad(t) = <<"set_aad">>
      BY <1>1 DEF SetAad
    <2>2. /\ s \in Seq(CallNames) /\ Len(s) = 7
          /\ s[1] = "init" /\ s[2] = "length" /\ s[3] = "set_iv"
          /\ s[4] = "set_aad" /\ s[5] = "decrypt" /\ s[6] = "compare"
          /\ s[7] = "dealloc"
      BY <2>1 DEF DecryptTest, CallNames
    <2> QED BY <2>2 DEF Brackets
  <1>2. CASE ~IsGcm(t)
    <2>1. SetAad(t) = <<>>
      BY <1>2 DEF SetAad
    <2>2. /\ s \in Seq(CallNames) /\ Len(s) = 6
          /\ s[1] = "init" /\ s[2] = "length" /\ s[3] = "set_iv"
          /\ s[4] = "decrypt" /\ s[5] = "compare" /\ s[6] = "dealloc"
      BY <2>1 DEF DecryptTest, CallNames
    <2> QED BY <2>2 DEF Brackets
  <1> QED BY <1>1, <1>2

LEMMA InvertibilityTestShape ==
    ASSUME NEW t
    PROVE  LET i == InvertibilityTest(t)
           IN  /\ Brackets(i, {1}, {Len(i)})
               /\ Len(i) > 2
               /\ i[Len(i) - 1] = "invert"
  <1> DEFINE s == InvertibilityTest(t)
  <1>1. CASE IsGcm(t)
    <2>1. SetAad(t) = <<"set_aad">>
      BY <1>1 DEF SetAad
    <2>2. /\ s \in Seq(CallNames) /\ Len(s) = 12
          /\ s[1] = "alloc" /\ s[2] = "key_length" /\ s[3] = "init"
          /\ s[4] = "set_iv" /\ s[5] = "set_aad" /\ s[6] = "encrypt"
          /\ s[7] = "init" /\ s[8] = "set_iv" /\ s[9] = "set_aad"
          /\ s[10] = "decrypt" /\ s[11] = "invert" /\ s[12] = "dealloc"
      BY <2>1 DEF InvertibilityTest, CallNames
    <2> QED BY <2>2 DEF Brackets
  <1>2. CASE ~IsGcm(t)
    <2>1. SetAad(t) = <<>>
      BY <1>2 DEF SetAad
    <2>2. /\ s \in Seq(CallNames) /\ Len(s) = 10
          /\ s[1] = "alloc" /\ s[2] = "key_length" /\ s[3] = "init"
          /\ s[4] = "set_iv" /\ s[5] = "encrypt" /\ s[6] = "init"
          /\ s[7] = "set_iv" /\ s[8] = "decrypt" /\ s[9] = "invert"
          /\ s[10] = "dealloc"
      BY <2>1 DEF InvertibilityTest, CallNames
    <2> QED BY <2>2 DEF Brackets
  <1> QED BY <1>1, <1>2

(* Whether a self-test of type t holds a context after its first n calls. *)
FirstEnd(t) == Len(EncryptTest(t)) + Len(DecryptTest(t))
Holds(t, n) == IF t.kind = "cipher" THEN n \notin {0, FirstEnd(t)} ELSE n >= 2

(* A self-test holds a context exactly from an allocation to the release    *)
(* that follows it; the release is its last call, and the comparison that   *)
(* decides about the type the last but one.                                 *)
LEMMA TestCallsShape ==
    ASSUME NEW t
    PROVE  LET c == TestCalls(t)
           IN  /\ Len(c) \in Nat /\ Len(c) >= 2
               /\ ~Holds(t, 0)
               /\ c[Len(c)] = "dealloc" /\ Holds(t, Len(c) - 1)
               /\ c[Len(c) - 1] = LastCheck(t)
               /\ \A n \in 0..Len(c) - 2 :
                    /\ c[n + 1] = "alloc" => ~Holds(t, n) /\ Holds(t, n + 1)
                    /\ c[n + 1] = "dealloc" => Holds(t, n) /\ ~Holds(t, n + 1)
                    /\ c[n + 1] \notin {"alloc", "dealloc"} =>
                         (Holds(t, n) <=> Holds(t, n + 1))
  <1> DEFINE c == TestCalls(t)
  <1>1. CASE t.kind = "cipher"
    <2> DEFINE e == EncryptTest(t)
               d == DecryptTest(t)
               i == InvertibilityTest(t)
    <2>1. c = (e \o d) \o i
      BY <1>1 DEF TestCalls, CipherTypeTest
    <2>2. /\ e \in Seq(CallNames) /\ d \in Seq(CallNames) /\ i \in Seq(CallNames)
          /\ Len(e) > 1 /\ Len(d) > 1 /\ Len(i) > 2
          /\ i[Len(i) - 1] = "invert"
      BY EncryptTestShape, DecryptTestShape, InvertibilityTestShape DEF Brackets
    <2>3. /\ \A n \in 1..Len(e) : (e[n] = "alloc" <=> n = 1) /\ e[n] # "dealloc"
          /\ \A n \in 1..Len(d) : d[n] # "alloc"
                                  /\ (d[n] = "dealloc" <=> n = Len(d))
          /\ \A n \in 1..Len(i) : (i[n] = "alloc" <=> n = 1)
                                  /\ (i[n] = "dealloc" <=> n = Len(i))
      BY EncryptTestShape, DecryptTestShape, InvertibilityTestShape DEF Brackets
    <2>20. /\ Len(e) \in Nat /\ Len(d) \in Nat /\ Len(i) \in Nat
           /\ Len(e) > 1 /\ Len(d) > 1 /\ Len(i) > 2
      <3> HIDE DEF e, d, i
      <3> QED BY <2>2
    <2> HIDE DEF e, d, i
    <2> DEFINE m == Len(e) + Len(d)
    <2>4. Len(c) = m + Len(i)
      BY <2>1, <2>2
    <2>5. \A n \in 1..Len(c) :
            c[n] = IF n <= Len(e) THEN e[n]
                   ELSE IF n <= m THEN d[n - Len(e)] ELSE i[n - m]
      BY <2>1, <2>2, <2>4
    <2> HIDE DEF c
    <2>6. ASSUME NEW n \in 1..Len(c)
          PROVE  /\ c[n] = "alloc" <=> n \in {1, m + 1}
                 /\ c[n] = "dealloc" <=> n \in {m, Len(c)}
      <3>1. CASE n <= Len(e)
        <4>1. c[n] = e[n] /\ n \in 1..Len(e)
          BY <2>20, <2>5, <3>1
        <4> QED BY <2>20, <2>3, <2>4, <3>1, <4>1
      <3>2. CASE n > Len(e) /\ n <= m
        <4>1. c[n] = d[n - Len(e)] /\ n - Len(e) \in 1..Len(d)
          BY <2>20, <2>5, <3>2
        <4>2. /\ c[n] # "alloc"
              /\ c[n] = "dealloc" <=> n - Len(e) = Len(d)
          BY <2>3, <4>1, Zenon
        <4> QED BY <2>20, <2>4, <3>2, <4>2
      <3>3. CASE n > m
        <4>1. c[n] = i[n - m] /\ n - m \in 1..Len(i)
          BY <2>20, <2>4, <2>5, <3>3
        <4>2. /\ c[n] = "alloc" <=> n - m = 1
              /\ c[n] = "dealloc" <=> n - m = Len(i)
          BY <2>3, <4>1, Zenon
        <4> QED BY <2>20, <2>4, <3>3, <4>2
      <3> QED BY <2>20, <3>1, <3>2, <3>3
    <2>7. c[Len(c) - 1] = "invert"
      <3>1. Len(c) - 1 \in 1..Len(c) /\ Len(c) - 1 > m /\ Len(c) - 1 > Len(e)
            /\ Len(c) - 1 - m = Len(i) - 1
        BY <2>20, <2>4
      <3>2. ~(Len(c) - 1 <= Len(e)) /\ ~(Len(c) - 1 <= m)
        BY <2>20, <3>1
      <3>3. c[Len(c) - 1] = i[Len(c) - 1 - m]
        BY <2>5, <3>1, <3>2, Zenon
      <3> QED BY <2>2, <3>1, <3>3, Zenon
    <2>8. \A n : Holds(t, n) <=> n \notin {0, m}
      BY <1>1 DEF Holds, FirstEnd, e, d
    <2>9. LastCheck(t) = "invert"
      BY <1>1 DEF LastCheck
    <2>10. m \in Nat /\ m > 1 /\ Len(c) \in Nat /\ Len(c) > m + 2
      BY <2>20, <2>4
    <2> HIDE DEF m
    <2>11. c[Len(c)] = "dealloc" /\ Holds(t, Len(c) - 1) /\ ~Holds(t, 0)
      BY <2>6, <2>8, <2>10
    <2>12. ASSUME NEW n \in 0..Len(c) - 2
           PROVE  /\ c[n + 1] = "alloc" => ~Holds(t, n) /\ Holds(t, n + 1)
                  /\ c[n + 1] = "dealloc" => Holds(t, n) /\ ~Holds(t, n + 1)
                  /\ c[n + 1] \notin {"alloc", "dealloc"} =>
                       (Holds(t, n) <=> Holds(t, n + 1))
      <3>1. n + 1 \in 1..Len(c) /\ n + 1 # Len(c)
        BY <2>10
      <3>2. /\ c[n + 1] = "alloc" <=> n \in {0, m}
            /\ c[n + 1] = "dealloc" <=> n + 1 = m
        BY <2>6, <2>10, <3>1
      <3> QED BY <2>8, <2>10, <3>2
    <2> QED BY <2>7, <2>9, <2>10, <2>11, <2>12 DEF c
  <1>2. CASE t.kind # "cipher"
    <2>1. c = <<"length", "alloc", "init", "start", "compute", "compare",
                "dealloc">>
      BY <1>2 DEF TestCalls, AuthTypeTest
    <2>2. \A n : Holds(t, n) <=> n >= 2
      BY <1>2 DEF Holds
    <2>3. LastCheck(t) = "compare"
      BY <1>2 DEF LastCheck
    <2> HIDE DEF c
    <2>4. Len(c) = 7 /\ c[1] = "length" /\ c[2] = "alloc" /\ c[3] = "init"
          /\ c[4] = "start" /\ c[5] = "compute" /\ c[6] = "compare"
          /\ c[7] = "dealloc"
      BY <2>1
    <2> QED BY <2>2, <2>3, <2>4 DEF c
  <1> QED BY <1>1, <1>2

----------------------------------------------------------------------------
(* The work of a call *)

BuiltInIds ==
  {"null_cipher", "aes_icm_128", "aes_icm_192", "aes_icm_256", "aes_gcm_128",
   "aes_gcm_256", "null_auth", "hmac"}
BuiltInModules ==
  {"crypto kernel", "auth func", "cipher", "alloc", "aes icm", "aes gcm",
   "hmac", "srtp"}

Types ==
  AppTypes \cup {Type(kind, id) : kind \in {"cipher", "auth"}, id \in BuiltInIds}
Names   == {t.name : t \in Types}
Modules == AppModules \cup BuiltInModules

Work ==
  [op : {"test", "retest"}, type : Types, data : Names]
    \cup [op : {"load"}, type : Types, replace : BOOLEAN]
    \cup [op : {"swap"}, type : Types]
    \cup [op : {"module"}, module : Modules]
    \cup [op : {"report", "secure"}]

(* Work a call may begin with: each type is tested before it is loaded. *)
Ordered(s) ==
  /\ s \in Seq(Work)
  /\ \A i \in 1..Len(s) :
       /\ s[i].op # "swap"
       /\ s[i].op = "load" =>
            i > 1 /\ s[i - 1] = Test(s[i].type, s[i].type.name)

LEMMA TypesHaveKinds == \A t \in Types : t.kind \in {"cipher", "auth"}
  BY AppAssumption DEF Types, Type

LEMMA OrderedConcat ==
    ASSUME NEW s, NEW u, Ordered(s), Ordered(u)
    PROVE  Ordered(s \o u)
  <1> DEFINE c == s \o u
  <1>1. /\ s \in Seq(Work) /\ u \in Seq(Work)
        /\ Len(s) \in Nat /\ Len(u) \in Nat
    BY DEF Ordered
  <1>2. /\ c \in Seq(Work) /\ Len(c) = Len(s) + Len(u)
        /\ \A i \in 1..Len(c) : c[i] = IF i <= Len(s) THEN s[i] ELSE u[i - Len(s)]
    BY <1>1
  <1> HIDE DEF c
  <1>3. ASSUME NEW i \in 1..Len(c)
        PROVE  /\ c[i].op # "swap"
               /\ c[i].op = "load" =>
                    i > 1 /\ c[i - 1] = Test(c[i].type, c[i].type.name)
    <2>1. CASE i <= Len(s)
      <3>1. /\ i \in 1..Len(s)
            /\ i > 1 => i - 1 \in 1..Len(c) /\ i - 1 <= Len(s)
        BY <1>1, <1>2, <2>1
      <3>2. c[i] = s[i] /\ (i > 1 => c[i - 1] = s[i - 1])
        BY <1>2, <2>1, <3>1, Zenon
      <3> QED BY <3>1, <3>2 DEF Ordered
    <2>2. CASE i > Len(s)
      <3> DEFINE j == i - Len(s)
      <3>1. /\ j \in 1..Len(u) /\ ~(i <= Len(s))
            /\ j > 1 => /\ i > 1 /\ i - 1 \in 1..Len(c) /\ ~(i - 1 <= Len(s))
                        /\ i - 1 - Len(s) = j - 1
        BY <1>1, <1>2, <2>2
      <3>2. c[i] = u[j] /\ (j > 1 => c[i - 1] = u[i - 1 - Len(s)])
        BY <1>2, <3>1, Zenon
      <3> HIDE DEF j
      <3> QED BY <3>1, <3>2 DEF Ordered
    <2> QED BY <1>1, <2>1, <2>2
  <1> QED BY <1>2, <1>3 DEF Ordered, c

LEMMA OrderedLoad ==
    ASSUME NEW t \in Types
    PROVE  /\ Ordered(<<Test(t, t.name), Load(t)>>)
           /\ Ordered(<<Test(t, t.name), Replace(t)>>)
  <1>1. ASSUME NEW b \in BOOLEAN,
               NEW l, l = [op |-> "load", type |-> t, replace |-> b]
        PROVE  Ordered(<<Test(t, t.name), l>>)
    <2>1. t.name \in Names
      BY DEF Names
    <2>2. Test(t, t.name) \in Work /\ l \in Work
      BY <1>1, <2>1 DEF Work, Test
    <2> DEFINE s == <<Test(t, t.name), l>>
    <2>3. s \in Seq(Work) /\ Len(s) = 2 /\ s[1] = Test(t, t.name) /\ s[2] = l
      BY <2>2
    <2>4. /\ s[1].op = "test" /\ s[2].op = "load" /\ s[2].type = t
      BY <1>1, <2>3 DEF Test
    <2> HIDE DEF s
    <2>5. Ordered(s)
      BY <2>3, <2>4 DEF Ordered
    <2> QED BY <2>5 DEF s
  <1> QED BY <1>1, Zenon DEF Load, Replace

LEMMA OrderedModule ==
    ASSUME NEW m \in Modules PROVE Ordered(Module(m))
  <1> DEFINE j == [op |-> "module", module |-> m]
  <1>1. j \in Work /\ j.op = "module"
    BY DEF Work
  <1>2. Module(m) = <<j>>
    BY DEF Module
  <1> HIDE DEF j
  <1> QED BY <1>1, <1>2 DEF Ordered

LEMMA OrderedSingle ==
    ASSUME NEW o \in {"report", "secure"} PROVE Ordered(<<[op |-> o]>>)
  <1> DEFINE j == [op |-> o]
  <1>1. j \in Work /\ j.op = o
    BY DEF Work
  <1> HIDE DEF j
  <1>2. Ordered(<<j>>)
    BY <1>1 DEF Ordered
  <1> QED BY <1>2 DEF j

LEMMA OrderedBuiltIn ==
    ASSUME NEW id \in BuiltInIds
    PROVE  Ordered(Cipher(id)) /\ Ordered(Auth(id))
  <1>1. /\ Type("cipher", id) \in Types /\ Type("auth", id) \in Types
        /\ Type("cipher", id).name = id /\ Type("auth", id).name = id
    BY DEF Types, Type
  <1> QED BY <1>1, OrderedLoad, Zenon DEF Cipher, Auth

LEMMA OrderedInit ==
    Ordered(KernelInit) /\ Ordered(KernelInit \o Module("srtp"))
  <1>1. \A id \in BuiltInIds : Ordered(Cipher(id)) /\ Ordered(Auth(id))
    BY OrderedBuiltIn
  <1>2. \A m \in BuiltInModules : Ordered(Module(m))
    BY OrderedModule DEF Modules
  <1>3. Ordered(<<>>)
    BY DEF Ordered
  <1>4. \A s, u : Ordered(s) /\ Ordered(u) => Ordered(s \o u)
    BY OrderedConcat
  <1>5. Ordered(GcmLoads)
    BY <1>1, <1>2, <1>3, <1>4, Zenon DEF GcmLoads, BuiltInIds, BuiltInModules
  <1>6. Ordered(<<[op |-> "report"]>>) /\ Ordered(<<[op |-> "secure"]>>)
    BY OrderedSingle
  <1>7. Ordered(KernelInit)
    BY <1>1, <1>2, <1>4, <1>5, <1>6, Zenon DEF KernelInit, BuiltInIds, BuiltInModules
  <1> QED BY <1>2, <1>4, <1>7, Zenon DEF BuiltInModules

----------------------------------------------------------------------------
(* The inductive invariant *)

Passed(t, d) == <<t.name, d>> \in Passing

(* A load at the head of the work, or behind anything but its self-test,    *)
(* has passed it.                                                           *)
LoadReady(i) ==
  LET t == todo[i].type
  IN  \/ Passed(t, t.name)
      \/ i > 1 /\ todo[i - 1] = Test(t, t.name)

(* A swap is the next step or the one after, and then the test on the old   *)
(* type's data is still running.                                            *)
SwapReady(i) ==
  LET t == todo[i].type
      l == ListOf(t.kind)
      d == l[Entry(l, t.id)].name
  IN  /\ t.id \in Ids(l)
      /\ Passed(t, t.name)
      /\ \/ i = 1 /\ Passed(t, d)
         \/ i = 2 /\ todo[1] = Test(t, d)

WorkReady ==
  \A i \in 1..Len(todo) : /\ todo[i].op = "load" => LoadReady(i)
                          /\ todo[i].op = "swap" => SwapReady(i)

AtTest == todo # <<>> /\ todo[1].op \in {"test", "retest"}

TestProgress ==
  IF AtTest
  THEN LET t == todo[1].type
       IN  /\ at \in 0..Len(TestCalls(t)) - 1
           /\ held = IF Holds(t, at) THEN 1 ELSE 0
           /\ at = Len(TestCalls(t)) - 1 => Passed(t, todo[1].data)
  ELSE at = 0 /\ held = 0

Lists ==
  /\ cipher_type_list \in Seq(Types) /\ auth_type_list \in Seq(Types)
  /\ debug_module_list \in Seq(Modules)
  /\ contexts \subseteq Types

KernelInv ==
  /\ TypeOK
  /\ Lists
  /\ todo \in Seq(Work)
  /\ WorkReady
  /\ TestProgress
  /\ OneEntryPerId
  /\ OnlyTestedTypes

LEMMA KernelInit0 == Init => KernelInv
  <1> SUFFICES ASSUME Init PROVE KernelInv
    OBVIOUS
  <1>1. TypeOK
    <2>1. Elems(<<>>) = {}
      BY DEF Elems
    <2>2. at \in Nat /\ held \in {0, 1} /\ faults \in 0..MaxFaults
      BY FaultsAssumption DEF Init
    <2> QED BY <2>1, <2>2, Zenon DEF Init, TypeOK
  <1>2. Lists /\ todo \in Seq(Work)
    BY DEF Init, Lists
  <1>3. WorkReady /\ TestProgress
    BY DEF Init, WorkReady, TestProgress, AtTest
  <1>4. OneEntryPerId
    <2>1. ASSUME NEW l, l = <<>>
          PROVE  \A i, j \in 1..Len(l) : i = j
      BY <2>1
    <2> QED BY <2>1, Zenon DEF Init, OneEntryPerId
  <1>5. OnlyTestedTypes
    BY DEF Init, OnlyTestedTypes, Registered, Elems
  <1> QED BY <1>1, <1>2, <1>3, <1>4, <1>5 DEF KernelInv

(* Between two steps of the work no self-test has begun. *)
LEMMA AtRest ==
    ASSUME at' = 0, held' = 0 PROVE TestProgress'
  <1>1. \A t : /\ Len(TestCalls(t)) \in Nat /\ Len(TestCalls(t)) >= 2
               /\ ~Holds(t, 0)
    BY TestCallsShape
  <1>2. CASE AtTest'
    <2> DEFINE t == todo'[1].type
               n == Len(TestCalls(t))
    <2>1. n \in Nat /\ n >= 2 /\ ~Holds(t, 0)
      BY <1>1
    <2> HIDE DEF t, n
    <2>2. 0 \in 0..n - 1 /\ ~(0 = n - 1)
      BY <2>1
    <2> QED BY <1>2, <2>1, <2>2 DEF TestProgress, t, n
  <1>3. CASE ~AtTest'
    BY <1>3 DEF TestProgress
  <1> QED BY <1>2, <1>3

(* A step that leaves the lists and the contexts alone. *)
LEMMA ListsKeep ==
    ASSUME KernelInv, UNCHANGED <<cipher_type_list, auth_type_list,
                                  debug_module_list, contexts>>
    PROVE  Lists' /\ OneEntryPerId' /\ OnlyTestedTypes'
  <1>1. /\ cipher_type_list' = cipher_type_list /\ auth_type_list' = auth_type_list
        /\ debug_module_list' = debug_module_list /\ contexts' = contexts
    OBVIOUS
  <1>2. Lists'
    BY <1>1, Zenon DEF KernelInv, Lists
  <1>3. OneEntryPerId'
    BY <1>1, Zenon DEF KernelInv, OneEntryPerId
  <1>4. OnlyTestedTypes'
    <2>1. Registered' = Registered
      BY <1>1, Zenon DEF Registered, Elems
    <2> QED BY <1>1, <2>1, Zenon DEF KernelInv, OnlyTestedTypes
  <1> QED BY <1>2, <1>3, <1>4

(* A call that begins does so from rest, with ordered work. *)
LEMMA BeginKeeps ==
    ASSUME KernelInv, NEW name, NEW work, Begin(name, work), Ordered(work)
    PROVE  KernelInv'
  <1>1. /\ todo = <<>> /\ todo' = work /\ work \in Seq(Work)
        /\ UNCHANGED <<state, cipher_type_list, auth_type_list,
                       debug_module_list, at, held, contexts, faults, exited>>
    BY DEF Begin, Idle, Ordered, lists
  <1>2. at = 0 /\ held = 0
    BY <1>1 DEF KernelInv, TestProgress, AtTest
  <1>3. TypeOK' /\ Lists' /\ OneEntryPerId' /\ OnlyTestedTypes'
    <2>1. TypeOK'
      BY <1>1 DEF KernelInv, TypeOK, Elems
    <2> QED BY <1>1, <2>1, ListsKeep
  <1>4. WorkReady'
    BY <1>1 DEF Ordered, WorkReady, LoadReady
  <1>5. TestProgress'
    BY <1>1, <1>2, AtRest
  <1> QED BY <1>1, <1>3, <1>4, <1>5 DEF KernelInv

(* What is left after the step at the head of the work is ready too. *)
LEMMA TailReady ==
    ASSUME KernelInv, todo # <<>>, todo' = Tail(todo),
           todo[1].op = "test" => Passed(todo[1].type, todo[1].data),
           todo[1].op = "test" => UNCHANGED <<cipher_type_list, auth_type_list>>
    PROVE  todo' \in Seq(Work) /\ WorkReady'
  <1>1. /\ todo \in Seq(Work) /\ todo' \in Seq(Work)
        /\ Len(todo) \in Nat /\ Len(todo') = Len(todo) - 1
        /\ \A i \in 1..Len(todo') : todo'[i] = todo[i + 1]
    BY DEF KernelInv
  <1>2. ASSUME NEW i \in 1..Len(todo')
        PROVE  /\ todo'[i].op = "load" => LoadReady(i)'
               /\ todo'[i].op = "swap" => SwapReady(i)'
    <2>1. i + 1 \in 1..Len(todo) /\ todo'[i] = todo[i + 1]
      BY <1>1
    <2>2. /\ todo[i + 1].op = "load" => LoadReady(i + 1)
          /\ todo[i + 1].op = "swap" => SwapReady(i + 1)
      BY <2>1 DEF KernelInv, WorkReady
    <2> DEFINE t == todo[i + 1].type
    <2>3. ASSUME todo'[i].op = "load" PROVE LoadReady(i)'
      <3>1. Passed(t, t.name) \/ todo[i] = Test(t, t.name)
        BY <2>1, <2>2, <2>3 DEF LoadReady
      <3>2. CASE i = 1
        <4>1. todo[i] = Test(t, t.name) => Passed(t, t.name)
          BY <3>2 DEF Test
        <4> QED BY <2>1, <3>1, <4>1 DEF LoadReady, Passed
      <3>3. CASE i > 1
        <4>1. todo'[i - 1] = todo[i]
          BY <1>1, <3>3, SMTT(30)
        <4> QED BY <2>1, <3>1, <3>3, <4>1 DEF LoadReady, Passed, Test
      <3> QED BY <3>2, <3>3
    <2>4. ASSUME todo'[i].op = "swap" PROVE SwapReady(i)'
      <3> DEFINE l == ListOf(t.kind)
                 d == l[Entry(l, t.id)].name
      <3>0. /\ t.id \in Ids(l) /\ Passed(t, t.name)
            /\ \/ i + 1 = 1 /\ Passed(t, d)
               \/ i + 1 = 2 /\ todo[1] = Test(t, d)
        BY <2>1, <2>2, <2>4, Zenon DEF SwapReady
      <3>1. /\ t.id \in Ids(l) /\ Passed(t, t.name)
            /\ i = 1 /\ todo[1] = Test(t, d)
        <4> HIDE DEF l, t, d
        <4> QED BY <3>0
      <3>2. todo[1].op = "test" /\ todo[1].type = t /\ todo[1].data = d
        <4>1. ASSUME NEW a, NEW b, todo[1] = Test(a, b)
              PROVE  todo[1].op = "test" /\ todo[1].type = a /\ todo[1].data = b
          BY <4>1 DEF Test
        <4> HIDE DEF l, t, d
        <4> QED BY <3>1, <4>1, Zenon
      <3>3. Passed(t, d) /\ UNCHANGED <<cipher_type_list, auth_type_list>>
        BY <3>2, Zenon
      <3>4. todo'[i].type = t
            /\ \A k : ListOf(k)' = ListOf(k)
        BY <2>1, <3>3 DEF ListOf
      <3> QED BY <3>1, <3>3, <3>4, Zenon DEF SwapReady, Passed
    <2> QED BY <2>3, <2>4
  <1> QED BY <1>1, <1>2 DEF WorkReady

(* A call that returns leaves no work. *)
LEMMA ReturnReady ==
    ASSUME todo' = <<>> PROVE todo' \in Seq(Work) /\ WorkReady'
  BY DEF WorkReady

(* The head of the work, and what it may be. *)
LEMMA HeadFacts ==
    ASSUME KernelInv, todo # <<>>
    PROVE  /\ Job = todo[1] /\ todo[1] \in Work /\ 1 \in 1..Len(todo)
           /\ todo[1].op \in {"test", "retest", "load", "swap"} =>
                todo[1].type \in Types
           /\ todo[1].op = "module" => todo[1].module \in Modules
  <1>1. Job = todo[1] /\ todo[1] \in Work /\ 1 \in 1..Len(todo)
    BY DEF KernelInv, Job
  <1> QED BY <1>1 DEF Work

LEMMA TestStepKeeps ==
    ASSUME KernelInv, TestStep PROVE KernelInv'
  <1> DEFINE t == todo[1].type
             c == TestCalls(t)
             n == Len(c)
  <1>1. /\ todo # <<>> /\ todo[1].op \in {"test", "retest"} /\ Job = todo[1]
        /\ UNCHANGED <<lists, contexts, faults, exited>>
    BY HeadFacts DEF TestStep, Testing, Running
  <1>2. /\ at \in 0..n - 1 /\ held = (IF Holds(t, at) THEN 1 ELSE 0)
        /\ at = n - 1 => Passed(t, todo[1].data)
    BY <1>1 DEF KernelInv, TestProgress, AtTest
  <1>3. /\ n \in Nat /\ n >= 2
        /\ c[n] = "dealloc" /\ Holds(t, n - 1) /\ c[n - 1] = LastCheck(t)
        /\ \A k \in 0..n - 2 :
             /\ c[k + 1] = "alloc" => ~Holds(t, k) /\ Holds(t, k + 1)
             /\ c[k + 1] = "dealloc" => Holds(t, k) /\ ~Holds(t, k + 1)
             /\ c[k + 1] \notin {"alloc", "dealloc"} =>
                  (Holds(t, k) <=> Holds(t, k + 1))
    BY TestCallsShape
  <1>4. /\ TestCall = c[at + 1]
        /\ c[at + 1] = LastCheck(t) => Passed(t, todo[1].data)
        /\ held' = CASE c[at + 1] = "alloc"   -> held + 1
                     [] c[at + 1] = "dealloc" -> held - 1
                     [] OTHER                 -> held
        /\ IF at + 1 = n THEN todo' = Tail(todo) /\ at' = 0
                         ELSE at' = at + 1 /\ todo' = todo
    BY <1>1 DEF TestStep, TestCall, Passes, Passed, Done
  <1> HIDE DEF c, n
  <1>5. Lists' /\ OneEntryPerId' /\ OnlyTestedTypes'
    BY <1>1, ListsKeep DEF lists
  <1>6. CASE at + 1 = n
    <2>1. todo' = Tail(todo) /\ at' = 0 /\ at = n - 1
      BY <1>2, <1>3, <1>4, <1>6
    <2>2. held' = 0
      BY <1>2, <1>3, <1>4, <1>6, <2>1
    <2>3. todo' \in Seq(Work) /\ WorkReady'
      BY <1>1, <1>2, <2>1, TailReady DEF lists
    <2>4. TestProgress'
      BY <2>1, <2>2, AtRest
    <2>5. TypeOK'
      BY <1>1, <2>1, <2>2 DEF KernelInv, TypeOK, Elems, lists
    <2> QED BY <1>5, <2>3, <2>4, <2>5 DEF KernelInv
  <1>7. CASE at + 1 # n
    <2>1. todo' = todo /\ at' = at + 1 /\ at \in 0..n - 2
      BY <1>2, <1>3, <1>4, <1>7
    <2>2. held' = (IF Holds(t, at + 1) THEN 1 ELSE 0)
      BY <1>2, <1>3, <1>4, <2>1
    <2>3. at' \in 0..n - 1 /\ (at' = n - 1 => Passed(t, todo[1].data))
      BY <1>3, <1>4, <2>1
    <2>4. TestProgress'
      BY <1>1, <2>1, <2>2, <2>3, Zenon DEF TestProgress, AtTest, Passed, c, n
    <2>5. todo' \in Seq(Work) /\ WorkReady'
      <3>1. UNCHANGED <<cipher_type_list, auth_type_list, todo>>
        BY <1>1, <2>1 DEF lists
      <3> QED BY <3>1, Zenon
              DEF KernelInv, WorkReady, LoadReady, SwapReady, ListOf, Passed
    <2>6. TypeOK'
      BY <1>1, <1>3, <2>1, <2>2 DEF KernelInv, TypeOK, Elems, lists
    <2> QED BY <1>5, <2>4, <2>5, <2>6 DEF KernelInv
  <1> QED BY <1>6, <1>7

LEMMA FailedTestKeeps ==
    ASSUME KernelInv, TestFails PROVE KernelInv'
  <1>1. /\ todo' = <<>> /\ at' = 0 /\ held' = 0
        /\ UNCHANGED <<lists, contexts>>
        /\ exited' \in BOOLEAN
    BY DEF TestFails, Return
  <1>2. faults' \in 0..MaxFaults
    BY FaultsAssumption DEF TestFails, Fault, KernelInv, TypeOK
  <1>3. TypeOK'
    BY <1>1, <1>2 DEF KernelInv, TypeOK, Elems, lists
  <1>4. Lists' /\ OneEntryPerId' /\ OnlyTestedTypes'
    BY <1>1, ListsKeep DEF lists
  <1>5. todo' \in Seq(Work) /\ WorkReady' /\ TestProgress'
    BY <1>1, ReturnReady, AtRest
  <1> QED BY <1>3, <1>4, <1>5 DEF KernelInv

(* A list without two types of one id *)
UniqueIds(l) == \A i, j \in 1..Len(l) : l[i].id = l[j].id => i = j

(* Modules without a name that is there twice *)
Distinct(l) == \A i, j \in 1..Len(l) : l[i] = l[j] => i = j

(* A type is put at the head of the list. *)
LEMMA PrependFacts ==
    ASSUME NEW l \in Seq(Types), NEW t \in Types, UniqueIds(l), t.id \notin Ids(l),
           NEW n, n = <<t>> \o l
    PROVE  /\ n \in Seq(Types) /\ UniqueIds(n)
           /\ Elems(n) = Elems(l) \cup {t}
  <1>1. /\ n \in Seq(Types) /\ Len(l) \in Nat /\ Len(n) = Len(l) + 1
        /\ n[1] = t /\ \A i \in 1..Len(l) : n[i + 1] = l[i]
    OBVIOUS
  <1>2. \A i \in 1..Len(l) : l[i].id # t.id
    BY DEF Ids, Elems
  <1>3. ASSUME NEW i \in 1..Len(n)
        PROVE  \/ i = 1 /\ n[i] = t
               \/ i > 1 /\ i - 1 \in 1..Len(l) /\ n[i] = l[i - 1]
    BY <1>1
  <1>4. UniqueIds(n)
    <2> SUFFICES ASSUME NEW i \in 1..Len(n), NEW j \in 1..Len(n),
                        n[i].id = n[j].id
                 PROVE  i = j
      BY DEF UniqueIds
    <2>1. CASE i = 1 \/ j = 1
      BY <1>2, <1>3, <2>1
    <2>2. CASE i # 1 /\ j # 1
      <3>1. l[i - 1].id = l[j - 1].id
        BY <1>3, <2>2
      <3>2. i - 1 = j - 1
        BY <1>3, <2>2, <3>1, Zenon DEF UniqueIds
      <3> QED BY <3>2
    <2> QED BY <2>1, <2>2
  <1>5. Elems(n) = Elems(l) \cup {t}
    <2>1. \A i \in 1..Len(l) : i + 1 \in 1..Len(n)
      BY <1>1
    <2>2. 1 \in 1..Len(n)
      BY <1>1
    <2>3. Elems(n) \subseteq Elems(l) \cup {t}
      BY <1>3 DEF Elems
    <2>4. Elems(l) \cup {t} \subseteq Elems(n)
      BY <1>1, <2>1, <2>2 DEF Elems
    <2> QED BY <2>3, <2>4
  <1> QED BY <1>1, <1>4, <1>5

(* A type takes the place of the one that has its id. *)
LEMMA SwappedFacts ==
    ASSUME NEW l \in Seq(Types), NEW t \in Types, UniqueIds(l), t.id \in Ids(l)
    PROVE  LET n == Swapped(l, t)  e == Entry(l, t.id)
           IN  /\ e \in 1..Len(l) /\ l[e].id = t.id
               /\ n \in Seq(Types) /\ Len(n) = Len(l) /\ UniqueIds(n)
               /\ \A i \in 1..Len(l) : n[i] = IF i = e THEN t ELSE l[i]
               /\ Elems(n) \subseteq Elems(l) \cup {t}
               /\ t \in Elems(n)
               /\ \A u \in Elems(l) : u \in Elems(n) \/ u = l[e]
               /\ Ids(n) = Ids(l)
  <1> DEFINE n == Swapped(l, t)
             e == Entry(l, t.id)
  <1>1. e \in 1..Len(l) /\ l[e].id = t.id
    <2>1. \E i \in 1..Len(l) : l[i].id = t.id
      BY DEF Ids, Elems
    <2> QED BY <2>1 DEF Entry
  <1>2. /\ n = [l EXCEPT ![e] = t]
        /\ n \in Seq(Types) /\ Len(n) = Len(l)
        /\ \A i \in 1..Len(l) : n[i] = IF i = e THEN t ELSE l[i]
    BY <1>1 DEF Swapped
  <1> HIDE DEF n, e
  <1>3. \A i \in 1..Len(l) : n[i].id = l[i].id
    BY <1>1, <1>2
  <1>4. UniqueIds(n)
    BY <1>2, <1>3 DEF UniqueIds
  <1>5. /\ Elems(n) \subseteq Elems(l) \cup {t} /\ t \in Elems(n)
        /\ \A u \in Elems(l) : u \in Elems(n) \/ u = l[e]
    BY <1>1, <1>2 DEF Elems
  <1>6. Ids(n) = Ids(l)
    BY <1>2, <1>3 DEF Ids, Elems
  <1> QED BY <1>1, <1>2, <1>4, <1>5, <1>6, Zenon DEF n, e

LEMMA TwoFirst ==
    \A S : \A a, b \in S, v \in Seq(S) : \A c :
      c = <<a, b>> \o v =>
        /\ c \in Seq(S) /\ Len(c) = Len(v) + 2
        /\ c[1] = a /\ c[2] = b
        /\ \A i \in 3..Len(c) : c[i] = v[i - 2]
  OBVIOUS

(* The step that puts a replaced type's test data and the swap before the   *)
(* work that is left.                                                       *)
BeginSwap ==
  LET t == todo[1].type  l == ListOf(t.kind)
  IN  /\ t.id \in Ids(l)
      /\ todo' = <<Test(t, l[Entry(l, t.id)].name),
                   [op |-> "swap", type |-> t]>> \o Tail(todo)
      /\ UNCHANGED <<cipher_type_list, auth_type_list>>

LEMMA ReplaceReady ==
    ASSUME KernelInv, todo # <<>>, todo[1].op = "load", BeginSwap
    PROVE  todo' \in Seq(Work) /\ WorkReady'
  <1> DEFINE t == todo[1].type
             l == ListOf(t.kind)
             d == l[Entry(l, t.id)].name
             swap == [op |-> "swap", type |-> t]
             u == Tail(todo)
  <1>1. /\ t \in Types /\ l \in Seq(Types) /\ t.id \in Ids(l)
        /\ todo' = <<Test(t, d), swap>> \o u
    BY HeadFacts DEF KernelInv, Lists, ListOf, BeginSwap
  <1>2. Passed(t, t.name)
    BY HeadFacts DEF KernelInv, WorkReady, LoadReady
  <1>3. d \in Names
    <2>1. \E i \in 1..Len(l) : l[i].id = t.id
      BY <1>1, Zenon DEF Ids, Elems
    <2>2. Entry(l, t.id) \in 1..Len(l)
      BY <2>1, Zenon DEF Entry
    <2>3. l[Entry(l, t.id)] \in Types
      <3> HIDE DEF t, l
      <3> QED BY <1>1, <2>2
    <2> QED BY <2>3, Zenon DEF Names
  <1>4. Test(t, d) \in Work /\ swap \in Work
    BY <1>1, <1>3, Zenon DEF Work, Test
  <1>5. /\ u \in Seq(Work) /\ Len(todo) \in Nat /\ Len(u) = Len(todo) - 1
        /\ \A i \in 1..Len(u) : u[i] = todo[i + 1]
    BY DEF KernelInv
  <1>6. /\ todo' \in Seq(Work) /\ Len(todo') = Len(todo) + 1
        /\ todo'[1] = Test(t, d) /\ todo'[2] = swap
        /\ \A i \in 3..Len(todo') : todo'[i] = todo[i - 1]
    <2>2. /\ todo' \in Seq(Work) /\ Len(todo') = Len(u) + 2
          /\ todo'[1] = Test(t, d) /\ todo'[2] = swap
          /\ \A i \in 3..Len(todo') : todo'[i] = u[i - 2]
      <3>1. /\ Test(t, d) \in Work /\ swap \in Work /\ u \in Seq(Work)
            /\ todo' = <<Test(t, d), swap>> \o u
        BY <1>1, <1>4, <1>5, Zenon
      <3> HIDE DEF u, d, swap, l, t
      <3> QED BY <3>1, TwoFirst, SMTT(30)
    <2> HIDE DEF u, d, swap
    <2>3. ASSUME NEW i \in 3..Len(todo') PROVE todo'[i] = todo[i - 1]
      <3>1. Len(todo') = Len(u) + 2 /\ Len(u) \in Nat
        BY <1>5, <2>2
      <3>2. i - 2 \in 1..Len(u) /\ (i - 2) + 1 = i - 1
        BY <3>1
      <3>3. todo'[i] = u[i - 2] /\ u[i - 2] = todo[(i - 2) + 1]
        BY <1>5, <2>2, <3>2, Zenon
      <3> QED BY <3>2, <3>3
    <2>4. Len(todo') = Len(todo) + 1
      <3>1. Len(todo') = Len(u) + 2 /\ Len(u) = Len(todo) - 1 /\ Len(todo) \in Nat
        BY <1>5, <2>2
      <3> QED BY <3>1
    <2> QED BY <2>2, <2>3, <2>4
  <1>7. SwapReady(2)'
    <2>1. todo'[2].type = t
      BY <1>6, SMTT(30)
    <2>2. \A x : (ListOf(x))' = ListOf(x)
      BY SMTT(30) DEF ListOf, BeginSwap
    <2>3. LET m == ListOf(t.kind)
          IN  /\ t.id \in Ids(m) /\ todo'[1] = Test(t, m[Entry(m, t.id)].name)
      BY <1>1, <1>6, Zenon
    <2> HIDE DEF t
    <2> QED BY <1>2, <2>1, <2>2, <2>3 DEF SwapReady, Passed
  <1> HIDE DEF u, d, swap, l
  <1>8. ASSUME NEW i \in 1..Len(todo'), i > 2
        PROVE  /\ todo'[i].op = "load" => LoadReady(i)'
               /\ todo'[i].op # "swap"
    <2> i \in 3..Len(todo') /\ Len(todo') = Len(todo) + 1 /\ Len(todo) \in Nat
      <3>1. Len(todo') = Len(todo) + 1 /\ Len(todo) \in Nat
        BY <1>5, <1>6
      <3> QED BY <1>8, <3>1
    <2>1. i - 1 \in 1..Len(todo) /\ i - 1 > 1 /\ todo'[i] = todo[i - 1]
      <3>1. todo'[i] = todo[i - 1]
        BY <1>6
      <3> QED BY <3>1
    <2>2. /\ todo[i - 1].op = "load" => LoadReady(i - 1)
          /\ todo[i - 1].op = "swap" => SwapReady(i - 1)
      BY <2>1 DEF KernelInv, WorkReady
    <2>3. \A v, e : todo[1] # Test(v, e)
      BY SMTT(30) DEF Test
    <2>4. todo[i - 1].op # "swap"
      BY <2>1, <2>2, <2>3 DEF SwapReady
    <2>5. ASSUME todo'[i].op = "load" PROVE LoadReady(i)'
      <3> DEFINE v == todo[i - 1].type
      <3>1. Passed(v, v.name) \/ todo[i - 1 - 1] = Test(v, v.name)
        BY <2>1, <2>2, <2>5 DEF LoadReady
      <3>2. CASE Passed(v, v.name)
        BY <2>1, <3>2 DEF LoadReady, Passed
      <3>3. CASE todo[i - 1 - 1] = Test(v, v.name)
        <4>1. i - 1 - 1 # 1
          BY <2>3, <3>3
        <4>2. todo'[i - 1] = todo[i - 1 - 1]
          <5>1. i - 1 \in 3..Len(todo')
            BY <4>1
          <5> QED BY <1>6, <5>1
        <4>3. todo'[i - 1] = Test(todo'[i].type, todo'[i].type.name) /\ i > 1
          BY <2>1, <3>3, <4>2
        <4> QED BY <4>3 DEF LoadReady, Test
      <3> QED BY <3>1, <3>2, <3>3
    <2> QED BY <2>1, <2>4, <2>5
  <1>9. todo'[1].op = "test" /\ todo'[2].op = "swap"
    <2>1. Test(t, d).op = "test" /\ swap.op = "swap"
      BY DEF Test, swap
    <2> QED BY <1>6, <2>1
  <1>10. ASSUME NEW i \in 1..Len(todo')
         PROVE  /\ todo'[i].op = "load" => LoadReady(i)'
                /\ todo'[i].op = "swap" => SwapReady(i)'
    <2>1. i = 1 \/ i = 2 \/ i > 2
      BY <1>5, <1>6
    <2>2. CASE i = 1
      BY <1>9, <2>2
    <2>3. CASE i = 2
      BY <1>7, <1>9, <2>3
    <2>4. CASE i > 2
      BY <1>8, <2>4, SMTT(30)
    <2> QED BY <2>1, <2>2, <2>3, <2>4
  <1> QED BY <1>6, <1>10, Zenon DEF WorkReady

LEMMA PlaceKeeps ==
    ASSUME KernelInv, NEW k \in {"cipher", "auth"},
           Place(k, ListOf(k), ListOf(k)'),
           k = "cipher" => auth_type_list' = auth_type_list,
           k = "auth" => cipher_type_list' = cipher_type_list
    PROVE  KernelInv'
  <1> DEFINE t == todo[1].type
             l == ListOf(k)
             n == ListOf(k)'
  <1>1. /\ todo # <<>> /\ todo[1].op = "load" /\ Job = todo[1] /\ t.kind = k
        /\ t \in Types
        /\ UNCHANGED <<state, debug_module_list, held, contexts, exited>>
    BY HeadFacts, Zenon DEF Place, Running
  <1>2. Passed(t, t.name)
    BY <1>1, HeadFacts DEF KernelInv, WorkReady, LoadReady
  <1>3. held' = 0 /\ faults' \in 0..MaxFaults /\ at' = 0
    <2>1. held = 0
      BY <1>1 DEF KernelInv, TestProgress, AtTest
    <2>2. at' = 0
      BY DEF Place, Done, Return
    <2>3. faults' = faults \/ Fault
      BY Zenon DEF Place
    <2>4. faults' \in 0..MaxFaults
      BY <2>3, FaultsAssumption DEF Fault, KernelInv, TypeOK
    <2> QED BY <1>1, <2>1, <2>2, <2>4
  <1>4. TestProgress'
    BY <1>3, AtRest
  <1>5. l \in Seq(Types) /\ UniqueIds(l)
    BY DEF KernelInv, Lists, ListOf, OneEntryPerId, UniqueIds
  <1>6. \/ /\ n = l /\ t.id \in Ids(l)
           /\ todo' = <<Test(t, l[Entry(l, t.id)].name),
                        [op |-> "swap", type |-> t]>> \o Tail(todo)
        \/ n = l /\ todo' = <<>>
        \/ n = <<t>> \o l /\ t.id \notin Ids(l) /\ todo' = Tail(todo)
    BY <1>1, Zenon DEF Place, Done, Return
  <1>7. CASE n = l
    <2>1. UNCHANGED <<cipher_type_list, auth_type_list>>
      BY <1>7, SMTT(30) DEF ListOf
    <2>2. todo' \in Seq(Work) /\ WorkReady'
      <3>1. CASE todo' = <<>>
        BY <3>1, ReturnReady
      <3>2. CASE /\ t.id \in Ids(l)
                 /\ todo' = <<Test(t, l[Entry(l, t.id)].name),
                              [op |-> "swap", type |-> t]>> \o Tail(todo)
        <4>1. BeginSwap
          BY <1>1, <2>1, <3>2 DEF BeginSwap
        <4> QED BY <1>1, <4>1, ReplaceReady
      <3>3. CASE todo' = Tail(todo)
        BY <1>1, <3>3, TailReady
      <3> QED BY <1>6, <3>1, <3>2, <3>3, Zenon
    <2>3. TypeOK'
      BY <1>1, <1>3, <2>1 DEF KernelInv, TypeOK, Elems
    <2>4. Lists' /\ OneEntryPerId' /\ OnlyTestedTypes'
      BY <1>1, <2>1, ListsKeep
    <2> QED BY <1>4, <2>2, <2>3, <2>4 DEF KernelInv
  <1>8. CASE n = <<t>> \o l /\ t.id \notin Ids(l) /\ todo' = Tail(todo)
    <2>1. /\ n \in Seq(Types) /\ UniqueIds(n)
          /\ Elems(n) = Elems(l) \cup {t}
      <3>1. \A m \in Seq(Types), v \in Types : \A w :
              UniqueIds(m) /\ v.id \notin Ids(m) /\ w = <<v>> \o m =>
                w \in Seq(Types) /\ UniqueIds(w) /\ Elems(w) = Elems(m) \cup {v}
        BY PrependFacts, Zenon
      <3> QED BY <1>1, <1>5, <1>8, <3>1, Zenon
    <2>2. todo' \in Seq(Work) /\ WorkReady'
      BY <1>1, <1>8, TailReady
    <2> HIDE DEF n, l, t
    <2>3. /\ k = "cipher" => cipher_type_list' = n /\ cipher_type_list = l
                             /\ auth_type_list' = auth_type_list
          /\ k = "auth" => auth_type_list' = n /\ auth_type_list = l
                           /\ cipher_type_list' = cipher_type_list
      BY Zenon DEF n, l, ListOf
    <2>4. TypeOK'
      BY <1>1, <1>3, <2>1, <2>3 DEF KernelInv, TypeOK
    <2>5. Lists' /\ OneEntryPerId'
      BY <1>1, <2>1, <2>3, ZenonT(60) DEF KernelInv, Lists, OneEntryPerId, UniqueIds
    <2>6. Registered' = Registered \cup {t} /\ contexts' = contexts
      BY <1>1, <2>1, <2>3 DEF Registered
    <2>7. OnlyTestedTypes'
      BY <1>2, <2>6, Zenon DEF KernelInv, OnlyTestedTypes, Passed
    <2> QED BY <1>4, <2>2, <2>4, <2>5, <2>7 DEF KernelInv
  <1> QED BY <1>6, <1>7, <1>8

(* What the swap does: the type takes the place of one whose test data it   *)
(* has passed.                                                              *)
LEMMA SwapEffect ==
    ASSUME KernelInv, Swap, NEW k, k = todo[1].type.kind
    PROVE  LET t == todo[1].type
           IN  /\ t \in Types /\ Passed(t, t.name) /\ k \in {"cipher", "auth"}
               /\ ListOf(k)' \in Seq(Types) /\ UniqueIds(ListOf(k)')
               /\ Elems(ListOf(k)') \subseteq Elems(ListOf(k)) \cup {t}
               /\ t \in Elems(ListOf(k)')
               /\ \A u \in Elems(ListOf(k)) :
                    u \in Elems(ListOf(k)') \/ Vetted(u, t)
               /\ Ids(ListOf(k)') = Ids(ListOf(k))
               /\ k = "cipher" => auth_type_list' = auth_type_list
               /\ k = "auth" => cipher_type_list' = cipher_type_list
  <1> DEFINE t == todo[1].type
             l == ListOf(k)
             e == Entry(l, t.id)
  <1>1. /\ todo # <<>> /\ todo[1].op = "swap" /\ Job = todo[1] /\ t \in Types
        /\ 1 \in 1..Len(todo)
    BY HeadFacts DEF Swap, Running
  <1>2. k \in {"cipher", "auth"}
    BY <1>1, TypesHaveKinds
  <1>3. SwapReady(1)
    BY <1>1, Zenon DEF KernelInv, WorkReady
  <1>4. /\ t.id \in Ids(l) /\ Passed(t, t.name)
        /\ \/ Passed(t, l[e].name)
           \/ 1 = 2 /\ todo[1] = Test(t, l[e].name)
    BY <1>3, Zenon DEF SwapReady
  <1>5. /\ t.id \in Ids(l) /\ Passed(t, t.name) /\ Passed(t, l[e].name)
    <2> HIDE DEF t, l, e
    <2> QED BY <1>4
  <1>6. l \in Seq(Types) /\ UniqueIds(l)
    BY DEF KernelInv, Lists, ListOf, OneEntryPerId, UniqueIds
  <1>7. /\ ListOf(k)' = Swapped(l, t)
        /\ k = "cipher" => auth_type_list' = auth_type_list
        /\ k = "auth" => cipher_type_list' = cipher_type_list
    BY <1>1, <1>2 DEF Swap, ListOf
  <1>8. \A m \in Seq(Types), v \in Types :
          UniqueIds(m) /\ v.id \in Ids(m) =>
            /\ m[Entry(m, v.id)].id = v.id
            /\ Swapped(m, v) \in Seq(Types) /\ UniqueIds(Swapped(m, v))
            /\ Elems(Swapped(m, v)) \subseteq Elems(m) \cup {v}
            /\ v \in Elems(Swapped(m, v))
            /\ \A u \in Elems(m) :
                 u \in Elems(Swapped(m, v)) \/ u = m[Entry(m, v.id)]
            /\ Ids(Swapped(m, v)) = Ids(m)
    BY SwappedFacts, SMTT(30)
  <1> HIDE DEF l, t
  <1>9. /\ l[e].id = t.id
        /\ Swapped(l, t) \in Seq(Types) /\ UniqueIds(Swapped(l, t))
        /\ Elems(Swapped(l, t)) \subseteq Elems(l) \cup {t}
        /\ t \in Elems(Swapped(l, t))
        /\ \A u \in Elems(l) : u \in Elems(Swapped(l, t)) \/ u = l[e]
        /\ Ids(Swapped(l, t)) = Ids(l)
    BY <1>1, <1>5, <1>6, <1>8
  <1>10. l[e].kind = t.kind
    <2>1. \A u \in Elems(l) : u.kind = k
      BY <1>2, Zenon DEF KernelInv, TypeOK, ListOf, l
    <2>2. l[e] \in Elems(l)
      <3>1. \E i \in 1..Len(l) : l[i].id = t.id
        BY <1>5 DEF Ids, Elems
      <3>2. e \in 1..Len(l)
        BY <3>1 DEF Entry
      <3> QED BY <3>2 DEF Elems
    <2> QED BY <2>1, <2>2 DEF t
  <1>11. \A u \in Elems(l) : u \in Elems(Swapped(l, t)) \/ Vetted(u, t)
    BY <1>5, <1>9, <1>10 DEF Vetted, Passed
  <1> QED BY <1>1, <1>2, <1>5, <1>7, <1>9, <1>11, Zenon DEF l, t

LEMMA SwapKeeps ==
    ASSUME KernelInv, Swap PROVE KernelInv'
  <1> DEFINE t == todo[1].type
  <1>1. /\ todo # <<>> /\ todo[1].op = "swap" /\ todo' = Tail(todo) /\ at' = 0
        /\ UNCHANGED <<state, debug_module_list, held, contexts, faults, exited>>
    BY HeadFacts DEF Swap, Running, Done
  <1>2. held' = 0
    BY <1>1 DEF KernelInv, TestProgress, AtTest
  <1>3. todo' \in Seq(Work) /\ WorkReady' /\ TestProgress'
    BY <1>1, <1>2, TailReady, AtRest
  <1>4. PICK k \in {"cipher", "auth"} :
          /\ k = t.kind /\ t \in Types /\ Passed(t, t.name)
          /\ ListOf(k)' \in Seq(Types) /\ UniqueIds(ListOf(k)')
          /\ Elems(ListOf(k)') \subseteq Elems(ListOf(k)) \cup {t}
          /\ k = "cipher" => auth_type_list' = auth_type_list
          /\ k = "auth" => cipher_type_list' = cipher_type_list
    <2>1. \A x : x = todo[1].type.kind =>
            /\ x = t.kind /\ t \in Types /\ Passed(t, t.name)
            /\ x \in {"cipher", "auth"}
            /\ ListOf(x)' \in Seq(Types) /\ UniqueIds(ListOf(x)')
            /\ Elems(ListOf(x)') \subseteq Elems(ListOf(x)) \cup {t}
            /\ x = "cipher" => auth_type_list' = auth_type_list
            /\ x = "auth" => cipher_type_list' = cipher_type_list
      BY SwapEffect
    <2> QED BY <2>1, Zenon
  <1> HIDE DEF t
  <1> DEFINE l == ListOf(k)
             n == ListOf(k)'
  <1>5. /\ k = "cipher" => cipher_type_list' = n /\ cipher_type_list = l
                           /\ auth_type_list' = auth_type_list
        /\ k = "auth" => auth_type_list' = n /\ auth_type_list = l
                         /\ cipher_type_list' = cipher_type_list
        /\ n \in Seq(Types) /\ UniqueIds(n) /\ Elems(n) \subseteq Elems(l) \cup {t}
    BY <1>4, Zenon DEF ListOf
  <1> HIDE DEF n, l
  <1>6. TypeOK'
    BY <1>1, <1>3, <1>4, <1>5, SMTT(30) DEF KernelInv, TypeOK
  <1>7. Lists' /\ OneEntryPerId'
    <2>1. /\ cipher_type_list' \in Seq(Types) /\ auth_type_list' \in Seq(Types)
          /\ UniqueIds(cipher_type_list') /\ UniqueIds(auth_type_list')
      BY <1>4, <1>5, Zenon DEF KernelInv, Lists, OneEntryPerId, UniqueIds
    <2>2. debug_module_list \in Seq(Modules) /\ Distinct(debug_module_list)
          /\ contexts \subseteq Types
      BY DEF KernelInv, Lists, OneEntryPerId, Distinct
    <2>3. debug_module_list' = debug_module_list /\ contexts' = contexts
      BY <1>1
    <2>4. Lists'
      BY <2>1, <2>2, <2>3 DEF Lists
    <2>5. OneEntryPerId'
      BY <2>1, <2>2, <2>3, Zenon DEF OneEntryPerId, UniqueIds, Distinct
    <2> QED BY <2>4, <2>5
  <1>8. Registered' \subseteq Registered \cup {t} /\ contexts' = contexts
    BY <1>1, <1>4, <1>5 DEF Registered
  <1>9. OnlyTestedTypes'
    BY <1>4, <1>8, Zenon DEF KernelInv, OnlyTestedTypes, Passed
  <1> QED BY <1>3, <1>6, <1>7, <1>9 DEF KernelInv

(* The steps that touch neither list of types nor a self-test: what they    *)
(* do to the work and to the debug modules is all there is to check.        *)
LEMMA OtherStepKeeps ==
    ASSUME KernelInv, todo # <<>>, ~AtTest,
           UNCHANGED <<cipher_type_list, auth_type_list, held, contexts, exited>>,
           todo' = Tail(todo) \/ todo' = <<>>, at' = 0,
           faults' = faults \/ Fault,
           state' \in {"insecure", "secure"},
           debug_module_list' \in Seq(Modules),
           \A i, j \in 1..Len(debug_module_list') :
             debug_module_list'[i] = debug_module_list'[j] => i = j
    PROVE  KernelInv'
  <1>1. held' = 0
    BY DEF KernelInv, TestProgress
  <1>2. faults' \in 0..MaxFaults
    BY FaultsAssumption DEF Fault, KernelInv, TypeOK
  <1>3. todo' \in Seq(Work) /\ WorkReady' /\ TestProgress'
    BY <1>1, TailReady, ReturnReady, AtRest DEF AtTest
  <1>4. TypeOK'
    BY <1>1, <1>2 DEF KernelInv, TypeOK, Elems
  <1>5. Lists'
    BY DEF KernelInv, Lists
  <1>6. OneEntryPerId'
    BY DEF KernelInv, OneEntryPerId
  <1>7. OnlyTestedTypes'
    BY Zenon DEF KernelInv, OnlyTestedTypes, Registered, Elems
  <1> QED BY <1>3, <1>4, <1>5, <1>6, <1>7 DEF KernelInv

(* A name is put at the head of the debug modules. *)
LEMMA NameFirst ==
    ASSUME NEW l \in Seq(Modules), NEW m \in Modules, m \notin Elems(l),
           Distinct(l), NEW n, n = <<m>> \o l
    PROVE  /\ n \in Seq(Modules) /\ Distinct(n)
           /\ Elems(n) = Elems(l) \cup {m}
  <1>1. /\ n \in Seq(Modules) /\ Len(l) \in Nat /\ Len(n) = Len(l) + 1
        /\ n[1] = m /\ \A i \in 1..Len(l) : n[i + 1] = l[i]
    OBVIOUS
  <1>2. \A i \in 1..Len(l) : l[i] # m
    BY DEF Elems
  <1>3. ASSUME NEW i \in 1..Len(n)
        PROVE  \/ i = 1 /\ n[i] = m
               \/ i > 1 /\ i - 1 \in 1..Len(l) /\ n[i] = l[i - 1]
    BY <1>1
  <1>4. ASSUME NEW i \in 1..Len(n), NEW j \in 1..Len(n), n[i] = n[j]
        PROVE  i = j
    <2>1. CASE i = 1 \/ j = 1
      BY <1>2, <1>3, <1>4, <2>1
    <2>2. CASE i # 1 /\ j # 1
      <3>1. i - 1 \in 1..Len(l) /\ j - 1 \in 1..Len(l) /\ l[i - 1] = l[j - 1]
        BY <1>3, <1>4, <2>2
      <3>2. i - 1 = j - 1
        BY <3>1, Zenon DEF Distinct
      <3> QED BY <3>2
    <2> QED BY <2>1, <2>2
  <1>5. Elems(n) = Elems(l) \cup {m}
    <2>1. (\A i \in 1..Len(l) : i + 1 \in 1..Len(n)) /\ 1 \in 1..Len(n)
      BY <1>1
    <2>2. Elems(n) \subseteq Elems(l) \cup {m}
      BY <1>3 DEF Elems
    <2>3. Elems(l) \cup {m} \subseteq Elems(n)
      BY <1>1, <2>1 DEF Elems
    <2> QED BY <2>2, <2>3
  <1> QED BY <1>1, <1>4, <1>5 DEF Distinct

LEMMA ModuleEffect ==
    ASSUME KernelInv, PlaceModule
    PROVE  /\ todo # <<>> /\ todo[1].op = "module"
           /\ debug_module_list' \in Seq(Modules)
           /\ Distinct(debug_module_list')
           /\ Elems(debug_module_list) \subseteq Elems(debug_module_list')
           /\ \/ todo' = <<>>
              \/ /\ todo' = Tail(todo)
                 /\ todo[1].module \in Elems(debug_module_list')
  <1> DEFINE l == debug_module_list
             m == todo[1].module
  <1>1. todo # <<>> /\ todo[1].op = "module" /\ Job = todo[1] /\ m \in Modules
    BY HeadFacts DEF PlaceModule, Running
  <1>2. l \in Seq(Modules) /\ Distinct(l)
    BY DEF KernelInv, Lists, OneEntryPerId, Distinct
  <1>3. \/ l' = l /\ todo' = <<>>
        \/ l' = <<m>> \o l /\ m \notin Elems(l) /\ todo' = Tail(todo)
    BY <1>1 DEF PlaceModule, Done, Return
  <1>4. CASE l' = l /\ todo' = <<>>
    BY <1>1, <1>2, <1>4 DEF Elems, Distinct
  <1>5. CASE l' = <<m>> \o l /\ m \notin Elems(l) /\ todo' = Tail(todo)
    <2>1. \A s \in Seq(Modules), x \in Modules : \A n :
            x \notin Elems(s) /\ Distinct(s) /\ n = <<x>> \o s =>
              /\ n \in Seq(Modules) /\ Distinct(n)
              /\ Elems(n) = Elems(s) \cup {x}
      BY NameFirst, Zenon
    <2>2. /\ l' \in Seq(Modules) /\ Distinct(l')
          /\ Elems(l') = Elems(l) \cup {m}
      <3> HIDE DEF m
      <3> QED BY <1>1, <1>2, <1>5, <2>1, Zenon
    <2> QED BY <1>1, <1>5, <2>2
  <1> QED BY <1>3, <1>4, <1>5, SMTT(30)

LEMMA SimpleStepsKeep ==
    ASSUME KernelInv, PlaceModule \/ ReportingInit \/ BecomeSecure
    PROVE  KernelInv'
  <1>1. /\ debug_module_list \in Seq(Modules)
        /\ \A i, j \in 1..Len(debug_module_list) :
             debug_module_list[i] = debug_module_list[j] => i = j
        /\ state \in {"insecure", "secure"}
    BY DEF KernelInv, Lists, OneEntryPerId, TypeOK
  <1>2. CASE PlaceModule
    <2>1. /\ todo # <<>> /\ ~AtTest
          /\ debug_module_list' \in Seq(Modules)
          /\ \A i, j \in 1..Len(debug_module_list') :
               debug_module_list'[i] = debug_module_list'[j] => i = j
          /\ todo' = Tail(todo) \/ todo' = <<>>
      BY <1>2, ModuleEffect DEF AtTest, Distinct
    <2>2. /\ UNCHANGED <<cipher_type_list, auth_type_list, held, contexts, exited,
                         state>>
          /\ at' = 0 /\ (faults' = faults \/ Fault)
      BY <1>2 DEF PlaceModule, Done, Return
    <2> QED BY <1>1, <2>1, <2>2, OtherStepKeeps
  <1>3. CASE ReportingInit
    <2>1. todo # <<>> /\ ~AtTest
      BY <1>3, HeadFacts DEF ReportingInit, Running, AtTest
    <2>2. /\ UNCHANGED <<cipher_type_list, auth_type_list, held, contexts, exited,
                         state, debug_module_list>>
          /\ at' = 0 /\ (faults' = faults \/ Fault)
          /\ todo' = Tail(todo) \/ todo' = <<>>
      BY <1>3 DEF ReportingInit, Done, Return, lists
    <2> QED BY <1>1, <2>1, <2>2, OtherStepKeeps
  <1>4. CASE BecomeSecure
    <2>1. todo # <<>> /\ ~AtTest
      BY <1>4, HeadFacts DEF BecomeSecure, Running, AtTest
    <2>2. /\ UNCHANGED <<cipher_type_list, auth_type_list, held, contexts, exited,
                         faults, debug_module_list>>
          /\ at' = 0 /\ state' = "secure" /\ todo' = Tail(todo)
      BY <1>4 DEF BecomeSecure, Done
    <2> QED BY <1>1, <2>1, <2>2, OtherStepKeeps
  <1> QED BY <1>2, <1>3, <1>4

----------------------------------------------------------------------------
(* The calls *)

LEMMA OrderedRetest ==
    ASSUME NEW l \in Seq(Types) PROVE Ordered(Retest(l))
  <1> DEFINE j(i) == [op |-> "retest", type |-> l[i], data |-> l[i].name]
             r == Retest(l)
  <1>1. Len(l) \in Nat /\ r = [i \in 1..Len(l) |-> j(i)]
    BY DEF Retest
  <1>2. ASSUME NEW i \in 1..Len(l) PROVE j(i) \in Work /\ j(i).op = "retest"
    <2>1. l[i] \in Types /\ l[i].name \in Names
      BY DEF Names
    <2> QED BY <2>1 DEF Work
  <1> HIDE DEF j, r
  <1>3. r \in Seq(Work) /\ Len(r) = Len(l) /\ \A i \in 1..Len(r) : r[i] = j(i)
    BY <1>1, <1>2
  <1>4. Ordered(r)
    BY <1>2, <1>3 DEF Ordered
  <1> QED BY <1>4 DEF r

LEMMA CallsKeep ==
    ASSUME KernelInv, Calls PROVE KernelInv'
  <1>1. \A n, w : Begin(n, w) /\ Ordered(w) => KernelInv'
    BY BeginKeeps
  <1>2. \A t \in AppTypes : /\ Ordered(<<Test(t, t.name), Load(t)>>)
                            /\ Ordered(<<Test(t, t.name), Replace(t)>>)
    BY OrderedLoad DEF Types
  <1>3. Ordered(KernelStatus)
    <2>1. cipher_type_list \in Seq(Types) /\ auth_type_list \in Seq(Types)
      BY DEF KernelInv, Lists
    <2>2. \A l \in Seq(Types) : Ordered(Retest(l))
      BY OrderedRetest
    <2>3. Ordered(Retest(cipher_type_list)) /\ Ordered(Retest(auth_type_list))
      BY <2>1, <2>2
    <2>4. \A s, u : Ordered(s) /\ Ordered(u) => Ordered(s \o u)
      BY OrderedConcat
    <2> QED BY <2>3, <2>4 DEF KernelStatus
  <1>4. \A m \in AppModules \cup {"srtp"} : Ordered(Module(m))
    BY OrderedModule, Zenon DEF Modules, BuiltInModules
  <1>5. CASE SrtpInit
    <2>1. \A s, u : Ordered(s) /\ Ordered(u) => Ordered(s \o u)
      BY OrderedConcat
    <2>2. Ordered(KernelStatus \o Module("srtp"))
      BY <1>3, <1>4, <2>1
    <2> QED BY <1>1, <1>5, <2>2, OrderedInit DEF SrtpInit
  <1>6. CASE Status
    BY <1>1, <1>3, <1>6 DEF Status
  <1>7. CASE LoadModule
    BY <1>1, <1>4, <1>7 DEF LoadModule
  <1>8. CASE LoadCipherType \/ ReplaceCipherType \/ LoadAuthType \/ ReplaceAuthType
    BY <1>1, <1>2, <1>8, Zenon
       DEF LoadCipherType, ReplaceCipherType, LoadAuthType, ReplaceAuthType
  <1>9. CASE Shutdown
    <2>1. /\ todo' = todo /\ at' = at /\ held' = held /\ contexts' = contexts
          /\ cipher_type_list' = <<>> /\ auth_type_list' = <<>>
          /\ debug_module_list' = <<>> /\ state' = "insecure"
          /\ faults' = faults /\ exited' = exited /\ todo = <<>>
      BY <1>9 DEF Shutdown, Idle
    <2>2. Elems(<<>>) = {}
      BY DEF Elems
    <2>3. TypeOK'
      BY <2>1, <2>2 DEF KernelInv, TypeOK
    <2>4. Lists' /\ todo' \in Seq(Work) /\ WorkReady'
      BY <2>1, ReturnReady DEF KernelInv, Lists
    <2>5. TestProgress'
      BY <2>1 DEF KernelInv, TestProgress, AtTest
    <2>6. OneEntryPerId'
      <3>1. ASSUME NEW l, l = <<>>
            PROVE  \A i, j \in 1..Len(l) : i = j
        BY <3>1
      <3> QED BY <2>1, <3>1, Zenon DEF OneEntryPerId
    <2>7. OnlyTestedTypes'
      BY <2>1, <2>2, Zenon DEF KernelInv, OnlyTestedTypes, Registered
    <2> QED BY <2>3, <2>4, <2>5, <2>6, <2>7 DEF KernelInv
  <1>10. CASE AllocCipher \/ AllocAuth \/ DeallocContext
    <2>1. /\ UNCHANGED <<lists, todo, at, held, exited>>
          /\ faults' = faults \/ Fault
          /\ contexts' \subseteq contexts \cup Registered
      <3>1. ASSUME NEW l, l = cipher_type_list \/ l = auth_type_list,
                   AllocContext(l)
            PROVE  /\ UNCHANGED <<lists, todo, at, held, exited>>
                   /\ faults' = faults \/ Fault
                   /\ contexts' \subseteq contexts \cup Registered
        <4>1. /\ UNCHANGED <<lists, todo, at, held, exited>>
              /\ faults' = faults \/ Fault
          BY <3>1, SMTT(30) DEF AllocContext
        <4>2. \/ contexts' = contexts
              \/ \E id \in Ids(l) : contexts' = contexts \cup {l[Entry(l, id)]}
          BY <3>1 DEF AllocContext
        <4>3. ASSUME NEW id \in Ids(l) PROVE l[Entry(l, id)] \in Elems(l)
          <5>1. \E i \in 1..Len(l) : l[i].id = id
            BY DEF Ids, Elems
          <5>2. Entry(l, id) \in 1..Len(l)
            BY <5>1 DEF Entry
          <5> QED BY <5>2 DEF Elems
        <4>4. Elems(l) \subseteq Registered
          BY <3>1 DEF Registered
        <4> QED BY <4>1, <4>2, <4>3, <4>4, SMTT(30)
      <3>2. CASE DeallocContext
        BY <3>2 DEF DeallocContext, run
      <3>3. CASE AllocCipher \/ AllocAuth
        BY <3>1, <3>3 DEF AllocCipher, AllocAuth
      <3> QED BY <1>10, <3>2, <3>3
    <2>2. /\ UNCHANGED <<state, cipher_type_list, auth_type_list,
                         debug_module_list, todo, at, held, exited>>
      BY <2>1 DEF lists
    <2>3. faults' \in 0..MaxFaults
      BY <2>1, FaultsAssumption DEF Fault, KernelInv, TypeOK
    <2>4. TypeOK' /\ OneEntryPerId' /\ todo' \in Seq(Work)
      <3>1. TypeOK'
        BY <2>2, <2>3, Zenon DEF KernelInv, TypeOK, Elems
      <3>2. OneEntryPerId' /\ todo' \in Seq(Work)
        BY <2>2, Zenon DEF KernelInv, OneEntryPerId
      <3> QED BY <3>1, <3>2
    <2>5. WorkReady'
      <3>1. todo = <<>>
        BY <1>10 DEF AllocCipher, AllocAuth, AllocContext, DeallocContext, Idle
      <3> QED BY <2>2, <3>1, ReturnReady
    <2>6. TestProgress'
      BY <2>2 DEF KernelInv, TestProgress, AtTest
    <2>7. Registered \subseteq Types
      <3>1. \A l \in Seq(Types) : Elems(l) \subseteq Types
        BY DEF Elems
      <3> QED BY <3>1 DEF KernelInv, Lists, Registered
    <2>8. Lists'
      BY <2>1, <2>2, <2>7 DEF KernelInv, Lists
    <2>9. OnlyTestedTypes'
      <3>1. Registered' = Registered
        BY <2>2 DEF Registered, Elems
      <3> QED BY <2>1, <3>1, Zenon DEF KernelInv, OnlyTestedTypes
    <2> QED BY <2>4, <2>5, <2>6, <2>8, <2>9 DEF KernelInv
  <1> QED BY <1>5, <1>6, <1>7, <1>8, <1>9, <1>10 DEF Calls

LEMMA StepsKeep ==
    ASSUME KernelInv, Steps PROVE KernelInv'
  <1>1. \A k \in {"cipher", "auth"} :
          /\ Place(k, ListOf(k), ListOf(k)')
          /\ k = "cipher" => auth_type_list' = auth_type_list
          /\ k = "auth" => cipher_type_list' = cipher_type_list
          => KernelInv'
    BY PlaceKeeps
  <1>2. CASE PlaceCipherType
    <2>1. ListOf("cipher") = cipher_type_list /\ ListOf("cipher")' = cipher_type_list'
      BY DEF ListOf
    <2> QED BY <1>1, <1>2, <2>1 DEF PlaceCipherType
  <1>3. CASE PlaceAuthType
    <2>1. ListOf("auth") = auth_type_list /\ ListOf("auth")' = auth_type_list'
      BY DEF ListOf
    <2> QED BY <1>1, <1>3, <2>1 DEF PlaceAuthType
  <1> QED BY <1>2, <1>3, TestStepKeeps, FailedTestKeeps, SwapKeeps, SimpleStepsKeep
          DEF Steps

LEMMA KernelInvStep == KernelInv /\ [Next]_vars => KernelInv'
  <1> SUFFICES ASSUME KernelInv, [Next]_vars PROVE KernelInv'
    OBVIOUS
  <1>1. CASE Next
    BY <1>1, CallsKeep, StepsKeep DEF Next
  <1>2. CASE UNCHANGED vars
    <2>1. UNCHANGED <<state, cipher_type_list, auth_type_list, debug_module_list,
                      todo, at, held, contexts, faults, exited>>
      BY <1>2, SMTT(30) DEF vars, lists, run
    <2>2. TypeOK' /\ Lists' /\ todo' \in Seq(Work)
      BY <2>1, SMTT(30) DEF KernelInv, TypeOK, Lists, Elems
    <2>3. WorkReady'
      BY <2>1, ZenonT(60) DEF KernelInv, WorkReady, LoadReady, SwapReady, ListOf, Passed
    <2>4. TestProgress'
      BY <2>1 DEF KernelInv, TestProgress, AtTest, Passed
    <2>5. OneEntryPerId' /\ OnlyTestedTypes'
      BY <2>1 DEF KernelInv, OneEntryPerId, OnlyTestedTypes, Registered, Elems
    <2> QED BY <2>2, <2>3, <2>4, <2>5 DEF KernelInv
  <1> QED BY <1>1, <1>2

LEMMA KernelInvariant == Spec => []KernelInv
  BY KernelInit0, KernelInvStep, PTL DEF Spec

----------------------------------------------------------------------------
(* The theorems *)

(* After any loads, replacements, failed calls and shutdowns, no id is      *)
(* twice in the list of its kind and no name twice among the debug modules: *)
(* srtp_crypto_kernel_get_cipher_type() and the searches before a load have *)
(* one answer.                                                              *)
THEOREM UniqueEntries == Spec => []OneEntryPerId
  <1>1. KernelInv => OneEntryPerId
    BY DEF KernelInv
  <1> QED BY <1>1, KernelInvariant, PTL

(* No type is registered, and no context of it handed out, unless it        *)
(* answers its own test data: the self-test in                              *)
(* srtp_crypto_kernel_do_load_cipher_type() comes before the insertion and  *)
(* every early return leaves the list alone.                                *)
THEOREM TestedBeforeUse == Spec => []OnlyTestedTypes
  <1>1. KernelInv => OnlyTestedTypes
    BY DEF KernelInv
  <1> QED BY <1>1, KernelInvariant, PTL

(* Whichever call of a self-test fails, srtp_cipher_type_test() and         *)
(* srtp_auth_type_test() return without a context they allocated.           *)
THEOREM SelfTestReleases == Spec => []NoSelfTestLeak
  <1>1. KernelInv => NoSelfTestLeak
    BY DEF KernelInv, TestProgress, AtTest, NoSelfTestLeak
  <1> QED BY <1>1, KernelInvariant, PTL

(* The kernel's state, lists and counters have their types. *)
THEOREM KernelTypeCorrect == Spec => []TypeOK
  <1>1. KernelInv => TypeOK
    BY Zenon DEF KernelInv
  <1> QED BY <1>1, KernelInvariant, PTL

----------------------------------------------------------------------------
(* What a step may do to the lists *)

(* Every type that was registered still is, or one that passed its test     *)
(* data is in its place.                                                    *)
Kept == \A t \in Registered :
          t \in Registered' \/ \E u \in Registered' : Vetted(t, u)

LEMMA PlaceEffect ==
    ASSUME KernelInv, NEW k \in {"cipher", "auth"},
           Place(k, ListOf(k), ListOf(k)'),
           k = "cipher" => auth_type_list' = auth_type_list,
           k = "auth" => cipher_type_list' = cipher_type_list
    PROVE  /\ todo # <<>> /\ todo[1].op = "load"
           /\ Registered \subseteq Registered'
           /\ UNCHANGED <<state, debug_module_list>>
           /\ \/ todo' = <<>>
              \/ todo' = Tail(todo) /\ todo[1].type \in Registered'
              \/ BeginSwap
  <1> DEFINE t == todo[1].type
             l == ListOf(k)
             n == ListOf(k)'
  <1>1. /\ todo # <<>> /\ todo[1].op = "load" /\ Job = todo[1] /\ t.kind = k
        /\ t \in Types
        /\ UNCHANGED <<state, debug_module_list>>
    BY HeadFacts, SMTT(30) DEF Place, Running
  <1>2. l \in Seq(Types) /\ UniqueIds(l)
    BY DEF KernelInv, Lists, ListOf, OneEntryPerId, UniqueIds
  <1>3. \/ /\ n = l /\ t.id \in Ids(l)
           /\ todo' = <<Test(t, l[Entry(l, t.id)].name),
                        [op |-> "swap", type |-> t]>> \o Tail(todo)
        \/ n = l /\ todo' = <<>>
        \/ n = <<t>> \o l /\ t.id \notin Ids(l) /\ todo' = Tail(todo)
    BY <1>1, Zenon DEF Place, Done, Return
  <1>4. CASE n = l
    <2>1. UNCHANGED <<cipher_type_list, auth_type_list>>
      BY <1>4 DEF ListOf
    <2>2. Registered' = Registered
      BY <2>1 DEF Registered, Elems
    <2>3. CASE todo' = <<>>
      BY <1>1, <2>2, <2>3
    <2>4. CASE /\ t.id \in Ids(l)
               /\ todo' = <<Test(t, l[Entry(l, t.id)].name),
                            [op |-> "swap", type |-> t]>> \o Tail(todo)
      <3>1. BeginSwap
        BY <1>1, <2>1, <2>4 DEF BeginSwap
      <3> QED BY <1>1, <2>2, <3>1, SMTT(30)
    <2>5. CASE n = <<t>> \o l /\ t.id \notin Ids(l) /\ todo' = Tail(todo)
      <3>1. Len(n) = Len(l) + 1 /\ Len(l) \in Nat
        BY <1>1, <1>2, <2>5
      <3> QED BY <1>4, <3>1
    <2> QED BY <1>3, <2>3, <2>4, <2>5, Zenon
  <1>5. CASE n = <<t>> \o l /\ t.id \notin Ids(l) /\ todo' = Tail(todo)
    <2>1. \A m \in Seq(Types), v \in Types : \A w :
            UniqueIds(m) /\ v.id \notin Ids(m) /\ w = <<v>> \o m =>
              Elems(w) = Elems(m) \cup {v}
      BY PrependFacts, Zenon
    <2>2. Elems(n) = Elems(l) \cup {t}
      BY <1>1, <1>2, <1>5, <2>1, Zenon
    <2> HIDE DEF n, l, t
    <2>3. /\ k = "cipher" => cipher_type_list' = n /\ cipher_type_list = l
                             /\ auth_type_list' = auth_type_list
          /\ k = "auth" => auth_type_list' = n /\ auth_type_list = l
                           /\ cipher_type_list' = cipher_type_list
      BY DEF n, l, ListOf
    <2>4. Registered' = Registered \cup {t}
      BY <2>2, <2>3, Zenon DEF Registered
    <2> QED BY <1>1, <1>5, <2>4 DEF t
  <1> QED BY <1>3, <1>4, <1>5, Zenon

(* A step of the running call and what it leaves to do: a load or a module  *)
(* that leaves the work without an error has been registered.               *)
LEMMA StepEffect ==
    ASSUME KernelInv, Steps
    PROVE  /\ Kept
           /\ Elems(debug_module_list) \subseteq Elems(debug_module_list')
           /\ todo # <<>>
           /\ state' = state \/ BecomeSecure
           /\ \/ todo' = <<>>
              \/ todo' = todo
              \/ /\ todo' = Tail(todo)
                 /\ todo[1].op = "load" => todo[1].type \in Registered'
                 /\ todo[1].op = "module" =>
                      todo[1].module \in Elems(debug_module_list')
              \/ todo[1].op = "load" /\ BeginSwap
  <1>1. \A k \in {"cipher", "auth"} :
          (/\ Place(k, ListOf(k), ListOf(k)')
           /\ k = "cipher" => auth_type_list' = auth_type_list
           /\ k = "auth" => cipher_type_list' = cipher_type_list) =>
          /\ todo # <<>> /\ todo[1].op = "load"
          /\ Registered \subseteq Registered'
          /\ UNCHANGED <<state, debug_module_list>>
          /\ \/ todo' = <<>>
             \/ todo' = Tail(todo) /\ todo[1].type \in Registered'
             \/ BeginSwap
    BY PlaceEffect
  <1>2. CASE PlaceCipherType \/ PlaceAuthType
    <2>1. /\ ListOf("cipher") = cipher_type_list
          /\ ListOf("cipher")' = cipher_type_list'
          /\ ListOf("auth") = auth_type_list /\ ListOf("auth")' = auth_type_list'
      BY DEF ListOf
    <2>2. /\ todo # <<>> /\ todo[1].op = "load"
          /\ Registered \subseteq Registered'
          /\ UNCHANGED <<state, debug_module_list>>
          /\ \/ todo' = <<>>
             \/ todo' = Tail(todo) /\ todo[1].type \in Registered'
             \/ BeginSwap
      BY <1>1, <1>2, <2>1 DEF PlaceCipherType, PlaceAuthType
    <2> QED BY <2>2 DEF Kept, Elems
  <1>3. CASE TestStep \/ TestFails
    <2>1. /\ todo # <<>> /\ todo[1].op \in {"test", "retest"}
      BY <1>3, HeadFacts DEF TestStep, TestFails, Testing, Running
    <2>2. /\ UNCHANGED lists
          /\ todo' = <<>> \/ todo' = todo \/ todo' = Tail(todo)
      BY <1>3 DEF TestStep, TestFails, Done, Return
    <2> QED BY <2>1, <2>2 DEF Kept, Registered, Elems, lists
  <1>4. CASE Swap
    <2>1. /\ todo # <<>> /\ todo[1].op = "swap" /\ todo' = Tail(todo)
          /\ UNCHANGED <<state, debug_module_list>>
      BY <1>4, HeadFacts DEF Swap, Running, Done
    <2>2. PICK k \in {"cipher", "auth"} :
            /\ \A u \in Elems(ListOf(k)) :
                 u \in Elems(ListOf(k)') \/ Vetted(u, todo[1].type)
            /\ todo[1].type \in Elems(ListOf(k)')
            /\ k = "cipher" => auth_type_list' = auth_type_list
            /\ k = "auth" => cipher_type_list' = cipher_type_list
      <3>1. \A x : x = todo[1].type.kind =>
              /\ x \in {"cipher", "auth"}
              /\ \A u \in Elems(ListOf(x)) :
                   u \in Elems(ListOf(x)') \/ Vetted(u, todo[1].type)
              /\ todo[1].type \in Elems(ListOf(x)')
              /\ x = "cipher" => auth_type_list' = auth_type_list
              /\ x = "auth" => cipher_type_list' = cipher_type_list
        BY <1>4, SwapEffect
      <3> QED BY <3>1, ZenonT(60)
    <2>3. Kept
      <3> DEFINE t == todo[1].type
      <3> HIDE DEF t
      <3>1. CASE k = "cipher"
        <4>1. /\ \A u \in Elems(cipher_type_list) :
                   u \in Elems(cipher_type_list') \/ Vetted(u, t)
              /\ t \in Elems(cipher_type_list') /\ auth_type_list' = auth_type_list
          BY <2>2, <3>1 DEF ListOf, t
        <4> QED BY <4>1 DEF Kept, Registered
      <3>2. CASE k = "auth"
        <4>1. /\ \A u \in Elems(auth_type_list) :
                   u \in Elems(auth_type_list') \/ Vetted(u, t)
              /\ t \in Elems(auth_type_list') /\ cipher_type_list' = cipher_type_list
          BY <2>2, <3>2 DEF ListOf, t
        <4> QED BY <4>1 DEF Kept, Registered
      <3> QED BY <3>1, <3>2
    <2> QED BY <2>1, <2>3 DEF Elems
  <1>5. CASE PlaceModule
    <2>1. UNCHANGED <<state, cipher_type_list, auth_type_list>>
      BY <1>5 DEF PlaceModule
    <2>2. Kept
      BY <2>1 DEF Kept, Registered, Elems
    <2> QED BY <1>5, <2>1, <2>2, ModuleEffect
  <1>6. CASE ReportingInit \/ BecomeSecure
    <2>1. todo # <<>> /\ todo[1].op \in {"report", "secure"}
      BY <1>6, HeadFacts, Zenon DEF ReportingInit, BecomeSecure, Running
    <2>2. /\ UNCHANGED <<cipher_type_list, auth_type_list, debug_module_list>>
          /\ todo' = Tail(todo) \/ todo' = <<>>
          /\ state' = state \/ BecomeSecure
      BY <1>6 DEF ReportingInit, BecomeSecure, Done, Return, lists
    <2> QED BY <2>1, <2>2 DEF Kept, Registered, Elems
  <1> QED BY <1>2, <1>3, <1>4, <1>5, <1>6, Zenon DEF Steps

(* Until srtp_shutdown() frees the lists, a registered type leaves them     *)
(* only for a type of the same id that answered its test data:              *)
(* srtp_crypto_kernel_replace_cipher_type() and its authentication twin run *)
(* both self-tests, and a failure of the second leaves the old type.        *)
THEOREM ReplacementIsVetted == Spec => VettedReplacement
  <1> DEFINE A == \A t \in Registered :
                    \/ t \in Registered'
                    \/ call'.name = "shutdown"
                    \/ \E u \in Registered' : Vetted(t, u)
  <1>1. KernelInv /\ [Next]_vars => [A]_vars
    <2> SUFFICES ASSUME KernelInv, Next PROVE A
      OBVIOUS
    <2>1. CASE Steps
      BY <2>1, StepEffect DEF Kept
    <2>2. CASE Shutdown
      BY <2>2 DEF Shutdown
    <2>3. CASE Calls /\ ~Shutdown
      <3>1. UNCHANGED lists
        BY <2>3, Zenon DEF Calls, SrtpInit, Status, LoadModule, LoadCipherType,
                    ReplaceCipherType, LoadAuthType, ReplaceAuthType, Begin,
                    AllocCipher, AllocAuth, AllocContext, DeallocContext
      <3> QED BY <3>1 DEF lists, Registered, Elems
    <2> QED BY <2>1, <2>2, <2>3 DEF Next
  <1> QED BY <1>1, KernelInvariant, PTL DEF Spec, VettedReplacement

----------------------------------------------------------------------------
(* A secure kernel is complete *)

(* What srtp_crypto_kernel_init() is to register, by the step that does it, *)
(* whether it is registered, and whether a step of the work registers it.   *)
Wanted(op) == IF op = "load" THEN InitTypes ELSE InitModules
Has(op, x) == IF op = "load"
              THEN \E t \in Registered : t.kind = x.kind /\ t.id = x.id
              ELSE x \in Elems(debug_module_list)
Brings(j, op, x) ==
  j.op = op /\ x = IF op = "load" THEN j.type ELSE j.module

(* What is missing when the state is about to change comes before. *)
Covered(s, i) ==
  \A op \in {"load", "module"} : \A x \in Wanted(op) :
    Has(op, x) \/ \E j \in 1..i - 1 : Brings(s[j], op, x)

CompleteInv ==
  /\ SecureIsComplete
  /\ \A i \in 1..Len(todo) : todo[i].op = "secure" => Covered(todo, i)

All == \A op \in {"load", "module"} : \A x \in Wanted(op) : Has(op, x)

(* The types of srtp_crypto_kernel_init() are of one of the two kinds. *)
LEMMA InitTypesHaveKinds == \A t \in InitTypes : t.kind \in {"cipher", "auth"}
  <1> DEFINE k == KernelInit
  <1>1. k \in Seq(Work)
    BY OrderedInit DEF Ordered
  <1> HIDE DEF k
  <1>2. ASSUME NEW i \in 1..Len(k), k[i].op = "load" PROVE k[i].type \in Types
    <2>1. k[i] \in Work
      BY <1>1
    <2> QED BY <1>2, <2>1 DEF Work
  <1>3. InitTypes \subseteq Types
    BY <1>2 DEF InitTypes, Jobs, k
  <1> QED BY <1>3, TypesHaveKinds

(* A type's place is taken when a registered type has its kind and its id. *)
LEMMA PlaceTaken ==
    ASSUME KernelInv, NEW t, t.kind \in {"cipher", "auth"}
    PROVE  Has("load", t) <=> t.id \in Ids(ListOf(t.kind))
  <1>1. /\ \A u \in Elems(cipher_type_list) : u.kind = "cipher"
        /\ \A u \in Elems(auth_type_list) : u.kind = "auth"
    BY DEF KernelInv, TypeOK
  <1> QED BY <1>1, Zenon DEF Has, Registered, Ids, ListOf

LEMMA CompleteMeans ==
    KernelInv => (SecureIsComplete <=> (state = "secure" => All))
  <1> SUFFICES ASSUME KernelInv
               PROVE  SecureIsComplete <=> (state = "secure" => All)
    OBVIOUS
  <1>1. \A t \in InitTypes : Has("load", t) <=> t.id \in Ids(ListOf(t.kind))
    BY InitTypesHaveKinds, PlaceTaken
  <1>2. \A x : Has("module", x) <=> x \in Elems(debug_module_list)
    BY DEF Has
  <1>3. Wanted("load") = InitTypes /\ Wanted("module") = InitModules
    BY DEF Wanted
  <1> QED BY <1>1, <1>2, <1>3 DEF SecureIsComplete, All

(* Work in which the state does not change. *)
Quiet(s) == s \in Seq(Work) /\ \A i \in 1..Len(s) : s[i].op # "secure"

LEMMA QuietConcat ==
    ASSUME NEW s, NEW u, Quiet(s), Quiet(u) PROVE Quiet(s \o u)
  <1> DEFINE c == s \o u
  <1>1. /\ s \in Seq(Work) /\ u \in Seq(Work)
        /\ Len(s) \in Nat /\ Len(u) \in Nat
    BY DEF Quiet
  <1>2. /\ c \in Seq(Work) /\ Len(c) = Len(s) + Len(u)
        /\ \A i \in 1..Len(c) : c[i] = IF i <= Len(s) THEN s[i] ELSE u[i - Len(s)]
    BY <1>1
  <1> HIDE DEF c
  <1>3. ASSUME NEW i \in 1..Len(c) PROVE c[i].op # "secure"
    <2>1. CASE i <= Len(s)
      <3>1. i \in 1..Len(s) /\ c[i] = s[i]
        BY <1>1, <1>2, <2>1
      <3> QED BY <3>1 DEF Quiet
    <2>2. CASE i > Len(s)
      <3>1. i - Len(s) \in 1..Len(u) /\ c[i] = u[i - Len(s)]
        BY <1>1, <1>2, <2>2
      <3> QED BY <3>1 DEF Quiet
    <2> QED BY <1>1, <2>1, <2>2
  <1> QED BY <1>2, <1>3 DEF Quiet, c

LEMMA QuietLoad ==
    ASSUME NEW t \in Types
    PROVE  Quiet(<<Test(t, t.name), Load(t)>>) /\ Quiet(<<Test(t, t.name), Replace(t)>>)
  <1>1. ASSUME NEW l, l = Load(t) \/ l = Replace(t)
        PROVE  Quiet(<<Test(t, t.name), l>>)
    <2> DEFINE s == <<Test(t, t.name), l>>
    <2>1. s \in Seq(Work)
      BY <1>1, OrderedLoad, Zenon DEF Ordered
    <2>2. Len(s) = 2 /\ s[1] = Test(t, t.name) /\ s[2] = l
      BY SMTT(30)
    <2>3. s[1].op = "test" /\ s[2].op = "load"
      BY <1>1, <2>2 DEF Test, Load, Replace
    <2> HIDE DEF s
    <2>4. Quiet(s)
      BY <2>1, <2>2, <2>3 DEF Quiet
    <2> QED BY <2>4 DEF s
  <1> QED BY <1>1

LEMMA QuietModule ==
    ASSUME NEW m \in Modules PROVE Quiet(Module(m))
  <1> DEFINE j == [op |-> "module", module |-> m]
  <1>1. j \in Work /\ j.op = "module" /\ Module(m) = <<j>>
    BY DEF Work, Module
  <1> HIDE DEF j
  <1> QED BY <1>1 DEF Quiet

LEMMA QuietRetest ==
    ASSUME NEW l \in Seq(Types) PROVE Quiet(Retest(l))
  <1> DEFINE j(i) == [op |-> "retest", type |-> l[i], data |-> l[i].name]
             r == Retest(l)
  <1>1. Len(l) \in Nat /\ r = [i \in 1..Len(l) |-> j(i)]
    BY DEF Retest
  <1>2. r \in Seq(Work)
    BY OrderedRetest DEF Ordered
  <1>3. \A i \in 1..Len(l) : j(i).op = "retest"
    OBVIOUS
  <1> HIDE DEF j, r
  <1>4. Len(r) = Len(l) /\ \A i \in 1..Len(r) : r[i] = j(i)
    BY <1>1, <1>2
  <1>5. Quiet(r)
    BY <1>2, <1>3, <1>4 DEF Quiet
  <1> QED BY <1>5 DEF r

(* srtp_crypto_kernel_init() changes the state last: everything it loads    *)
(* comes before.                                                            *)
LEMMA InitCovers ==
    LET s == KernelInit \o Module("srtp")
    IN  \A i \in 1..Len(s) : s[i].op = "secure" =>
          \A op \in {"load", "module"} : \A x \in Wanted(op) :
            \E j \in 1..i - 1 : Brings(s[j], op, x)
  <1> DEFINE sec == [op |-> "secure"]
             x0 == <<[op |-> "report"]>>
                     \o Module("crypto kernel") \o Module("auth func")
                     \o Module("cipher") \o Module("alloc")
                     \o Cipher("null_cipher") \o Cipher("aes_icm_128")
                     \o Cipher("aes_icm_256") \o Module("aes icm")
                     \o GcmLoads
                     \o Auth("null_auth") \o Auth("hmac") \o Module("hmac")
             m == Module("srtp")
             k == KernelInit
             s == k \o m
  <1>1. k = x0 \o <<sec>>
    BY DEF KernelInit
  <1>2. Quiet(x0) /\ Quiet(m)
    <2>1. \A id \in BuiltInIds : Quiet(Cipher(id)) /\ Quiet(Auth(id))
      <3> TAKE id \in BuiltInIds
      <3>1. /\ Type("cipher", id) \in Types /\ Type("auth", id) \in Types
            /\ Type("cipher", id).name = id /\ Type("auth", id).name = id
        BY DEF Types, Type
      <3> QED BY <3>1, QuietLoad, Zenon DEF Cipher, Auth
    <2>2. \A n \in BuiltInModules : Quiet(Module(n))
      BY QuietModule DEF Modules
    <2>3. Quiet(<<>>)
      BY DEF Quiet
    <2>4. \A a, b : Quiet(a) /\ Quiet(b) => Quiet(a \o b)
      BY QuietConcat
    <2>5. Quiet(GcmLoads)
      BY <2>1, <2>2, <2>3, <2>4, Zenon DEF GcmLoads, BuiltInIds, BuiltInModules
    <2>6. Quiet(<<[op |-> "report"]>>)
      <3> DEFINE r == [op |-> "report"]
      <3>1. r \in Work /\ r.op = "report"
        BY DEF Work
      <3> HIDE DEF r
      <3>2. Quiet(<<r>>)
        BY <3>1 DEF Quiet
      <3> QED BY <3>2 DEF r
    <2> QED BY <2>1, <2>2, <2>4, <2>5, <2>6, Zenon DEF BuiltInIds, BuiltInModules
  <1>3. sec.op = "secure" /\ sec \in Work
    BY DEF Work
  <1> HIDE DEF sec, x0, m
  <1>4. /\ x0 \in Seq(Work) /\ m \in Seq(Work) /\ k \in Seq(Work)
        /\ Len(x0) \in Nat /\ Len(m) \in Nat
        /\ Len(k) = Len(x0) + 1
        /\ \A i \in 1..Len(x0) : k[i] = x0[i]
        /\ k[Len(x0) + 1] = sec
    BY <1>1, <1>2, <1>3 DEF Quiet
  <1> HIDE DEF k
  <1>5. /\ Len(s) = Len(k) + Len(m)
        /\ \A i \in 1..Len(s) : s[i] = IF i <= Len(k) THEN k[i] ELSE m[i - Len(k)]
    BY <1>4, SMTT(30)
  <1> HIDE DEF s
  <1>6. Len(x0) \in Nat /\ Len(m) \in Nat /\ Len(k) = Len(x0) + 1
        /\ Len(s) = Len(k) + Len(m)
    BY <1>4, <1>5
  <1>7. ASSUME NEW i \in 1..Len(s), s[i].op = "secure" PROVE i = Len(x0) + 1
    <2>1. CASE i > Len(k)
      <3>1. i - Len(k) \in 1..Len(m)
        BY <1>6, <2>1
      <3>2. ~(i <= Len(k))
        BY <1>6, <2>1
      <3>3. s[i] = m[i - Len(k)]
        BY <1>5, <3>2
      <3> QED BY <1>2, <1>7, <3>1, <3>3 DEF Quiet
    <2>2. CASE i <= Len(x0)
      <3>1. i \in 1..Len(x0) /\ i <= Len(k)
        BY <1>6, <2>2
      <3>2. s[i] = x0[i]
        BY <1>4, <1>5, <3>1
      <3> QED BY <1>2, <1>7, <3>1, <3>2 DEF Quiet
    <2> QED BY <1>6, <2>1, <2>2
  <1>8. ASSUME NEW op \in {"load", "module"}, NEW x \in Wanted(op)
        PROVE  \E j \in 1..Len(x0) : Brings(s[j], op, x)
    <2>1. PICK a \in 1..Len(k) : Brings(k[a], op, x)
      <3>1. Wanted(op) = {IF op = "load" THEN j.type ELSE j.module : j \in Jobs(op)}
        BY DEF Wanted, InitTypes, InitModules
      <3>2. PICK j \in Jobs(op) : x = IF op = "load" THEN j.type ELSE j.module
        BY <3>1
      <3>3. j.op = op /\ \E a \in 1..Len(k) : j = k[a]
        BY <3>2 DEF Jobs, k
      <3> QED BY <3>2, <3>3 DEF Brings
    <2>2. a # Len(x0) + 1
      BY <1>3, <1>4, <2>1 DEF Brings
    <2>3. a \in 1..Len(x0) /\ a <= Len(k) /\ a \in 1..Len(s)
      BY <1>6, <2>2
    <2>4. s[a] = k[a]
      BY <1>5, <2>3
    <2> QED BY <2>1, <2>3, <2>4
  <1>9. ASSUME NEW i \in 1..Len(s), s[i].op = "secure",
               NEW op \in {"load", "module"}, NEW x \in Wanted(op)
        PROVE  \E j \in 1..i - 1 : Brings(s[j], op, x)
    <2>1. i - 1 = Len(x0)
      BY <1>6, <1>7, <1>9
    <2> QED BY <1>8, <2>1
  <1> QED BY <1>9 DEF s, k, m

(* Nothing that is registered is lost by a step of a call. *)
LEMMA HasGrows ==
    ASSUME KernelInv, Steps
    PROVE  \A op, x : Has(op, x) => Has(op, x)'
  <1>1. Kept /\ Elems(debug_module_list) \subseteq Elems(debug_module_list')
    BY StepEffect
  <1>2. \A k, x : (\E t \in Registered : t.kind = k /\ t.id = x) =>
                  \E t \in Registered' : t.kind = k /\ t.id = x
    BY <1>1, Zenon DEF Kept, Vetted
  <1> QED BY <1>1, <1>2 DEF Has

LEMMA CoveredStep ==
    ASSUME KernelInv, CompleteInv, Steps
    PROVE  \A i \in 1..Len(todo') : todo'[i].op = "secure" => Covered(todo, i)'
  <1> SUFFICES ASSUME NEW i \in 1..Len(todo'), todo'[i].op = "secure",
                      NEW op \in {"load", "module"}, NEW x \in Wanted(op),
                      ~Has(op, x)'
               PROVE  \E j \in 1..i - 1 : Brings(todo'[j], op, x)
    BY DEF Covered, Brings
  <1>1. ~Has(op, x)
    BY HasGrows, SMTT(30)
  <1>2. \A a \in 1..Len(todo) : todo[a].op = "secure" =>
          \E j \in 1..a - 1 : Brings(todo[j], op, x)
    BY <1>1 DEF CompleteInv, Covered
  <1>3. todo \in Seq(Work) /\ Len(todo) \in Nat
    BY DEF KernelInv
  <1>4. CASE todo' = <<>>
    BY <1>4
  <1>5. CASE todo' = todo
    BY <1>2, <1>5
  <1>6. CASE /\ todo' = Tail(todo)
             /\ todo[1].op = "load" => todo[1].type \in Registered'
             /\ todo[1].op = "module" =>
                  todo[1].module \in Elems(debug_module_list')
    <2>1. /\ Len(todo') = Len(todo) - 1
          /\ \A b \in 1..Len(todo') : todo'[b] = todo[b + 1]
      BY <1>3, <1>6, StepEffect
    <2>2. Len(todo) \in Nat /\ Len(todo') = Len(todo) - 1
      BY <1>3, <2>1
    <2>3. i + 1 \in 1..Len(todo) /\ (i + 1) - 1 = i
      BY <2>2
    <2>4. todo[i + 1].op = "secure"
      BY <2>1, SMTT(30)
    <2>5. PICK j \in 1..i : Brings(todo[j], op, x)
      BY <1>2, <2>3, <2>4, SMTT(30)
    <2>6. ~Brings(todo[1], op, x)
      BY <1>6 DEF Brings, Has
    <2>7. j # 1
      BY <2>5, <2>6
    <2>8. j - 1 \in 1..i - 1 /\ j - 1 \in 1..Len(todo') /\ (j - 1) + 1 = j
      BY <2>2, <2>7
    <2>9. todo'[j - 1] = todo[j]
      BY <2>1, <2>8, SMTT(30)
    <2> QED BY <2>5, <2>8, <2>9, SMTT(30)
  <1>7. CASE todo[1].op = "load" /\ BeginSwap
    <2> DEFINE t == todo[1].type
               a1 == Test(t, ListOf(t.kind)[Entry(ListOf(t.kind), t.id)].name)
               a2 == [op |-> "swap", type |-> t]
               u == Tail(todo)
    <2>1. /\ todo' = <<a1, a2>> \o u /\ t.id \in Ids(ListOf(t.kind))
      BY <1>7, Zenon DEF BeginSwap
    <2>2. a1.op = "test" /\ a2.op = "swap"
      BY DEF Test
    <2>3. todo # <<>>
      BY StepEffect
    <2>4. /\ u \in Seq(Work) /\ Len(u) = Len(todo) - 1
          /\ \A b \in 1..Len(u) : u[b] = todo[b + 1]
      BY <1>3, <2>3, SMTT(30)
    <2>5. Has("load", t)
      <3>1. t.kind \in {"cipher", "auth"}
        BY <1>7, <2>3, HeadFacts, TypesHaveKinds
      <3> HIDE DEF t
      <3> QED BY <2>1, <3>1, PlaceTaken
    <2> HIDE DEF a1, a2, u
    <2>6. /\ Len(todo') = Len(u) + 2 /\ todo'[1] = a1 /\ todo'[2] = a2
          /\ \A b \in 3..Len(todo') : todo'[b] = u[b - 2]
      <3>1. u \in Seq(Work \cup {a1, a2})
        BY <2>4
      <3> QED BY <2>1, <3>1, TwoFirst
    <2>7. Len(todo) \in Nat /\ Len(u) = Len(todo) - 1 /\ Len(todo') = Len(u) + 2
      BY <1>3, <2>4, <2>6
    <2>8. i # 1 /\ i # 2
      BY <2>2, <2>6
    <2>9. ASSUME NEW b \in 2..Len(todo) PROVE b + 1 \in 3..Len(todo')
                                              /\ todo'[b + 1] = todo[b]
      <3>1. /\ b + 1 \in 3..Len(todo') /\ b - 1 \in 1..Len(u)
            /\ (b + 1) - 2 = b - 1 /\ (b - 1) + 1 = b
        BY <2>7
      <3> QED BY <2>4, <2>6, <3>1
    <2>10. i - 1 \in 2..Len(todo) /\ i - 1 \in 1..Len(todo) /\ (i - 1) + 1 = i
      BY <2>7, <2>8
    <2>11. todo[i - 1].op = "secure"
      BY <2>9, <2>10
    <2>12. PICK j \in 1..(i - 1) - 1 : Brings(todo[j], op, x)
      BY <1>2, <2>10, <2>11, SMTT(30)
    <2>13. ~Brings(todo[1], op, x)
      BY <1>1, <1>7, <2>5 DEF Brings
    <2>14. j # 1
      BY <2>12, <2>13
    <2>15. j \in 2..Len(todo) /\ j + 1 \in 1..i - 1
      BY <2>10, <2>14, SMTT(30)
    <2> QED BY <2>9, <2>12, <2>15, Zenon
  <1> QED BY <1>4, <1>5, <1>6, <1>7, StepEffect, Zenon

LEMMA CompleteStep ==
    ASSUME KernelInv, CompleteInv, [Next]_vars PROVE CompleteInv'
  <1> DEFINE Ahead == \A i \in 1..Len(todo) :
                        todo[i].op = "secure" => Covered(todo, i)
  <1>1. state = "secure" => All
    BY CompleteMeans DEF CompleteInv
  <1>2. (SecureIsComplete <=> (state = "secure" => All))'
    <2>1. KernelInv'
      BY KernelInvStep
    <2> QED BY <2>1, CompleteMeans, PTL
  <1> SUFFICES (state' = "secure" => All') /\ Ahead'
    BY <1>2, Zenon DEF CompleteInv
  <1>3. CASE Steps
    <2>1. Ahead'
      BY <1>3, CoveredStep
    <2>2. All => All'
      BY <1>3, HasGrows DEF All
    <2>3. CASE state' = state
      BY <1>1, <2>1, <2>2, <2>3
    <2>4. CASE BecomeSecure
      <3>1. 1 \in 1..Len(todo) /\ todo[1].op = "secure"
        BY <2>4, HeadFacts DEF BecomeSecure, Running
      <3>2. Covered(todo, 1)
        BY <3>1 DEF CompleteInv
      <3>3. All
        BY <3>2 DEF Covered, All
      <3> QED BY <2>1, <2>2, <3>3
    <2> QED BY <1>3, <2>3, <2>4, StepEffect
  <1>4. CASE Shutdown
    BY <1>4, SMTT(30) DEF Shutdown, Idle
  <1>5. ASSUME UNCHANGED <<state, cipher_type_list, auth_type_list,
                           debug_module_list>>
        PROVE  /\ state' = "secure" => All'
               /\ \A op, x : Has(op, x)' <=> Has(op, x)
    BY <1>1, <1>5, SMTT(30) DEF All, Has, Registered, Elems
  <1>6. ASSUME NEW name, NEW w, Begin(name, w),
               Quiet(w) \/ w = KernelInit \o Module("srtp")
        PROVE  (state' = "secure" => All') /\ Ahead'
    <2>1. todo' = w /\ UNCHANGED <<state, cipher_type_list, auth_type_list,
                                   debug_module_list>>
      BY <1>6, Zenon DEF Begin, lists
    <2>2. CASE Quiet(w)
      BY <1>5, <2>1, <2>2, SMTT(30) DEF Quiet
    <2>3. CASE w = KernelInit \o Module("srtp")
      <3>1. \A i \in 1..Len(w) : w[i].op = "secure" =>
              \A op \in {"load", "module"} : \A x \in Wanted(op) :
                \E j \in 1..i - 1 : Brings(w[j], op, x)
        BY <2>3, InitCovers, Zenon
      <3> QED BY <1>5, <2>1, <3>1, SMTT(30) DEF Covered, Brings
    <2> QED BY <1>6, <2>2, <2>3
  <1>7. CASE UNCHANGED <<lists, todo>>
    <2>1. UNCHANGED <<state, cipher_type_list, auth_type_list, debug_module_list,
                      todo>>
      BY <1>7 DEF lists
    <2>2. Ahead
      BY DEF CompleteInv
    <2> QED BY <1>5, <2>1, <2>2 DEF Covered, Brings
  <1>8. CASE AllocCipher \/ AllocAuth \/ DeallocContext
    <2>1. UNCHANGED <<lists, todo>>
      BY <1>8 DEF AllocCipher, AllocAuth, AllocContext, DeallocContext, run
    <2> QED BY <1>7, <2>1, Zenon
  <1>9. \A s, u : Quiet(s) /\ Quiet(u) => Quiet(s \o u)
    BY QuietConcat
  <1>10. \A m \in AppModules \cup {"srtp"} : Quiet(Module(m))
    BY QuietModule, Zenon DEF Modules, BuiltInModules
  <1>11. Quiet(KernelStatus)
    <2>1. cipher_type_list \in Seq(Types) /\ auth_type_list \in Seq(Types)
      BY DEF KernelInv, Lists
    <2>2. \A l \in Seq(Types) : Quiet(Retest(l))
      BY QuietRetest
    <2> QED BY <1>9, <2>1, <2>2 DEF KernelStatus
  <1>12. CASE SrtpInit \/ Status \/ LoadModule
    <2>1. Quiet(KernelStatus \o Module("srtp"))
      BY <1>9, <1>10, <1>11
    <2> QED BY <1>6, <1>10, <1>11, <1>12, <2>1, Zenon DEF SrtpInit, Status, LoadModule
  <1>13. CASE LoadCipherType \/ ReplaceCipherType \/ LoadAuthType
              \/ ReplaceAuthType
    <2>1. \A t \in AppTypes : /\ Quiet(<<Test(t, t.name), Load(t)>>)
                              /\ Quiet(<<Test(t, t.name), Replace(t)>>)
      BY QuietLoad, SMTT(30) DEF Types
    <2> QED BY <1>6, <1>13, <2>1, Zenon
            DEF LoadCipherType, ReplaceCipherType, LoadAuthType, ReplaceAuthType
  <1>14. CASE UNCHANGED vars
    BY <1>7, <1>14 DEF vars, run
  <1> QED BY <1>3, <1>4, <1>8, <1>12, <1>13, <1>14 DEF Next, Calls

(* However the calls before it failed, were repeated or came from the       *)
(* application, srtp_crypto_kernel_init() reaches the secure state only     *)
(* with all its cipher types, authentication types and debug modules        *)
(* registered, and they stay until srtp_shutdown().                         *)
THEOREM SecureKernelComplete == Spec => []SecureIsComplete
  <1>1. Init => CompleteInv
    BY DEF Init, CompleteInv, SecureIsComplete
  <1>2. KernelInv /\ CompleteInv /\ [Next]_vars => CompleteInv'
    BY CompleteStep
  <1>3. CompleteInv => SecureIsComplete
    BY DEF CompleteInv
  <1> QED BY <1>1, <1>2, <1>3, KernelInvariant, PTL DEF Spec

----------------------------------------------------------------------------
(* How srtp_init() ends *)

ApiCalls == {"none", "init", "status", "load", "replace", "module",
                 "shutdown", "alloc"}
Errors == {"algo_fail", "bad_param", "cant_check", "alloc_fail", "cipher_fail",
           "init_fail", "fail"}
CallType == [name : ApiCalls, status : Errors \cup {"ok", "running"},
             clean : BOOLEAN, began : {"fresh", "secure", "other"}]

(* A step that registers what is registered already, and so fails. *)
Blocked(j) == \/ j.op = "load" /\ Has("load", j.type)
              \/ j.op = "module" /\ Has("module", j.module)

(* Two steps that register something in one place *)
Rival(j, k) ==
  /\ j.op = k.op
  /\ j.op = "load" => j.type.id = k.type.id
  /\ j.op = "module" => j.module = k.module
  /\ j.op \in {"load", "module"}

(* Work of srtp_init(): nothing is replaced. *)
Plain(s) ==
  /\ s \in Seq(Work)
  /\ \A i \in 1..Len(s) : /\ s[i].op # "swap"
                          /\ s[i].op = "load" => s[i].replace = FALSE

(* Work that only a library failure can stop, when none of it is blocked. *)
Tests(j) == j.op \in {"test", "retest"} => Passed(j.type, j.data)
Tidy(s) ==
  /\ \A i \in 1..Len(s) : Tests(s[i])
  /\ \A i, j \in 1..Len(s) : Rival(s[i], s[j]) => i = j

Doomed(s) == \E i \in 1..Len(s) : Blocked(s[i])

OutcomeInv ==
  /\ call \in CallType
  /\ todo = <<>> <=> call.status # "running"
  /\ call.name = "init" =>
       /\ Plain(todo)
       /\ call.began \in {"fresh", "secure"} /\ call.clean =>
            IF todo = <<>> THEN call.status = "ok" ELSE Tidy(todo) /\ ~Doomed(todo)
       /\ call.began = "other" =>
            IF todo = <<>> THEN call.status # "ok" ELSE Doomed(todo)

(* The elements of a concatenation *)
Joined(c, s, u) ==
  /\ c \in Seq(Work) /\ Len(c) = Len(s) + Len(u)
  /\ Len(s) \in Nat /\ Len(u) \in Nat
  /\ \A i \in 1..Len(c) : \/ i \in 1..Len(s) /\ c[i] = s[i]
                          \/ i - Len(s) \in 1..Len(u) /\ c[i] = u[i - Len(s)]
  /\ \A i \in 1..Len(s) : i \in 1..Len(c) /\ c[i] = s[i]
  /\ \A i \in 1..Len(u) : i + Len(s) \in 1..Len(c) /\ c[i + Len(s)] = u[i]

LEMMA ConcatCases ==
    ASSUME NEW s \in Seq(Work), NEW u \in Seq(Work), NEW c, c = s \o u
    PROVE  Joined(c, s, u)
  <1>1. /\ Len(s) \in Nat /\ Len(u) \in Nat
        /\ c \in Seq(Work) /\ Len(c) = Len(s) + Len(u)
        /\ \A i \in 1..Len(c) : c[i] = IF i <= Len(s) THEN s[i] ELSE u[i - Len(s)]
    OBVIOUS
  <1>2. ASSUME NEW i \in 1..Len(c)
        PROVE  \/ i \in 1..Len(s) /\ c[i] = s[i]
               \/ i - Len(s) \in 1..Len(u) /\ c[i] = u[i - Len(s)]
    <2>1. \/ i <= Len(s) /\ i \in 1..Len(s)
          \/ ~(i <= Len(s)) /\ i - Len(s) \in 1..Len(u)
      BY <1>1
    <2> QED BY <1>1, <2>1, Zenon
  <1>3. ASSUME NEW i \in 1..Len(s) PROVE i \in 1..Len(c) /\ c[i] = s[i]
    BY <1>1
  <1>4. ASSUME NEW i \in 1..Len(u)
        PROVE  i + Len(s) \in 1..Len(c) /\ c[i + Len(s)] = u[i]
    <2>1. /\ i + Len(s) \in 1..Len(c) /\ ~(i + Len(s) <= Len(s))
          /\ i + Len(s) - Len(s) = i
      BY <1>1
    <2>2. c[i + Len(s)] = u[i + Len(s) - Len(s)]
      BY <1>1, <2>1
    <2> QED BY <2>1, <2>2, Zenon
  <1> QED BY <1>1, <1>2, <1>3, <1>4, Zenon DEF Joined

(* Plain work in which no two steps are rivals; its types have ids in ids   *)
(* and its modules are in mods.                                             *)
Separate(s, ids, mods) ==
  /\ Plain(s)
  /\ \A i \in 1..Len(s) : /\ s[i].op = "load" => s[i].type.id \in ids
                          /\ s[i].op = "module" => s[i].module \in mods
  /\ \A i, j \in 1..Len(s) : Rival(s[i], s[j]) => i = j

LEMMA SeparateConcat ==
    ASSUME NEW s, NEW ids1, NEW mods1, Separate(s, ids1, mods1),
           NEW u, NEW ids2, NEW mods2, Separate(u, ids2, mods2),
           ids1 \cap ids2 = {}, mods1 \cap mods2 = {}
    PROVE  Separate(s \o u, ids1 \cup ids2, mods1 \cup mods2)
  <1> DEFINE c == s \o u
             n == Len(s)
  <1>1. s \in Seq(Work) /\ u \in Seq(Work)
    BY DEF Separate, Plain
  <1>2. /\ c \in Seq(Work) /\ n \in Nat
        /\ \A i \in 1..Len(c) : \/ i \in 1..n /\ c[i] = s[i]
                                \/ i - n \in 1..Len(u) /\ c[i] = u[i - n]
    <2>1. Joined(c, s, u)
      BY <1>1, ConcatCases, Zenon
    <2> HIDE DEF c
    <2> QED BY <2>1, Zenon DEF Joined
  <1> HIDE DEF c, n
  <1> DEFINE Fine(j) ==
               /\ j.op # "swap" /\ (j.op = "load" => j.replace = FALSE)
               /\ j.op = "load" => j.type.id \in ids1 \cup ids2
               /\ j.op = "module" => j.module \in mods1 \cup mods2
  <1>3. (\A i \in 1..n : Fine(s[i])) /\ (\A i \in 1..Len(u) : Fine(u[i]))
    BY DEF Separate, Plain, n
  <1> HIDE DEF Fine
  <1>4. \A i \in 1..Len(c) : Fine(c[i])
    BY <1>2, <1>3, Zenon
  <1>5. ASSUME NEW i \in 1..Len(c), NEW j \in 1..Len(c), Rival(c[i], c[j])
        PROVE  i = j
    <2>1. CASE i \in 1..n /\ c[i] = s[i] /\ j \in 1..n /\ c[j] = s[j]
      BY <1>5, <2>1, Zenon DEF Separate, n
    <2>2. CASE /\ i - n \in 1..Len(u) /\ c[i] = u[i - n]
               /\ j - n \in 1..Len(u) /\ c[j] = u[j - n]
      <3>1. i - n = j - n
        BY <1>5, <2>2, Zenon DEF Separate
      <3> QED BY <1>2, <3>1
    <2>3. CASE /\ i \in 1..n /\ c[i] = s[i]
               /\ j - n \in 1..Len(u) /\ c[j] = u[j - n]
      <3>1. /\ c[i].op = "load" => c[i].type.id \in ids1
            /\ c[i].op = "module" => c[i].module \in mods1
            /\ c[j].op = "load" => c[j].type.id \in ids2
            /\ c[j].op = "module" => c[j].module \in mods2
        BY <2>3, Zenon DEF Separate, n
      <3> QED BY <1>5, <3>1 DEF Rival
    <2>4. CASE /\ j \in 1..n /\ c[j] = s[j]
               /\ i - n \in 1..Len(u) /\ c[i] = u[i - n]
      <3>1. /\ c[j].op = "load" => c[j].type.id \in ids1
            /\ c[j].op = "module" => c[j].module \in mods1
            /\ c[i].op = "load" => c[i].type.id \in ids2
            /\ c[i].op = "module" => c[i].module \in mods2
        BY <2>4, Zenon DEF Separate, n
      <3> QED BY <1>5, <3>1 DEF Rival
    <2> QED BY <1>2, <2>1, <2>2, <2>3, <2>4, Zenon
  <1> QED BY <1>2, <1>4, <1>5, Zenon DEF Separate, Plain, Fine, c

(* The types that a piece of work tests are loaded by it. *)
Paired(s) ==
  /\ s \in Seq(Work)
  /\ \A i \in 1..Len(s) : s[i].op \in {"test", "retest"} =>
       \E k \in 1..Len(s) : /\ s[k].op = "load"
                            /\ s[k].type.name = s[k].type.id
                            /\ s[i].type = s[k].type
                            /\ s[i].data = s[k].type.id

LEMMA PairedConcat ==
    ASSUME NEW s, Paired(s), NEW u, Paired(u) PROVE Paired(s \o u)
  <1> DEFINE c == s \o u
             n == Len(s)
  <1>1. s \in Seq(Work) /\ u \in Seq(Work)
    BY DEF Paired
  <1>2. /\ c \in Seq(Work) /\ n \in Nat
        /\ \A i \in 1..Len(c) : \/ i \in 1..n /\ c[i] = s[i]
                                \/ i - n \in 1..Len(u) /\ c[i] = u[i - n]
        /\ \A i \in 1..n : i \in 1..Len(c) /\ c[i] = s[i]
        /\ \A i \in 1..Len(u) : i + n \in 1..Len(c) /\ c[i + n] = u[i]
    <2>1. Joined(c, s, u)
      BY <1>1, ConcatCases, Zenon
    <2> HIDE DEF c
    <2> QED BY <2>1, Zenon DEF Joined
  <1> HIDE DEF c
  <1>3. ASSUME NEW i \in 1..Len(c), c[i].op \in {"test", "retest"}
        PROVE  \E k \in 1..Len(c) : /\ c[k].op = "load"
                                    /\ c[k].type.name = c[k].type.id
                                    /\ c[i].type = c[k].type
                                    /\ c[i].data = c[k].type.id
    <2>1. CASE i \in 1..n /\ c[i] = s[i]
      <3>1. PICK k \in 1..n : /\ s[k].op = "load"
                              /\ s[k].type.name = s[k].type.id
                              /\ s[i].type = s[k].type
                              /\ s[i].data = s[k].type.id
        BY <1>3, <2>1, Zenon DEF Paired
      <3>2. k \in 1..Len(c) /\ c[k] = s[k]
        BY <1>2
      <3> QED BY <2>1, <3>1, <3>2, Zenon
    <2>2. CASE i - n \in 1..Len(u) /\ c[i] = u[i - n]
      <3>1. PICK k \in 1..Len(u) : /\ u[k].op = "load"
                                   /\ u[k].type.name = u[k].type.id
                                   /\ u[i - n].type = u[k].type
                                   /\ u[i - n].data = u[k].type.id
        BY <1>3, <2>2, Zenon DEF Paired
      <3>2. k + n \in 1..Len(c) /\ c[k + n] = u[k]
        BY <1>2
      <3> QED BY <2>2, <3>1, <3>2, Zenon
    <2> QED BY <1>2, <2>1, <2>2
  <1> QED BY <1>2, <1>3, Zenon DEF Paired, c

(* The pieces srtp_init()'s work is made of *)
LEMMA LoadPiece ==
    ASSUME NEW kind \in {"cipher", "auth"}, NEW id \in BuiltInIds,
           NEW s, s = <<Test(Type(kind, id), id), Load(Type(kind, id))>>
    PROVE  Separate(s, {id}, {}) /\ Paired(s)
  <1> DEFINE t == Type(kind, id)
  <1>1. t \in Types /\ t.name = id /\ t.id = id
    BY DEF Types, Type
  <1>2. s = <<Test(t, t.name), Load(t)>>
    BY <1>1
  <1> HIDE DEF t
  <1>3. s \in Seq(Work)
    BY <1>1, <1>2, OrderedLoad, Zenon DEF Ordered
  <1>4. Len(s) = 2 /\ s[1] = Test(t, t.name) /\ s[2] = Load(t)
    BY <1>2
  <1>5. /\ s[1].op = "test" /\ s[1].type = t /\ s[1].data = t.name
        /\ s[2].op = "load" /\ s[2].type = t /\ s[2].replace = FALSE
    BY <1>4 DEF Test, Load
  <1>6. \A i \in 1..Len(s) : i = 1 \/ i = 2
    BY <1>4
  <1>7. 2 \in 1..Len(s)
    BY <1>4
  <1>8. Plain(s)
    BY <1>3, <1>5, <1>6 DEF Plain
  <1>9. Separate(s, {id}, {})
    BY <1>1, <1>5, <1>6, <1>8 DEF Separate, Rival
  <1>10. Paired(s)
    BY <1>1, <1>3, <1>5, <1>6, <1>7 DEF Paired
  <1> QED BY <1>9, <1>10

LEMMA ModulePiece ==
    ASSUME NEW m \in Modules PROVE Separate(Module(m), {}, {m}) /\ Paired(Module(m))
  <1> DEFINE j == [op |-> "module", module |-> m]
  <1>1. j \in Work /\ j.op = "module" /\ j.module = m /\ Module(m) = <<j>>
    BY DEF Work, Module
  <1> HIDE DEF j
  <1>2. /\ Module(m) \in Seq(Work) /\ Len(Module(m)) = 1 /\ Module(m)[1] = j
        /\ \A i \in 1..Len(Module(m)) : i = 1
    BY <1>1
  <1>3. Plain(Module(m))
    BY <1>1, <1>2 DEF Plain
  <1> QED BY <1>1, <1>2, <1>3 DEF Separate, Paired, Rival

LEMMA SinglePiece ==
    ASSUME NEW o \in {"report", "secure"}
    PROVE  Separate(<<[op |-> o]>>, {}, {}) /\ Paired(<<[op |-> o]>>)
  <1> DEFINE j == [op |-> o]
             s == <<j>>
  <1>1. j \in Work /\ j.op = o
    BY DEF Work
  <1> HIDE DEF j
  <1>2. s \in Seq(Work) /\ Len(s) = 1 /\ s[1] = j /\ \A i \in 1..Len(s) : i = 1
    BY <1>1
  <1> HIDE DEF s
  <1>3. Plain(s)
    BY <1>1, <1>2 DEF Plain
  <1>4. Separate(s, {}, {}) /\ Paired(s)
    BY <1>1, <1>2, <1>3 DEF Separate, Paired, Rival
  <1> QED BY <1>4 DEF s, j

(* One more piece behind work that has nothing in common with it *)
LEMMA AddLoad ==
    ASSUME NEW s, NEW ids, NEW mods, Separate(s, ids, mods), Paired(s),
           NEW id \in BuiltInIds, id \notin ids
    PROVE  /\ Separate(s \o Cipher(id), ids \cup {id}, mods)
           /\ Separate(s \o Auth(id), ids \cup {id}, mods)
           /\ Paired(s \o Cipher(id)) /\ Paired(s \o Auth(id))
  <1>1. ASSUME NEW u, Separate(u, {id}, {}), Paired(u)
        PROVE  Separate(s \o u, ids \cup {id}, mods) /\ Paired(s \o u)
    <2>1. ids \cap {id} = {} /\ mods \cap {} = {} /\ mods \cup {} = mods
      OBVIOUS
    <2>2. Separate(s \o u, ids \cup {id}, mods \cup {})
      BY <1>1, <2>1, SeparateConcat, Zenon
    <2> QED BY <1>1, <2>1, <2>2, PairedConcat, Zenon
  <1>2. /\ Separate(Cipher(id), {id}, {}) /\ Paired(Cipher(id))
        /\ Separate(Auth(id), {id}, {}) /\ Paired(Auth(id))
    BY LoadPiece, Zenon DEF Cipher, Auth
  <1> QED BY <1>1, <1>2, Zenon

LEMMA AddModule ==
    ASSUME NEW s, NEW ids, NEW mods, Separate(s, ids, mods), Paired(s),
           NEW m \in BuiltInModules, m \notin mods
    PROVE  Separate(s \o Module(m), ids, mods \cup {m}) /\ Paired(s \o Module(m))
  <1>1. ids \cap {} = {} /\ mods \cap {m} = {} /\ ids \cup {} = ids
    OBVIOUS
  <1>2. Separate(Module(m), {}, {m}) /\ Paired(Module(m))
    BY ModulePiece, Zenon DEF Modules
  <1>3. Separate(s \o Module(m), ids \cup {}, mods \cup {m})
    BY <1>1, <1>2, SeparateConcat, Zenon
  <1> QED BY <1>1, <1>2, <1>3, PairedConcat, Zenon

(* srtp_crypto_kernel_init() registers nothing twice and loads what it      *)
(* tests.                                                                   *)
InitPlain(s) == \E ids, mods : Separate(s, ids, mods) /\ Paired(s)
                               /\ "srtp" \notin mods

LEMMA GcmPiece ==
    /\ Separate(GcmLoads, {"aes_icm_192", "aes_gcm_128", "aes_gcm_256"}, {"aes gcm"})
    /\ Paired(GcmLoads)
  <1> DEFINE G == {"aes_icm_192", "aes_gcm_128", "aes_gcm_256"}
             s1 == Cipher("aes_icm_192")
             s2 == s1 \o Cipher("aes_gcm_128")
             s3 == s2 \o Cipher("aes_gcm_256")
             s4 == s3 \o Module("aes gcm")
  <1>1. CASE Gcm
    <2>1. GcmLoads = s4
      BY <1>1 DEF GcmLoads
    <2>2. Separate(s1, {"aes_icm_192"}, {}) /\ Paired(s1)
      BY LoadPiece DEF Cipher, BuiltInIds
    <2> HIDE DEF s1, s2, s3
    <2>3. Separate(s2, {"aes_icm_192"} \cup {"aes_gcm_128"}, {}) /\ Paired(s2)
      <3>1. "aes_gcm_128" \in BuiltInIds /\ "aes_gcm_128" \notin {"aes_icm_192"}
        BY DEF BuiltInIds
      <3> QED BY <2>2, <3>1, AddLoad, Zenon DEF s2
    <2>4. Separate(s3, {"aes_icm_192", "aes_gcm_128"} \cup {"aes_gcm_256"}, {})
          /\ Paired(s3)
      <3>1. /\ "aes_gcm_256" \in BuiltInIds
            /\ "aes_gcm_256" \notin {"aes_icm_192", "aes_gcm_128"}
            /\ {"aes_icm_192"} \cup {"aes_gcm_128"} = {"aes_icm_192", "aes_gcm_128"}
        BY DEF BuiltInIds
      <3> QED BY <2>3, <3>1, AddLoad, Zenon DEF s3
    <2> DEFINE m0 == {}
    <2>5. Separate(s3, G, m0) /\ Paired(s3)
      <3>1. {"aes_icm_192", "aes_gcm_128"} \cup {"aes_gcm_256"} = G
        OBVIOUS
      <3> QED BY <2>4, <3>1, Zenon
    <2>6. /\ "aes gcm" \in BuiltInModules /\ "aes gcm" \notin m0
          /\ m0 \cup {"aes gcm"} = {"aes gcm"}
      BY DEF BuiltInModules
    <2> HIDE DEF m0, G
    <2>7. Separate(s4, G, m0 \cup {"aes gcm"}) /\ Paired(s4)
      BY <2>5, <2>6, AddModule, Zenon DEF s4
    <2> QED BY <2>1, <2>6, <2>7, Zenon DEF G
  <1>2. CASE ~Gcm
    <2>1. GcmLoads = <<>>
      BY <1>2 DEF GcmLoads
    <2> QED BY <2>1 DEF Separate, Plain, Paired
  <1> QED BY <1>1, <1>2

LEMMA InitPieces == InitPlain(KernelInit)
  <1> DEFINE s0 == <<[op |-> "report"]>>
             s1 == s0 \o Module("crypto kernel")
             s2 == s1 \o Module("auth func")
             s3 == s2 \o Module("cipher")
             s4 == s3 \o Module("alloc")
             s5 == s4 \o Cipher("null_cipher")
             s6 == s5 \o Cipher("aes_icm_128")
             s7 == s6 \o Cipher("aes_icm_256")
             s8 == s7 \o Module("aes icm")
             s9 == s8 \o GcmLoads
             s10 == s9 \o Auth("null_auth")
             s11 == s10 \o Auth("hmac")
             s12 == s11 \o Module("hmac")
             s13 == s12 \o <<[op |-> "secure"]>>
             i0 == {}
             m0 == {}
             m1 == m0 \cup {"crypto kernel"}
             m2 == m1 \cup {"auth func"}
             m3 == m2 \cup {"cipher"}
             m4 == m3 \cup {"alloc"}
             i1 == i0 \cup {"null_cipher"}
             i2 == i1 \cup {"aes_icm_128"}
             i3 == i2 \cup {"aes_icm_256"}
             m5 == m4 \cup {"aes icm"}
             i4 == i3 \cup {"aes_icm_192", "aes_gcm_128", "aes_gcm_256"}
             m6 == m5 \cup {"aes gcm"}
             i5 == i4 \cup {"null_auth"}
             i6 == i5 \cup {"hmac"}
             m7 == m6 \cup {"hmac"}
  <1>1. KernelInit = s13
    BY DEF KernelInit
  <1>2. Separate(s0, i0, m0) /\ Paired(s0)
    BY SinglePiece
  <1> HIDE DEF s0, s1, s2, s3, s4, s5, s6, s7, s8, s9, s10, s11, s12, s13
  <1>3. Separate(s1, i0, m1) /\ Paired(s1)
    <2>1. "crypto kernel" \in BuiltInModules /\ "crypto kernel" \notin m0
      BY DEF BuiltInModules
    <2> HIDE DEF i0, m0
    <2> QED BY <1>2, <2>1, AddModule, Zenon DEF s1
  <1>4. Separate(s2, i0, m2) /\ Paired(s2)
    <2>1. "auth func" \in BuiltInModules /\ "auth func" \notin m1
      BY DEF BuiltInModules
    <2> HIDE DEF i0, m1
    <2> QED BY <1>3, <2>1, AddModule, Zenon DEF s2
  <1>5. Separate(s3, i0, m3) /\ Paired(s3)
    <2>1. "cipher" \in BuiltInModules /\ "cipher" \notin m2
      BY DEF BuiltInModules
    <2> HIDE DEF i0, m2
    <2> QED BY <1>4, <2>1, AddModule, Zenon DEF s3
  <1>6. Separate(s4, i0, m4) /\ Paired(s4)
    <2>1. "alloc" \in BuiltInModules /\ "alloc" \notin m3
      BY DEF BuiltInModules
    <2> HIDE DEF i0, m3
    <2> QED BY <1>5, <2>1, AddModule, Zenon DEF s4
  <1>7. Separate(s5, i1, m4) /\ Paired(s5)
    <2>1. "null_cipher" \in BuiltInIds /\ "null_cipher" \notin i0
      BY DEF BuiltInIds
    <2> HIDE DEF i0, m4
    <2> QED BY <1>6, <2>1, AddLoad, Zenon DEF s5
  <1>8. Separate(s6, i2, m4) /\ Paired(s6)
    <2>1. "aes_icm_128" \in BuiltInIds /\ "aes_icm_128" \notin i1
      BY DEF BuiltInIds
    <2> HIDE DEF i1, m4
    <2> QED BY <1>7, <2>1, AddLoad, Zenon DEF s6
  <1>9. Separate(s7, i3, m4) /\ Paired(s7)
    <2>1. "aes_icm_256" \in BuiltInIds /\ "aes_icm_256" \notin i2
      BY DEF BuiltInIds
    <2> HIDE DEF i2, m4
    <2> QED BY <1>8, <2>1, AddLoad, Zenon DEF s7
  <1>10. Separate(s8, i3, m5) /\ Paired(s8)
    <2>1. "aes icm" \in BuiltInModules /\ "aes icm" \notin m4
      BY DEF BuiltInModules
    <2> HIDE DEF i3, m4
    <2> QED BY <1>9, <2>1, AddModule, Zenon DEF s8
  <1>11. Separate(s9, i4, m6) /\ Paired(s9)
    <2>1. /\ i3 \cap {"aes_icm_192", "aes_gcm_128", "aes_gcm_256"} = {}
          /\ m5 \cap {"aes gcm"} = {}
      OBVIOUS
    <2> HIDE DEF i3, m5
    <2> QED BY <1>10, <2>1, GcmPiece, SeparateConcat, PairedConcat, Zenon DEF s9
  <1>12. Separate(s10, i5, m6) /\ Paired(s10)
    <2>1. "null_auth" \in BuiltInIds /\ "null_auth" \notin i4
      BY DEF BuiltInIds
    <2> HIDE DEF i4, m6
    <2> QED BY <1>11, <2>1, AddLoad, Zenon DEF s10
  <1>13. Separate(s11, i6, m6) /\ Paired(s11)
    <2>1. "hmac" \in BuiltInIds /\ "hmac" \notin i5
      BY DEF BuiltInIds
    <2> HIDE DEF i5, m6
    <2> QED BY <1>12, <2>1, AddLoad, Zenon DEF s11
  <1>14. Separate(s12, i6, m7) /\ Paired(s12)
    <2>1. "hmac" \in BuiltInModules /\ "hmac" \notin m6
      BY DEF BuiltInModules
    <2> HIDE DEF i6, m6
    <2> QED BY <1>13, <2>1, AddModule, Zenon DEF s12
  <1>15. Separate(s13, i6, m7) /\ Paired(s13)
    <2>1. /\ i6 \cap {} = {} /\ m7 \cap {} = {}
          /\ i6 \cup {} = i6 /\ m7 \cup {} = m7
      OBVIOUS
    <2>2. Separate(<<[op |-> "secure"]>>, {}, {}) /\ Paired(<<[op |-> "secure"]>>)
      BY SinglePiece
    <2> HIDE DEF i6, m7
    <2>3. Separate(s13, i6 \cup {}, m7 \cup {}) /\ Paired(s13)
      BY <1>14, <2>1, <2>2, SeparateConcat, PairedConcat, Zenon DEF s13
    <2> QED BY <2>1, <2>3, Zenon
  <1>16. "srtp" \notin m7
    OBVIOUS
  <1> HIDE DEF i6, m7
  <1> QED BY <1>1, <1>15, <1>16, Zenon DEF InitPlain

(* The last step of srtp_init(), behind either work of the kernel *)
LastJob == [op |-> "module", module |-> "srtp"]

EndsWithLast(w, r, n) ==
  /\ w \in Seq(Work) /\ Len(w) = n + 1 /\ n \in Nat
  /\ \A i \in 1..Len(w) : \/ i \in 1..n /\ w[i] = r[i]
                          \/ i = n + 1 /\ w[i] = LastJob
  /\ \A i \in 1..n : i \in 1..Len(w) /\ w[i] = r[i]
  /\ n + 1 \in 1..Len(w) /\ w[n + 1] = LastJob

LEMMA LastModule ==
    ASSUME NEW r \in Seq(Work)
    PROVE  EndsWithLast(r \o Module("srtp"), r, Len(r))
  <1> DEFINE m == Module("srtp")
  <1>1. m \in Seq(Work) /\ Len(m) = 1 /\ m[1] = LastJob
    <2>1. Plain(m) /\ m = <<LastJob>>
      BY ModulePiece DEF Modules, BuiltInModules, Module, Separate, LastJob
    <2> QED BY <2>1 DEF Plain
  <1> HIDE DEF m
  <1>2. ASSUME NEW w, w = r \o m, NEW n, n = Len(r) PROVE EndsWithLast(w, r, n)
    <2>1. /\ w \in Seq(Work) /\ Len(w) = n + Len(m) /\ n \in Nat
          /\ \A i \in 1..Len(w) : \/ i \in 1..n /\ w[i] = r[i]
                                  \/ i - n \in 1..Len(m) /\ w[i] = m[i - n]
          /\ \A i \in 1..n : i \in 1..Len(w) /\ w[i] = r[i]
          /\ \A i \in 1..Len(m) : i + n \in 1..Len(w) /\ w[i + n] = m[i]
      <3>1. Joined(w, r, m)
        BY <1>1, <1>2, ConcatCases, Zenon
      <3> QED BY <1>2, <3>1, Zenon DEF Joined
    <2>2. Len(w) = n + 1 /\ n + 1 \in 1..Len(w) /\ w[n + 1] = LastJob
      BY <1>1, <2>1
    <2>3. ASSUME NEW i \in 1..Len(w), ~(i \in 1..n /\ w[i] = r[i])
          PROVE  i = n + 1 /\ w[i] = LastJob
      BY <1>1, <2>1, <2>2, <2>3
    <2> QED BY <2>1, <2>2, <2>3, Zenon DEF EndsWithLast
  <1> QED BY <1>2, Zenon DEF m

(* Work that only a library failure stops, unless a place it needs is taken, *)
(* and that registers just these types and modules.                         *)
Registers(w, types, mods) ==
  /\ Plain(w) /\ Tidy(w) /\ w # <<>>
  /\ \A i \in 1..Len(w) : /\ w[i].op = "load" => w[i].type \in types
                          /\ w[i].op = "module" => w[i].module \in mods
  /\ \A t \in types : \E i \in 1..Len(w) : w[i].op = "load" /\ w[i].type = t
  /\ \A m \in mods : \E i \in 1..Len(w) : w[i].op = "module" /\ w[i].module = m

(* What srtp_init() runs in the state that is not secure *)
LEMMA InitWork ==
    ASSUME NEW w, w = KernelInit \o Module("srtp")
    PROVE  Registers(w, InitTypes, InitModules \cup {"srtp"})
  <1> DEFINE k == KernelInit
             n == Len(k)
             j == LastJob
  <1>1. PICK ids, mods : Separate(k, ids, mods) /\ Paired(k) /\ "srtp" \notin mods
    BY InitPieces, Zenon DEF InitPlain
  <1>2. k \in Seq(Work)
    BY <1>1 DEF Separate, Plain
  <1>3. /\ w \in Seq(Work) /\ Len(w) = n + 1 /\ n \in Nat
        /\ \A i \in 1..Len(w) : \/ i \in 1..n /\ w[i] = k[i]
                                \/ i = n + 1 /\ w[i] = j
        /\ \A i \in 1..n : i \in 1..Len(w) /\ w[i] = k[i]
        /\ n + 1 \in 1..Len(w) /\ w[n + 1] = j
    <2>1. EndsWithLast(w, k, n)
      BY <1>2, LastModule, Zenon
    <2> HIDE DEF k, n
    <2> QED BY <2>1, Zenon DEF EndsWithLast
  <1>4. j.op = "module" /\ j.module = "srtp" /\ j.op # "load" /\ j.op # "swap"
    BY DEF LastJob
  <1> HIDE DEF k, n, j
  <1>7. Plain(w)
    <2>1. \A i \in 1..n : k[i].op # "swap" /\ (k[i].op = "load" => k[i].replace = FALSE)
      BY <1>1, Zenon DEF Separate, Plain, n
    <2>2. \A i \in 1..Len(w) : /\ w[i].op # "swap"
                               /\ w[i].op = "load" => w[i].replace = FALSE
      BY <1>3, <1>4, <2>1, Zenon
    <2> QED BY <1>3, <2>2, Zenon DEF Plain
  <1>8. /\ \A i \in 1..n : k[i].op = "load" => k[i].type \in InitTypes
        /\ \A i \in 1..n : k[i].op = "module" => k[i].module \in InitModules
        /\ \A t \in InitTypes : \E i \in 1..n : k[i].op = "load" /\ k[i].type = t
        /\ \A m \in InitModules : \E i \in 1..n :
             k[i].op = "module" /\ k[i].module = m
    BY Zenon DEF InitTypes, InitModules, Jobs, k, n
  <1>9. ASSUME NEW i \in 1..n PROVE Tests(k[i])
    <2> SUFFICES ASSUME k[i].op \in {"test", "retest"}
                 PROVE  Passed(k[i].type, k[i].data)
      BY DEF Tests
    <2>1. PICK a \in 1..n : /\ k[a].op = "load"
                            /\ k[a].type.name = k[a].type.id
                            /\ k[i].type = k[a].type
                            /\ k[i].data = k[a].type.id
      BY <1>1, Zenon DEF Paired, n
    <2>2. k[a].type.id \in InitIds
      BY <1>8, <2>1, Zenon DEF InitIds
    <2> QED BY <2>1, <2>2, BuiltInsPass, Zenon DEF Passed
  <1>10. \A i \in 1..Len(w) : Tests(w[i])
    <2>1. Tests(j)
      BY <1>4 DEF Tests
    <2> QED BY <1>3, <1>9, <2>1, Zenon
  <1>11. ASSUME NEW a \in 1..Len(w), NEW b \in 1..Len(w), Rival(w[a], w[b])
         PROVE  a = b
    <2>1. CASE a \in 1..n /\ w[a] = k[a] /\ b \in 1..n /\ w[b] = k[b]
      BY <1>1, <1>11, <2>1, Zenon DEF Separate, n
    <2>2. ASSUME NEW i \in 1..n, Rival(k[i], j) \/ Rival(j, k[i]) PROVE FALSE
      <3>1. k[i].op = "module" /\ k[i].module = "srtp"
        BY <1>4, <2>2 DEF Rival
      <3> QED BY <1>1, <3>1 DEF Separate, n
    <2> QED BY <1>3, <1>11, <2>1, <2>2, Zenon
  <1>12. w # <<>>
    BY <1>3
  <1>13. \A i \in 1..Len(w) :
           /\ w[i].op = "load" => w[i].type \in InitTypes
           /\ w[i].op = "module" => w[i].module \in InitModules \cup {"srtp"}
    <2> SUFFICES ASSUME NEW i \in 1..Len(w)
                 PROVE  /\ w[i].op = "load" => w[i].type \in InitTypes
                        /\ w[i].op = "module" =>
                             w[i].module \in InitModules \cup {"srtp"}
      OBVIOUS
    <2>1. CASE i \in 1..n /\ w[i] = k[i]
      BY <1>8, <2>1
    <2>2. CASE w[i] = j
      BY <1>4, <2>2
    <2> QED BY <1>3, <2>1, <2>2, Zenon
  <1>14. /\ \A t \in InitTypes : \E i \in 1..Len(w) :
              w[i].op = "load" /\ w[i].type = t
         /\ \A m \in InitModules \cup {"srtp"} : \E i \in 1..Len(w) :
              w[i].op = "module" /\ w[i].module = m
    <2>1. ASSUME NEW t \in InitTypes
          PROVE  \E i \in 1..Len(w) : w[i].op = "load" /\ w[i].type = t
      <3>1. PICK i \in 1..n : k[i].op = "load" /\ k[i].type = t
        BY <1>8, Zenon
      <3> QED BY <1>3, <3>1, Zenon
    <2>2. ASSUME NEW m \in InitModules \cup {"srtp"}
          PROVE  \E i \in 1..Len(w) : w[i].op = "module" /\ w[i].module = m
      <3>1. CASE m = "srtp"
        BY <1>4, <1>3, <3>1, Zenon
      <3>2. CASE m \in InitModules
        <4>1. PICK i \in 1..n : k[i].op = "module" /\ k[i].module = m
          BY <1>8, <3>2, Zenon
        <4> QED BY <1>3, <4>1, Zenon
      <3> QED BY <3>1, <3>2
    <2> QED BY <2>1, <2>2, Zenon
  <1>15. Tidy(w)
    BY <1>10, <1>11, Zenon DEF Tidy
  <1> QED BY <1>7, <1>12, <1>13, <1>14, <1>15, Zenon DEF Registers

(* What it runs in the secure state: the registered types pass again, and   *)
(* only srtp's own module is registered.                                    *)
LEMMA StatusWork ==
    ASSUME KernelInv, NEW w, w = KernelStatus \o Module("srtp")
    PROVE  Registers(w, {}, {"srtp"})
  <1> DEFINE c == cipher_type_list
             a == auth_type_list
             j == LastJob
             r == KernelStatus
             n == Len(r)
             Fine(x) == x.op = "retest" /\ Passed(x.type, x.data)
  <1>1. c \in Seq(Types) /\ a \in Seq(Types)
        /\ \A t \in Elems(c) \cup Elems(a) : Passed(t, t.name)
    BY DEF KernelInv, Lists, OnlyTestedTypes, Registered, Passed
  <1>2. ASSUME NEW l \in Seq(Types), \A t \in Elems(l) : Passed(t, t.name)
        PROVE  /\ Retest(l) \in Seq(Work)
               /\ \A i \in 1..Len(Retest(l)) : Fine(Retest(l)[i])
    <2> DEFINE q == Retest(l)
               x(i) == [op |-> "retest", type |-> l[i], data |-> l[i].name]
    <2>1. q \in Seq(Work)
      BY OrderedRetest DEF Ordered
    <2>2. q = [i \in 1..Len(l) |-> x(i)] /\ Len(l) \in Nat
      BY DEF Retest
    <2>3. \A i : x(i).op = "retest" /\ x(i).type = l[i] /\ x(i).data = l[i].name
      OBVIOUS
    <2> HIDE DEF q, x
    <2>4. Len(q) = Len(l) /\ \A i \in 1..Len(l) : q[i] = x(i)
      BY <2>1, <2>2
    <2>5. \A i \in 1..Len(l) : Passed(l[i], l[i].name)
      BY <1>2, Zenon DEF Elems
    <2>6. \A i \in 1..Len(q) : Fine(q[i])
      BY <2>3, <2>4, <2>5, Zenon
    <2> QED BY <2>1, <2>6 DEF q
  <1>3. /\ Retest(c) \in Seq(Work) /\ Retest(a) \in Seq(Work)
        /\ \A i \in 1..Len(Retest(c)) : Fine(Retest(c)[i])
        /\ \A i \in 1..Len(Retest(a)) : Fine(Retest(a)[i])
    <2> HIDE DEF c, a, Fine
    <2> QED BY <1>1, <1>2, Zenon
  <1> HIDE DEF c, a, Fine
  <1>4. r \in Seq(Work) /\ n \in Nat /\ \A i \in 1..n : Fine(r[i])
    <2> DEFINE x == Retest(c)
               y == Retest(a)
    <2>1. r = x \o y
      BY DEF KernelStatus, c, a
    <2> HIDE DEF r, x, y
    <2>2. /\ r \in Seq(Work)
          /\ \A i \in 1..Len(r) :
               \/ i \in 1..Len(x) /\ r[i] = x[i]
               \/ i - Len(x) \in 1..Len(y) /\ r[i] = y[i - Len(x)]
      <3>1. x \in Seq(Work) /\ y \in Seq(Work)
        BY <1>3 DEF x, y
      <3>2. Joined(r, x, y)
        BY <2>1, <3>1, ConcatCases, Zenon
      <3> QED BY <3>2, Zenon DEF Joined
    <2>3. \A i \in 1..n : Fine(r[i])
      BY <1>3, <2>2, Zenon DEF x, y
    <2> QED BY <2>2, <2>3
  <1>5. /\ w \in Seq(Work) /\ Len(w) = n + 1 /\ n \in Nat
        /\ \A i \in 1..Len(w) : \/ i \in 1..n /\ w[i] = r[i]
                                \/ i = n + 1 /\ w[i] = j
        /\ n + 1 \in 1..Len(w) /\ w[n + 1] = j
    <2>1. EndsWithLast(w, r, n)
      BY <1>4, LastModule, Zenon
    <2> HIDE DEF r, n
    <2> QED BY <2>1, Zenon DEF EndsWithLast
  <1>8. j.op = "module" /\ j.module = "srtp" /\ j.op # "load" /\ j.op # "swap"
    BY DEF LastJob
  <1> HIDE DEF r, n, j
  <1>9. \A i \in 1..Len(w) : \/ w[i].op = "retest" /\ Passed(w[i].type, w[i].data)
                             \/ i = n + 1 /\ w[i] = j
    BY <1>4, <1>5, Zenon DEF Fine
  <1>10. Plain(w)
    <2>1. \A i \in 1..Len(w) : /\ w[i].op # "swap"
                               /\ w[i].op = "load" => w[i].replace = FALSE
      BY <1>8, <1>9
    <2> QED BY <1>5, <2>1, Zenon DEF Plain
  <1>11. \A i \in 1..Len(w) : Tests(w[i])
    BY <1>8, <1>9 DEF Tests
  <1>12. \A i, k \in 1..Len(w) : Rival(w[i], w[k]) => i = k
    BY <1>8, <1>9 DEF Rival
  <1>13. w # <<>>
    BY <1>5
  <1>14. /\ \A i \in 1..Len(w) : /\ w[i].op # "load"
                                 /\ w[i].op = "module" => w[i].module = "srtp"
         /\ \E i \in 1..Len(w) : w[i].op = "module" /\ w[i].module = "srtp"
    BY <1>8, <1>5, <1>9, Zenon
  <1>15. Tidy(w)
    BY <1>11, <1>12, Zenon DEF Tidy
  <1> QED BY <1>10, <1>13, <1>14, <1>15 DEF Registers

(* A call begins with the record of how it found the kernel. *)
LEMMA BeginsInitOutcome ==
    ASSUME KernelInv, SrtpInit PROVE OutcomeInv'
  <1> DEFINE w == (IF state = "secure" THEN KernelStatus ELSE KernelInit)
                    \o Module("srtp")
  <1>1. Begin("init", w)
    BY DEF SrtpInit
  <1>2. state \in {"insecure", "secure"}
    BY DEF KernelInv, TypeOK
  <1>3. \A x : Has("module", x) <=> x \in Elems(debug_module_list)
    BY DEF Has
  <1>4. \A t \in InitTypes : Has("load", t) <=> t.id \in Ids(ListOf(t.kind))
    BY InitTypesHaveKinds, PlaceTaken
  <1>5. /\ Plain(w) /\ Tidy(w) /\ w # <<>>
        /\ Began \in {"fresh", "secure"} => ~Doomed(w)
        /\ Began = "other" => Doomed(w)
    <2>1. ASSUME NEW types, NEW mods, Registers(w, types, mods)
          PROVE  /\ Plain(w) /\ Tidy(w) /\ w # <<>>
                 /\ Doomed(w) <=> \/ \E t \in types : Has("load", t)
                                  \/ \E m \in mods : Has("module", m)
      <3> HIDE DEF w
      <3>1. ASSUME Doomed(w)
            PROVE  \/ \E t \in types : Has("load", t)
                   \/ \E m \in mods : Has("module", m)
        BY <2>1, <3>1, Zenon DEF Doomed, Blocked, Registers
      <3>2. ASSUME NEW t \in types, Has("load", t) PROVE Doomed(w)
        <4>1. PICK i \in 1..Len(w) : w[i].op = "load" /\ w[i].type = t
          BY <2>1, Zenon DEF Registers
        <4> QED BY <3>2, <4>1, Zenon DEF Doomed, Blocked
      <3>3. ASSUME NEW m \in mods, Has("module", m) PROVE Doomed(w)
        <4>1. PICK i \in 1..Len(w) : w[i].op = "module" /\ w[i].module = m
          BY <2>1, Zenon DEF Registers
        <4> QED BY <3>3, <4>1, Zenon DEF Doomed, Blocked
      <3>4. Plain(w) /\ Tidy(w) /\ w # <<>>
        BY <2>1, Zenon DEF Registers
      <3> QED BY <3>1, <3>2, <3>3, <3>4, Zenon
    <2>2. CASE state = "secure"
      <3>1. Registers(w, {}, {"srtp"})
        BY <2>2, StatusWork, Zenon
      <3> HIDE DEF w
      <3>2. /\ Plain(w) /\ Tidy(w) /\ w # <<>>
            /\ Doomed(w) <=> Has("module", "srtp")
        BY <2>1, <3>1
      <3>3. Began = IF Has("module", "srtp") THEN "other" ELSE "secure"
        BY <1>3, <2>2, Zenon DEF Began
      <3> QED BY <3>2, <3>3
    <2>3. CASE state = "insecure"
      <3> DEFINE Some == \/ \E t \in InitTypes : Has("load", t)
                         \/ \E m \in InitModules \cup {"srtp"} : Has("module", m)
      <3>1. Registers(w, InitTypes, InitModules \cup {"srtp"})
        <4>1. w = KernelInit \o Module("srtp")
          BY <2>3
        <4> QED BY <4>1, InitWork, Zenon
      <3> HIDE DEF w
      <3>2. /\ Plain(w) /\ Tidy(w) /\ w # <<>>
            /\ Doomed(w) <=> Some
        BY <2>1, <3>1, Zenon
      <3>3. Began = IF Some THEN "other" ELSE "fresh"
        BY <1>3, <1>4, <2>3 DEF Began
      <3> HIDE DEF Some
      <3> QED BY <3>2, <3>3
    <2> QED BY <1>2, <2>2, <2>3
  <1> HIDE DEF w
  <1>6. /\ todo' = w
        /\ call' = [name |-> "init", clean |-> TRUE, began |-> Began,
                    status |-> "running"]
        /\ UNCHANGED <<state, cipher_type_list, auth_type_list, debug_module_list>>
    BY <1>1, <1>5 DEF Begin, lists
  <1>7. Began \in {"fresh", "secure", "other"}
    BY DEF Began
  <1>8. /\ call' \in CallType /\ call'.status = "running"
        /\ call'.began = Began /\ call'.name = "init"
    BY <1>6, <1>7 DEF CallType, ApiCalls
  <1>9. Doomed(todo)' <=> Doomed(w)
    <2>1. \A op, x : Has(op, x)' <=> Has(op, x)
      BY <1>6 DEF Has, Registered, Elems
    <2> QED BY <1>6, <2>1, Zenon DEF Doomed, Blocked
  <1>10. Plain(todo)' /\ Tidy(todo)'
    BY <1>5, <1>6, Zenon DEF Plain, Tidy, Tests, Passed
  <1> QED BY <1>5, <1>6, <1>8, <1>9, <1>10, Zenon DEF OutcomeInv

(* The other calls are not srtp_init()'s. *)
LEMMA OtherCallsOutcome ==
    ASSUME KernelInv, OutcomeInv, Calls, ~SrtpInit PROVE OutcomeInv'
  <1>1. Began \in {"fresh", "secure", "other"}
    BY DEF Began
  <1>2. ASSUME NEW n \in ApiCalls \ {"init"}, NEW w, Begin(n, w)
        PROVE  OutcomeInv'
    <2>1. /\ todo' = w
          /\ call' = [name |-> n, clean |-> TRUE, began |-> Began,
                      status |-> IF w = <<>> THEN "ok" ELSE "running"]
      BY <1>2 DEF Begin
    <2>2. /\ call' \in CallType /\ call'.name # "init"
          /\ (call'.status # "running") <=> (w = <<>>)
      BY <1>1, <2>1 DEF CallType
    <2> QED BY <2>1, <2>2 DEF OutcomeInv
  <1>3. CASE Status \/ LoadModule \/ LoadCipherType \/ ReplaceCipherType
             \/ LoadAuthType \/ ReplaceAuthType
    <2>1. {"status", "module", "load", "replace"} \subseteq ApiCalls \ {"init"}
      BY DEF ApiCalls
    <2>2. \E n \in {"status", "module", "load", "replace"} : \E w : Begin(n, w)
      BY <1>3, Zenon DEF Status, LoadModule, LoadCipherType, ReplaceCipherType,
                         LoadAuthType, ReplaceAuthType
    <2> QED BY <1>2, <2>1, <2>2, Zenon
  <1>4. ASSUME todo = <<>>, todo' = <<>>, NEW n \in {"shutdown", "alloc"},
               NEW st \in Errors \cup {"ok"}, NEW cl \in BOOLEAN,
               call' = [name |-> n, status |-> st, clean |-> cl, began |-> Began]
        PROVE  OutcomeInv'
    <2>1. call' \in CallType /\ call'.name # "init" /\ call'.status # "running"
      BY <1>1, <1>4 DEF CallType, ApiCalls, Errors
    <2> QED BY <1>4, <2>1 DEF OutcomeInv
  <1>5. CASE Shutdown
    BY <1>4, <1>5 DEF Shutdown, Idle
  <1>6. CASE AllocCipher \/ AllocAuth
    <2>1. PICK l : AllocContext(l)
      BY <1>6 DEF AllocCipher, AllocAuth
    <2>2. \E st \in {"ok", "alloc_fail", "init_fail", "fail"} :
            call' = [name |-> "alloc", status |-> st, clean |-> st # "alloc_fail",
                     began |-> Began]
      BY <2>1 DEF AllocContext
    <2>3. todo = <<>> /\ todo' = <<>>
      BY <2>1 DEF AllocContext, Idle
    <2>4. {"ok", "alloc_fail", "init_fail", "fail"} \subseteq Errors \cup {"ok"}
      BY DEF Errors
    <2> QED BY <1>4, <2>2, <2>3, <2>4
  <1>7. CASE DeallocContext
    <2>1. todo = <<>>
      BY <1>7 DEF DeallocContext, Idle
    <2>2. UNCHANGED <<todo, call>>
      BY <1>7 DEF DeallocContext, run
    <2> QED BY <2>1, <2>2 DEF OutcomeInv, Plain
  <1> QED BY <1>3, <1>5, <1>6, <1>7 DEF Calls

(* The three ways a step of a running call may go: nothing is done yet, the *)
(* head of the work is done, or the call returns an error.                  *)
Waits == UNCHANGED <<todo, call>> /\ \A op, x : Has(op, x)' => Has(op, x)
Advances ==
  \E r : /\ Done(r)
         /\ Plain(todo) =>
              /\ r = Tail(todo) /\ ~Blocked(todo[1])
              /\ \A j : Blocked(j)' => Blocked(j) \/ Rival(todo[1], j)
Stops ==
  \E st \in Errors, cl \in BOOLEAN :
    Return(st, cl) /\ (cl => Blocked(todo[1]) \/ ~Tests(todo[1]))

LEMMA PlaceOutcome ==
    ASSUME KernelInv, NEW k \in {"cipher", "auth"},
           Place(k, ListOf(k), ListOf(k)'),
           k = "cipher" => auth_type_list' = auth_type_list,
           k = "auth" => cipher_type_list' = cipher_type_list
    PROVE  todo # <<>> /\ (Advances \/ Stops)
  <1> DEFINE t == todo[1].type
             l == ListOf(k)
             n == ListOf(k)'
             a == <<Test(t, l[Entry(l, t.id)].name), [op |-> "swap", type |-> t]>>
                    \o Tail(todo)
  <1>1. /\ todo # <<>> /\ todo[1].op = "load" /\ Job = todo[1] /\ t.kind = k
        /\ t \in Types /\ 1 \in 1..Len(todo) /\ debug_module_list' = debug_module_list
    BY HeadFacts DEF Place, Running
  <1>2. l \in Seq(Types) /\ UniqueIds(l)
    BY DEF KernelInv, Lists, ListOf, OneEntryPerId, UniqueIds
  <1>3. Blocked(todo[1]) <=> t.id \in Ids(l)
    <2>1. t.kind \in {"cipher", "auth"} /\ ListOf(t.kind) = l
      BY <1>1
    <2>2. Has("load", t) <=> t.id \in Ids(l)
      <3> HIDE DEF t, l
      <3> QED BY <2>1, PlaceTaken
    <2>3. todo[1].op # "module"
      BY <1>1
    <2> QED BY <1>1, <2>2, <2>3, Zenon DEF Blocked
  <1>4. \/ t.id \in Ids(l) /\ todo[1].replace /\ Done(a)
        \/ t.id \in Ids(l) /\ Return("bad_param", TRUE)
        \/ Return("alloc_fail", FALSE)
        \/ t.id \notin Ids(l) /\ n = <<t>> \o l /\ Done(Tail(todo))
    BY <1>1, Zenon DEF Place
  <1> HIDE DEF a
  <1>5. CASE t.id \in Ids(l) /\ todo[1].replace /\ Done(a)
    <2>1. ~Plain(todo)
      BY <1>1, <1>5 DEF Plain
    <2> QED BY <1>1, <1>5, <2>1, Zenon DEF Advances
  <1>6. CASE t.id \in Ids(l) /\ Return("bad_param", TRUE)
    BY <1>1, <1>3, <1>6, Zenon DEF Stops, Errors
  <1>7. CASE Return("alloc_fail", FALSE)
    BY <1>1, <1>7, Zenon DEF Stops, Errors
  <1>8. CASE t.id \notin Ids(l) /\ n = <<t>> \o l /\ Done(Tail(todo))
    <2>1. Elems(n) = Elems(l) \cup {t}
      <3>1. ASSUME NEW m \in Seq(Types), UniqueIds(m), NEW v \in Types,
                   v.id \notin Ids(m), NEW w, w = <<v>> \o m
            PROVE  Elems(w) = Elems(m) \cup {v}
        BY <3>1, PrependFacts, Zenon
      <3> HIDE DEF n, l, t
      <3> QED BY <1>1, <1>2, <1>8, <3>1, Zenon
    <2> HIDE DEF n, l, t
    <2>2. /\ k = "cipher" => cipher_type_list' = n /\ cipher_type_list = l
                             /\ auth_type_list' = auth_type_list
          /\ k = "auth" => auth_type_list' = n /\ auth_type_list = l
                           /\ cipher_type_list' = cipher_type_list
      BY DEF n, l, ListOf
    <2>3. Registered' = Registered \cup {t}
      BY <2>1, <2>2, Zenon DEF Registered
    <2>4. \A x : /\ Has("load", x)' => Has("load", x) \/ x.id = t.id
                 /\ Has("module", x)' => Has("module", x)
      BY <1>1, <2>3 DEF Has, Elems
    <2>5. \A j : Blocked(j)' => Blocked(j) \/ Rival(todo[1], j)
      <3> SUFFICES ASSUME NEW j, Blocked(j)', ~Blocked(j) PROVE Rival(todo[1], j)
        OBVIOUS
      <3>1. j.op = "load" /\ j.type.id = t.id
        BY <2>4 DEF Blocked
      <3> QED BY <1>1, <3>1 DEF Rival, t
    <2> QED BY <1>1, <1>3, <1>8, <2>5, Zenon DEF Advances
  <1> QED BY <1>4, <1>5, <1>6, <1>7, <1>8, Zenon

LEMMA StepOutcome ==
    ASSUME KernelInv, Steps PROVE todo # <<>> /\ (Waits \/ Advances \/ Stops)
  <1>1. ASSUME UNCHANGED <<cipher_type_list, auth_type_list, debug_module_list>>
        PROVE  /\ \A op, x : Has(op, x)' => Has(op, x)
               /\ \A j : Blocked(j)' => Blocked(j)
    <2>1. \A op, x : Has(op, x)' => Has(op, x)
      BY <1>1 DEF Has, Registered, Elems
    <2> QED BY <2>1, Zenon DEF Blocked
  <1>2. CASE PlaceCipherType
    <2>1. ListOf("cipher") = cipher_type_list /\ ListOf("cipher")' = cipher_type_list'
      BY DEF ListOf
    <2> QED BY <1>2, <2>1, PlaceOutcome DEF PlaceCipherType
  <1>3. CASE PlaceAuthType
    <2>1. ListOf("auth") = auth_type_list /\ ListOf("auth")' = auth_type_list'
      BY DEF ListOf
    <2> QED BY <1>3, <2>1, PlaceOutcome DEF PlaceAuthType
  <1>4. CASE TestStep
    <2>1. /\ todo # <<>> /\ todo[1].op \in {"test", "retest"}
          /\ UNCHANGED <<cipher_type_list, auth_type_list, debug_module_list>>
      BY <1>4, HeadFacts DEF TestStep, Testing, Running, lists
    <2>2. Done(Tail(todo)) \/ UNCHANGED <<todo, call>>
      BY <1>4 DEF TestStep
    <2>3. ~Blocked(todo[1])
      BY <2>1 DEF Blocked
    <2> QED BY <1>1, <2>1, <2>2, <2>3, Zenon DEF Waits, Advances
  <1>5. CASE TestFails
    <2>1. todo # <<>> /\ todo[1].op \in {"test", "retest"} /\ Job = todo[1]
      BY <1>5, HeadFacts DEF TestFails, Testing, Running
    <2>2. TestCall \in Checks => ~Tests(todo[1])
      BY <1>5, <2>1 DEF TestFails, Passes, Tests, Passed
    <2>3. PICK st : /\ st \in {"algo_fail", "bad_param", "cant_check",
                               "alloc_fail", "cipher_fail"}
                    /\ Return(st, TestCall \in Checks)
      BY <1>5 DEF TestFails
    <2>4. st \in Errors /\ (TestCall \in Checks) \in BOOLEAN
      BY <2>3 DEF Errors
    <2> QED BY <2>1, <2>2, <2>3, <2>4, Zenon DEF Stops
  <1>6. CASE Swap
    <2>1. /\ todo # <<>> /\ todo[1].op = "swap" /\ Done(Tail(todo))
          /\ 1 \in 1..Len(todo)
      BY <1>6, HeadFacts DEF Swap, Running
    <2>2. ~Plain(todo)
      BY <2>1 DEF Plain
    <2> QED BY <2>1, <2>2, Zenon DEF Advances
  <1>7. CASE PlaceModule
    <2> DEFINE m == todo[1].module
    <2>1. /\ todo # <<>> /\ todo[1].op = "module" /\ Job = todo[1]
          /\ m \in Modules /\ UNCHANGED <<cipher_type_list, auth_type_list>>
      BY <1>7, HeadFacts DEF PlaceModule, Running
    <2>2. Blocked(todo[1]) <=> m \in Elems(debug_module_list)
      BY <2>1 DEF Blocked, Has
    <2>3. \/ m \in Elems(debug_module_list) /\ Return("bad_param", TRUE)
          \/ Return("alloc_fail", FALSE)
          \/ /\ m \notin Elems(debug_module_list) /\ Done(Tail(todo))
             /\ debug_module_list' = <<m>> \o debug_module_list
      BY <1>7, <2>1, Zenon DEF PlaceModule
    <2>4. CASE m \in Elems(debug_module_list) /\ Return("bad_param", TRUE)
      BY <2>1, <2>2, <2>4, Zenon DEF Stops, Errors
    <2>5. CASE Return("alloc_fail", FALSE)
      BY <2>1, <2>5, Zenon DEF Stops, Errors
    <2>6. CASE /\ m \notin Elems(debug_module_list) /\ Done(Tail(todo))
               /\ debug_module_list' = <<m>> \o debug_module_list
      <3>1. debug_module_list \in Seq(Modules) /\ Distinct(debug_module_list)
        BY DEF KernelInv, Lists, OneEntryPerId, Distinct
      <3>2. Elems(debug_module_list') = Elems(debug_module_list) \cup {m}
        <4>1. ASSUME NEW l \in Seq(Modules), NEW v \in Modules, v \notin Elems(l),
                     Distinct(l), NEW n, n = <<v>> \o l
              PROVE  Elems(n) = Elems(l) \cup {v}
          BY <4>1, NameFirst, Zenon
        <4> HIDE DEF m
        <4> QED BY <2>1, <2>6, <3>1, <4>1, Zenon
      <3>3. Registered' = Registered
        BY <2>1 DEF Registered, Elems
      <3>4. ASSUME NEW j, Blocked(j)', ~Blocked(j) PROVE Rival(todo[1], j)
        <4>1. j.op = "module" /\ j.module = m
          BY <3>2, <3>3, <3>4 DEF Blocked, Has
        <4> QED BY <2>1, <4>1 DEF Rival
      <3> QED BY <2>1, <2>2, <2>6, <3>4, Zenon DEF Advances
    <2> QED BY <2>3, <2>4, <2>5, <2>6, Zenon
  <1>8. CASE ReportingInit \/ BecomeSecure
    <2>1. /\ todo # <<>> /\ todo[1].op \in {"report", "secure"}
      BY <1>8, HeadFacts, Zenon DEF ReportingInit, BecomeSecure, Running
    <2>2. /\ UNCHANGED <<cipher_type_list, auth_type_list, debug_module_list>>
          /\ Done(Tail(todo)) \/ Return("init_fail", FALSE)
      BY <1>8 DEF ReportingInit, BecomeSecure, lists
    <2>3. ~Blocked(todo[1])
      BY <2>1 DEF Blocked
    <2>4. Return("init_fail", FALSE) => Stops
      BY Zenon DEF Stops, Errors
    <2> QED BY <1>1, <2>1, <2>2, <2>3, <2>4, Zenon DEF Advances
  <1> QED BY <1>2, <1>3, <1>4, <1>5, <1>6, <1>7, <1>8 DEF Steps

LEMMA TailOutcome ==
    ASSUME OutcomeInv, todo # <<>>, call.name = "init", Plain(todo), NEW r,
           r = Tail(todo), todo' = r, ~Blocked(todo[1]),
           \A j : Blocked(j) => Blocked(j)',
           \A j : Blocked(j)' => Blocked(j) \/ Rival(todo[1], j)
    PROVE  /\ Plain(r)
           /\ Tidy(todo) /\ ~Doomed(todo) => Tidy(r) /\ ~Doomed(todo)'
           /\ Doomed(todo) => r # <<>> /\ Doomed(todo)'
  <1> DEFINE n == Len(todo)
  <1>1. /\ todo \in Seq(Work) /\ n \in Nat /\ n >= 1
        /\ r \in Seq(Work) /\ Len(r) = n - 1
        /\ \A i \in 1..Len(r) : r[i] = todo[i + 1]
    BY DEF Plain
  <1> HIDE DEF n
  <1>2. ASSUME NEW i \in 1..Len(r)
        PROVE  i + 1 \in 1..n /\ r[i] = todo[i + 1] /\ i + 1 # 1
    BY <1>1
  <1>3. 1 \in 1..n
    BY <1>1
  <1>4. Plain(r)
    BY <1>1, <1>2, Zenon DEF Plain, n
  <1>5. ASSUME Tidy(todo), ~Doomed(todo) PROVE Tidy(r) /\ ~Doomed(todo)'
    <2>1. \A i \in 1..Len(r) : Tests(r[i])
      BY <1>2, <1>5, Zenon DEF Tidy, n
    <2>2. ASSUME NEW i \in 1..Len(r), NEW j \in 1..Len(r), Rival(r[i], r[j])
          PROVE  i = j
      <3>1. i + 1 = j + 1
        BY <1>2, <1>5, <2>2, Zenon DEF Tidy, n
      <3> QED BY <3>1
    <2>3. ASSUME NEW i \in 1..Len(r), Blocked(r[i])' PROVE FALSE
      <3>1. ~Blocked(todo[i + 1]) /\ ~Rival(todo[1], todo[i + 1])
        BY <1>2, <1>3, <1>5, Zenon DEF Tidy, Doomed, n
      <3> QED BY <1>2, <2>3, <3>1, Zenon
    <2> QED BY <2>1, <2>2, <2>3, Zenon DEF Tidy, Doomed
  <1>6. ASSUME Doomed(todo) PROVE r # <<>> /\ Doomed(todo)'
    <2>1. PICK i \in 1..n : Blocked(todo[i])
      BY <1>6, Zenon DEF Doomed, n
    <2>2. i # 1
      BY <2>1
    <2>3. i - 1 \in 1..Len(r) /\ (i - 1) + 1 = i
      BY <1>1, <2>2
    <2>4. r[i - 1] = todo[i]
      BY <1>2, <2>3
    <2>5. Blocked(r[i - 1])'
      BY <2>1, <2>4, Zenon
    <2>6. r # <<>>
      <3>1. Len(<<>>) = 0 /\ Len(r) # 0
        BY <1>1, <2>3
      <3> QED BY <3>1, Zenon
    <2> QED BY <2>3, <2>5, <2>6, Zenon DEF Doomed
  <1> QED BY <1>4, <1>5, <1>6

LEMMA OutcomeStep ==
    ASSUME KernelInv, OutcomeInv, Steps PROVE OutcomeInv'
  <1>1. call \in CallType /\ todo # <<>> /\ call.status = "running"
    BY StepOutcome DEF OutcomeInv
  <1>2. \A j : Blocked(j) => Blocked(j)'
    BY HasGrows, Zenon DEF Blocked
  <1>3. CASE Waits
    <2>1. todo' = todo /\ call' = call
      BY <1>3 DEF Waits
    <2>2. Doomed(todo)' <=> Doomed(todo)
      <3>1. \A j : Blocked(j)' <=> Blocked(j)
        BY <1>2, <1>3, Zenon DEF Blocked, Waits
      <3> QED BY <2>1, <3>1, Zenon DEF Doomed
    <2> QED BY <2>1, <2>2, Zenon DEF OutcomeInv, Plain, Tidy, Tests, Passed
  <1>4. CASE Advances
    <2>1. PICK r : /\ Done(r)
                   /\ Plain(todo) =>
                        /\ r = Tail(todo) /\ ~Blocked(todo[1])
                        /\ \A j : Blocked(j)' => Blocked(j) \/ Rival(todo[1], j)
      BY <1>4, Zenon DEF Advances
    <2>2. /\ todo' = r
          /\ call' = IF r = <<>> THEN [call EXCEPT !.status = "ok"] ELSE call
      BY <2>1 DEF Done
    <2>3. /\ call' \in CallType /\ call'.name = call.name
          /\ call'.clean = call.clean /\ call'.began = call.began
          /\ call'.status = IF r = <<>> THEN "ok" ELSE "running"
      BY <1>1, <2>2 DEF CallType
    <2>4. todo' = <<>> <=> call'.status # "running"
      BY <2>2, <2>3
    <2>5. CASE call.name # "init"
      BY <2>3, <2>4, <2>5 DEF OutcomeInv
    <2>6. CASE call.name = "init"
      <3>1. Plain(todo)
        BY <2>6 DEF OutcomeInv
      <3>2. /\ Plain(r)
            /\ Tidy(todo) /\ ~Doomed(todo) => Tidy(r) /\ ~Doomed(todo)'
            /\ Doomed(todo) => r # <<>> /\ Doomed(todo)'
        BY <1>1, <1>2, <2>1, <2>2, <2>6, <3>1, TailOutcome
      <3>3. /\ call.began \in {"fresh", "secure"} /\ call.clean =>
                 Tidy(todo) /\ ~Doomed(todo)
            /\ call.began = "other" => Doomed(todo)
        BY <1>1, <2>6, Zenon DEF OutcomeInv
      <3>4. call'.began \in {"fresh", "secure"} /\ call'.clean =>
              IF todo' = <<>> THEN call'.status = "ok"
                              ELSE Tidy(todo)' /\ ~Doomed(todo)'
        <4>1. Tidy(r) => Tidy(todo)'
          BY <2>2, Zenon DEF Tidy, Tests, Passed
        <4> QED BY <2>2, <2>3, <3>2, <3>3, <4>1
      <3>5. call'.began = "other" =>
              IF todo' = <<>> THEN call'.status # "ok" ELSE Doomed(todo)'
        BY <2>2, <2>3, <3>2, <3>3
      <3>6. Plain(todo)'
        BY <2>2, <3>2, Zenon DEF Plain
      <3> QED BY <2>3, <2>4, <3>4, <3>5, <3>6, Zenon DEF OutcomeInv
    <2> QED BY <2>5, <2>6
  <1>5. CASE Stops
    <2>1. PICK st \in Errors, cl \in BOOLEAN :
            Return(st, cl) /\ (cl => Blocked(todo[1]) \/ ~Tests(todo[1]))
      BY <1>5, Zenon DEF Stops
    <2>2. /\ todo' = <<>>
          /\ call' = [call EXCEPT !.status = st, !.clean = @ /\ cl]
      BY <2>1 DEF Return
    <2>3. /\ call' \in CallType /\ call'.name = call.name
          /\ call'.clean = (call.clean /\ cl) /\ call'.began = call.began
          /\ call'.status = st
      BY <1>1, <2>2, Zenon DEF CallType
    <2>4. st # "ok" /\ st # "running"
      BY DEF Errors
    <2>5. Plain(<<>>)
      BY DEF Plain
    <2>6. call.name = "init" /\ call.began \in {"fresh", "secure"} => ~call'.clean
      <3> SUFFICES ASSUME call.name = "init", call.began \in {"fresh", "secure"},
                          call'.clean
                   PROVE  FALSE
        OBVIOUS
      <3>1. call.clean /\ cl
        BY <2>3, Zenon
      <3>2. Tidy(todo) /\ ~Doomed(todo) /\ Plain(todo)
        BY <1>1, <3>1 DEF OutcomeInv
      <3>3. 1 \in 1..Len(todo)
        BY <1>1, HeadFacts
      <3> QED BY <2>1, <3>1, <3>2, <3>3, Zenon DEF Tidy, Doomed
    <2> QED BY <2>2, <2>3, <2>4, <2>5, <2>6 DEF OutcomeInv, Plain
  <1> QED BY <1>3, <1>4, <1>5, StepOutcome

(* srtp_init() without a library failure succeeds exactly when it finds     *)
(* nothing of its own registered, or a secure kernel without its debug      *)
(* module: whatever was loaded, replaced or left behind by a failed call    *)
(* before, and however many types the application has, no other state makes *)
(* it succeed and neither of the two makes it fail.                         *)
THEOREM InitSucceedsExactly == Spec => []InitOutcome
  <1>1. Init => OutcomeInv
    <2> SUFFICES ASSUME Init PROVE OutcomeInv
      OBVIOUS
    <2>1. call \in CallType /\ call.name = "none" /\ call.status = "ok"
      BY DEF Init, CallType, ApiCalls
    <2> QED BY <2>1 DEF Init, OutcomeInv
  <1>2. KernelInv /\ OutcomeInv /\ [Next]_vars => OutcomeInv'
    <2> SUFFICES ASSUME KernelInv, OutcomeInv, [Next]_vars PROVE OutcomeInv'
      OBVIOUS
    <2>1. CASE Next
      BY <2>1, BeginsInitOutcome, OtherCallsOutcome, OutcomeStep DEF Next
    <2>2. CASE UNCHANGED vars
      <3>1. UNCHANGED <<cipher_type_list, auth_type_list, debug_module_list,
                        todo, call>>
        BY <2>2, Zenon DEF vars, lists, run
      <3>2. \A op, x : Has(op, x)' <=> Has(op, x)
        BY <3>1, Zenon DEF Has, Registered, Elems
      <3>3. Doomed(todo)' <=> Doomed(todo)
        BY <3>1, <3>2, Zenon DEF Doomed, Blocked
      <3> QED BY <3>1, <3>3, Zenon DEF OutcomeInv, Plain, Tidy, Tests, Passed
    <2> QED BY <2>1, <2>2
  <1>3. OutcomeInv => InitOutcome
    BY DEF OutcomeInv, InitOutcome, CallType
  <1> QED BY <1>1, <1>2, <1>3, KernelInvariant, PTL DEF Spec

=============================================================================
