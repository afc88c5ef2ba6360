---------------------------- MODULE CryptoKernel ----------------------------
(***************************************************************************)
(* The crypto kernel (crypto/kernel/crypto_kernel.c): the one global that   *)
(* holds the registered cipher types, authentication types and debug        *)
(* modules, the self-tests a type passes before it is registered            *)
(* (crypto/cipher/cipher.c, crypto/hash/auth.c), and srtp_init() and        *)
(* srtp_shutdown() (srtp/srtp.c), which drive it.                           *)
(*                                                                          *)
(* A call runs to its end before the next one starts.  The work it has      *)
(* still to do is the sequence `todo`; every element is one of the calls    *)
(* the C function makes in turn, and any of them may fail: the function     *)
(* then returns at once and leaves behind what the earlier ones did.        *)
(***************************************************************************)
EXTENDS Integers, Sequences, FiniteSets

CONSTANTS
  Gcm,        \* whether the build has AES-GCM (#ifdef GCM)
  AppTypes,   \* types of the application: [name, kind, id] records
  AppModules, \* names of debug modules of the application
  Passing,    \* <<t, d>>: type t gives the right answers on d's test data
  Requested,  \* bound: the ids contexts are asked for
  MaxContexts, \* bound: how many types have contexts handed out at once
  MaxFaults   \* bound: how many library or allocation failures may happen

ASSUME FaultsAssumption == MaxFaults \in Nat

VARIABLES
  state,             \* crypto_kernel.state
  cipher_type_list,  \* registered cipher types, newest first
  auth_type_list,    \* registered authentication types, newest first
  debug_module_list, \* names of the loaded debug modules, newest first
  todo,              \* the rest of the running call
  at,                \* how far the self-test at the head of todo has come
  held,              \* contexts the running self-test holds
  contexts,          \* types of the contexts the kernel has handed out
  call,              \* the running or last call: [name, status, clean, began]
  faults,            \* failures so far
  exited             \* the process has called exit()

lists == <<state, cipher_type_list, auth_type_list, debug_module_list>>
run   == <<todo, at, held, call>>
vars  == <<lists, run, contexts, faults, exited>>

----------------------------------------------------------------------------
(* The work of srtp_crypto_kernel_init(), in its order. *)

Type(kind, id) == [name |-> id, kind |-> kind, id |-> id]
Test(t, d)     == [op |-> "test", type |-> t, data |-> d]
Load(t)        == [op |-> "load", type |-> t, replace |-> FALSE]
Replace(t)     == [op |-> "load", type |-> t, replace |-> TRUE]
Cipher(id)     == <<Test(Type("cipher", id), id), Load(Type("cipher", id))>>
Auth(id)       == <<Test(Type("auth", id), id), Load(Type("auth", id))>>
Module(m)      == <<[op |-> "module", module |-> m]>>

GcmLoads ==
  IF Gcm
  THEN Cipher("aes_icm_192") \o Cipher("aes_gcm_128") \o Cipher("aes_gcm_256")
         \o Module("aes gcm")
  ELSE <<>>

(* Mutant of KernelInit: the state is changed before all types are loaded. *)
KernelInitEarly ==
  <<[op |-> "report"]>>
    \o Module("crypto kernel") \o Module("auth func") \o Module("cipher")
    \o Module("alloc")
    \o Cipher("null_cipher") \o Cipher("aes_icm_128") \o Cipher("aes_icm_256")
    \o Module("aes icm")
    \o GcmLoads
    \o <<[op |-> "secure"]>>
    \o Auth("null_auth") \o Auth("hmac") \o Module("hmac")

KernelInit ==
  <<[op |-> "report"]>>
    \o Module("crypto kernel") \o Module("auth func") \o Module("cipher")
    \o Module("alloc")
    \o Cipher("null_cipher") \o Cipher("aes_icm_128") \o Cipher("aes_icm_256")
    \o Module("aes icm")
    \o GcmLoads
    \o Auth("null_auth") \o Auth("hmac") \o Module("hmac")
    \o <<[op |-> "secure"]>>

(* srtp_crypto_kernel_status() tests every registered type again; a failed  *)
(* test ends the process.                                                   *)
Retest(list) == [i \in 1..Len(list) |->
                   [op |-> "retest", type |-> list[i], data |-> list[i].name]]
KernelStatus == Retest(cipher_type_list) \o Retest(auth_type_list)

(* What a complete srtp_crypto_kernel_init() has registered. *)
Jobs(op)    == {j \in {KernelInit[i] : i \in 1..Len(KernelInit)} : j.op = op}
InitTypes   == {j.type : j \in Jobs("load")}
InitIds     == {t.id : t \in InitTypes}
InitModules == {j.module : j \in Jobs("module")}

(* The built-in types answer their own test data; the application's types   *)
(* and modules have names of their own.                                     *)
ASSUME BuiltInsPass == \A id \in InitIds : <<id, id>> \in Passing
ASSUME AppAssumption ==
  /\ \A t \in AppTypes : t.kind \in {"cipher", "auth"} /\ t.name \notin InitIds
  /\ AppModules \cap (InitModules \cup {"srtp"}) = {}

----------------------------------------------------------------------------
(* The calls of a self-test, in the order they are made. *)

IsGcm(t) == t.id \in {"aes_gcm_128", "aes_gcm_256"}
SetAad(t) == IF IsGcm(t) THEN <<"set_aad">> ELSE <<>>

(* srtp_cipher_type_test(): one test case stands for the list of them, and  *)
(* one random trial for the NUM_RAND_TESTS of the invertibility test.       *)
EncryptTest(t) ==
  <<"alloc", "init", "length", "set_iv">> \o SetAad(t) \o <<"encrypt", "compare">>

DecryptTest(t) ==
  <<"init", "length", "set_iv">> \o SetAad(t) \o <<"decrypt", "compare", "dealloc">>

InvertibilityTest(t) ==
  <<"alloc", "key_length", "init", "set_iv">> \o SetAad(t) \o <<"encrypt">>
    \o <<"init", "set_iv">> \o SetAad(t) \o <<"decrypt", "invert", "dealloc">>

CipherTypeTest(t) == EncryptTest(t) \o DecryptTest(t) \o InvertibilityTest(t)

AuthTypeTest(t) ==
  <<"length", "alloc", "init", "start", "compute", "compare", "dealloc">>

TestCalls(t) == IF t.kind = "cipher" THEN CipherTypeTest(t) ELSE AuthTypeTest(t)

(* The steps that compare what the type did with the test data, and the     *)
(* last of them, by which a type that does not pass has failed.             *)
Checks == {"length", "key_length", "compare", "invert"}
LastCheck(t) == IF t.kind = "cipher" THEN "invert" ELSE "compare"

----------------------------------------------------------------------------
ListOf(kind) == IF kind = "cipher" THEN cipher_type_list ELSE auth_type_list
Elems(s)     == {s[i] : i \in 1..Len(s)}
Ids(list)    == {t.id : t \in Elems(list)}
Entry(list, id) == CHOOSE i \in 1..Len(list) : list[i].id = id

Idle == todo = <<>> /\ ~exited
Job  == Head(todo)

(* A call starts.  `began` remembers whether nothing that srtp_init() is     *)
(* about to register is registered ("fresh"), the kernel is secure and only *)
(* srtp's own module is missing ("secure"), or neither.                     *)
Began ==
  IF /\ state = "insecure"
     /\ (InitModules \cup {"srtp"}) \cap Elems(debug_module_list) = {}
     /\ \A t \in InitTypes : t.id \notin Ids(ListOf(t.kind))
  THEN "fresh"
  ELSE IF state = "secure" /\ "srtp" \notin Elems(debug_module_list)
  THEN "secure"
  ELSE "other"

Begin(name, work) ==
  /\ Idle
  /\ todo' = work
  /\ call' = [name |-> name, clean |-> TRUE, began |-> Began,
              status |-> IF work = <<>> THEN "ok" ELSE "running"]
  /\ UNCHANGED <<lists, at, held, contexts, faults, exited>>

(* The step at the head of todo is done; the call returns after the last. *)
Done(rest) ==
  /\ todo' = rest
  /\ at' = 0
  /\ call' = IF rest = <<>> THEN [call EXCEPT !.status = "ok"] ELSE call

(* An error status is returned to the caller at once. *)
Return(status, clean) ==
  /\ todo' = <<>>
  /\ at' = 0
  /\ call' = [call EXCEPT !.status = status, !.clean = @ /\ clean]

(* A failure the code cannot foresee: an allocation or a library call. *)
Fault == faults < MaxFaults /\ faults' = faults + 1

----------------------------------------------------------------------------
(* The public calls. *)

SrtpInit ==
  Begin("init", (IF state = "secure" THEN KernelStatus ELSE KernelInit)
                  \o Module("srtp"))

Status == Begin("status", KernelStatus)

(* Mutant of LoadCipherType: the self-test is left out. *)
LoadCipherTypeUntested ==
  \E t \in AppTypes : t.kind = "cipher" /\ Begin("load", <<Load(t)>>)

LoadCipherType ==
  \E t \in AppTypes :
    t.kind = "cipher" /\ Begin("load", <<Test(t, t.name), Load(t)>>)

ReplaceCipherType ==
  \E t \in AppTypes :
    t.kind = "cipher" /\ Begin("replace", <<Test(t, t.name), Replace(t)>>)

LoadAuthType ==
  \E t \in AppTypes :
    t.kind = "auth" /\ Begin("load", <<Test(t, t.name), Load(t)>>)

ReplaceAuthType ==
  \E t \in AppTypes :
    t.kind = "auth" /\ Begin("replace", <<Test(t, t.name), Replace(t)>>)

LoadModule == \E m \in AppModules : Begin("module", Module(m))

(* srtp_shutdown() frees the three lists; contexts in use stay usable. *)
Shutdown ==
  /\ Idle
  /\ state' = "insecure"
  /\ cipher_type_list' = <<>>
  /\ auth_type_list' = <<>>
  /\ debug_module_list' = <<>>
  /\ call' = [name |-> "shutdown", status |-> "ok", clean |-> TRUE,
              began |-> Began]
  /\ UNCHANGED <<todo, at, held, contexts, faults, exited>>

(* srtp_crypto_kernel_alloc_cipher() and _alloc_auth(): only a secure       *)
(* kernel hands out contexts, of the type registered for the id.            *)
AllocContext(list) ==
  /\ Idle
  /\ \E id \in Requested :
       LET found == state = "secure" /\ id \in Ids(list)
           Answer(status) == call' = [name |-> "alloc", status |-> status,
                                      clean |-> status # "alloc_fail",
                                      began |-> Began]
       IN \/ /\ found /\ Cardinality(contexts) < MaxContexts
             /\ contexts' = contexts \cup {list[Entry(list, id)]}
             /\ Answer("ok") /\ UNCHANGED faults
          \/ /\ found /\ Fault
             /\ Answer("alloc_fail") /\ UNCHANGED contexts
          \/ /\ ~found
             /\ Answer(IF state # "secure" THEN "init_fail" ELSE "fail")
             /\ UNCHANGED <<contexts, faults>>
  /\ UNCHANGED <<lists, todo, at, held, exited>>

AllocCipher == AllocContext(cipher_type_list)
AllocAuth   == AllocContext(auth_type_list)

DeallocContext ==
  /\ Idle
  /\ \E t \in contexts : contexts' = contexts \ {t}
  /\ UNCHANGED <<lists, run, faults, exited>>

----------------------------------------------------------------------------
(* The steps of a running call. *)

Running(op) == todo # <<>> /\ ~exited /\ Job.op = op

(* One call of the self-test at the head of todo. *)
Testing == Running("test") \/ Running("retest")
TestCall == TestCalls(Job.type)[at + 1]

Passes == <<Job.type.name, Job.data>> \in Passing

TestStep ==
  /\ Testing
  /\ TestCall = LastCheck(Job.type) => Passes
  /\ held' = CASE TestCall = "alloc"   -> held + 1
               [] TestCall = "dealloc" -> held - 1
               [] OTHER                -> held
  /\ IF at + 1 = Len(TestCalls(Job.type))
     THEN Done(Tail(todo))
     ELSE at' = at + 1 /\ UNCHANGED <<todo, call>>
  /\ UNCHANGED <<lists, contexts, faults, exited>>

(* Mutant of TestFails: an early return keeps the context. *)
TestFailsKeeps ==
  /\ Testing
  /\ TestCall # "dealloc"
  /\ IF TestCall \in Checks THEN ~Passes /\ UNCHANGED faults ELSE Fault
  /\ Return("algo_fail", TestCall \in Checks)
  /\ exited' = (Job.op = "retest")
  /\ UNCHANGED <<lists, held, contexts>>

(* A test call fails: the context, once allocated, is deallocated and the   *)
(* status is returned; in srtp_crypto_kernel_status() the process exits.    *)
TestFails ==
  /\ Testing
  /\ TestCall # "dealloc"
  /\ IF TestCall \in Checks THEN ~Passes /\ UNCHANGED faults ELSE Fault
  /\ held' = 0
  /\ Return(CASE TestCall \in {"compare", "invert"} -> "algo_fail"
              [] TestCall = "length"                -> "bad_param"
              [] TestCall = "key_length"            -> "cant_check"
              [] TestCall = "alloc"                 -> "alloc_fail"
              [] OTHER                              -> "cipher_fail",
            TestCall \in Checks)
  /\ exited' = (Job.op = "retest")
  /\ UNCHANGED <<lists, contexts>>

(* Mutant of Place: a type replaces another without the other's test data. *)
PlaceUnvetted(kind, list, new) ==
  /\ Running("load") /\ Job.type.kind = kind
  /\ LET t == Job.type IN
     new = IF t.id \in Ids(list) THEN [list EXCEPT ![Entry(list, t.id)] = t]
                                 ELSE <<t>> \o list
  /\ Done(Tail(todo))
  /\ UNCHANGED <<state, debug_module_list, held, contexts, faults, exited>>

(* Mutant of Place: the list is not searched. *)
PlaceAnyway(kind, list, new) ==
  /\ Running("load") /\ Job.type.kind = kind
  /\ new = <<Job.type>> \o list
  /\ Done(Tail(todo))
  /\ UNCHANGED <<state, debug_module_list, held, contexts, faults, exited>>

(* The tested type is placed in its list: at the head when its id is new;   *)
(* over the old type when it replaces one, once it has passed the old       *)
(* type's test data too.                                                    *)
Place(kind, list, new) ==
  /\ Running("load") /\ Job.type.kind = kind
  /\ LET t == Job.type  found == t.id \in Ids(list) IN
     IF found /\ Job.replace
     THEN /\ Done(<<Test(t, list[Entry(list, t.id)].name),
                    [op |-> "swap", type |-> t]>> \o Tail(todo))
          /\ new = list /\ UNCHANGED faults
     ELSE IF found
     THEN /\ Return("bad_param", TRUE) /\ new = list /\ UNCHANGED faults
     ELSE \/ Done(Tail(todo)) /\ new = <<t>> \o list /\ UNCHANGED faults
          \/ Fault /\ Return("alloc_fail", FALSE) /\ new = list
  /\ UNCHANGED <<state, debug_module_list, held, contexts, exited>>

PlaceCipherType ==
  Place("cipher", cipher_type_list, cipher_type_list')
    /\ UNCHANGED auth_type_list

PlaceAuthType ==
  Place("auth", auth_type_list, auth_type_list')
    /\ UNCHANGED cipher_type_list

Swapped(list, t) == [list EXCEPT ![Entry(list, t.id)] = t]

Swap ==
  /\ Running("swap")
  /\ IF Job.type.kind = "cipher"
     THEN cipher_type_list' = Swapped(cipher_type_list, Job.type)
            /\ UNCHANGED auth_type_list
     ELSE auth_type_list' = Swapped(auth_type_list, Job.type)
            /\ UNCHANGED cipher_type_list
  /\ Done(Tail(todo))
  /\ UNCHANGED <<state, debug_module_list, held, contexts, faults, exited>>

(* Mutant of PlaceModule: a name that is already there is no error. *)
PlaceModuleTwice ==
  /\ Running("module")
  /\ Done(Tail(todo))
  /\ debug_module_list' = IF Job.module \in Elems(debug_module_list)
                          THEN debug_module_list
                          ELSE <<Job.module>> \o debug_module_list
  /\ UNCHANGED <<state, cipher_type_list, auth_type_list, held, contexts,
                 faults, exited>>

(* srtp_crypto_kernel_load_debug_module() refuses a name it already has. *)
PlaceModule ==
  /\ Running("module")
  /\ IF Job.module \in Elems(debug_module_list)
     THEN Return("bad_param", TRUE) /\ UNCHANGED <<debug_module_list, faults>>
     ELSE \/ /\ Done(Tail(todo))
             /\ debug_module_list' = <<Job.module>> \o debug_module_list
             /\ UNCHANGED faults
          \/ Fault /\ Return("alloc_fail", FALSE) /\ UNCHANGED debug_module_list
  /\ UNCHANGED <<state, cipher_type_list, auth_type_list, held, contexts,
                 exited>>

(* srtp_err_reporting_init() may fail to open its file. *)
ReportingInit ==
  /\ Running("report")
  /\ \/ Done(Tail(todo)) /\ UNCHANGED faults
     \/ Fault /\ Return("init_fail", FALSE)
  /\ UNCHANGED <<lists, held, contexts, exited>>

BecomeSecure ==
  /\ Running("secure")
  /\ state' = "secure"
  /\ Done(Tail(todo))
  /\ UNCHANGED <<cipher_type_list, auth_type_list, debug_module_list, held,
                 contexts, faults, exited>>

Init ==
  /\ state = "insecure"
  /\ cipher_type_list = <<>> /\ auth_type_list = <<>>
  /\ debug_module_list = <<>>
  /\ todo = <<>> /\ at = 0 /\ held = 0
  /\ contexts = {} /\ faults = 0 /\ exited = FALSE
  /\ call = [name |-> "none", status |-> "ok", clean |-> TRUE,
             began |-> "fresh"]

Calls == \/ SrtpInit \/ Status \/ Shutdown \/ LoadModule
         \/ LoadCipherType \/ ReplaceCipherType
         \/ LoadAuthType \/ ReplaceAuthType
         \/ AllocCipher \/ AllocAuth \/ DeallocContext

Steps == \/ TestStep \/ TestFails
         \/ PlaceCipherType \/ PlaceAuthType \/ Swap
         \/ PlaceModule \/ ReportingInit \/ BecomeSecure

Next == Calls \/ Steps

Spec == Init /\ [][Next]_vars

----------------------------------------------------------------------------
(* Properties. *)

Registered == Elems(cipher_type_list) \cup Elems(auth_type_list)

TypeOK ==
  /\ state \in {"insecure", "secure"}
  /\ \A t \in Elems(cipher_type_list) : t.kind = "cipher"
  /\ \A t \in Elems(auth_type_list) : t.kind = "auth"
  /\ at \in Nat /\ held \in {0, 1} /\ faults \in 0..MaxFaults
  /\ exited \in BOOLEAN

(* A kernel in the secure state has every cipher type, authentication type  *)
(* and debug module that srtp_crypto_kernel_init() loads, whatever calls    *)
(* failed, were retried or were made by the application before it: the      *)
(* contexts a session asks for are always there to be had.                  *)
SecureIsComplete ==
  state = "secure" =>
    /\ \A t \in InitTypes : t.id \in Ids(ListOf(t.kind))
    /\ InitModules \subseteq Elems(debug_module_list)

(* Lookups by id and by name have one answer: no id is twice in the list of *)
(* its kind, and no debug module name twice, after any loads, replacements  *)
(* and failed calls.                                                        *)
OneEntryPerId ==
  /\ \A l \in {cipher_type_list, auth_type_list} :
       \A i, j \in 1..Len(l) : l[i].id = l[j].id => i = j
  /\ \A i, j \in 1..Len(debug_module_list) :
       debug_module_list[i] = debug_module_list[j] => i = j

(* Every registered type, and every type of which the kernel has handed out *)
(* a context, answered its own test data correctly before it could be used. *)
OnlyTestedTypes ==
  \A t \in Registered \cup contexts : <<t.name, t.name>> \in Passing

(* A registered type gives way to another one only when that one answers    *)
(* the test data of the type it takes the place of; short of a shutdown,    *)
(* nothing else takes a type out of the lists.                              *)
Vetted(old, new) ==
  /\ old.kind = new.kind /\ old.id = new.id
  /\ <<new.name, old.name>> \in Passing

VettedReplacement ==
  [][\A t \in Registered :
       \/ t \in Registered'
       \/ call'.name = "shutdown"
       \/ \E u \in Registered' : Vetted(t, u)]_vars

(* No call of the library returns while a context that one of its           *)
(* self-tests allocated is still held: every early return of the cipher and *)
(* authentication tests deallocates it.                                     *)
NoSelfTestLeak == todo = <<>> => held = 0

(* srtp_init() without a library failure succeeds exactly when it finds     *)
(* nothing of its own registered, or the kernel secure and only its debug   *)
(* module missing.  An initialisation that stopped half way, or one that    *)
(* already succeeded, is therefore followed by failures until               *)
(* srtp_shutdown() has emptied the lists.                                   *)
InitOutcome ==
  (call.name = "init" /\ call.clean /\ call.status # "running" /\ ~exited)
    => (call.status = "ok" <=> call.began \in {"fresh", "secure"})

=============================================================================
