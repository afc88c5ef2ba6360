----------------------------- MODULE StreamKeys -----------------------------
(***************************************************************************)
(* From a policy to session keys: the application fills in a policy with    *)
(* the setters, in any order, and adds a stream with it;                    *)
(* srtp_stream_init_keys() then derives the session keys of every master    *)
(* key in one temporary buffer, tmp_key, that is overwritten from one key   *)
(* to the next (srtp/srtp.c).                                               *)
(*                                                                          *)
(* An octet of a key is modelled by where it comes from: <<"zero">>, octet  *)
(* o of master key m, or octet o of what the key derivation function puts   *)
(* out for a label under master key m.                                      *)
(***************************************************************************)
EXTENDS Policy, FiniteSets

CONSTANTS
  Ssrcs, Windows, Services, Rccs, EncIds, MkiLens, KeyLens,
              \* what the application passes to the setters
  MaxFaults   \* bound: how many library or allocation failures may happen

ASSUME StreamKeysAssumption == MaxFaults \in Nat

VARIABLES
  build,    \* the key derivation function in the build
  policy,   \* the application's policy
  key,      \* the master key whose session keys are derived, 0 outside
  todo,     \* the calls srtp_stream_init_keys() has still to make
  tmp_key,  \* srtp_stream_init_keys()'s buffer
  kdfs,     \* the key derivation functions in use
  session,  \* for every master key, the key its contexts were set up with
  result,   \* what srtp_stream_add() returned, "running", or "none"
  faults    \* failures so far

vars == <<build, policy, key, todo, tmp_key, kdfs, session, result, faults>>

----------------------------------------------------------------------------
(* Key lengths *)

BaseKeyLength(cipher, len) ==
  CASE cipher = "null_cipher"                    -> 0
    [] cipher \in {"aes_gcm_128", "aes_gcm_256"} -> len - 12
    [] OTHER                                     -> len - 14

FullKeyLength(cipher) ==
  CASE cipher = "null_cipher" -> 0
    [] cipher = "aes_icm_128" -> 30
    [] cipher = "aes_icm_192" -> 38
    [] cipher = "aes_icm_256" -> 46
    [] cipher = "aes_gcm_128" -> 28
    [] cipher = "aes_gcm_256" -> 44

FullAuthKeyLength(auth) == IF auth = "hmac" THEN 30 ELSE 0

Maximum(S) == CHOOSE n \in S : \A m \in S : m <= n

InputKeyLen(p) ==
  Maximum({FullKeyLength(p.rtp.cipher_type), FullAuthKeyLength(p.rtp.auth_type),
           FullKeyLength(p.rtcp.cipher_type), FullAuthKeyLength(p.rtcp.auth_type)})

(* The AES-CM key derivation always takes a salt of 14 octets. *)
KdfKeyLen(p) ==
  LET n == Maximum({30, p.rtp.cipher_key_len, p.rtcp.cipher_key_len, InputKeyLen(p)})
  IN  IF n \in {28, 44} THEN n + 2 ELSE n

BufferLen == 46  \* as much of the MAX_SRTP_KEY_LEN octets as is ever used

Zero == <<"zero">>
ZeroKey == [o \in 0..BufferLen - 1 |-> Zero]

----------------------------------------------------------------------------
(* The calls of srtp_stream_init_keys(), in order. *)

KdfInit(k)  == <<[op |-> "kdf_init", kdf |-> k]>>
KdfClear(k) == <<[op |-> "kdf_clear", kdf |-> k]>>
Generate(k, label, off, len) ==
  <<[op |-> "generate", kdf |-> k, label |-> label, off |-> off, len |-> len]>>
Salt(k, label, off, len) ==
  IF len > 0 THEN Generate(k, label, off, len) ELSE <<>>
SetUp(slot, len) == <<[op |-> "set_up", slot |-> slot, len |-> len]>>
Keep(slot, off) == <<[op |-> "keep", slot |-> slot, off |-> off]>>

(* Mutant of RtpCalls: the cipher is set up before its salt is derived. *)
RtpCallsLateSalt(p) ==
  LET len  == p.rtp.cipher_key_len
      base == BaseKeyLength(p.rtp.cipher_type, len)
  IN  KdfInit("main") \o Generate("main", "rtp_encryption", 0, base)
        \o SetUp("rtp_cipher", len)
        \o Salt("main", "rtp_salt", base, len - base)
        \o (IF len > base THEN Keep("salt", base) ELSE <<>>)

RtpCalls(p) ==
  LET len  == p.rtp.cipher_key_len
      base == BaseKeyLength(p.rtp.cipher_type, len)
  IN  KdfInit("main") \o Generate("main", "rtp_encryption", 0, base)
        \o Salt("main", "rtp_salt", base, len - base)
        \o (IF len > base THEN Keep("salt", base) ELSE <<>>)
        \o SetUp("rtp_cipher", len)

(* For AES-GCM the header extensions are encrypted with the corresponding   *)
(* AES-ICM cipher, keyed by a key derivation function of its own and with   *)
(* the shorter GCM salt.                                                    *)
HeaderCipher(p) ==
  CASE p.rtp.cipher_type = "aes_gcm_128" -> [type |-> "aes_icm_128", len |-> 30]
    [] p.rtp.cipher_type = "aes_gcm_256" -> [type |-> "aes_icm_256", len |-> 46]
    [] OTHER -> [type |-> p.rtp.cipher_type, len |-> p.rtp.cipher_key_len]

HeaderCalls(p) ==
  LET c     == HeaderCipher(p)
      own   == c.type # p.rtp.cipher_type
      kdf   == IF own THEN "header" ELSE "main"
      base  == BaseKeyLength(c.type, c.len)
      salt  == IF own THEN 12 ELSE c.len - base
  IN  IF p.enc_xtn_hdr = <<>> THEN <<>>
      ELSE (IF own THEN KdfInit(kdf) ELSE <<>>)
             \o Generate(kdf, "rtp_header_encryption", 0, base)
             \o Salt(kdf, "rtp_header_salt", base, salt)
             \o SetUp("rtp_xtn_hdr_cipher", c.len)
             \o (IF own THEN KdfClear(kdf) ELSE <<>>)

RtpAuthCalls(p) ==
  Generate("main", "rtp_msg_auth", 0, p.rtp.auth_key_len)
    \o SetUp("rtp_auth", p.rtp.auth_key_len)

RtcpCalls(p) ==
  LET len  == p.rtcp.cipher_key_len
      base == BaseKeyLength(p.rtcp.cipher_type, len)
  IN  Generate("main", "rtcp_encryption", 0, base)
        \o Salt("main", "rtcp_salt", base, len - base)
        \o (IF len > base THEN Keep("c_salt", base) ELSE <<>>)
        \o SetUp("rtcp_cipher", len)
        \o Generate("main", "rtcp_msg_auth", 0, p.rtcp.auth_key_len)
        \o SetUp("rtcp_auth", p.rtcp.auth_key_len)
        \o KdfClear("main")

InitKeys(p) == RtpCalls(p) \o HeaderCalls(p) \o RtpAuthCalls(p) \o RtcpCalls(p)

(* A policy with no key sets up the null contexts without one. *)
InitNoKeys(p) ==
  SetUp("rtp_cipher", 0) \o SetUp("rtp_auth", 0)
    \o (IF p.enc_xtn_hdr = <<>> THEN <<>> ELSE SetUp("rtp_xtn_hdr_cipher", 0))
    \o SetUp("rtcp_cipher", 0) \o SetUp("rtcp_auth", 0)

(* What srtp_stream_init_keys() checks before it derives anything. *)
KeyAcceptable(p, m) ==
  /\ p.mki_size # 0 => p.master_keys[m].mki_id_len = p.mki_size
  /\ \/ p.rtp.cipher_key_len >= InputKeyLen(p)
     \/ p.rtcp.cipher_key_len >= InputKeyLen(p)

----------------------------------------------------------------------------
(* The application *)

Idle == result = "none"

Apply(r) ==
  /\ Idle
  /\ policy' = r.policy
  /\ UNCHANGED <<build, key, todo, tmp_key, kdfs, session, result, faults>>

Setters ==
  \/ \E s \in Ssrcs : Apply(SetSsrc(policy, s))
  \/ \E f \in Profiles \cup {"reserved"} : Apply(SetProfile(policy, f))
  \/ \E s \in Services : Apply(SetSecServ(policy, s, s))
  \/ \E n \in MkiLens : Apply(UseMki(policy, n))
  \/ \E r \in Rccs : Apply(SetRccModeTxRate(policy, r[1], r[2]))
  \/ \E l \in KeyLens, n \in MkiLens : Apply(AddKey(policy, l[1], l[2], n))
  \/ Apply(RemoveKeys(policy))
  \/ \E n \in Windows : Apply(SetWindowSize(policy, n))
  \/ \E b \in BOOLEAN : Apply(SetAllowRepeatTx(policy, b))
  \/ \E b \in BOOLEAN : Apply(SetCryptex(policy, b))
  \/ \E i \in EncIds : Apply(AddEncHdrXtndId(policy, i))
  \/ Apply(RemoveEncHdrXtndIds(policy))

(* Whether the kernel has the cipher types the policy asks for: AES-192 is  *)
(* registered together with AES-GCM.                                        *)
CiphersRegistered(p) ==
  {p.rtp.cipher_type, p.rtcp.cipher_type} \cap {"aes_icm_192"} # {} => Gcm

Fault == faults < MaxFaults /\ faults' = faults + 1

Return(status) ==
  /\ result' = status
  /\ todo' = <<>>
  /\ key' = 0
  /\ tmp_key' = ZeroKey
  /\ UNCHANGED policy

(* The derivation for master key m, or its refusal. *)
StartKey(m) ==
  IF KeyAcceptable(policy, m)
  THEN /\ key' = m
       /\ todo' = InitKeys(policy)
       /\ tmp_key' = [o \in 0..BufferLen - 1 |->
                        IF o < InputKeyLen(policy) THEN <<"master", m, o>> ELSE Zero]
       /\ result' = "running"
       /\ UNCHANGED policy
  ELSE Return("bad_param")

(* srtp_stream_add(): validation, srtp_stream_alloc() and the beginning of  *)
(* srtp_stream_init().                                                      *)
AddStream ==
  /\ Idle
  /\ kdfs' = {} /\ session' = <<>> /\ UNCHANGED <<build, faults>>
  /\ IF ~PolicyValidate(policy) THEN Return("invalid")
     ELSE IF ~CiphersRegistered(policy) THEN Return("fail")
     ELSE IF policy.master_keys # <<>> THEN StartKey(1)
     ELSE /\ result' = "running" /\ todo' = InitNoKeys(policy)
          /\ UNCHANGED <<policy, key, tmp_key>>

(* The stream is removed, or its leftovers are forgotten. *)
RemoveStream ==
  /\ result \notin {"none", "running"}
  /\ result' = "none" /\ kdfs' = {} /\ session' = <<>>
  /\ UNCHANGED <<build, policy, key, todo, tmp_key, faults>>

----------------------------------------------------------------------------
(* The derivation *)

Job == Head(todo)
Running(op) == result = "running" /\ todo # <<>> /\ Job.op = op

(* The built-in function allocates a cipher context, the wolfSSL one fills  *)
(* in a record; both take the key lengths of AES-ICM only.                  *)
KdfInitStep(b) ==
  /\ Running("kdf_init") /\ build = b
  /\ IF KdfKeyLen(policy) \in {30, 38, 46}
     THEN kdfs' = kdfs \cup {Job.kdf} /\ todo' = Tail(todo)
            /\ UNCHANGED <<policy, key, tmp_key, result>>
     ELSE Return("init_fail") /\ UNCHANGED kdfs
  /\ UNCHANGED <<build, session, faults>>

BuiltinKdfInit == KdfInitStep("builtin")
WolfsslKdfInit == KdfInitStep("wolfssl")

(* The built-in function sets the IV to the label and encrypts len zeros;   *)
(* wolfSSL is not called for no octets at all.  Octets that are not asked   *)
(* for stay as they are.                                                    *)
Written(label, off, len) ==
  [o \in DOMAIN tmp_key |-> IF o \in off .. off + len - 1
                            THEN <<label, key, o - off>> ELSE tmp_key[o]]

BuiltinKdfGenerate ==
  /\ Running("generate") /\ build = "builtin"
  /\ Job.kdf \in kdfs
  /\ tmp_key' = Written(Job.label, Job.off, Job.len)
  /\ todo' = Tail(todo)
  /\ UNCHANGED <<build, policy, key, kdfs, session, result, faults>>

WolfsslKdfGenerate ==
  /\ Running("generate") /\ build = "wolfssl"
  /\ Job.kdf \in kdfs
  /\ tmp_key' = IF Job.len = 0 THEN tmp_key
                ELSE Written(Job.label, Job.off, Job.len)
  /\ todo' = Tail(todo)
  /\ UNCHANGED <<build, policy, key, kdfs, session, result, faults>>

Slots == {"salt", "c_salt", "rtp_cipher", "rtp_xtn_hdr_cipher", "rtp_auth",
          "rtcp_cipher", "rtcp_auth"}
Unset == [s \in Slots |-> <<>>]

Record(slot, octets) ==
  LET m == IF key = 0 THEN 1 ELSE key IN
  session' = [i \in 1..(IF m > Len(session) THEN m ELSE Len(session)) |->
                [(IF i <= Len(session) THEN session[i] ELSE Unset)
                   EXCEPT ![slot] = IF i = m THEN octets ELSE @]]

(* srtp_cipher_init() or srtp_auth_init() reads the first len octets. *)
SetUpStep ==
  /\ Running("set_up")
  /\ Record(Job.slot, [o \in 1..Job.len |-> tmp_key[o - 1]])
  /\ todo' = Tail(todo)
  /\ result' = IF key = 0 /\ todo' = <<>> THEN "ok" ELSE result
  /\ UNCHANGED <<build, policy, key, tmp_key, kdfs, faults>>

(* The AEAD salt is copied out of the buffer. *)
KeepStep ==
  /\ Running("keep")
  /\ Record(Job.slot, [o \in 1..12 |-> tmp_key[Job.off + o - 1]])
  /\ todo' = Tail(todo)
  /\ UNCHANGED <<build, policy, key, tmp_key, kdfs, result, faults>>

(* After the last call the buffer is zeroized, and the next key follows. *)
KdfClearStep ==
  /\ Running("kdf_clear")
  /\ kdfs' = kdfs \ {Job.kdf}
  /\ IF Tail(todo) # <<>>
     THEN todo' = Tail(todo) /\ UNCHANGED <<policy, key, tmp_key, result>>
     ELSE IF key < Len(policy.master_keys) THEN StartKey(key + 1)
     ELSE Return("ok")
  /\ UNCHANGED <<build, session, faults>>

(* Mutant of CallFails: the buffer is left as it is. *)
CallFailsKeepsKey ==
  /\ result = "running"
  /\ Job.op \in {"kdf_init", "generate", "set_up"}
  /\ Fault
  /\ result' = "init_fail" /\ todo' = <<>> /\ key' = 0
  /\ UNCHANGED <<build, policy, tmp_key, kdfs, session>>

(* Any of the calls fails: the buffer is zeroized and the status returned,  *)
(* a key derivation function that is in use is not released.                *)
CallFails ==
  /\ result = "running"
  /\ Job.op \in {"kdf_init", "generate", "set_up"}
  /\ build = "wolfssl" /\ Job.op = "generate" => Job.len > 0
  /\ Fault
  /\ Return("init_fail")
  /\ UNCHANGED <<build, kdfs, session>>

Init ==
  /\ build \in {"builtin", "wolfssl"}
  /\ policy = PolicyCreate
  /\ key = 0 /\ todo = <<>> /\ tmp_key = ZeroKey
  /\ kdfs = {} /\ session = <<>> /\ result = "none" /\ faults = 0

Next == \/ Setters \/ AddStream \/ RemoveStream
        \/ BuiltinKdfInit \/ WolfsslKdfInit
        \/ BuiltinKdfGenerate \/ WolfsslKdfGenerate \/ SetUpStep \/ KeepStep
        \/ KdfClearStep \/ CallFails

Spec == Init /\ [][Next]_vars

----------------------------------------------------------------------------
(* Properties *)

(* A stream that a valid policy asks for is never refused for its keys: in  *)
(* whatever order the setters were called, once srtp_policy_validate() has  *)
(* accepted the policy, the checks of srtp_stream_init_keys() and of the    *)
(* key derivation function pass, and only a failing library call or a       *)
(* cipher that is not in the build stops the stream.                        *)
ValidPolicyStarts ==
  /\ result \notin {"bad_param"}
  /\ result = "init_fail" => faults > 0
  /\ result = "fail" => ~Gcm

(* Octets lo .. hi - 1 of what the function puts out for the label. *)
Derived(label, m, lo, hi) == [i \in 1..hi - lo |-> <<label, m, lo + i - 1>>]

(* The key and salt of a cipher; the null cipher reads its 30 octets and    *)
(* uses none, all of them from the salt's label.                            *)
CipherKey(crypto, enc, salt, m) ==
  LET len  == crypto.cipher_key_len
      base == BaseKeyLength(crypto.cipher_type, len)
  IN  Derived(enc, m, 0, base) \o Derived(salt, m, 0, len - base)

HeaderKey(m) ==
  LET c    == HeaderCipher(policy)
      base == BaseKeyLength(c.type, c.len)
      salt == IF IsGcm(policy.rtp) THEN 12 ELSE c.len - base
  IN  Derived("rtp_header_encryption", m, 0, base)
        \o Derived("rtp_header_salt", m, 0, salt)
        \o [i \in 1..c.len - base - salt |-> Zero]

(* What master key m is to give each context, the salts included. *)
KeyFor(slot, m) ==
  CASE slot = "rtp_cipher" ->
         CipherKey(policy.rtp, "rtp_encryption", "rtp_salt", m)
    [] slot = "rtcp_cipher" ->
         CipherKey(policy.rtcp, "rtcp_encryption", "rtcp_salt", m)
    [] slot = "salt"      -> Derived("rtp_salt", m, 0, 12)
    [] slot = "c_salt"    -> Derived("rtcp_salt", m, 0, 12)
    [] slot = "rtp_auth"  -> Derived("rtp_msg_auth", m, 0, policy.rtp.auth_key_len)
    [] slot = "rtcp_auth" -> Derived("rtcp_msg_auth", m, 0, policy.rtcp.auth_key_len)
    [] slot = "rtp_xtn_hdr_cipher" ->
         IF policy.enc_xtn_hdr = <<>> THEN <<>> ELSE HeaderKey(m)

(* Every context of a stream works with its own key from the moment it is   *)
(* set up: exactly the octets derived for its label from its own master     *)
(* key, nothing left over in tmp_key from the key derived before it, and    *)
(* the salt of the header extension cipher of AES-GCM padded with zeros     *)
(* (RFC 7714 section 8.3).  A stream that is added has all of them.         *)
SessionKeysExact ==
  policy.master_keys # <<>> =>
    /\ result = "ok" => Len(session) = Len(policy.master_keys)
    /\ \A m \in 1..Len(session) : \A slot \in Slots :
         \/ session[m][slot] = KeyFor(slot, m)
         \/ session[m][slot] = <<>> /\ result # "ok"

(* Whatever call failed, srtp_stream_add() returns with no octet of a key   *)
(* in its buffer, and when it succeeds with every key derivation function   *)
(* released.                                                                *)
NothingLeftBehind ==
  result \notin {"none", "running"} =>
    /\ tmp_key = ZeroKey
    /\ result = "ok" => kdfs = {}

=============================================================================
