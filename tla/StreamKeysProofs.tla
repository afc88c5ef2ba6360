-------------------------- MODULE StreamKeysProofs ---------------------------
(***************************************************************************)
(* The properties of StreamKeys for every policy the setters can build, any *)
(* number of master keys and any number of failures.                        *)
(***************************************************************************)
EXTENDS StreamKeys, SequenceTheorems, TLAPS

----------------------------------------------------------------------------
(* The policies that the setters can build *)

PolicyFields ==
  {"profile", "ssrc", "rtp", "rtcp", "master_keys", "use_mki", "mki_size",
   "window_size", "allow_repeat_tx", "enc_xtn_hdr", "use_cryptex", "rcc_mode",
   "roc_tx_rate"}
CryptoFields ==
  {"cipher_type", "cipher_key_len", "auth_type", "auth_key_len",
   "auth_tag_len", "sec_serv"}

Shaped(c, cipher, key_len, auth, auth_key_len) ==
  /\ c.cipher_type = cipher /\ c.cipher_key_len = key_len
  /\ c.auth_type = auth /\ c.auth_key_len = auth_key_len

(* The crypto policies that need a key, and the one that needs none *)
KeyedShape(c) ==
  \/ Shaped(c, "null_cipher", 30, "hmac", 20)
  \/ Shaped(c, "aes_icm_128", 30, "hmac", 20)
  \/ Shaped(c, "aes_icm_192", 38, "hmac", 20)
  \/ Shaped(c, "aes_icm_256", 46, "hmac", 20)
  \/ Shaped(c, "aes_gcm_128", 28, "null_auth", 0)
  \/ Shaped(c, "aes_gcm_256", 44, "null_auth", 0)
NoShape(c) == Shaped(c, "null_cipher", 0, "null_auth", 0)

Alike(c, d) ==
  Shaped(d, c.cipher_type, c.cipher_key_len, c.auth_type, c.auth_key_len)

CryptoPair(c, d) ==
  /\ DOMAIN c = CryptoFields /\ DOMAIN d = CryptoFields
  /\ KeyedShape(c) \/ NoShape(c)
  /\ Alike(c, d)

MasterKeys == {[key_len |-> l[1], salt_len |-> l[2], mki_id_len |-> n] :
                 l \in KeyLens, n \in MkiLens}

PolicyInv(p) ==
  /\ DOMAIN p = PolicyFields
  /\ CryptoPair(p.rtp, p.rtcp)
  /\ p.master_keys \in Seq(MasterKeys)

LEMMA CreatePolicy == PolicyInv(PolicyCreate)
  <1>1. /\ DOMAIN PolicyCreate = PolicyFields
        /\ PolicyCreate.rtp = ZeroCrypto /\ PolicyCreate.rtcp = ZeroCrypto
        /\ PolicyCreate.master_keys = <<>>
    BY DEF PolicyCreate, PolicyFields
  <1>2. /\ DOMAIN ZeroCrypto = CryptoFields /\ NoShape(ZeroCrypto)
        /\ Alike(ZeroCrypto, ZeroCrypto)
    BY DEF ZeroCrypto, Crypto, CryptoFields, NoShape, Shaped, Alike
  <1> QED BY <1>1, <1>2 DEF PolicyInv, CryptoPair

(* A profile's two crypto policies differ in their tag lengths at most. *)
LEMMA ProfilePair ==
    ASSUME NEW f \in Profiles
    PROVE  CryptoPair(FromProfileForRtp(f), FromProfileForRtcp(f))
  <1>1. CASE f = "null_null"
    <2>1. /\ FromProfileForRtp(f) = NullCipherHmacNull
          /\ FromProfileForRtcp(f) = NullCipherHmacNull
      BY <1>1 DEF FromProfileForRtp, FromProfileForRtcp
    <2> QED BY <2>1 DEF NullCipherHmacNull, Crypto,
                        CryptoPair, CryptoFields, NoShape, Shaped, Alike
  <1>2. CASE f = "aes128_cm_sha1_80"
    <2>1. /\ FromProfileForRtp(f) = RtpDefault
          /\ FromProfileForRtcp(f) = RtpDefault
      BY <1>2 DEF FromProfileForRtp, FromProfileForRtcp
    <2> QED BY <2>1 DEF RtpDefault, Crypto,
                        CryptoPair, CryptoFields, KeyedShape, Shaped, Alike
  <1>3. CASE f = "aes128_cm_sha1_32"
    <2>1. /\ FromProfileForRtp(f) = AesCm128HmacSha1_32
          /\ FromProfileForRtcp(f) = RtpDefault
      BY <1>3 DEF FromProfileForRtp, FromProfileForRtcp
    <2> QED BY <2>1 DEF AesCm128HmacSha1_32, RtpDefault, Crypto,
                        CryptoPair, CryptoFields, KeyedShape, Shaped, Alike
  <1>4. CASE f = "aes192_cm_sha1_80"
    <2>1. /\ FromProfileForRtp(f) = AesCm192HmacSha1_80
          /\ FromProfileForRtcp(f) = AesCm192HmacSha1_80
      BY <1>4 DEF FromProfileForRtp, FromProfileForRtcp
    <2> QED BY <2>1 DEF AesCm192HmacSha1_80, Crypto,
                        CryptoPair, CryptoFields, KeyedShape, Shaped, Alike
  <1>5. CASE f = "aes192_cm_sha1_32"
    <2>1. /\ FromProfileForRtp(f) = AesCm192HmacSha1_32
          /\ FromProfileForRtcp(f) = AesCm192HmacSha1_80
      BY <1>5 DEF FromProfileForRtp, FromProfileForRtcp
    <2> QED BY <2>1 DEF AesCm192HmacSha1_32, AesCm192HmacSha1_80, Crypto,
                        CryptoPair, CryptoFields, KeyedShape, Shaped, Alike
  <1>6. CASE f = "aes256_cm_sha1_80"
    <2>1. /\ FromProfileForRtp(f) = AesCm256HmacSha1_80
          /\ FromProfileForRtcp(f) = AesCm256HmacSha1_80
      BY <1>6 DEF FromProfileForRtp, FromProfileForRtcp
    <2> QED BY <2>1 DEF AesCm256HmacSha1_80, Crypto,
                        CryptoPair, CryptoFields, KeyedShape, Shaped, Alike
  <1>7. CASE f = "aes256_cm_sha1_32"
    <2>1. /\ FromProfileForRtp(f) = AesCm256HmacSha1_32
          /\ FromProfileForRtcp(f) = AesCm256HmacSha1_80
      BY <1>7 DEF FromProfileForRtp, FromProfileForRtcp
    <2> QED BY <2>1 DEF AesCm256HmacSha1_32, AesCm256HmacSha1_80, Crypto,
                        CryptoPair, CryptoFields, KeyedShape, Shaped, Alike
  <1>8. CASE f = "null_sha1_80"
    <2>1. /\ FromProfileForRtp(f) = NullCipherHmacSha1_80
          /\ FromProfileForRtcp(f) = NullCipherHmacSha1_80
      BY <1>8 DEF FromProfileForRtp, FromProfileForRtcp
    <2> QED BY <2>1 DEF NullCipherHmacSha1_80, Crypto,
                        CryptoPair, CryptoFields, KeyedShape, Shaped, Alike
  <1>9. CASE f = "null_sha1_32"
    <2>1. /\ FromProfileForRtp(f) = [NullCipherHmacSha1_80 EXCEPT !.auth_tag_len = 4]
          /\ FromProfileForRtcp(f) = NullCipherHmacSha1_80
      BY <1>9 DEF FromProfileForRtp, FromProfileForRtcp
    <2> QED BY <2>1 DEF NullCipherHmacSha1_80, Crypto,
                        CryptoPair, CryptoFields, KeyedShape, Shaped, Alike
  <1>10. CASE f = "aead_aes_128_gcm"
    <2>1. /\ FromProfileForRtp(f) = AesGcm128_16Auth
          /\ FromProfileForRtcp(f) = AesGcm128_16Auth
      BY <1>10 DEF FromProfileForRtp, FromProfileForRtcp
    <2> QED BY <2>1 DEF AesGcm128_16Auth, Crypto,
                        CryptoPair, CryptoFields, KeyedShape, Shaped, Alike
  <1>11. CASE f = "aead_aes_256_gcm"
    <2>1. /\ FromProfileForRtp(f) = AesGcm256_16Auth
          /\ FromProfileForRtcp(f) = AesGcm256_16Auth
      BY <1>11 DEF FromProfileForRtp, FromProfileForRtcp
    <2> QED BY <2>1 DEF AesGcm256_16Auth, Crypto,
                        CryptoPair, CryptoFields, KeyedShape, Shaped, Alike
  <1> QED BY <1>1, <1>2, <1>3, <1>4, <1>5, <1>6,
             <1>7, <1>8, <1>9, <1>10, <1>11 DEF Profiles

LEMMA SecServPair ==
    ASSUME NEW p, PolicyInv(p), NEW s,
           NEW q, q = [p EXCEPT !.rtp.sec_serv = s, !.rtcp.sec_serv = s]
    PROVE  PolicyInv(q)
  <1>1. /\ DOMAIN q = PolicyFields
        /\ q.rtp = [p.rtp EXCEPT !.sec_serv = s]
        /\ q.rtcp = [p.rtcp EXCEPT !.sec_serv = s]
        /\ q.master_keys = p.master_keys
    BY DEF PolicyInv, PolicyFields
  <1>2. ASSUME NEW c, DOMAIN c = CryptoFields,
               NEW d, d = [c EXCEPT !.sec_serv = s]
        PROVE  /\ DOMAIN d = CryptoFields
               /\ d.cipher_type = c.cipher_type /\ d.cipher_key_len = c.cipher_key_len
               /\ d.auth_type = c.auth_type /\ d.auth_key_len = c.auth_key_len
    BY <1>2 DEF CryptoFields
  <1> QED BY <1>1, <1>2 DEF PolicyInv, CryptoPair, Alike, KeyedShape, NoShape, Shaped

LEMMA SettersKeepPolicy ==
    ASSUME PolicyInv(policy), Setters
    PROVE  PolicyInv(policy')
  <1>0. ASSUME NEW test, NEW changed, Apply(If(test, policy, changed)),
               PolicyInv(changed)
        PROVE  PolicyInv(policy')
    BY <1>0, Zenon DEF Apply, If, Ok, Refused
  <1>1. ASSUME NEW changed, Apply(Ok(changed)), PolicyInv(changed)
        PROVE  PolicyInv(policy')
    BY <1>1, Zenon DEF Apply, Ok
  <1>2. ASSUME NEW s \in Ssrcs, Apply(SetSsrc(policy, s))
        PROVE  PolicyInv(policy')
    <2>1. PolicyInv([policy EXCEPT !.ssrc = s])
      BY DEF PolicyInv, PolicyFields
    <2> QED BY <1>0, <1>2, <2>1, Zenon DEF SetSsrc
  <1>3. ASSUME NEW f \in Profiles \cup {"reserved"}, Apply(SetProfile(policy, f))
        PROVE  PolicyInv(policy')
    <2>1. CASE Supported(f)
      <3> DEFINE q == [policy EXCEPT !.rtp = FromProfileForRtp(f),
                                     !.rtcp = FromProfileForRtcp(f),
                                     !.profile = f]
      <3>1. CryptoPair(FromProfileForRtp(f), FromProfileForRtcp(f))
        BY <2>1, ProfilePair DEF Supported
      <3>2. PolicyInv(q)
        BY <3>1 DEF PolicyInv, PolicyFields
      <3>3. Apply(Ok(q))
        BY <1>3, <2>1, Zenon DEF SetProfile
      <3> HIDE DEF q
      <3> QED BY <1>1, <3>2, <3>3, Zenon
    <2>2. CASE ~Supported(f)
      BY <1>3, <2>2, Zenon DEF SetProfile, Apply, Refused
    <2> QED BY <2>1, <2>2
  <1>4. ASSUME NEW s \in Services, Apply(SetSecServ(policy, s, s))
        PROVE  PolicyInv(policy')
    <2> DEFINE q == [policy EXCEPT !.rtp.sec_serv = s, !.rtcp.sec_serv = s]
    <2>1. Apply(If(policy.profile # "reserved", policy, q))
      BY <1>4 DEF SetSecServ
    <2>2. PolicyInv(q)
      BY SecServPair, Zenon
    <2> HIDE DEF q
    <2> QED BY <1>0, <2>1, <2>2, Zenon
  <1>5. ASSUME NEW n \in MkiLens, Apply(UseMki(policy, n))
        PROVE  PolicyInv(policy')
    <2>1. PolicyInv([policy EXCEPT !.use_mki = n # 0, !.mki_size = n])
      BY DEF PolicyInv, PolicyFields
    <2> QED BY <1>0, <1>5, <2>1, Zenon DEF UseMki
  <1>6. ASSUME NEW r \in Rccs, Apply(SetRccModeTxRate(policy, r[1], r[2]))
        PROVE  PolicyInv(policy')
    <2>1. PolicyInv([policy EXCEPT !.rcc_mode = r[1], !.roc_tx_rate = r[2]])
      BY DEF PolicyInv, PolicyFields
    <2> QED BY <1>0, <1>6, <2>1, Zenon DEF SetRccModeTxRate
  <1>7. ASSUME NEW l \in KeyLens, NEW n \in MkiLens,
               Apply(AddKey(policy, l[1], l[2], n))
        PROVE  PolicyInv(policy')
    <2> DEFINE k == [key_len |-> l[1], salt_len |-> l[2], mki_id_len |-> n]
    <2>1. k \in MasterKeys
      BY DEF MasterKeys
    <2> HIDE DEF k
    <2>2. PolicyInv([policy EXCEPT !.master_keys = Append(@, k)])
      BY <2>1 DEF PolicyInv, PolicyFields
    <2> QED BY <1>0, <1>7, <2>2, Zenon DEF AddKey, k
  <1>8. ASSUME Apply(RemoveKeys(policy))
        PROVE  PolicyInv(policy')
    <2>1. PolicyInv([policy EXCEPT !.master_keys = <<>>])
      BY DEF PolicyInv, PolicyFields
    <2> QED BY <1>1, <1>8, <2>1, Zenon DEF RemoveKeys
  <1>9. ASSUME NEW n \in Windows, Apply(SetWindowSize(policy, n))
        PROVE  PolicyInv(policy')
    <2>1. PolicyInv([policy EXCEPT !.window_size = n])
      BY DEF PolicyInv, PolicyFields
    <2> QED BY <1>0, <1>9, <2>1, Zenon DEF SetWindowSize
  <1>10. ASSUME NEW b \in BOOLEAN, Apply(SetAllowRepeatTx(policy, b))
         PROVE  PolicyInv(policy')
    <2>1. PolicyInv([policy EXCEPT !.allow_repeat_tx = b])
      BY DEF PolicyInv, PolicyFields
    <2> QED BY <1>1, <1>10, <2>1, Zenon DEF SetAllowRepeatTx
  <1>11. ASSUME NEW b \in BOOLEAN, Apply(SetCryptex(policy, b))
         PROVE  PolicyInv(policy')
    <2>1. PolicyInv([policy EXCEPT !.use_cryptex = b])
      BY DEF PolicyInv, PolicyFields
    <2> QED BY <1>1, <1>11, <2>1, Zenon DEF SetCryptex
  <1>12. ASSUME NEW i \in EncIds, Apply(AddEncHdrXtndId(policy, i))
         PROVE  PolicyInv(policy')
    <2>1. PolicyInv([policy EXCEPT !.enc_xtn_hdr = Append(@, i)])
      BY DEF PolicyInv, PolicyFields
    <2> QED BY <1>0, <1>12, <2>1, Zenon DEF AddEncHdrXtndId
  <1>13. ASSUME Apply(RemoveEncHdrXtndIds(policy))
         PROVE  PolicyInv(policy')
    <2>1. PolicyInv([policy EXCEPT !.enc_xtn_hdr = <<>>])
      BY DEF PolicyInv, PolicyFields
    <2> QED BY <1>1, <1>13, <2>1, Zenon DEF RemoveEncHdrXtndIds
  <1> QED BY <1>2, <1>3, <1>4, <1>5, <1>6, <1>7, <1>8, <1>9, <1>10, <1>11,
             <1>12, <1>13, Zenon DEF Setters

----------------------------------------------------------------------------
(* A run of calls as a relation between what they find and what they leave:  *)
(* the buffer, the functions in use and the contexts that are set up.  A     *)
(* context may only be set up with the octets that want has for it.          *)

Labels == {"rtp_encryption", "rtp_salt", "rtp_header_encryption",
           "rtp_header_salt", "rtp_msg_auth", "rtcp_encryption", "rtcp_salt",
           "rtcp_msg_auth"}

Jobs ==
  [op : {"kdf_init", "kdf_clear"}, kdf : {"main", "header"}]
    \cup [op : {"generate"}, kdf : {"main", "header"}, label : Labels,
          off : Int, len : Int]
    \cup [op : {"set_up"}, slot : Slots, len : Int]
    \cup [op : {"keep"}, slot : Slots, off : Int]

State(buf, in_use, done) == [buf |-> buf, kdfs |-> in_use, done |-> done]

Filled(buf, label, m, off, len) ==
  [o \in 0..BufferLen - 1 |-> IF o \in off .. off + len - 1
                              THEN <<label, m, o - off>> ELSE buf[o]]

Reads(buf, len, octets) == octets = [o \in 1..len |-> buf[o - 1]]
ReadsSalt(buf, off, octets) == octets = [o \in 1..12 |-> buf[off + o - 1]]

Goes(j, want, m, x, y) ==
  \/ /\ j.op = "kdf_init"
     /\ y = State(x.buf, x.kdfs \cup {j.kdf}, x.done)
  \/ /\ j.op = "generate" /\ j.kdf \in x.kdfs
     /\ y = State(Filled(x.buf, j.label, m, j.off, j.len), x.kdfs, x.done)
  \/ /\ j.op = "set_up"
     /\ Reads(x.buf, j.len, want[j.slot])
     /\ y = State(x.buf, x.kdfs, x.done \cup {j.slot})
  \/ /\ j.op = "keep"
     /\ ReadsSalt(x.buf, j.off, want[j.slot])
     /\ y = State(x.buf, x.kdfs, x.done \cup {j.slot})
  \/ /\ j.op = "kdf_clear"
     /\ y = State(x.buf, x.kdfs \ {j.kdf}, x.done)

(* T[i] is what the first i calls leave. *)
Trace(T, s, want, m) ==
  \A i \in 1..Len(s) : Goes(s[i], want, m, T[i - 1], T[i])

Runs(s, want, m, x, y) ==
  /\ s \in Seq(Jobs)
  /\ \E T : T[0] = x /\ T[Len(s)] = y /\ Trace(T, s, want, m)

LEMMA RunsNothing ==
    ASSUME NEW want, NEW m, NEW x
    PROVE  /\ Runs(<<>>, want, m, x, x)
           /\ \A y : Runs(<<>>, want, m, x, y) => y = x
  <1>1. Runs(<<>>, want, m, x, x)
    <2> DEFINE T == [i \in 0..0 |-> x]
    <2>1. T[0] = x /\ T[Len(<<>>)] = x /\ Trace(T, <<>>, want, m)
      BY DEF Trace
    <2> HIDE DEF T
    <2> QED BY <2>1 DEF Runs
  <1>2. ASSUME NEW y, Runs(<<>>, want, m, x, y)
        PROVE  y = x
    BY <1>2 DEF Runs
  <1> QED BY <1>1, <1>2

LEMMA RunsOne ==
    ASSUME NEW j \in Jobs, NEW want, NEW m, NEW x, NEW y, Goes(j, want, m, x, y)
    PROVE  Runs(<<j>>, want, m, x, y)
  <1> DEFINE T == [i \in 0..1 |-> IF i = 0 THEN x ELSE y]
  <1>1. /\ T[0] = x /\ T[1] = y
        /\ Len(<<j>>) = 1 /\ <<j>>[1] = j /\ <<j>> \in Seq(Jobs)
    OBVIOUS
  <1> HIDE DEF T
  <1>2. Trace(T, <<j>>, want, m)
    <2> SUFFICES ASSUME NEW i \in 1..1
                 PROVE  Goes(<<j>>[i], want, m, T[i - 1], T[i])
      BY <1>1 DEF Trace
    <2>1. i = 1 /\ i - 1 = 0
      OBVIOUS
    <2> QED BY <1>1, <2>1, Zenon
  <1> QED BY <1>1, <1>2, Zenon DEF Runs

LEMMA RunsBoth ==
    ASSUME NEW s, NEW u, NEW want, NEW m, NEW x, NEW y, NEW z,
           Runs(s, want, m, x, y), Runs(u, want, m, y, z)
    PROVE  Runs(s \o u, want, m, x, z)
  <1>1. /\ s \in Seq(Jobs) /\ u \in Seq(Jobs) /\ Len(s) \in Nat /\ Len(u) \in Nat
        /\ s \o u \in Seq(Jobs) /\ Len(s \o u) = Len(s) + Len(u)
        /\ \A i \in 1..Len(s) + Len(u) :
             (s \o u)[i] = IF i <= Len(s) THEN s[i] ELSE u[i - Len(s)]
    BY DEF Runs
  <1> DEFINE n == Len(s)
             l == Len(u)
  <1>0. n \in Nat /\ l \in Nat
    BY <1>1
  <1>2. PICK S : S[0] = x /\ S[n] = y /\ Trace(S, s, want, m)
    BY Zenon DEF Runs
  <1>3. PICK U : U[0] = y /\ U[Len(u)] = z /\ Trace(U, u, want, m)
    BY Zenon DEF Runs
  <1> DEFINE T == [i \in 0..n + l |-> IF i <= n THEN S[i] ELSE U[i - n]]
  <1> HIDE DEF n, l
  <1>a. \A i \in 0..n : T[i] = S[i]
    BY <1>0
  <1>b. ASSUME NEW i \in 0..l
        PROVE  T[n + i] = U[i]
    <2>1. CASE i = 0
      BY <1>0, <1>2, <1>3, <2>1 DEF l, n
    <2>2. CASE i # 0
      BY <1>0, <2>2
    <2> QED BY <2>1, <2>2
  <1> HIDE DEF T
  <1>4. /\ \A i \in 0..n : T[i] = S[i]
        /\ \A i \in 0..Len(u) : T[n + i] = U[i]
    BY <1>a, <1>b DEF l
  <1> USE DEF n
  <1>5. T[0] = x /\ T[n + Len(u)] = z
    BY <1>1, <1>2, <1>3, <1>4
  <1>6. ASSUME NEW i \in 1..n + Len(u)
        PROVE  Goes((s \o u)[i], want, m, T[i - 1], T[i])
    <2>1. CASE i <= n
      <3>1. /\ i \in 1..Len(s) /\ i \in 0..n /\ i - 1 \in 0..n
            /\ (s \o u)[i] = s[i]
        BY <1>1, <2>1
      <3>2. Goes(s[i], want, m, S[i - 1], S[i])
        BY <1>2, <3>1, Zenon DEF Trace
      <3> QED BY <1>4, <3>1, <3>2, Zenon
    <2>2. CASE ~(i <= n)
      <3> DEFINE k == i - n
      <3>0. (s \o u)[i] = u[k]
        BY <1>1, <2>2, Zenon
      <3>1. /\ k \in 1..Len(u) /\ k \in 0..Len(u) /\ k - 1 \in 0..Len(u)
            /\ i = n + k /\ i - 1 = n + (k - 1)
        <4> HIDE DEF n
        <4> QED BY <1>0, <2>2 DEF l
      <3> HIDE DEF k
      <3>2. Goes(u[k], want, m, U[k - 1], U[k])
        BY <1>3, <3>1, Zenon DEF Trace
      <3>3. T[i - 1] = U[k - 1] /\ T[i] = U[k]
        BY <1>4, <3>1
      <3> QED BY <3>0, <3>2, <3>3, Zenon
    <2> QED BY <2>1, <2>2
  <1>7. Trace(T, s \o u, want, m)
    BY <1>1, <1>6, Zenon DEF Trace
  <1> QED BY <1>1, <1>5, <1>7, Zenon DEF Runs

LEMMA RunsTail ==
    ASSUME NEW s, s # <<>>, NEW want, NEW m, NEW x, NEW z, Runs(s, want, m, x, z)
    PROVE  /\ Head(s) \in Jobs
           /\ \E y : Goes(Head(s), want, m, x, y) /\ Runs(Tail(s), want, m, y, z)
  <1>1. /\ s \in Seq(Jobs) /\ Len(s) \in Nat \ {0} /\ Head(s) = s[1] /\ Head(s) \in Jobs
        /\ Tail(s) \in Seq(Jobs) /\ Len(Tail(s)) = Len(s) - 1
        /\ \A i \in 1..Len(s) - 1 : Tail(s)[i] = s[i + 1]
    BY DEF Runs
  <1>2. PICK T : T[0] = x /\ T[Len(s)] = z /\ Trace(T, s, want, m)
    BY Zenon DEF Runs
  <1> DEFINE U == [i \in 0..Len(s) - 1 |-> T[i + 1]]
  <1>3. /\ U[0] = T[1] /\ U[Len(s) - 1] = z
        /\ \A i \in 1..Len(s) - 1 : U[i - 1] = T[i] /\ U[i] = T[i + 1]
    BY <1>1, <1>2
  <1> HIDE DEF U
  <1>4. Goes(Head(s), want, m, x, T[1])
    <2>1. 1 \in 1..Len(s) /\ 1 - 1 = 0
      BY <1>1
    <2>2. Goes(s[1], want, m, T[1 - 1], T[1])
      BY <1>2, <2>1, Zenon DEF Trace
    <2> QED BY <1>1, <1>2, <2>1, <2>2, Zenon
  <1>5. ASSUME NEW i \in 1..Len(s) - 1
        PROVE  Goes(Tail(s)[i], want, m, U[i - 1], U[i])
    <2>1. i + 1 \in 1..Len(s) /\ (i + 1) - 1 = i
      BY <1>1
    <2>2. Goes(s[i + 1], want, m, T[(i + 1) - 1], T[i + 1])
      BY <1>2, <2>1, Zenon DEF Trace
    <2> QED BY <1>1, <1>3, <2>1, <2>2, Zenon
  <1>6. Runs(Tail(s), want, m, T[1], z)
    BY <1>1, <1>3, <1>5, Zenon DEF Runs, Trace
  <1> QED BY <1>1, <1>4, <1>6, Zenon

----------------------------------------------------------------------------
(* The key lengths of a policy that needs a key *)

RtpLen  == policy.rtp.cipher_key_len
RtpBase == BaseKeyLength(policy.rtp.cipher_type, RtpLen)

Lengths ==
  /\ policy.rtcp.cipher_type = policy.rtp.cipher_type
  /\ policy.rtcp.cipher_key_len = RtpLen
  /\ policy.rtcp.auth_key_len = policy.rtp.auth_key_len
  /\ policy.rtp.auth_key_len \in {0, 20}
  /\ RtpLen \in 28..46 /\ RtpBase \in 0..32 /\ RtpBase + 12 <= RtpLen
  /\ InputKeyLen(policy) = RtpLen
  /\ KdfKeyLen(policy) \in {30, 38, 46}

HeaderLengths ==
  LET c == HeaderCipher(policy) IN
  /\ BaseKeyLength(c.type, c.len) = RtpBase
  /\ IF IsGcm(policy.rtp)
     THEN /\ c.type # policy.rtp.cipher_type
          /\ c.len = RtpLen + 2 /\ RtpLen = RtpBase + 12 /\ RtpLen <= 44
     ELSE c.type = policy.rtp.cipher_type /\ c.len = RtpLen

LEMMA MaximumIs ==
    ASSUME NEW S, S \subseteq Int, NEW n \in S, \A k \in S : k <= n
    PROVE  Maximum(S) = n
  <1>1. /\ Maximum(S) \in S
        /\ \A k \in S : k <= Maximum(S)
    BY Zenon DEF Maximum
  <1>2. Maximum(S) \in Int /\ n <= Maximum(S) /\ Maximum(S) <= n
    BY <1>1, Zenon
  <1> HIDE DEF Maximum
  <1> QED BY <1>2

LEMMA KeyLengths ==
    ASSUME PolicyInv(policy), KeyedShape(policy.rtp)
    PROVE  Lengths /\ HeaderLengths
  <1> DEFINE c == policy.rtp
             d == policy.rtcp
             L(ct, kl, at, al) == Shaped(c, ct, kl, at, al) /\ Shaped(d, ct, kl, at, al)
  <1>0. ASSUME NEW ct, NEW kl, NEW at, NEW al, Shaped(c, ct, kl, at, al)
        PROVE  L(ct, kl, at, al)
    BY <1>0, Zenon DEF PolicyInv, CryptoPair, Alike, Shaped
  <1>1. ASSUME NEW full, NEW af, NEW ct, NEW kl, NEW at, NEW al, L(ct, kl, at, al),
               FullKeyLength(ct) = full, FullAuthKeyLength(at) = af,
               kl \in Int, full \in Int, af \in Int,
               full <= kl, af <= kl, full = kl \/ af = kl
        PROVE  /\ InputKeyLen(policy) = kl
               /\ KdfKeyLen(policy) = LET n == IF kl < 30 THEN 30 ELSE kl IN
                                      IF n \in {28, 44} THEN n + 2 ELSE n
    <2>1. InputKeyLen(policy) = Maximum({full, af, full, af})
      BY <1>1, Zenon DEF InputKeyLen, Shaped
    <2>2. Maximum({full, af, full, af}) = kl
      BY <1>1, MaximumIs
    <2>3. InputKeyLen(policy) = kl
      BY <2>1, <2>2
    <2> DEFINE n == IF kl < 30 THEN 30 ELSE kl
    <2>4. Maximum({30, kl, kl, kl}) = n
      BY <1>1, MaximumIs
    <2>5. Maximum({30, c.cipher_key_len, d.cipher_key_len, InputKeyLen(policy)}) = n
      BY <1>1, <2>3, <2>4, Zenon DEF Shaped
    <2> HIDE DEF n
    <2>6. KdfKeyLen(policy) = IF n \in {28, 44} THEN n + 2 ELSE n
      BY <2>5, Zenon DEF KdfKeyLen
    <2> QED BY <2>3, <2>6 DEF n
  <1>2. CASE Shaped(c, "null_cipher", 30, "hmac", 20)
    <2>1. L("null_cipher", 30, "hmac", 20)
      BY <1>0, <1>2, Zenon
    <2>2. /\ FullKeyLength("null_cipher") = 0 /\ FullAuthKeyLength("hmac") = 30
          /\ BaseKeyLength("null_cipher", 30) = 0
          /\ BaseKeyLength("null_cipher", 30) = 0
      BY DEF FullKeyLength, FullAuthKeyLength, BaseKeyLength
    <2>3. InputKeyLen(policy) = 30 /\ KdfKeyLen(policy) \in {30, 38, 46}
      BY <1>1, <2>1, <2>2
    <2>4. RtpLen = 30 /\ RtpBase = 0
      BY <2>1, <2>2 DEF RtpLen, RtpBase, Shaped
    <2>5. HeaderCipher(policy) = [type |-> "null_cipher", len |-> 30]
      BY <2>1 DEF HeaderCipher, Shaped
    <2>6. Lengths
      BY <2>1, <2>3, <2>4 DEF Lengths, Shaped
    <2> QED BY <2>1, <2>2, <2>4, <2>5, <2>6 DEF HeaderLengths, IsGcm, Shaped
  <1>3. CASE Shaped(c, "aes_icm_128", 30, "hmac", 20)
    <2>1. L("aes_icm_128", 30, "hmac", 20)
      BY <1>0, <1>3, Zenon
    <2>2. /\ FullKeyLength("aes_icm_128") = 30 /\ FullAuthKeyLength("hmac") = 30
          /\ BaseKeyLength("aes_icm_128", 30) = 16
          /\ BaseKeyLength("aes_icm_128", 30) = 16
      BY DEF FullKeyLength, FullAuthKeyLength, BaseKeyLength
    <2>3. InputKeyLen(policy) = 30 /\ KdfKeyLen(policy) \in {30, 38, 46}
      BY <1>1, <2>1, <2>2
    <2>4. RtpLen = 30 /\ RtpBase = 16
      BY <2>1, <2>2 DEF RtpLen, RtpBase, Shaped
    <2>5. HeaderCipher(policy) = [type |-> "aes_icm_128", len |-> 30]
      BY <2>1 DEF HeaderCipher, Shaped
    <2>6. Lengths
      BY <2>1, <2>3, <2>4 DEF Lengths, Shaped
    <2> QED BY <2>1, <2>2, <2>4, <2>5, <2>6 DEF HeaderLengths, IsGcm, Shaped
  <1>4. CASE Shaped(c, "aes_icm_192", 38, "hmac", 20)
    <2>1. L("aes_icm_192", 38, "hmac", 20)
      BY <1>0, <1>4, Zenon
    <2>2. /\ FullKeyLength("aes_icm_192") = 38 /\ FullAuthKeyLength("hmac") = 30
          /\ BaseKeyLength("aes_icm_192", 38) = 24
          /\ BaseKeyLength("aes_icm_192", 38) = 24
      BY DEF FullKeyLength, FullAuthKeyLength, BaseKeyLength
    <2>3. InputKeyLen(policy) = 38 /\ KdfKeyLen(policy) \in {30, 38, 46}
      BY <1>1, <2>1, <2>2
    <2>4. RtpLen = 38 /\ RtpBase = 24
      BY <2>1, <2>2 DEF RtpLen, RtpBase, Shaped
    <2>5. HeaderCipher(policy) = [type |-> "aes_icm_192", len |-> 38]
      BY <2>1 DEF HeaderCipher, Shaped
    <2>6. Lengths
      BY <2>1, <2>3, <2>4 DEF Lengths, Shaped
    <2> QED BY <2>1, <2>2, <2>4, <2>5, <2>6 DEF HeaderLengths, IsGcm, Shaped
  <1>5. CASE Shaped(c, "aes_icm_256", 46, "hmac", 20)
    <2>1. L("aes_icm_256", 46, "hmac", 20)
      BY <1>0, <1>5, Zenon
    <2>2. /\ FullKeyLength("aes_icm_256") = 46 /\ FullAuthKeyLength("hmac") = 30
          /\ BaseKeyLength("aes_icm_256", 46) = 32
          /\ BaseKeyLength("aes_icm_256", 46) = 32
      BY DEF FullKeyLength, FullAuthKeyLength, BaseKeyLength
    <2>3. InputKeyLen(policy) = 46 /\ KdfKeyLen(policy) \in {30, 38, 46}
      BY <1>1, <2>1, <2>2
    <2>4. RtpLen = 46 /\ RtpBase = 32
      BY <2>1, <2>2 DEF RtpLen, RtpBase, Shaped
    <2>5. HeaderCipher(policy) = [type |-> "aes_icm_256", len |-> 46]
      BY <2>1 DEF HeaderCipher, Shaped
    <2>6. Lengths
      BY <2>1, <2>3, <2>4 DEF Lengths, Shaped
    <2> QED BY <2>1, <2>2, <2>4, <2>5, <2>6 DEF HeaderLengths, IsGcm, Shaped
  <1>6. CASE Shaped(c, "aes_gcm_128", 28, "null_auth", 0)
    <2>1. L("aes_gcm_128", 28, "null_auth", 0)
      BY <1>0, <1>6, Zenon
    <2>2. /\ FullKeyLength("aes_gcm_128") = 28 /\ FullAuthKeyLength("null_auth") = 0
          /\ BaseKeyLength("aes_gcm_128", 28) = 16
          /\ BaseKeyLength("aes_icm_128", 30) = 16
      BY DEF FullKeyLength, FullAuthKeyLength, BaseKeyLength
    <2>3. InputKeyLen(policy) = 28 /\ KdfKeyLen(policy) \in {30, 38, 46}
      BY <1>1, <2>1, <2>2
    <2>4. RtpLen = 28 /\ RtpBase = 16
      BY <2>1, <2>2 DEF RtpLen, RtpBase, Shaped
    <2>5. HeaderCipher(policy) = [type |-> "aes_icm_128", len |-> 30]
      BY <2>1 DEF HeaderCipher, Shaped
    <2>6. Lengths
      BY <2>1, <2>3, <2>4 DEF Lengths, Shaped
    <2> QED BY <2>1, <2>2, <2>4, <2>5, <2>6 DEF HeaderLengths, IsGcm, Shaped
  <1>7. CASE Shaped(c, "aes_gcm_256", 44, "null_auth", 0)
    <2>1. L("aes_gcm_256", 44, "null_auth", 0)
      BY <1>0, <1>7, Zenon
    <2>2. /\ FullKeyLength("aes_gcm_256") = 44 /\ FullAuthKeyLength("null_auth") = 0
          /\ BaseKeyLength("aes_gcm_256", 44) = 32
          /\ BaseKeyLength("aes_icm_256", 46) = 32
      BY DEF FullKeyLength, FullAuthKeyLength, BaseKeyLength
    <2>3. InputKeyLen(policy) = 44 /\ KdfKeyLen(policy) \in {30, 38, 46}
      BY <1>1, <2>1, <2>2
    <2>4. RtpLen = 44 /\ RtpBase = 32
      BY <2>1, <2>2 DEF RtpLen, RtpBase, Shaped
    <2>5. HeaderCipher(policy) = [type |-> "aes_icm_256", len |-> 46]
      BY <2>1 DEF HeaderCipher, Shaped
    <2>6. Lengths
      BY <2>1, <2>3, <2>4 DEF Lengths, Shaped
    <2> QED BY <2>1, <2>2, <2>4, <2>5, <2>6 DEF HeaderLengths, IsGcm, Shaped
  <1> QED BY <1>2, <1>3, <1>4, <1>5, <1>6, <1>7 DEF KeyedShape

----------------------------------------------------------------------------
(* What the contexts read from the buffer *)

Octets == (Labels \X Int \X Int) \cup {Zero}

LEMMA DerivedSeq ==
    ASSUME NEW label \in Labels, NEW m \in Int, NEW n \in Nat
    PROVE  /\ Derived(label, m, 0, n) \in Seq(Octets)
           /\ Len(Derived(label, m, 0, n)) = n
           /\ \A i \in 1..n : Derived(label, m, 0, n)[i] = <<label, m, i - 1>>
  <1> DEFINE D == [i \in 1..n |-> <<label, m, i - 1>>]
  <1>1. Derived(label, m, 0, n) = D
    BY DEF Derived
  <1>2. ASSUME NEW i \in 1..n
        PROVE  <<label, m, i - 1>> \in Octets
    <2>1. i - 1 \in Int
      OBVIOUS
    <2> QED BY <2>1 DEF Octets
  <1>3. \A i \in 1..n : D[i] = <<label, m, i - 1>>
    BY Zenon
  <1>4. D \in [1..n -> Octets]
    BY <1>2, Zenon
  <1> HIDE DEF D
  <1>5. D \in Seq(Octets) /\ Len(D) = n
    BY <1>4
  <1> QED BY <1>1, <1>3, <1>5, Zenon

(* The buffer once a key and a salt were derived. *)
CipherBuf(b, enc, salt, m, base, n) ==
  Filled(Filled(b, enc, m, 0, base), salt, m, base, n)

HoldsBoth(B, b, enc, salt, m, base, n) ==
  \A o \in 0..BufferLen - 1 :
    /\ o < base => B[o] = <<enc, m, o>>
    /\ o >= base /\ o < base + n => B[o] = <<salt, m, o - base>>
    /\ o >= base + n => B[o] = b[o]

LEMMA CipherBufIs ==
    ASSUME NEW b, NEW enc, NEW salt, NEW m, NEW base \in Nat, NEW n \in Nat
    PROVE  HoldsBoth(CipherBuf(b, enc, salt, m, base, n), b, enc, salt, m, base, n)
  <1> DEFINE C == Filled(b, enc, m, 0, base)
             B == CipherBuf(b, enc, salt, m, base, n)
  <1>0. ASSUME NEW o \in 0..BufferLen - 1
        PROVE  /\ o < base => B[o] = <<enc, m, o>>
               /\ o >= base /\ o < base + n => B[o] = <<salt, m, o - base>>
               /\ o >= base + n => B[o] = b[o]
    <2>1. C[o] = IF o \in 0..0 + base - 1 THEN <<enc, m, o - 0>> ELSE b[o]
      BY Zenon DEF Filled
    <2>2. B[o] = IF o \in base..base + n - 1 THEN <<salt, m, o - base>> ELSE C[o]
      BY Zenon DEF CipherBuf, Filled
    <2> HIDE DEF B, C
    <2>3. /\ o \in Nat
          /\ o < base <=> o \in 0..0 + base - 1
          /\ o >= base /\ o < base + n <=> o \in base..base + n - 1
          /\ o - 0 = o
      BY DEF BufferLen
    <2>4. o < base => B[o] = <<enc, m, o>>
      <3>1. o < base => ~(o \in base..base + n - 1)
        BY <2>3
      <3> QED BY <2>1, <2>2, <2>3, <3>1, Zenon
    <2>5. o >= base /\ o < base + n => B[o] = <<salt, m, o - base>>
      BY <2>2, <2>3, Zenon
    <2>6. o >= base + n => B[o] = b[o]
      <3>1. o >= base + n => ~(o < base) /\ ~(o < base + n)
        BY <2>3
      <3> QED BY <2>1, <2>2, <2>3, <3>1, Zenon
    <2> QED BY <2>4, <2>5, <2>6
  <1> QED BY <1>0, Zenon DEF HoldsBoth

LEMMA CipherOctets ==
    ASSUME NEW b, NEW enc \in Labels, NEW salt \in Labels, NEW m \in Int,
           NEW base \in Nat, NEW n \in Nat, base + n <= BufferLen
    PROVE  Reads(CipherBuf(b, enc, salt, m, base, n), base + n,
                 Derived(enc, m, 0, base) \o Derived(salt, m, 0, n))
  <1> DEFINE X == Derived(enc, m, 0, base)
             Y == Derived(salt, m, 0, n)
             B == CipherBuf(b, enc, salt, m, base, n)
             A == [o \in 1..base + n |-> B[o - 1]]
             Z == X \o Y
  <1>1. /\ X \in Seq(Octets) /\ Len(X) = base
        /\ \A i \in 1..base : X[i] = <<enc, m, i - 1>>
    BY DerivedSeq, Zenon
  <1>2. /\ Y \in Seq(Octets) /\ Len(Y) = n
        /\ \A i \in 1..n : Y[i] = <<salt, m, i - 1>>
    BY DerivedSeq, Zenon
  <1> HIDE DEF X, Y
  <1>3. /\ Z \in Seq(Octets) /\ Len(Z) = base + n
        /\ \A i \in 1..base + n : Z[i] = IF i <= base THEN X[i] ELSE Y[i - base]
    <2>1. /\ Z \in Seq(Octets) /\ Len(Z) = Len(X) + Len(Y)
          /\ \A i \in 1..Len(X) + Len(Y) :
               Z[i] = IF i <= Len(X) THEN X[i] ELSE Y[i - Len(X)]
      BY <1>1, <1>2, ConcatProperties, Zenon
    <2> HIDE DEF Z
    <2> QED BY <1>1, <1>2, <2>1, Zenon
  <1>b. HoldsBoth(B, b, enc, salt, m, base, n)
    BY CipherBufIs, Zenon
  <1> HIDE DEF Z, B
  <1>4. ASSUME NEW i \in 1..base + n
        PROVE  B[i - 1] = Z[i]
    <2> DEFINE o == i - 1
    <2>0. o \in 0..BufferLen - 1 /\ o < base + n /\ i = o + 1
      BY DEF BufferLen
    <2> HIDE DEF o
    <2>1. /\ o < base => B[o] = <<enc, m, o>>
          /\ o >= base /\ o < base + n => B[o] = <<salt, m, o - base>>
      BY <1>b, <2>0, Zenon DEF HoldsBoth
    <2>2. CASE i <= base
      <3>1. o < base /\ i \in 1..base /\ i - 1 = o
        BY <2>0, <2>2
      <3> QED BY <1>1, <1>3, <2>1, <2>2, <3>1, Zenon
    <2>3. CASE ~(i <= base)
      <3>1. i - base \in 1..n /\ (i - base) - 1 = o - base /\ o >= base /\ i - 1 = o
        BY <2>0, <2>3
      <3>2. Y[i - base] = <<salt, m, (i - base) - 1>>
        BY <1>2, <3>1, Zenon
      <3> QED BY <1>3, <2>0, <2>1, <2>3, <3>1, <3>2, Zenon
    <2> QED BY <2>2, <2>3
  <1>5. A \in Seq(Octets) /\ Len(A) = base + n /\ \A i \in 1..base + n : A[i] = Z[i]
    <2>1. \A i \in 1..base + n : Z[i] \in Octets
      BY <1>3, ElementOfSeq, Zenon
    <2>2. A \in [1..base + n -> Octets] /\ \A i \in 1..base + n : A[i] = Z[i]
      BY <1>4, <2>1, Zenon
    <2> HIDE DEF A
    <2> QED BY <2>2
  <1> HIDE DEF A
  <1>6. A = Z
    BY <1>3, <1>5, SeqEqual, Zenon
  <1> QED BY <1>6, Zenon DEF A, B, X, Y, Z, Reads

(* The same with the zeros that were behind the salt. *)
LEMMA PaddedOctets ==
    ASSUME NEW b, NEW enc \in Labels, NEW salt \in Labels, NEW m \in Int,
           NEW base \in Nat, NEW n \in Nat, NEW pad \in Nat,
           base + n + pad <= BufferLen,
           \A o \in base + n .. base + n + pad - 1 : b[o] = Zero
    PROVE  Reads(CipherBuf(b, enc, salt, m, base, n), base + n + pad,
                 Derived(enc, m, 0, base) \o Derived(salt, m, 0, n)
                   \o [i \in 1..pad |-> Zero])
  <1> DEFINE X == Derived(enc, m, 0, base)
             Y == Derived(salt, m, 0, n)
             P == [i \in 1..pad |-> Zero]
             B == CipherBuf(b, enc, salt, m, base, n)
             A == [o \in 1..base + n + pad |-> B[o - 1]]
             S == X \o Y
             Z == S \o P
             l == base + n
  <1>0. l \in Nat /\ l <= BufferLen /\ l + pad <= BufferLen
    BY DEF BufferLen
  <1>1. S \in Seq(Octets) /\ Len(S) = l
    <2>1. X \in Seq(Octets) /\ Len(X) = base
      BY DerivedSeq, Zenon
    <2>2. Y \in Seq(Octets) /\ Len(Y) = n
      BY DerivedSeq, Zenon
    <2> HIDE DEF X, Y
    <2> QED BY <2>1, <2>2, ConcatProperties, Zenon
  <1>2. S = [o \in 1..l |-> B[o - 1]]
    <2>1. Reads(B, l, S)
      BY <1>0, CipherOctets, Zenon
    <2> QED BY <2>1, Zenon DEF Reads
  <1>3. HoldsBoth(B, b, enc, salt, m, base, n)
    BY CipherBufIs, Zenon
  <1> HIDE DEF X, Y, S, B
  <1>4. P \in Seq(Octets) /\ Len(P) = pad /\ \A i \in 1..pad : P[i] = Zero
    <2>1. Zero \in Octets
      BY DEF Octets
    <2>2. P \in [1..pad -> Octets] /\ \A i \in 1..pad : P[i] = Zero
      BY <2>1, Zenon
    <2> HIDE DEF P
    <2> QED BY <2>2
  <1> HIDE DEF P
  <1>5. /\ Z \in Seq(Octets) /\ Len(Z) = l + pad
        /\ \A i \in 1..l + pad : Z[i] = IF i <= l THEN S[i] ELSE P[i - l]
    <2> HIDE DEF l
    <2>1. /\ Z \in Seq(Octets) /\ Len(Z) = Len(S) + Len(P)
          /\ \A i \in 1..Len(S) + Len(P) :
               Z[i] = IF i <= Len(S) THEN S[i] ELSE P[i - Len(S)]
      BY <1>1, <1>4, ConcatProperties, Zenon
    <2> HIDE DEF Z
    <2> QED BY <1>1, <1>4, <2>1, Zenon
  <1> HIDE DEF Z
  <1>6. ASSUME NEW i \in 1..l + pad
        PROVE  B[i - 1] = Z[i]
    <2>1. CASE i <= l
      <3>1. i \in 1..l
        BY <1>0, <2>1
      <3> QED BY <1>2, <1>5, <2>1, <3>1, Zenon
    <2>2. CASE ~(i <= l)
      <3> DEFINE o == i - 1
      <3>1. /\ i - l \in 1..pad /\ o \in 0..BufferLen - 1
            /\ o \in l..l + pad - 1 /\ o >= l
        BY <1>0, <2>2 DEF BufferLen
      <3> HIDE DEF o
      <3>2. B[o] = b[o] /\ b[o] = Zero
        BY <1>3, <3>1, Zenon DEF HoldsBoth
      <3>3. Z[i] = Zero
        BY <1>4, <1>5, <2>2, <3>1, Zenon
      <3> QED BY <3>2, <3>3, Zenon DEF o
    <2> QED BY <2>1, <2>2
  <1>7. A \in Seq(Octets) /\ Len(A) = l + pad /\ \A i \in 1..l + pad : A[i] = Z[i]
    <2>1. \A i \in 1..l + pad : Z[i] \in Octets
      BY <1>5, ElementOfSeq, Zenon
    <2>2. A \in [1..l + pad -> Octets] /\ \A i \in 1..l + pad : A[i] = Z[i]
      BY <1>6, <2>1, Zenon
    <2> HIDE DEF A, l
    <2> QED BY <1>0, <2>2
  <1> HIDE DEF A
  <1>8. A = Z
    BY <1>5, <1>7, SeqEqual, Zenon
  <1> QED BY <1>8, Zenon DEF A, B, P, S, X, Y, Z, Reads

LEMMA SaltOctets ==
    ASSUME NEW b, NEW enc, NEW salt, NEW m, NEW base \in Nat, NEW n \in Nat,
           12 <= n, base + n <= BufferLen
    PROVE  ReadsSalt(CipherBuf(b, enc, salt, m, base, n), base,
                     Derived(salt, m, 0, 12))
  <1> DEFINE B == CipherBuf(b, enc, salt, m, base, n)
  <1>1. HoldsBoth(B, b, enc, salt, m, base, n)
    BY CipherBufIs, Zenon
  <1> HIDE DEF B
  <1>2. Derived(salt, m, 0, 12) = [o \in 1..12 |-> <<salt, m, 0 + o - 1>>]
    BY DEF Derived
  <1>3. ASSUME NEW i \in 1..12
        PROVE  B[base + i - 1] = <<salt, m, 0 + i - 1>>
    <2> DEFINE o == base + i - 1
    <2>1. /\ o \in 0..BufferLen - 1 /\ o >= base /\ o < base + n
          /\ o - base = 0 + i - 1
      BY DEF BufferLen
    <2> HIDE DEF o
    <2>2. B[o] = <<salt, m, o - base>>
      BY <1>1, <2>1, Zenon DEF HoldsBoth
    <2> QED BY <2>1, <2>2, Zenon DEF o
  <1> QED BY <1>2, <1>3, Zenon DEF B, ReadsSalt

LEMMA AuthOctets ==
    ASSUME NEW b, NEW label, NEW m, NEW n \in Nat, n <= BufferLen
    PROVE  Reads(Filled(b, label, m, 0, n), n, Derived(label, m, 0, n))
  <1>1. Derived(label, m, 0, n) = [o \in 1..n |-> <<label, m, 0 + o - 1>>]
    BY DEF Derived
  <1>2. ASSUME NEW i \in 1..n
        PROVE  Filled(b, label, m, 0, n)[i - 1] = <<label, m, 0 + i - 1>>
    <2>1. i - 1 \in 0..BufferLen - 1 /\ i - 1 \in 0..0 + n - 1 /\ (i - 1) - 0 = 0 + i - 1
      BY DEF BufferLen
    <2> QED BY <2>1, Zenon DEF Filled
  <1> QED BY <1>1, <1>2, Zenon DEF Reads

----------------------------------------------------------------------------
(* The calls one by one *)

LEMMA RunsKdfInit ==
    ASSUME NEW want, NEW m, NEW b, NEW K, NEW d, NEW k \in {"main", "header"}
    PROVE  Runs(KdfInit(k), want, m, State(b, K, d), State(b, K \cup {k}, d))
  <1> DEFINE j == [op |-> "kdf_init", kdf |-> k]
  <1>1. j \in Jobs
    BY DEF Jobs
  <1>2. Goes(j, want, m, State(b, K, d), State(b, K \cup {k}, d))
    BY DEF Goes, State
  <1> HIDE DEF j
  <1>3. Runs(<<j>>, want, m, State(b, K, d), State(b, K \cup {k}, d))
    BY <1>1, <1>2, RunsOne, Zenon
  <1> QED BY <1>3, Zenon DEF KdfInit, j

LEMMA RunsKdfClear ==
    ASSUME NEW want, NEW m, NEW b, NEW K, NEW d, NEW k \in {"main", "header"}
    PROVE  Runs(KdfClear(k), want, m, State(b, K, d), State(b, K \ {k}, d))
  <1> DEFINE j == [op |-> "kdf_clear", kdf |-> k]
  <1>1. j \in Jobs
    BY DEF Jobs
  <1>2. Goes(j, want, m, State(b, K, d), State(b, K \ {k}, d))
    BY DEF Goes, State
  <1> HIDE DEF j
  <1>3. Runs(<<j>>, want, m, State(b, K, d), State(b, K \ {k}, d))
    BY <1>1, <1>2, RunsOne, Zenon
  <1> QED BY <1>3, Zenon DEF KdfClear, j

LEMMA RunsGenerate ==
    ASSUME NEW want, NEW m, NEW b, NEW K, NEW d, NEW k \in {"main", "header"}, k \in K,
           NEW label \in Labels, NEW off \in Int, NEW len \in Int
    PROVE  Runs(Generate(k, label, off, len), want, m,
                State(b, K, d), State(Filled(b, label, m, off, len), K, d))
  <1> DEFINE j == [op |-> "generate", kdf |-> k, label |-> label, off |-> off,
                   len |-> len]
             F == Filled(b, label, m, off, len)
  <1>1. j \in Jobs
    BY DEF Jobs
  <1>2. /\ j.op = "generate" /\ j.kdf = k
        /\ Filled(b, j.label, m, j.off, j.len) = F
    BY Zenon
  <1> HIDE DEF j, F
  <1>3. Goes(j, want, m, State(b, K, d), State(F, K, d))
    BY <1>2 DEF Goes, State
  <1>4. Runs(<<j>>, want, m, State(b, K, d), State(F, K, d))
    BY <1>1, <1>3, RunsOne, Zenon
  <1> QED BY <1>4, Zenon DEF Generate, j, F

LEMMA RunsSetUp ==
    ASSUME NEW want, NEW m, NEW b, NEW K, NEW d, NEW slot \in Slots, NEW len \in Int,
           Reads(b, len, want[slot])
    PROVE  Runs(SetUp(slot, len), want, m, State(b, K, d), State(b, K, d \cup {slot}))
  <1> DEFINE j == [op |-> "set_up", slot |-> slot, len |-> len]
  <1>1. j \in Jobs
    BY DEF Jobs
  <1>2. j.op = "set_up" /\ j.slot = slot /\ j.len = len
    BY Zenon
  <1> HIDE DEF j
  <1>3. Goes(j, want, m, State(b, K, d), State(b, K, d \cup {slot}))
    BY <1>2 DEF Goes, State
  <1>4. Runs(<<j>>, want, m, State(b, K, d), State(b, K, d \cup {slot}))
    BY <1>1, <1>3, RunsOne, Zenon
  <1> QED BY <1>4, Zenon DEF SetUp, j

LEMMA RunsKeep ==
    ASSUME NEW want, NEW m, NEW b, NEW K, NEW d, NEW slot \in Slots, NEW off \in Int,
           ReadsSalt(b, off, want[slot])
    PROVE  Runs(Keep(slot, off), want, m, State(b, K, d), State(b, K, d \cup {slot}))
  <1> DEFINE j == [op |-> "keep", slot |-> slot, off |-> off]
  <1>1. j \in Jobs
    BY DEF Jobs
  <1>2. j.op = "keep" /\ j.slot = slot /\ j.off = off
    BY Zenon
  <1> HIDE DEF j
  <1>3. Goes(j, want, m, State(b, K, d), State(b, K, d \cup {slot}))
    BY <1>2 DEF Goes, State
  <1>4. Runs(<<j>>, want, m, State(b, K, d), State(b, K, d \cup {slot}))
    BY <1>1, <1>3, RunsOne, Zenon
  <1> QED BY <1>4, Zenon DEF Keep, j

----------------------------------------------------------------------------
(* The calls of srtp_stream_init_keys() for one master key *)

Want(m) == [slot \in Slots |-> KeyFor(slot, m)]

RtpBuf(b, m) ==
  CipherBuf(b, "rtp_encryption", "rtp_salt", m, RtpBase, RtpLen - RtpBase)

LEMMA RtpRuns ==
    ASSUME Lengths, NEW m \in Int, NEW b
    PROVE  Runs(RtpCalls(policy), Want(m), m, State(b, {}, {}),
                State(RtpBuf(b, m), {"main"}, {"salt", "rtp_cipher"}))
  <1> DEFINE w  == Want(m)
             n  == RtpLen - RtpBase
             B1 == Filled(b, "rtp_encryption", m, 0, RtpBase)
             B2 == RtpBuf(b, m)
             c1 == KdfInit("main")
             c2 == Generate("main", "rtp_encryption", 0, RtpBase)
             c3 == Generate("main", "rtp_salt", RtpBase, n)
             c4 == Keep("salt", RtpBase)
             c5 == SetUp("rtp_cipher", RtpLen)
             M  == {"main"}
             x0 == State(b, {}, {})
             x1 == State(b, M, {})
             x2 == State(B1, M, {})
             x3 == State(B2, M, {})
             x4 == State(B2, M, {"salt"})
             x5 == State(B2, M, {"salt", "rtp_cipher"})
  <1>0. /\ n \in Nat /\ 12 <= n /\ n > 0 /\ RtpBase \in Nat /\ RtpLen \in Nat
        /\ RtpBase + n <= BufferLen /\ RtpBase + n = RtpLen /\ RtpLen > RtpBase
        /\ 0 \in Int /\ RtpBase \in Int /\ n \in Int /\ RtpLen \in Int
    BY DEF Lengths, BufferLen
  <1>1. RtpCalls(policy) = c1 \o c2 \o c3 \o c4 \o c5
    BY <1>0, Zenon DEF RtpCalls, Salt, RtpBase, RtpLen
  <1>2. /\ w["rtp_cipher"] =
             Derived("rtp_encryption", m, 0, RtpBase) \o Derived("rtp_salt", m, 0, n)
        /\ w["salt"] = Derived("rtp_salt", m, 0, 12)
    BY DEF Want, Slots, KeyFor, CipherKey, RtpBase, RtpLen
  <1>3. Reads(B2, RtpLen, w["rtp_cipher"])
    <2> HIDE DEF n, w
    <2>1. "rtp_encryption" \in Labels /\ "rtp_salt" \in Labels
      BY DEF Labels
    <2>2. Reads(B2, RtpBase + n,
                Derived("rtp_encryption", m, 0, RtpBase) \o Derived("rtp_salt", m, 0, n))
      BY <1>0, <2>1, CipherOctets, Zenon DEF RtpBuf, n
    <2> QED BY <1>0, <1>2, <2>2, Zenon
  <1>4. ReadsSalt(B2, RtpBase, w["salt"])
    <2>1. ReadsSalt(B2, RtpBase, Derived("rtp_salt", m, 0, 12))
      BY <1>0, SaltOctets, Zenon DEF RtpBuf
    <2> HIDE DEF w
    <2> QED BY <1>2, <2>1, Zenon
  <1>5. /\ {} \cup {"main"} = M /\ {"salt"} \cup {"rtp_cipher"} = {"salt", "rtp_cipher"}
        /\ {} \cup {"salt"} = {"salt"} /\ "main" \in M /\ "main" \in {"main", "header"}
        /\ "salt" \in Slots /\ "rtp_cipher" \in Slots
        /\ "rtp_encryption" \in Labels /\ "rtp_salt" \in Labels
    BY DEF Slots, Labels
  <1>6. Filled(B1, "rtp_salt", m, RtpBase, n) = B2
    BY Zenon DEF RtpBuf, CipherBuf
  <1> HIDE DEF w, n, B1, B2, M
  <1>11. Runs(c1, w, m, x0, x1)
    BY <1>5, RunsKdfInit, Zenon
  <1>12. Runs(c2, w, m, x1, x2)
    BY <1>0, <1>5, RunsGenerate, Zenon DEF B1
  <1>13. Runs(c3, w, m, x2, x3)
    <2>1. Runs(c3, w, m, x2, State(Filled(B1, "rtp_salt", m, RtpBase, n), M, {}))
      BY <1>0, <1>5, RunsGenerate, Zenon
    <2> QED BY <1>6, <2>1, Zenon
  <1>14. Runs(c4, w, m, x3, x4)
    <2>1. Runs(c4, w, m, x3, State(B2, M, {} \cup {"salt"}))
      BY <1>0, <1>4, <1>5, RunsKeep, Zenon
    <2> QED BY <1>5, <2>1, Zenon
  <1>15. Runs(c5, w, m, x4, x5)
    <2>1. Runs(c5, w, m, x4, State(B2, M, {"salt"} \cup {"rtp_cipher"}))
      BY <1>0, <1>3, <1>5, RunsSetUp, Zenon
    <2> QED BY <1>5, <2>1, Zenon
  <1> HIDE DEF c1, c2, c3, c4, c5, x0, x1, x2, x3, x4, x5
  <1>16. Runs(c1 \o c2, w, m, x0, x2)
    BY <1>11, <1>12, RunsBoth, Zenon
  <1>17. Runs(c1 \o c2 \o c3, w, m, x0, x3)
    BY <1>13, <1>16, RunsBoth, Zenon
  <1>18. Runs(c1 \o c2 \o c3 \o c4, w, m, x0, x4)
    BY <1>14, <1>17, RunsBoth, Zenon
  <1>19. Runs(c1 \o c2 \o c3 \o c4 \o c5, w, m, x0, x5)
    BY <1>15, <1>18, RunsBoth, Zenon
  <1> QED BY <1>1, <1>19, Zenon DEF w, x0, x5, B2, M

HeaderSlots ==
  IF policy.enc_xtn_hdr = <<>> THEN {} ELSE {"rtp_xtn_hdr_cipher"}

(* The two octets behind the salt of AES-GCM are still zero. *)
ZeroBehind(b) == IsGcm(policy.rtp) => b[RtpLen] = Zero /\ b[RtpLen + 1] = Zero

LEMMA HeaderRuns ==
    ASSUME Lengths, HeaderLengths, NEW m \in Int, NEW b, NEW d, ZeroBehind(b)
    PROVE  \E c : Runs(HeaderCalls(policy), Want(m), m, State(b, {"main"}, d),
                       State(c, {"main"}, d \cup HeaderSlots))
  <1>1. CASE policy.enc_xtn_hdr = <<>>
    <2>1. HeaderCalls(policy) = <<>> /\ HeaderSlots = {}
      BY <1>1, Zenon DEF HeaderCalls, HeaderSlots
    <2>2. d \cup {} = d
      OBVIOUS
    <2>3. Runs(<<>>, Want(m), m, State(b, {"main"}, d), State(b, {"main"}, d))
      BY RunsNothing, Zenon
    <2> QED BY <2>1, <2>2, <2>3, Zenon
  <1>2. CASE policy.enc_xtn_hdr # <<>>
    <2> DEFINE own == IsGcm(policy.rtp)
               n  == RtpLen - RtpBase
               l  == HeaderCipher(policy).len
               pad == l - RtpLen
               k  == IF own THEN "header" ELSE "main"
               M  == {"main"}
               K  == {"main"} \cup {k}
               w  == Want(m)
               B1 == Filled(b, "rtp_header_encryption", m, 0, RtpBase)
               B2 == CipherBuf(b, "rtp_header_encryption", "rtp_header_salt", m,
                               RtpBase, n)
               c1 == IF own THEN KdfInit("header") ELSE <<>>
               c2 == Generate(k, "rtp_header_encryption", 0, RtpBase)
               c3 == Generate(k, "rtp_header_salt", RtpBase, n)
               c4 == SetUp("rtp_xtn_hdr_cipher", l)
               c5 == IF own THEN KdfClear("header") ELSE <<>>
               e  == d \cup {"rtp_xtn_hdr_cipher"}
               x0 == State(b, M, d)
               x1 == State(b, K, d)
               x2 == State(B1, K, d)
               x3 == State(B2, K, d)
               x4 == State(B2, K, e)
               x5 == State(B2, M, e)
    <2>0. /\ n \in Nat /\ n > 0 /\ RtpBase \in Nat /\ RtpBase + n = RtpLen
          /\ l \in Nat /\ pad \in Nat /\ RtpBase + n + pad = l /\ l <= BufferLen
          /\ RtpBase + n + pad <= BufferLen
          /\ 0 \in Int /\ RtpBase \in Int /\ n \in Int /\ l \in Int
          /\ own => pad = 2 /\ n = 12
          /\ ~own => pad = 0 /\ n = l - RtpBase
      BY DEF Lengths, HeaderLengths, BufferLen
    <2>1. /\ HeaderCipher(policy).type # policy.rtp.cipher_type <=> own
          /\ BaseKeyLength(HeaderCipher(policy).type, l) = RtpBase
      BY Zenon DEF HeaderLengths
    <2>2. HeaderCalls(policy) = c1 \o c2 \o c3 \o c4 \o c5
      <3>1. CASE own
        BY <1>2, <2>0, <2>1, <3>1, Zenon DEF HeaderCalls, Salt
      <3>2. CASE ~own
        BY <1>2, <2>0, <2>1, <3>2, Zenon DEF HeaderCalls, Salt
      <3> QED BY <3>1, <3>2, Zenon
    <2> DEFINE P == [i \in 1..pad |-> Zero]
               X == Derived("rtp_header_encryption", m, 0, RtpBase)
               Y == Derived("rtp_header_salt", m, 0, n)
    <2>3. w["rtp_xtn_hdr_cipher"] = X \o Y \o P
      <3>1. w["rtp_xtn_hdr_cipher"] = HeaderKey(m)
        BY <1>2 DEF Want, Slots, KeyFor
      <3>2. l - RtpBase - n = pad
        BY <2>0
      <3>3. CASE own
        BY <2>0, <2>1, <3>1, <3>2, <3>3, Zenon DEF HeaderKey
      <3>4. CASE ~own
        BY <2>0, <2>1, <3>1, <3>2, <3>4, Zenon DEF HeaderKey
      <3> QED BY <3>3, <3>4, Zenon
    <2>4. Reads(B2, l, w["rtp_xtn_hdr_cipher"])
      <3>1. \A o \in RtpBase + n .. RtpBase + n + pad - 1 : b[o] = Zero
        <4> HIDE DEF l, n, pad
        <4> QED BY <2>0 DEF ZeroBehind
      <3>2. "rtp_header_encryption" \in Labels /\ "rtp_header_salt" \in Labels
        BY DEF Labels
      <3>3. Reads(B2, RtpBase + n + pad, X \o Y \o P)
        <4> HIDE DEF n, pad
        <4> QED BY <2>0, <3>1, <3>2, PaddedOctets, Zenon
      <3> HIDE DEF w, X, Y, P, B2, pad, n, l
      <3> QED BY <2>0, <2>3, <3>3, Zenon
    <2>5. /\ k \in {"main", "header"} /\ k \in K
          /\ own => K = M \cup {"header"} /\ K \ {"header"} = M
          /\ ~own => K = M
          /\ "rtp_xtn_hdr_cipher" \in Slots
          /\ "rtp_header_encryption" \in Labels /\ "rtp_header_salt" \in Labels
          /\ "header" \in {"main", "header"}
      BY DEF Slots, Labels
    <2>6. Filled(B1, "rtp_header_salt", m, RtpBase, n) = B2
      BY Zenon DEF CipherBuf
    <2>7. HeaderSlots = {"rtp_xtn_hdr_cipher"}
      BY <1>2, Zenon DEF HeaderSlots
    <2> HIDE DEF own, w, n, l, k, B1, B2, M, K, X, Y, P
    <2>11. Runs(c1, w, m, x0, x1)
      <3>1. CASE own
        BY <2>5, <3>1, RunsKdfInit, Zenon
      <3>2. CASE ~own
        BY <2>5, <3>2, RunsNothing, Zenon
      <3> QED BY <3>1, <3>2, Zenon
    <2>12. Runs(c2, w, m, x1, x2)
      BY <2>0, <2>5, RunsGenerate, Zenon DEF B1
    <2>13. Runs(c3, w, m, x2, x3)
      <3>1. Runs(c3, w, m, x2, State(Filled(B1, "rtp_header_salt", m, RtpBase, n), K, d))
        BY <2>0, <2>5, RunsGenerate, Zenon
      <3> QED BY <2>6, <3>1, Zenon
    <2>14. Runs(c4, w, m, x3, x4)
      BY <2>0, <2>4, <2>5, RunsSetUp, Zenon
    <2>15. Runs(c5, w, m, x4, x5)
      <3>1. CASE own
        <4>1. Runs(KdfClear("header"), w, m, x4, State(B2, K \ {"header"}, e))
          BY <2>5, RunsKdfClear, Zenon
        <4> QED BY <2>5, <3>1, <4>1, Zenon
      <3>2. CASE ~own
        BY <2>5, <3>2, RunsNothing, Zenon
      <3> QED BY <3>1, <3>2, Zenon
    <2> HIDE DEF c1, c2, c3, c4, c5, x0, x1, x2, x3, x4, x5
    <2>16. Runs(c1 \o c2, w, m, x0, x2)
      BY <2>11, <2>12, RunsBoth, Zenon
    <2>17. Runs(c1 \o c2 \o c3, w, m, x0, x3)
      BY <2>13, <2>16, RunsBoth, Zenon
    <2>18. Runs(c1 \o c2 \o c3 \o c4, w, m, x0, x4)
      BY <2>14, <2>17, RunsBoth, Zenon
    <2>19. Runs(c1 \o c2 \o c3 \o c4 \o c5, w, m, x0, x5)
      BY <2>15, <2>18, RunsBoth, Zenon
    <2> QED BY <2>2, <2>7, <2>19, Zenon DEF w, x0, x5, M
  <1> QED BY <1>1, <1>2, Zenon

LEMMA RtpAuthRuns ==
    ASSUME Lengths, NEW m \in Int, NEW b, NEW d
    PROVE  \E c : Runs(RtpAuthCalls(policy), Want(m), m, State(b, {"main"}, d),
                       State(c, {"main"}, d \cup {"rtp_auth"}))
  <1> DEFINE n  == policy.rtp.auth_key_len
             w  == Want(m)
             M  == {"main"}
             B1 == Filled(b, "rtp_msg_auth", m, 0, n)
             c1 == Generate("main", "rtp_msg_auth", 0, n)
             c2 == SetUp("rtp_auth", n)
             x0 == State(b, M, d)
             x1 == State(B1, M, d)
             x2 == State(B1, M, d \cup {"rtp_auth"})
  <1>1. n \in Nat /\ n <= BufferLen /\ n \in Int /\ 0 \in Int
    BY DEF Lengths, BufferLen
  <1>2. w["rtp_auth"] = Derived("rtp_msg_auth", m, 0, n)
    BY DEF Want, Slots, KeyFor
  <1>3. /\ "main" \in M /\ "main" \in {"main", "header"} /\ "rtp_auth" \in Slots
        /\ "rtp_msg_auth" \in Labels
    BY DEF Slots, Labels
  <1>4. RtpAuthCalls(policy) = c1 \o c2
    BY Zenon DEF RtpAuthCalls
  <1>5. Reads(B1, n, Derived("rtp_msg_auth", m, 0, n))
    BY <1>1, AuthOctets, Zenon
  <1> HIDE DEF w, n, B1, M
  <1>6. Runs(c1, w, m, x0, x1)
    BY <1>1, <1>3, RunsGenerate, Zenon DEF B1
  <1>7. Runs(c2, w, m, x1, x2)
    BY <1>1, <1>2, <1>3, <1>5, RunsSetUp, Zenon
  <1> HIDE DEF c1, c2, x0, x1, x2
  <1>8. Runs(c1 \o c2, w, m, x0, x2)
    BY <1>6, <1>7, RunsBoth, Zenon
  <1> QED BY <1>4, <1>8, Zenon DEF w, x0, x2, M

RtcpSlots == {"c_salt", "rtcp_cipher", "rtcp_auth"}

LEMMA RtcpRuns ==
    ASSUME Lengths, NEW m \in Int, NEW b, NEW d
    PROVE  \E c : Runs(RtcpCalls(policy), Want(m), m, State(b, {"main"}, d),
                       State(c, {}, d \cup RtcpSlots))
  <1> DEFINE w  == Want(m)
             n  == RtpLen - RtpBase
             a  == policy.rtcp.auth_key_len
             M  == {"main"}
             B1 == Filled(b, "rtcp_encryption", m, 0, RtpBase)
             B2 == CipherBuf(b, "rtcp_encryption", "rtcp_salt", m, RtpBase, n)
             B3 == Filled(B2, "rtcp_msg_auth", m, 0, a)
             c1 == Generate("main", "rtcp_encryption", 0, RtpBase)
             c2 == Generate("main", "rtcp_salt", RtpBase, n)
             c3 == Keep("c_salt", RtpBase)
             c4 == SetUp("rtcp_cipher", RtpLen)
             c5 == Generate("main", "rtcp_msg_auth", 0, a)
             c6 == SetUp("rtcp_auth", a)
             c7 == KdfClear("main")
             d3 == d \cup {"c_salt"}
             d4 == d3 \cup {"rtcp_cipher"}
             d6 == d4 \cup {"rtcp_auth"}
             x0 == State(b, M, d)
             x1 == State(B1, M, d)
             x2 == State(B2, M, d)
             x3 == State(B2, M, d3)
             x4 == State(B2, M, d4)
             x5 == State(B3, M, d4)
             x6 == State(B3, M, d6)
             x7 == State(B3, {}, d6)
  <1>0. /\ n \in Nat /\ 12 <= n /\ n > 0 /\ RtpBase \in Nat /\ RtpLen \in Nat
        /\ RtpBase + n <= BufferLen /\ RtpBase + n = RtpLen /\ RtpLen > RtpBase
        /\ 0 \in Int /\ RtpBase \in Int /\ n \in Int /\ RtpLen \in Int
        /\ a \in Nat /\ a <= BufferLen /\ a \in Int
    BY DEF Lengths, BufferLen
  <1>1. /\ policy.rtcp.cipher_key_len = RtpLen
        /\ BaseKeyLength(policy.rtcp.cipher_type, RtpLen) = RtpBase
    BY Zenon DEF Lengths, RtpBase
  <1>2. RtcpCalls(policy) = c1 \o c2 \o c3 \o c4 \o c5 \o c6 \o c7
    BY <1>0, <1>1, Zenon DEF RtcpCalls, Salt
  <1>3. /\ w["rtcp_cipher"] =
             Derived("rtcp_encryption", m, 0, RtpBase) \o Derived("rtcp_salt", m, 0, n)
        /\ w["c_salt"] = Derived("rtcp_salt", m, 0, 12)
        /\ w["rtcp_auth"] = Derived("rtcp_msg_auth", m, 0, a)
    <2>1. /\ w["rtcp_cipher"] =
               CipherKey(policy.rtcp, "rtcp_encryption", "rtcp_salt", m)
          /\ w["c_salt"] = Derived("rtcp_salt", m, 0, 12)
          /\ w["rtcp_auth"] = Derived("rtcp_msg_auth", m, 0, a)
      BY DEF Want, Slots, KeyFor
    <2> HIDE DEF w
    <2> QED BY <1>1, <2>1, Zenon DEF CipherKey
  <1>4. /\ "main" \in M /\ "main" \in {"main", "header"} /\ M \ {"main"} = {}
        /\ "c_salt" \in Slots /\ "rtcp_cipher" \in Slots /\ "rtcp_auth" \in Slots
        /\ "rtcp_encryption" \in Labels /\ "rtcp_salt" \in Labels
        /\ "rtcp_msg_auth" \in Labels
    BY DEF Slots, Labels
  <1>5. d6 = d \cup RtcpSlots
    BY DEF RtcpSlots
  <1> HIDE DEF w
  <1>6. Reads(B2, RtpLen, w["rtcp_cipher"])
    <2>1. Reads(B2, RtpBase + n,
                Derived("rtcp_encryption", m, 0, RtpBase) \o Derived("rtcp_salt", m, 0, n))
      <3> HIDE DEF n
      <3> QED BY <1>0, <1>4, CipherOctets, Zenon
    <2> HIDE DEF n, B2
    <2> QED BY <1>0, <1>3, <2>1, Zenon
  <1>7. ReadsSalt(B2, RtpBase, w["c_salt"])
    <2>1. ReadsSalt(B2, RtpBase, Derived("rtcp_salt", m, 0, 12))
      BY <1>0, SaltOctets, Zenon
    <2> QED BY <1>3, <2>1, Zenon
  <1>8. Reads(B3, a, w["rtcp_auth"])
    <2>1. Reads(B3, a, Derived("rtcp_msg_auth", m, 0, a))
      BY <1>0, AuthOctets, Zenon
    <2> QED BY <1>3, <2>1, Zenon
  <1>9. Filled(B1, "rtcp_salt", m, RtpBase, n) = B2
    BY Zenon DEF CipherBuf
  <1> HIDE DEF n, a, B1, B2, B3, M, d3, d4
  <1>11. Runs(c1, w, m, x0, x1)
    BY <1>0, <1>4, RunsGenerate, Zenon DEF B1
  <1>12. Runs(c2, w, m, x1, x2)
    <2>1. Runs(c2, w, m, x1, State(Filled(B1, "rtcp_salt", m, RtpBase, n), M, d))
      BY <1>0, <1>4, RunsGenerate, Zenon
    <2> QED BY <1>9, <2>1, Zenon
  <1>13. Runs(c3, w, m, x2, x3)
    BY <1>0, <1>4, <1>7, RunsKeep, Zenon DEF d3
  <1>14. Runs(c4, w, m, x3, x4)
    BY <1>0, <1>4, <1>6, RunsSetUp, Zenon DEF d4
  <1>15. Runs(c5, w, m, x4, x5)
    BY <1>0, <1>4, RunsGenerate, Zenon DEF B3
  <1>16. Runs(c6, w, m, x5, x6)
    BY <1>0, <1>4, <1>8, RunsSetUp, Zenon
  <1> HIDE DEF d6
  <1>17. Runs(c7, w, m, x6, x7)
    <2>1. Runs(c7, w, m, x6, State(B3, M \ {"main"}, d6))
      BY <1>4, RunsKdfClear, Zenon
    <2> QED BY <1>4, <2>1, Zenon
  <1> HIDE DEF c1, c2, c3, c4, c5, c6, c7, x0, x1, x2, x3, x4, x5, x6, x7
  <1>18. Runs(c1 \o c2 \o c3, w, m, x0, x3)
    <2>1. Runs(c1 \o c2, w, m, x0, x2)
      BY <1>11, <1>12, RunsBoth, Zenon
    <2> QED BY <1>13, <2>1, RunsBoth, Zenon
  <1>19. Runs(c1 \o c2 \o c3 \o c4 \o c5, w, m, x0, x5)
    <2>1. Runs(c1 \o c2 \o c3 \o c4, w, m, x0, x4)
      BY <1>14, <1>18, RunsBoth, Zenon
    <2> QED BY <1>15, <2>1, RunsBoth, Zenon
  <1>20. Runs(c1 \o c2 \o c3 \o c4 \o c5 \o c6 \o c7, w, m, x0, x7)
    <2>1. Runs(c1 \o c2 \o c3 \o c4 \o c5 \o c6, w, m, x0, x6)
      BY <1>16, <1>19, RunsBoth, Zenon
    <2> QED BY <1>17, <2>1, RunsBoth, Zenon
  <1> QED BY <1>2, <1>5, <1>20, Zenon DEF w, x0, x7, M

(* The contexts that a master key sets up *)
Full == {"salt", "rtp_cipher"} \cup HeaderSlots \cup {"rtp_auth"} \cup RtcpSlots

StartBuf(m) ==
  [o \in 0..BufferLen - 1 |->
     IF o < InputKeyLen(policy) THEN <<"master", m, o>> ELSE Zero]

(* The calls set up every context that is missing, and leave no function in use. *)
Ends(s, want, m, x, full) == \E c : Runs(s, want, m, x, State(c, {}, full))

LEMMA InitKeysRuns ==
    ASSUME Lengths, HeaderLengths, NEW m \in Int
    PROVE  Ends(InitKeys(policy), Want(m), m, State(StartBuf(m), {}, {}), Full)
  <1> DEFINE w  == Want(m)
             b  == StartBuf(m)
             M  == {"main"}
             d1 == {"salt", "rtp_cipher"}
             d2 == d1 \cup HeaderSlots
             d3 == d2 \cup {"rtp_auth"}
             x0 == State(b, {}, {})
             x1 == State(RtpBuf(b, m), M, d1)
  <1>1. Runs(RtpCalls(policy), w, m, x0, x1)
    BY RtpRuns, Zenon
  <1>2. ZeroBehind(RtpBuf(b, m))
    <2>1. CASE IsGcm(policy.rtp)
      <3> DEFINE n == RtpLen - RtpBase
      <3>1. /\ n \in Nat /\ RtpBase \in Nat /\ RtpLen \in Nat
            /\ RtpLen \in 0..BufferLen - 1 /\ RtpLen + 1 \in 0..BufferLen - 1
            /\ RtpLen >= RtpBase + n /\ RtpLen + 1 >= RtpBase + n
            /\ ~(RtpLen < RtpLen) /\ ~(RtpLen + 1 < RtpLen)
            /\ InputKeyLen(policy) = RtpLen
        BY <2>1 DEF Lengths, HeaderLengths, BufferLen
      <3>2. HoldsBoth(RtpBuf(b, m), b, "rtp_encryption", "rtp_salt", m, RtpBase, n)
        BY <3>1, CipherBufIs, Zenon DEF RtpBuf
      <3>3. b[RtpLen] = Zero /\ b[RtpLen + 1] = Zero
        BY <3>1, Zenon DEF StartBuf
      <3> HIDE DEF b
      <3> QED BY <3>1, <3>2, <3>3, Zenon DEF HoldsBoth, ZeroBehind
    <2>2. CASE ~IsGcm(policy.rtp)
      BY <2>2, Zenon DEF ZeroBehind
    <2> QED BY <2>1, <2>2
  <1>3. PICK c2 : Runs(HeaderCalls(policy), w, m, x1, State(c2, M, d2))
    BY <1>2, HeaderRuns, Zenon
  <1>4. PICK c3 : Runs(RtpAuthCalls(policy), w, m, State(c2, M, d2), State(c3, M, d3))
    BY RtpAuthRuns, Zenon
  <1>5. PICK c4 : Runs(RtcpCalls(policy), w, m, State(c3, M, d3),
                       State(c4, {}, d3 \cup RtcpSlots))
    BY RtcpRuns, Zenon
  <1> DEFINE x2 == State(c2, M, d2)
             x3 == State(c3, M, d3)
             x4 == State(c4, {}, d3 \cup RtcpSlots)
             s1 == RtpCalls(policy)
             s2 == HeaderCalls(policy)
             s3 == RtpAuthCalls(policy)
             s4 == RtcpCalls(policy)
  <1> HIDE DEF w, x0, x1, x2, x3, x4, s1, s2, s3, s4
  <1>6. Runs(s1 \o s2, w, m, x0, x2)
    BY <1>1, <1>3, RunsBoth, Zenon DEF s1, s2, x2
  <1>7. Runs(s1 \o s2 \o s3, w, m, x0, x3)
    BY <1>4, <1>6, RunsBoth, Zenon DEF s3, x2, x3
  <1>8. Runs(s1 \o s2 \o s3 \o s4, w, m, x0, x4)
    BY <1>5, <1>7, RunsBoth, Zenon DEF s4, x3, x4
  <1>9. Runs(InitKeys(policy), w, m, x0, State(c4, {}, Full))
    BY <1>8, Zenon DEF InitKeys, s1, s2, s3, s4, x4, Full
  <1> QED BY <1>9, Zenon DEF Ends, w, x0

----------------------------------------------------------------------------
(* The inductive invariant *)

IsBuffer(b) == b = [o \in 0..BufferLen - 1 |-> b[o]]

SessionOk ==
  /\ Len(session) \in Nat /\ DOMAIN session = 1..Len(session)
  /\ \A i \in 1..Len(session) : DOMAIN session[i] = Slots

Correct(m) == \A slot \in Slots : session[m][slot] = KeyFor(slot, m)

(* The contexts in d have their key, the others have none. *)
Partial(m, d) ==
  /\ d # {} => Len(session) = m
  /\ Len(session) = m =>
       \A slot \in Slots :
         session[m][slot] = IF slot \in d THEN KeyFor(slot, m) ELSE <<>>

(* The earlier master keys have all their contexts, and the calls that are   *)
(* left give the current one what it misses.                                 *)
Deriving ==
  /\ key \in 1..Len(policy.master_keys)
  /\ Len(session) \in {key - 1, key}
  /\ \A m \in 1..key - 1 : Correct(m)
  /\ \E d \in SUBSET Slots :
       /\ Partial(key, d)
       /\ Ends(todo, Want(key), key, State(tmp_key, kdfs, d), Full)

NoKeys ==
  /\ key = 0 /\ tmp_key = ZeroKey /\ kdfs = {} /\ Len(session) \in {0, 1}
  /\ todo \in Seq(Jobs) /\ \A i \in 1..Len(todo) : todo[i].op = "set_up"

KeysInv ==
  /\ faults \in Nat /\ PolicyInv(policy) /\ IsBuffer(tmp_key) /\ SessionOk
  /\ result # "running" => key = 0 /\ tmp_key = ZeroKey
  /\ result = "none" => kdfs = {} /\ session = <<>>
  /\ result = "running" =>
       /\ PolicyValidate(policy)
       /\ policy.master_keys = <<>> => NoKeys
       /\ policy.master_keys # <<>> => KeyedShape(policy.rtp) /\ Deriving
  /\ ValidPolicyStarts /\ SessionKeysExact /\ NothingLeftBehind

(* srtp_policy_validate() accepts no policy that srtp_stream_init_keys()     *)
(* refuses.                                                                  *)
LEMMA ValidIsAcceptable ==
    ASSUME PolicyInv(policy), PolicyValidate(policy), policy.master_keys # <<>>
    PROVE  /\ KeyedShape(policy.rtp) /\ Lengths /\ HeaderLengths
           /\ \A m \in 1..Len(policy.master_keys) : KeyAcceptable(policy, m)
  <1>1. ~NullCipherNullAuth(policy)
    BY Zenon DEF PolicyValidate, ValidKeys
  <1>2. KeyedShape(policy.rtp)
    <2>1. ASSUME NoShape(policy.rtp) PROVE FALSE
      BY <1>1, <2>1, Zenon DEF PolicyInv, CryptoPair, Alike, NoShape, Shaped,
                               NullCipherNullAuth
    <2> QED BY <2>1, Zenon DEF PolicyInv, CryptoPair
  <1>3. Lengths /\ HeaderLengths
    BY <1>2, KeyLengths
  <1>4. ASSUME NEW m \in 1..Len(policy.master_keys)
        PROVE  KeyAcceptable(policy, m)
    <2>1. policy.mki_size # 0 => policy.master_keys[m].mki_id_len = policy.mki_size
      BY Zenon DEF PolicyValidate, ValidKeys
    <2>2. policy.rtp.cipher_key_len >= InputKeyLen(policy)
      <3>1. /\ policy.rtp.cipher_key_len \in 28..46
            /\ InputKeyLen(policy) = policy.rtp.cipher_key_len
        BY <1>3, Zenon DEF Lengths, RtpLen
      <3>2. \A n \in 28..46 : n >= n
        OBVIOUS
      <3> QED BY <3>1, <3>2, Zenon
    <2> QED BY <2>1, <2>2, Zenon DEF KeyAcceptable
  <1> QED BY <1>2, <1>3, <1>4, Zenon

LEMMA SameKeys ==
    ASSUME policy' = policy
    PROVE  \A slot, m : KeyFor(slot, m)' = KeyFor(slot, m)
  BY Zenon DEF KeyFor, HeaderKey

(* What depends on the policy and on the current key only *)
LEMMA SamePolicy ==
    ASSUME policy' = policy, NEW k, key' = k
    PROVE  /\ Want(key)' = Want(k) /\ Full' = Full
           /\ \A slot, m : KeyFor(slot, m)' = KeyFor(slot, m)
           /\ PolicyInv(policy)' = PolicyInv(policy)
           /\ PolicyValidate(policy)' = PolicyValidate(policy)
           /\ KeyedShape(policy.rtp)' = KeyedShape(policy.rtp)
  <1>1. Want(key)' = Want(k)
    <2>1. ASSUME NEW slot \in Slots
          PROVE  KeyFor(slot, key)' = KeyFor(slot, k)
      BY Zenon DEF KeyFor, HeaderKey
    <2> QED BY <2>1, Zenon DEF Want
  <1>2. Full' = Full
    BY Zenon DEF Full, HeaderSlots
  <1>3. \A slot, m : KeyFor(slot, m)' = KeyFor(slot, m)
    BY SameKeys
  <1> QED BY <1>1, <1>2, <1>3, Zenon

LEMMA DerivingExact ==
    ASSUME PolicyInv(policy)', SessionOk', Deriving', result' = "running"
    PROVE  SessionKeysExact'
  <1> DEFINE k == key'
             S == session'
  <1>1. /\ k \in Nat /\ Len(S) \in Nat /\ Len(S) \in {k - 1, k}
        /\ \A m \in 1..k - 1 : \A slot \in Slots : S[m][slot] = KeyFor(slot, m)'
    <2>1. policy.master_keys' \in Seq(MasterKeys)
      BY Zenon DEF PolicyInv
    <2>2. Len(policy.master_keys') \in Nat
      BY <2>1
    <2>3. k \in 1..Len(policy.master_keys')
      BY Zenon DEF Deriving
    <2>4. k \in Nat
      BY <2>2, <2>3
    <2> QED BY <2>4, Zenon DEF Deriving, SessionOk, Correct
  <1>2. PICK d : Partial(key, d)'
    BY Zenon DEF Deriving
  <1> HIDE DEF k, S
  <1>3. ASSUME NEW m \in 1..Len(S), NEW slot \in Slots
        PROVE  S[m][slot] = KeyFor(slot, m)' \/ S[m][slot] = <<>>
    <2>1. CASE m < k
      <3>1. m \in 1..k - 1
        BY <1>1, <2>1
      <3> QED BY <1>1, <3>1, Zenon
    <2>2. CASE ~(m < k)
      <3>1. m = k /\ Len(S) = k
        BY <1>1, <2>2
      <3>2. \A s \in Slots : S[k][s] = (IF s \in d THEN KeyFor(s, key)' ELSE <<>>)
        BY <1>2, <3>1, Zenon DEF Partial, k, S
      <3>3. KeyFor(slot, m)' = KeyFor(slot, key)'
        BY <3>1, Zenon DEF KeyFor, HeaderKey, k
      <3> QED BY <3>1, <3>2, <3>3, Zenon
    <2> QED BY <2>1, <2>2
  <1> QED BY <1>3, Zenon DEF SessionKeysExact, S

LEMMA FullCorrect ==
    ASSUME Partial(key, Full)
    PROVE  Len(session) = key /\ Correct(key)
  <1>1. Len(session) = key
    BY DEF Partial, Full
  <1>2. ASSUME NEW slot \in Slots
        PROVE  session[key][slot] = KeyFor(slot, key)
    <2>1. session[key][slot] = IF slot \in Full THEN KeyFor(slot, key) ELSE <<>>
      BY <1>1, Zenon DEF Partial
    <2>2. CASE slot \in Full
      BY <2>1, <2>2, Zenon
    <2>3. CASE slot \notin Full
      <3>1. slot = "rtp_xtn_hdr_cipher" /\ policy.enc_xtn_hdr = <<>>
        BY <2>3 DEF Full, HeaderSlots, RtcpSlots, Slots
      <3>2. KeyFor(slot, key) = <<>>
        BY <3>1 DEF KeyFor
      <3> QED BY <2>1, <2>3, <3>2, Zenon
    <2> QED BY <2>2, <2>3
  <1> QED BY <1>1, <1>2, Zenon DEF Correct

(* While the derivation goes on, three of the conjuncts follow from the rest. *)
LEMMA RunningInv ==
    ASSUME result' = "running", faults' \in Nat, PolicyInv(policy)', IsBuffer(tmp_key)',
           SessionOk', PolicyValidate(policy)', KeyedShape(policy.rtp)', Deriving',
           policy.master_keys' # <<>>
    PROVE  KeysInv'
  <1>1. SessionKeysExact'
    BY DerivingExact
  <1>2. ValidPolicyStarts' /\ NothingLeftBehind'
    BY DEF ValidPolicyStarts, NothingLeftBehind
  <1>3. ~(result' # "running") /\ ~(result' = "none")
    OBVIOUS
  <1> QED BY <1>1, <1>2, <1>3, Zenon DEF KeysInv

LEMMA StartKeyInv ==
    ASSUME PolicyInv(policy), PolicyValidate(policy), policy.master_keys # <<>>,
           NEW m \in 1..Len(policy.master_keys), StartKey(m),
           kdfs' = {}, SessionOk', Len(session') = m - 1,
           \A k \in 1..m - 1 : Correct(k)', faults' \in Nat
    PROVE  KeysInv'
  <1>0. Len(policy.master_keys) \in Nat /\ m \in Nat /\ m \in Int /\ m - 1 # m
    <2>1. policy.master_keys \in Seq(MasterKeys)
      BY Zenon DEF PolicyInv
    <2> QED BY <2>1
  <1>1. /\ KeyedShape(policy.rtp) /\ Lengths /\ HeaderLengths
        /\ KeyAcceptable(policy, m)
    BY ValidIsAcceptable, Zenon
  <1>2. /\ key' = m /\ todo' = InitKeys(policy) /\ result' = "running"
        /\ tmp_key' = StartBuf(m) /\ policy' = policy
    BY <1>1, Zenon DEF StartKey, StartBuf
  <1>3. /\ Want(key)' = Want(m) /\ Full' = Full
        /\ PolicyInv(policy)' /\ PolicyValidate(policy)' /\ KeyedShape(policy.rtp)'
    BY <1>1, <1>2, SamePolicy, Zenon
  <1>4. Ends(InitKeys(policy), Want(m), m, State(StartBuf(m), {}, {}), Full)
    BY <1>0, <1>1, InitKeysRuns, Zenon
  <1>5. Ends(todo, Want(key), key, State(tmp_key, kdfs, {}), Full)'
    BY <1>2, <1>3, <1>4, Zenon
  <1>6. Partial(key, {})'
    BY <1>0, <1>2, Zenon DEF Partial
  <1>7. Deriving'
    <2>1. {} \in SUBSET Slots
      OBVIOUS
    <2>2. key' \in 1..Len(policy.master_keys') /\ Len(session') \in {key' - 1, key'}
      BY <1>2, Zenon
    <2>3. \A k \in 1..key' - 1 : Correct(k)'
      BY <1>2, Zenon
    <2> QED BY <1>5, <1>6, <2>1, <2>2, <2>3, Zenon DEF Deriving
  <1>8. IsBuffer(tmp_key)'
    <2>1. \A o \in 0..BufferLen - 1 :
            StartBuf(m)[o] = IF o < InputKeyLen(policy) THEN <<"master", m, o>> ELSE Zero
      BY Zenon DEF StartBuf
    <2>2. StartBuf(m) = [o \in 0..BufferLen - 1 |-> StartBuf(m)[o]]
      BY <2>1, Zenon DEF StartBuf
    <2> QED BY <1>2, <2>2, Zenon DEF IsBuffer
  <1>9. policy.master_keys' # <<>>
    BY <1>2, Zenon
  <1> QED BY <1>2, <1>3, <1>7, <1>8, <1>9, RunningInv, Zenon

(* What a call leaves, by the kind of call *)
Effect(j, want, m, b, K, d, y) ==
  /\ j.op = "kdf_init" => y = State(b, K \cup {j.kdf}, d)
  /\ j.op = "generate" => y = State(Filled(b, j.label, m, j.off, j.len), K, d)
  /\ j.op = "set_up" =>
       Reads(b, j.len, want[j.slot]) /\ y = State(b, K, d \cup {j.slot})
  /\ j.op = "keep" =>
       ReadsSalt(b, j.off, want[j.slot]) /\ y = State(b, K, d \cup {j.slot})
  /\ j.op = "kdf_clear" => y = State(b, K \ {j.kdf}, d)

LEMMA GoesCases ==
    ASSUME NEW j, NEW want, NEW m, NEW b, NEW K, NEW d, NEW y,
           Goes(j, want, m, State(b, K, d), y)
    PROVE  Effect(j, want, m, b, K, d, y)
  <1>1. /\ State(b, K, d).buf = b /\ State(b, K, d).kdfs = K
        /\ State(b, K, d).done = d
    BY DEF State
  <1> DEFINE x == State(b, K, d)
  <1> HIDE DEF x
  <1>2. x.buf = b /\ x.kdfs = K /\ x.done = d
    BY <1>1, Zenon DEF x
  <1>3. Goes(j, want, m, x, y)
    BY Zenon DEF x
  <1> QED BY <1>2, <1>3 DEF Goes, Effect

(* The call that comes next, with what it finds and leaves *)
LEMMA NextCall ==
    ASSUME KeysInv, result = "running", policy.master_keys # <<>>, todo # <<>>
    PROVE  /\ Job \in Jobs
           /\ \E d \in SUBSET Slots : \E y :
                /\ Partial(key, d)
                /\ Effect(Job, Want(key), key, tmp_key, kdfs, d, y)
                /\ Ends(Tail(todo), Want(key), key, y, Full)
  <1>1. PICK d \in SUBSET Slots :
           /\ Partial(key, d)
           /\ Ends(todo, Want(key), key, State(tmp_key, kdfs, d), Full)
    BY Zenon DEF KeysInv, Deriving
  <1> DEFINE x == State(tmp_key, kdfs, d)
             w == Want(key)
  <1>2. PICK c : Runs(todo, w, key, x, State(c, {}, Full))
    BY <1>1, Zenon DEF Ends
  <1> HIDE DEF x, w
  <1>3. /\ Head(todo) \in Jobs
        /\ \E y : /\ Goes(Head(todo), w, key, x, y)
                  /\ Runs(Tail(todo), w, key, y, State(c, {}, Full))
    BY <1>2, RunsTail, Zenon
  <1>4. PICK y : /\ Goes(Head(todo), w, key, x, y)
                 /\ Runs(Tail(todo), w, key, y, State(c, {}, Full))
    BY <1>3, Zenon
  <1>5. Effect(Head(todo), w, key, tmp_key, kdfs, d, y)
    BY <1>4, GoesCases, Zenon DEF x
  <1>6. Ends(Tail(todo), w, key, y, Full)
    BY <1>4, Zenon DEF Ends
  <1> QED BY <1>1, <1>3, <1>5, <1>6, Zenon DEF Job, w

(* A call after which the derivation of the same key goes on *)
LEMMA GoesOn ==
    ASSUME KeysInv, result = "running", policy.master_keys # <<>>,
           policy' = policy, key' = key, result' = result, faults' = faults,
           todo' = Tail(todo),
           IsBuffer(tmp_key'), SessionOk', Len(session') \in {key - 1, key},
           \A m \in 1..key - 1 : Correct(m)',
           NEW d \in SUBSET Slots, Partial(key, d)',
           Ends(Tail(todo), Want(key), key, State(tmp_key', kdfs', d), Full)
    PROVE  KeysInv'
  <1>1. policy' = policy /\ key' = key /\ result' = "running" /\ faults' = faults
    OBVIOUS
  <1>2. PICK k : k = key
    OBVIOUS
  <1>3. /\ Want(key)' = Want(k) /\ Full' = Full
        /\ PolicyInv(policy)' /\ PolicyValidate(policy)' /\ KeyedShape(policy.rtp)'
    BY <1>1, <1>2, SamePolicy, Zenon DEF KeysInv
  <1>4. Ends(todo, Want(key), key, State(tmp_key, kdfs, d), Full)'
    BY <1>1, <1>2, <1>3, Zenon
  <1>5. Deriving'
    <2>1. key \in 1..Len(policy.master_keys)
      BY Zenon DEF KeysInv, Deriving
    <2> QED BY <1>1, <1>4, <2>1, Zenon DEF Deriving
  <1>6. faults' \in Nat /\ policy.master_keys' # <<>> /\ IsBuffer(tmp_key)'
    BY <1>1, Zenon DEF KeysInv, IsBuffer
  <1> QED BY <1>1, <1>3, <1>5, <1>6, RunningInv, Zenon

----------------------------------------------------------------------------
(* Every action keeps the invariant *)

LEMMA NoKeysJob ==
    ASSUME KeysInv, result = "running", policy.master_keys = <<>>, todo # <<>>
    PROVE  /\ Job.op = "set_up" /\ Job \in Jobs
           /\ Tail(todo) \in Seq(Jobs)
           /\ \A i \in 1..Len(Tail(todo)) : Tail(todo)[i].op = "set_up"
  <1>1. todo \in Seq(Jobs) /\ \A i \in 1..Len(todo) : todo[i].op = "set_up"
    BY Zenon DEF KeysInv, NoKeys
  <1>2. /\ Head(todo) = todo[1] /\ todo[1] \in Jobs /\ 1 \in 1..Len(todo)
        /\ Tail(todo) \in Seq(Jobs) /\ Len(Tail(todo)) = Len(todo) - 1
        /\ \A i \in 1..Len(todo) - 1 :
             Tail(todo)[i] = todo[i + 1] /\ i + 1 \in 1..Len(todo)
    BY <1>1
  <1> QED BY <1>1, <1>2, Zenon DEF Job

(* A call that sets up no context *)
LEMMA SessionStays ==
    ASSUME KeysInv, result = "running", policy.master_keys # <<>>,
           policy' = policy, key' = key, session' = session,
           NEW d, Partial(key, d)
    PROVE  /\ SessionOk' /\ Len(session') \in {key - 1, key}
           /\ \A m \in 1..key - 1 : Correct(m)'
           /\ Partial(key, d)'
  <1>1. policy' = policy /\ key' = key /\ session' = session
    OBVIOUS
  <1>2. PICK k : k = key
    OBVIOUS
  <1>3. \A slot, m : KeyFor(slot, m)' = KeyFor(slot, m)
    BY <1>1, <1>2, SamePolicy, Zenon
  <1>4. \A slot : KeyFor(slot, key)' = KeyFor(slot, key)
    BY <1>1, Zenon DEF KeyFor, HeaderKey
  <1>5. SessionOk' /\ Len(session') \in {key - 1, key}
    BY <1>1, Zenon DEF KeysInv, SessionOk, Deriving
  <1>6. \A m \in 1..key - 1 : Correct(m)'
    BY <1>1, <1>3, Zenon DEF KeysInv, Deriving, Correct
  <1>7. Partial(key, d)'
    BY <1>1, <1>4, Zenon DEF Partial
  <1> QED BY <1>5, <1>6, <1>7

LEMMA KdfInitInv ==
    ASSUME KeysInv, NEW b, KdfInitStep(b)
    PROVE  KeysInv'
  <1>1. result = "running" /\ todo # <<>> /\ Job.op = "kdf_init"
    BY Zenon DEF KdfInitStep, Running
  <1>2. policy.master_keys # <<>>
    <2>1. ASSUME policy.master_keys = <<>> PROVE FALSE
      BY <1>1, <2>1, NoKeysJob
    <2> QED BY <2>1
  <1>3. KdfKeyLen(policy) \in {30, 38, 46}
    <2>1. PolicyInv(policy) /\ PolicyValidate(policy)
      BY <1>1, Zenon DEF KeysInv
    <2>2. Lengths
      BY <1>2, <2>1, ValidIsAcceptable, Zenon
    <2> QED BY <2>2, Zenon DEF Lengths
  <1>4. /\ kdfs' = kdfs \cup {Job.kdf} /\ todo' = Tail(todo)
        /\ policy' = policy /\ key' = key /\ tmp_key' = tmp_key /\ result' = result
        /\ session' = session /\ faults' = faults
    BY <1>3, Zenon DEF KdfInitStep
  <1>5. PICK d \in SUBSET Slots : \E y :
           /\ Partial(key, d)
           /\ Effect(Job, Want(key), key, tmp_key, kdfs, d, y)
           /\ Ends(Tail(todo), Want(key), key, y, Full)
    BY <1>1, <1>2, NextCall, Zenon
  <1>6. PICK y : /\ Effect(Job, Want(key), key, tmp_key, kdfs, d, y)
                 /\ Ends(Tail(todo), Want(key), key, y, Full)
    BY <1>5, Zenon
  <1>7. y = State(tmp_key, kdfs \cup {Job.kdf}, d)
    BY <1>1, <1>6, Zenon DEF Effect
  <1>8. Ends(Tail(todo), Want(key), key, State(tmp_key', kdfs', d), Full)
    BY <1>4, <1>6, <1>7, Zenon
  <1>9. /\ SessionOk' /\ Len(session') \in {key - 1, key}
        /\ \A m \in 1..key - 1 : Correct(m)'
        /\ Partial(key, d)'
    BY <1>1, <1>2, <1>4, <1>5, SessionStays, Zenon
  <1>10. IsBuffer(tmp_key')
    BY <1>4, Zenon DEF KeysInv, IsBuffer
  <1> QED BY <1>1, <1>2, <1>4, <1>8, <1>9, <1>10, GoesOn, Zenon

LEMMA WrittenIsFilled ==
    ASSUME IsBuffer(tmp_key), NEW label, NEW off \in Int, NEW len \in Int
    PROVE  /\ Written(label, off, len) = Filled(tmp_key, label, key, off, len)
           /\ len = 0 => Filled(tmp_key, label, key, off, len) = tmp_key
           /\ IsBuffer(Filled(tmp_key, label, key, off, len))
  <1> DEFINE F == Filled(tmp_key, label, key, off, len)
             e(o) == IF o \in off .. off + len - 1 THEN <<label, key, o - off>>
                     ELSE tmp_key[o]
  <1>1. DOMAIN tmp_key = 0..BufferLen - 1
    <2>1. DOMAIN [o \in 0..BufferLen - 1 |-> tmp_key[o]] = 0..BufferLen - 1
      BY Zenon
    <2> QED BY <2>1, Zenon DEF IsBuffer
  <1>2. Written(label, off, len) = F
    BY <1>1, Zenon DEF Written, Filled
  <1>3. ASSUME len = 0 PROVE F = tmp_key
    <2>1. off .. off + len - 1 = {}
      BY <1>3
    <2>2. F = [o \in 0..BufferLen - 1 |-> tmp_key[o]]
      BY <2>1, Zenon DEF Filled
    <2> QED BY <2>2, Zenon DEF IsBuffer
  <1>4. IsBuffer(F)
    <2>1. \A o \in 0..BufferLen - 1 : F[o] = e(o)
      BY Zenon DEF Filled
    <2>2. F = [o \in 0..BufferLen - 1 |-> e(o)]
      BY Zenon DEF Filled
    <2> HIDE DEF F, e
    <2>3. F = [o \in 0..BufferLen - 1 |-> F[o]]
      BY <2>1, <2>2, Zenon
    <2> QED BY <2>3, Zenon DEF IsBuffer
  <1> QED BY <1>2, <1>3, <1>4, Zenon

LEMMA GenerateInv ==
    ASSUME KeysInv, BuiltinKdfGenerate \/ WolfsslKdfGenerate
    PROVE  KeysInv'
  <1>1. result = "running" /\ todo # <<>> /\ Job.op = "generate"
    BY Zenon DEF BuiltinKdfGenerate, WolfsslKdfGenerate, Running
  <1>2. policy.master_keys # <<>>
    <2>1. ASSUME policy.master_keys = <<>> PROVE FALSE
      BY <1>1, <2>1, NoKeysJob
    <2> QED BY <2>1
  <1>3. Job.off \in Int /\ Job.len \in Int
    <2>1. Job \in Jobs
      BY <1>1, <1>2, NextCall, Zenon
    <2> QED BY <1>1, <2>1 DEF Jobs
  <1> DEFINE F == Filled(tmp_key, Job.label, key, Job.off, Job.len)
  <1>4. /\ tmp_key' = F /\ kdfs' = kdfs /\ todo' = Tail(todo)
        /\ policy' = policy /\ key' = key /\ result' = result
        /\ session' = session /\ faults' = faults /\ IsBuffer(F)
    <2>1. IsBuffer(tmp_key)
      BY Zenon DEF KeysInv
    <2>2. /\ Written(Job.label, Job.off, Job.len) = F
          /\ Job.len = 0 => F = tmp_key
          /\ IsBuffer(F)
      BY <1>3, <2>1, WrittenIsFilled, Zenon
    <2> HIDE DEF F
    <2>3. CASE BuiltinKdfGenerate
      BY <2>2, <2>3, Zenon DEF BuiltinKdfGenerate
    <2>4. CASE WolfsslKdfGenerate
      BY <2>2, <2>4, Zenon DEF WolfsslKdfGenerate
    <2> QED BY <2>3, <2>4, Zenon
  <1>5. PICK d \in SUBSET Slots : \E y :
           /\ Partial(key, d)
           /\ Effect(Job, Want(key), key, tmp_key, kdfs, d, y)
           /\ Ends(Tail(todo), Want(key), key, y, Full)
    BY <1>1, <1>2, NextCall, Zenon
  <1>6. PICK y : /\ Effect(Job, Want(key), key, tmp_key, kdfs, d, y)
                 /\ Ends(Tail(todo), Want(key), key, y, Full)
    BY <1>5, Zenon
  <1>7. y = State(F, kdfs, d)
    BY <1>1, <1>6, Zenon DEF Effect
  <1> HIDE DEF F
  <1>8. Ends(Tail(todo), Want(key), key, State(tmp_key', kdfs', d), Full)
    BY <1>4, <1>6, <1>7, Zenon
  <1>9. /\ SessionOk' /\ Len(session') \in {key - 1, key}
        /\ \A m \in 1..key - 1 : Correct(m)'
        /\ Partial(key, d)'
    BY <1>1, <1>2, <1>4, <1>5, SessionStays, Zenon
  <1>10. IsBuffer(tmp_key')
    BY <1>4, Zenon
  <1> QED BY <1>1, <1>2, <1>4, <1>8, <1>9, <1>10, GoesOn, Zenon

(* The session keys of every other master key stay as they are. *)
Recorded(m, slot, octets) ==
  /\ SessionOk' /\ Len(session') = m
  /\ \A i \in 1..m - 1 : \A s \in Slots : session'[i][s] = session[i][s]
  /\ \A s \in Slots :
       session'[m][s] = IF s = slot THEN octets
                        ELSE IF Len(session) = m THEN session[m][s] ELSE <<>>

LEMMA RecordFacts ==
    ASSUME SessionOk, NEW m \in Nat \ {0}, m = IF key = 0 THEN 1 ELSE key,
           Len(session) \in {m - 1, m},
           NEW slot \in Slots, NEW octets, Record(slot, octets)
    PROVE  Recorded(m, slot, octets)
  <1> DEFINE n == Len(session)
             old(i) == IF i <= n THEN session[i] ELSE Unset
             R == [i \in 1..m |-> [old(i) EXCEPT ![slot] = IF i = m THEN octets ELSE @]]
  <1>1. n \in Nat /\ (n = m \/ n = m - 1) /\ (IF m > n THEN m ELSE n) = m
    BY DEF SessionOk
  <1>2. session' = R
    BY <1>1, Zenon DEF Record
  <1>3. /\ DOMAIN Unset = Slots /\ \A s \in Slots : Unset[s] = <<>>
    BY Zenon DEF Unset
  <1> HIDE DEF n
  <1>4. ASSUME NEW i \in 1..m
        PROVE  /\ DOMAIN old(i) = Slots
               /\ i # m => i <= n /\ i \in 1..n
               /\ m <= n <=> n = m
    <2>1. i <= n => i \in 1..n
      BY <1>1
    <2>2. i # m => i <= n /\ i \in 1..n
      BY <1>1
    <2>3. m <= n <=> n = m
      BY <1>1
    <2>4. DOMAIN old(i) = Slots
      BY <1>3, <2>1, Zenon DEF SessionOk, n
    <2> QED BY <2>2, <2>3, <2>4, Zenon
  <1> HIDE DEF old
  <1>5. ASSUME NEW i \in 1..m
        PROVE  /\ DOMAIN R[i] = Slots
               /\ \A s \in Slots :
                    R[i][s] = IF s = slot /\ i = m THEN octets ELSE old(i)[s]
    <2>1. DOMAIN old(i) = Slots
      BY <1>4, Zenon
    <2>2. R[i] = [old(i) EXCEPT ![slot] = IF i = m THEN octets ELSE @]
      BY Zenon
    <2> HIDE DEF R
    <2> QED BY <2>1, <2>2
  <1>6. DOMAIN R = 1..m /\ Len(R) = m
    <2> DEFINE f(i) == [old(i) EXCEPT ![slot] = IF i = m THEN octets ELSE @]
    <2> HIDE DEF f
    <2>1. R = [i \in 1..m |-> f(i)]
      BY Zenon DEF f
    <2> HIDE DEF R
    <2> QED BY <2>1
  <1> HIDE DEF R
  <1>7. SessionOk' /\ Len(session') = m
    BY <1>2, <1>5, <1>6 DEF SessionOk
  <1>8. ASSUME NEW i \in 1..m - 1, NEW s \in Slots
        PROVE  session'[i][s] = session[i][s]
    <2>1. i \in 1..m /\ i # m
      OBVIOUS
    <2>2. old(i) = session[i]
      BY <1>4, <2>1, Zenon DEF old
    <2> QED BY <1>2, <1>5, <2>1, <2>2, Zenon
  <1>9. ASSUME NEW s \in Slots
        PROVE  session'[m][s] = IF s = slot THEN octets
                                ELSE IF n = m THEN session[m][s] ELSE <<>>
    <2>1. m \in 1..m
      OBVIOUS
    <2>2. old(m)[s] = IF n = m THEN session[m][s] ELSE <<>>
      BY <1>3, <1>4, <2>1, Zenon DEF old
    <2> QED BY <1>2, <1>5, <2>1, <2>2, Zenon
  <1> QED BY <1>7, <1>8, <1>9, Zenon DEF n, Recorded

(* A call that gives a context its key *)
LEMMA RecordInv ==
    ASSUME KeysInv, result = "running", policy.master_keys # <<>>,
           policy' = policy, key' = key, result' = result, faults' = faults,
           tmp_key' = tmp_key, kdfs' = kdfs, todo' = Tail(todo),
           NEW slot \in Slots, Record(slot, Want(key)[slot]),
           NEW d \in SUBSET Slots, Partial(key, d),
           Ends(Tail(todo), Want(key), key, State(tmp_key, kdfs, d \cup {slot}), Full)
    PROVE  KeysInv'
  <1>1. /\ SessionOk /\ key \in Nat \ {0} /\ Len(session) \in {key - 1, key}
        /\ \A m \in 1..key - 1 : Correct(m)
    <2>1. /\ key \in 1..Len(policy.master_keys) /\ SessionOk
          /\ Len(session) \in {key - 1, key} /\ \A m \in 1..key - 1 : Correct(m)
          /\ policy.master_keys \in Seq(MasterKeys)
      BY Zenon DEF KeysInv, Deriving, PolicyInv
    <2>2. Len(policy.master_keys) \in Nat
      BY <2>1
    <2>3. key \in Nat \ {0}
      BY <2>1, <2>2
    <2> QED BY <2>1, <2>3, Zenon
  <1> DEFINE octets == Want(key)[slot]
             e == d \cup {slot}
  <1>2. octets = KeyFor(slot, key)
    BY Zenon DEF Want
  <1> HIDE DEF octets
  <1>3. PICK k \in Nat \ {0} : k = key
    BY <1>1, Zenon
  <1>4. /\ SessionOk' /\ Len(session') = k
        /\ \A i \in 1..k - 1 : \A s \in Slots : session'[i][s] = session[i][s]
        /\ \A s \in Slots :
             session'[k][s] = IF s = slot THEN octets
                              ELSE IF Len(session) = k THEN session[k][s] ELSE <<>>
    <2>1. k = IF key = 0 THEN 1 ELSE key
      BY <1>3
    <2>2. Len(session) \in {k - 1, k}
      BY <1>1, <1>3, Zenon
    <2>3. Record(slot, octets)
      BY Zenon DEF octets
    <2>4. Recorded(k, slot, octets)
      BY <1>1, <2>1, <2>2, <2>3, RecordFacts, Zenon
    <2> QED BY <2>4, Zenon DEF Recorded
  <1>5. /\ \A s, m : KeyFor(s, m)' = KeyFor(s, m)
        /\ \A s : KeyFor(s, key)' = KeyFor(s, key)
    <2>1. \A s, m : KeyFor(s, m)' = KeyFor(s, m)
      BY <1>3, SamePolicy, Zenon
    <2>2. \A s : KeyFor(s, key)' = KeyFor(s, key)
      BY Zenon DEF KeyFor, HeaderKey
    <2> QED BY <2>1, <2>2, Zenon
  <1>6. ASSUME NEW m \in 1..key - 1
        PROVE  Correct(m)'
    BY <1>1, <1>3, <1>4, <1>5, Zenon DEF Correct
  <1>7. Partial(key, e)'
    <2>1. Len(session') = key'
      BY <1>3, <1>4, Zenon
    <2>2. ASSUME NEW s \in Slots
          PROVE  session'[key'][s] = IF s \in e THEN KeyFor(s, key)' ELSE <<>>
      <3>1. session'[key'][s] = IF s = slot THEN octets
                                ELSE IF Len(session) = key THEN session[key][s] ELSE <<>>
        BY <1>3, <1>4, Zenon
      <3>2. CASE s = slot
        BY <1>2, <1>5, <3>1, <3>2, Zenon
      <3>3. CASE s # slot /\ Len(session) = key
        <4>1. session[key][s] = IF s \in d THEN KeyFor(s, key) ELSE <<>>
          BY <3>3, Zenon DEF Partial
        <4> QED BY <1>5, <3>1, <3>3, <4>1, Zenon
      <3>4. CASE s # slot /\ Len(session) # key
        <4>1. s \notin e
          BY <3>4, Zenon DEF Partial
        <4> QED BY <3>1, <3>4, <4>1, Zenon
      <3> QED BY <3>2, <3>3, <3>4, Zenon
    <2> HIDE DEF e
    <2> QED BY <2>1, <2>2, Zenon DEF Partial
  <1>8. e \in SUBSET Slots
    OBVIOUS
  <1>9. IsBuffer(tmp_key') /\ Len(session') \in {key - 1, key}
    BY <1>3, <1>4, Zenon DEF KeysInv, IsBuffer
  <1>10. Ends(Tail(todo), Want(key), key, State(tmp_key', kdfs', e), Full)
    BY Zenon
  <1> HIDE DEF e
  <1> QED BY <1>4, <1>6, <1>7, <1>8, <1>9, <1>10, GoesOn, Zenon

LEMMA KeepInv ==
    ASSUME KeysInv, KeepStep
    PROVE  KeysInv'
  <1>1. /\ result = "running" /\ todo # <<>> /\ Job.op = "keep"
        /\ policy' = policy /\ key' = key /\ result' = result /\ faults' = faults
        /\ tmp_key' = tmp_key /\ kdfs' = kdfs /\ todo' = Tail(todo)
        /\ Record(Job.slot, [o \in 1..12 |-> tmp_key[Job.off + o - 1]])
    BY Zenon DEF KeepStep, Running
  <1>2. policy.master_keys # <<>>
    <2>1. ASSUME policy.master_keys = <<>> PROVE FALSE
      BY <1>1, <2>1, NoKeysJob
    <2> QED BY <2>1
  <1>3. PICK d \in SUBSET Slots : \E y :
           /\ Partial(key, d)
           /\ Effect(Job, Want(key), key, tmp_key, kdfs, d, y)
           /\ Ends(Tail(todo), Want(key), key, y, Full)
    BY <1>1, <1>2, NextCall, Zenon
  <1>4. PICK y : /\ Effect(Job, Want(key), key, tmp_key, kdfs, d, y)
                 /\ Ends(Tail(todo), Want(key), key, y, Full)
    BY <1>3, Zenon
  <1>5. /\ ReadsSalt(tmp_key, Job.off, Want(key)[Job.slot])
        /\ y = State(tmp_key, kdfs, d \cup {Job.slot})
    BY <1>1, <1>4, Zenon DEF Effect
  <1>6. Job.slot \in Slots
    <2>1. Job \in Jobs
      BY <1>1, <1>2, NextCall, Zenon
    <2> QED BY <1>1, <2>1 DEF Jobs
  <1>7. Record(Job.slot, Want(key)[Job.slot])
    BY <1>1, <1>5, Zenon DEF ReadsSalt
  <1> QED BY <1>1, <1>2, <1>3, <1>4, <1>5, <1>6, <1>7, RecordInv, Zenon

LEMMA SetUpInv ==
    ASSUME KeysInv, SetUpStep
    PROVE  KeysInv'
  <1> DEFINE octets == [o \in 1..Job.len |-> tmp_key[o - 1]]
  <1>1. /\ result = "running" /\ todo # <<>> /\ Job.op = "set_up"
        /\ policy' = policy /\ key' = key /\ faults' = faults
        /\ tmp_key' = tmp_key /\ kdfs' = kdfs /\ todo' = Tail(todo)
        /\ result' = IF key = 0 /\ todo' = <<>> THEN "ok" ELSE result
        /\ Record(Job.slot, octets)
    BY Zenon DEF SetUpStep, Running
  <1>2. CASE policy.master_keys # <<>>
    <2>1. PICK d \in SUBSET Slots : \E y :
             /\ Partial(key, d)
             /\ Effect(Job, Want(key), key, tmp_key, kdfs, d, y)
             /\ Ends(Tail(todo), Want(key), key, y, Full)
      BY <1>1, <1>2, NextCall, Zenon
    <2>2. PICK y : /\ Effect(Job, Want(key), key, tmp_key, kdfs, d, y)
                   /\ Ends(Tail(todo), Want(key), key, y, Full)
      BY <2>1, Zenon
    <2>3. /\ Reads(tmp_key, Job.len, Want(key)[Job.slot])
          /\ y = State(tmp_key, kdfs, d \cup {Job.slot})
      BY <1>1, <2>2, Zenon DEF Effect
    <2>4. Job.slot \in Slots
      <3>1. Job \in Jobs
        BY <1>1, <1>2, NextCall, Zenon
      <3> QED BY <1>1, <3>1 DEF Jobs
    <2>5. Record(Job.slot, Want(key)[Job.slot])
      BY <1>1, <2>3, Zenon DEF Reads
    <2>6. key # 0
      <3>1. key \in 1..Len(policy.master_keys)
        BY <1>1, <1>2, Zenon DEF KeysInv, Deriving
      <3> QED BY <3>1
    <2>7. result' = result
      BY <1>1, <2>6, Zenon
    <2> HIDE DEF octets
    <2> QED BY <1>1, <1>2, <2>1, <2>2, <2>3, <2>4, <2>5, <2>7, RecordInv, Zenon
  <1>3. CASE policy.master_keys = <<>>
    <2>1. /\ Job \in Jobs /\ Tail(todo) \in Seq(Jobs)
          /\ \A i \in 1..Len(Tail(todo)) : Tail(todo)[i].op = "set_up"
      BY <1>1, <1>3, NoKeysJob, Zenon
    <2>2. Job.slot \in Slots
      BY <1>1, <2>1 DEF Jobs
    <2>3. NoKeys /\ SessionOk /\ PolicyInv(policy) /\ faults \in Nat /\ IsBuffer(tmp_key)
      BY <1>1, <1>3, Zenon DEF KeysInv
    <2>4. SessionOk' /\ Len(session') \in {0, 1}
      <3>1. /\ 1 \in Nat \ {0} /\ 1 = (IF key = 0 THEN 1 ELSE key)
            /\ Len(session) \in {1 - 1, 1}
        BY <2>3 DEF NoKeys
      <3> HIDE DEF octets
      <3>2. Recorded(1, Job.slot, octets)
        BY <1>1, <2>2, <2>3, <3>1, RecordFacts, Zenon
      <3> QED BY <3>2, Zenon DEF Recorded
    <2>5. PolicyInv(policy)' /\ PolicyValidate(policy)' /\ IsBuffer(tmp_key)'
      BY <1>1, <2>3, Zenon DEF KeysInv
    <2>6. NoKeys'
      BY <1>1, <2>1, <2>3, <2>4, Zenon DEF NoKeys
    <2>7. result' \in {"ok", "running"}
      BY <1>1
    <2>8. ValidPolicyStarts'
      BY <2>7 DEF ValidPolicyStarts
    <2>9. SessionKeysExact'
      BY <1>1, <1>3, Zenon DEF SessionKeysExact
    <2>10. NothingLeftBehind'
      BY <2>6, Zenon DEF NothingLeftBehind, NoKeys
    <2>11. result' # "none" /\ faults' \in Nat /\ policy.master_keys' = <<>>
      BY <1>1, <1>3, <2>3, <2>7
    <2> QED BY <2>4, <2>5, <2>6, <2>8, <2>9, <2>10, <2>11, Zenon DEF KeysInv, NoKeys
  <1> QED BY <1>2, <1>3

(* srtp_stream_add() returns. *)
LEMMA ReturnInv ==
    ASSUME PolicyInv(policy), NEW status, status \notin {"none", "running"},
           Return(status), SessionOk', SessionKeysExact', ValidPolicyStarts',
           status = "ok" => kdfs' = {}, faults' \in Nat
    PROVE  KeysInv'
  <1>1. /\ result' = status /\ key' = 0 /\ tmp_key' = ZeroKey /\ policy' = policy
    BY Zenon DEF Return
  <1>2. IsBuffer(tmp_key)'
    <2>1. \A o \in 0..BufferLen - 1 : ZeroKey[o] = Zero
      BY Zenon DEF ZeroKey
    <2>2. ZeroKey = [o \in 0..BufferLen - 1 |-> ZeroKey[o]]
      BY <2>1, Zenon DEF ZeroKey
    <2> QED BY <1>1, <2>2, Zenon DEF IsBuffer
  <1>3. NothingLeftBehind'
    BY <1>1, Zenon DEF NothingLeftBehind
  <1>4. result' # "none" /\ result' # "running" /\ PolicyInv(policy)'
    BY <1>1
  <1> QED BY <1>1, <1>2, <1>3, <1>4, Zenon DEF KeysInv

LEMMA CallFailsInv ==
    ASSUME KeysInv, CallFails
    PROVE  KeysInv'
  <1>1. /\ Return("init_fail") /\ session' = session /\ faults' = faults + 1
        /\ result' = "init_fail" /\ policy' = policy
    BY Zenon DEF CallFails, Return, Fault
  <1>2. faults \in Nat /\ SessionOk /\ SessionKeysExact /\ PolicyInv(policy)
    BY Zenon DEF KeysInv
  <1>3. faults' \in Nat /\ faults' > 0
    BY <1>1, <1>2
  <1>4. SessionOk'
    BY <1>1, <1>2, Zenon DEF SessionOk
  <1>5. SessionKeysExact'
    <2>1. \A slot, m : KeyFor(slot, m)' = KeyFor(slot, m)
      BY <1>1, SameKeys, Zenon
    <2>2. result' # "ok"
      BY <1>1
    <2> QED BY <1>1, <1>2, <2>1, <2>2, Zenon DEF SessionKeysExact
  <1>6. ValidPolicyStarts'
    BY <1>1, <1>3 DEF ValidPolicyStarts
  <1>7. "init_fail" \notin {"none", "running"} /\ "init_fail" # "ok"
    OBVIOUS
  <1> QED BY <1>1, <1>2, <1>3, <1>4, <1>5, <1>6, <1>7, ReturnInv, Zenon

(* After its last call a master key has all of its contexts. *)
LEMMA KdfClearInv ==
    ASSUME KeysInv, KdfClearStep
    PROVE  KeysInv'
  <1>1. /\ result = "running" /\ todo # <<>> /\ Job.op = "kdf_clear"
        /\ kdfs' = kdfs \ {Job.kdf} /\ session' = session /\ faults' = faults
    BY Zenon DEF KdfClearStep, Running
  <1>2. policy.master_keys # <<>>
    <2>1. ASSUME policy.master_keys = <<>> PROVE FALSE
      BY <1>1, <2>1, NoKeysJob
    <2> QED BY <2>1
  <1>3. PICK d \in SUBSET Slots : \E y :
           /\ Partial(key, d)
           /\ Effect(Job, Want(key), key, tmp_key, kdfs, d, y)
           /\ Ends(Tail(todo), Want(key), key, y, Full)
    BY <1>1, <1>2, NextCall, Zenon
  <1>4. PICK y : /\ Effect(Job, Want(key), key, tmp_key, kdfs, d, y)
                 /\ Ends(Tail(todo), Want(key), key, y, Full)
    BY <1>3, Zenon
  <1>5. y = State(tmp_key, kdfs', d)
    BY <1>1, <1>4, Zenon DEF Effect
  <1>6. CASE Tail(todo) # <<>>
    <2>1. /\ policy' = policy /\ key' = key /\ tmp_key' = tmp_key
          /\ result' = result /\ todo' = Tail(todo)
      BY <1>6, Zenon DEF KdfClearStep
    <2>2. Ends(Tail(todo), Want(key), key, State(tmp_key', kdfs', d), Full)
      BY <1>4, <1>5, <2>1, Zenon
    <2>3. /\ SessionOk' /\ Len(session') \in {key - 1, key}
          /\ \A m \in 1..key - 1 : Correct(m)'
          /\ Partial(key, d)'
      BY <1>1, <1>2, <1>3, <2>1, SessionStays, Zenon
    <2>4. IsBuffer(tmp_key')
      BY <2>1, Zenon DEF KeysInv
    <2> QED BY <1>1, <1>2, <2>1, <2>2, <2>3, <2>4, GoesOn, Zenon
  <1>7. CASE Tail(todo) = <<>>
    <2>1. kdfs' = {} /\ d = Full
      <3>1. PICK c : Runs(<<>>, Want(key), key, y, State(c, {}, Full))
        BY <1>4, <1>7, Zenon DEF Ends
      <3>2. State(c, {}, Full) = State(tmp_key, kdfs', d)
        BY <1>5, <3>1, RunsNothing, Zenon
      <3> QED BY <3>2 DEF State
    <2>2. Len(session) = key /\ Correct(key)
      BY <1>3, <2>1, FullCorrect, Zenon
    <2>3. /\ PolicyInv(policy) /\ PolicyValidate(policy) /\ SessionOk /\ faults' \in Nat
          /\ key \in 1..Len(policy.master_keys) /\ \A m \in 1..key - 1 : Correct(m)
          /\ policy.master_keys \in Seq(MasterKeys)
      BY <1>1, <1>2, Zenon DEF KeysInv, Deriving, PolicyInv
    <2>4. Len(policy.master_keys) \in Nat /\ key \in Nat /\ key <= Len(policy.master_keys)
      <3>1. Len(policy.master_keys) \in Nat
        BY <2>3
      <3> QED BY <2>3, <3>1
    <2>5. ASSUME NEW m \in 1..key
          PROVE  Correct(m)
      <3>1. m = key \/ m \in 1..key - 1
        BY <2>4
      <3> QED BY <2>2, <2>3, <3>1, Zenon DEF Correct
    <2>6. SessionOk'
      BY <1>1, <2>3, Zenon DEF SessionOk
    <2>7. policy' = policy
      BY <1>7, Zenon DEF KdfClearStep, StartKey, Return
    <2>8. \A m \in 1..key : Correct(m)'
      <3>1. \A slot, m : KeyFor(slot, m)' = KeyFor(slot, m)
        BY <2>7, SameKeys, Zenon
      <3> QED BY <1>1, <2>5, <3>1, Zenon DEF Correct
    <2>9. CASE key < Len(policy.master_keys)
      <3>1. StartKey(key + 1)
        BY <1>7, <2>9, Zenon DEF KdfClearStep
      <3>2. PICK k : k = key + 1
        OBVIOUS
      <3>3. k \in 1..Len(policy.master_keys) /\ k - 1 = key
        BY <2>4, <2>9, <3>2
      <3>4. Len(session') = k - 1
        BY <1>1, <2>2, <3>3, Zenon
      <3> QED BY <1>2, <2>1, <2>3, <2>6, <2>8, <3>1, <3>2, <3>3, <3>4, StartKeyInv, Zenon
    <2>10. CASE ~(key < Len(policy.master_keys))
      <3>1. Return("ok")
        BY <1>7, <2>10, Zenon DEF KdfClearStep
      <3>2. result' = "ok"
        BY <3>1, Zenon DEF Return
      <3>3. key = Len(policy.master_keys)
        BY <2>4, <2>10
      <3>4. SessionKeysExact'
        BY <1>1, <2>2, <2>7, <2>8, <3>3, Zenon DEF SessionKeysExact, Correct
      <3>5. ValidPolicyStarts'
        BY <3>2 DEF ValidPolicyStarts
      <3>6. "ok" \notin {"none", "running"}
        OBVIOUS
      <3> QED BY <2>1, <2>3, <2>6, <3>1, <3>4, <3>5, <3>6, ReturnInv, Zenon
    <2> QED BY <2>9, <2>10, Zenon
  <1> QED BY <1>6, <1>7

LEMMA EmptySession ==
    ASSUME session' = <<>>, result' # "ok"
    PROVE  SessionOk' /\ SessionKeysExact' /\ Len(session') = 0
  <1>1. Len(session') = 0 /\ DOMAIN session' = 1..0 /\ 0 \in Nat /\ 1..0 = {}
    OBVIOUS
  <1>2. SessionOk'
    BY <1>1, Zenon DEF SessionOk
  <1>3. SessionKeysExact'
    BY <1>1, Zenon DEF SessionKeysExact
  <1> QED BY <1>1, <1>2, <1>3

LEMMA AddStreamInv ==
    ASSUME KeysInv, AddStream
    PROVE  KeysInv'
  <1>1. /\ result = "none" /\ kdfs' = {} /\ session' = <<>> /\ faults' = faults
    BY Zenon DEF AddStream, Idle
  <1>2. PolicyInv(policy) /\ faults' \in Nat /\ key = 0 /\ tmp_key = ZeroKey
    <2>1. "none" # "running"
      OBVIOUS
    <2> QED BY <1>1, <2>1, Zenon DEF KeysInv
  <1>3. ASSUME NEW status \in {"invalid", "fail"}, Return(status),
               status = "fail" => ~Gcm
        PROVE  KeysInv'
    <2>1. result' = status /\ status # "ok" /\ status \notin {"none", "running"}
          /\ status \notin {"bad_param", "init_fail"}
      BY <1>3 DEF Return
    <2>2. ValidPolicyStarts'
      BY <1>3, <2>1 DEF ValidPolicyStarts
    <2>3. SessionOk' /\ SessionKeysExact'
      BY <1>1, <2>1, EmptySession, Zenon
    <2> QED BY <1>2, <1>3, <2>1, <2>2, <2>3, ReturnInv, Zenon
  <1>4. CASE ~PolicyValidate(policy)
    <2>1. Return("invalid") /\ "invalid" \in {"invalid", "fail"} /\ "invalid" # "fail"
      BY <1>4 DEF AddStream
    <2> QED BY <1>3, <2>1, Zenon
  <1>5. CASE PolicyValidate(policy) /\ ~CiphersRegistered(policy)
    <2>1. Return("fail") /\ "fail" \in {"invalid", "fail"} /\ ~Gcm
      BY <1>5 DEF AddStream, CiphersRegistered
    <2> QED BY <1>3, <2>1, Zenon
  <1>6. CASE /\ PolicyValidate(policy) /\ CiphersRegistered(policy)
             /\ policy.master_keys # <<>>
    <2>1. StartKey(1)
      BY <1>6, Zenon DEF AddStream
    <2>2. 1 \in 1..Len(policy.master_keys) /\ 1 - 1 = 0 /\ 1..1 - 1 = {}
      <3>1. policy.master_keys \in Seq(MasterKeys)
        BY <1>2, Zenon DEF PolicyInv
      <3> QED BY <1>6, <3>1
    <2>3. KeyAcceptable(policy, 1)
      BY <1>2, <1>6, <2>2, ValidIsAcceptable, Zenon
    <2>4. result' = "running"
      BY <2>1, <2>3, Zenon DEF StartKey
    <2>5. SessionOk' /\ Len(session') = 1 - 1
      <3>1. result' # "ok"
        BY <2>4
      <3> QED BY <1>1, <2>2, <3>1, EmptySession, Zenon
    <2>6. \A k \in 1..1 - 1 : Correct(k)'
      BY <2>2, Zenon
    <2> QED BY <1>1, <1>2, <1>6, <2>1, <2>2, <2>5, <2>6, StartKeyInv, Zenon
  <1>7. CASE /\ PolicyValidate(policy) /\ CiphersRegistered(policy)
             /\ policy.master_keys = <<>>
    <2>1. /\ result' = "running" /\ todo' = InitNoKeys(policy)
          /\ policy' = policy /\ key' = key /\ tmp_key' = tmp_key
      BY <1>7, Zenon DEF AddStream
    <2>2. /\ InitNoKeys(policy) \in Seq(Jobs)
          /\ \A i \in 1..Len(InitNoKeys(policy)) : InitNoKeys(policy)[i].op = "set_up"
      <3> DEFINE S == {j \in Jobs : j.op = "set_up"}
      <3>1. ASSUME NEW slot \in Slots
            PROVE  SetUp(slot, 0) \in Seq(S)
        <4>1. [op |-> "set_up", slot |-> slot, len |-> 0] \in S
          BY DEF Jobs
        <4> QED BY <4>1 DEF SetUp
      <3>2. <<>> \in Seq(S) /\ \A a, b \in Seq(S) : a \o b \in Seq(S)
        OBVIOUS
      <3>3. /\ "rtp_cipher" \in Slots /\ "rtp_auth" \in Slots
            /\ "rtp_xtn_hdr_cipher" \in Slots /\ "rtcp_cipher" \in Slots
            /\ "rtcp_auth" \in Slots
        BY DEF Slots
      <3> HIDE DEF S
      <3>4. InitNoKeys(policy) \in Seq(S)
        BY <3>1, <3>2, <3>3, Zenon DEF InitNoKeys
      <3>5. \A s \in Seq(S) : \A i \in 1..Len(s) : s[i] \in S
        OBVIOUS
      <3>6. S \subseteq Jobs /\ \A j \in S : j.op = "set_up"
        BY Zenon DEF S
      <3>7. \A s \in Seq(S) : s \in Seq(Jobs)
        BY <3>6
      <3> QED BY <3>4, <3>5, <3>6, <3>7, Zenon
    <2>3. SessionOk' /\ SessionKeysExact' /\ Len(session') = 0
      <3>1. result' # "ok"
        BY <2>1
      <3> QED BY <1>1, <3>1, EmptySession, Zenon
    <2>4. NoKeys'
      <3>1. 0 \in {0, 1}
        OBVIOUS
      <3> QED BY <1>1, <1>2, <2>1, <2>2, <2>3, <3>1, Zenon DEF NoKeys
    <2>5. ValidPolicyStarts' /\ NothingLeftBehind'
      BY <2>1 DEF ValidPolicyStarts, NothingLeftBehind
    <2>6. IsBuffer(tmp_key)' /\ PolicyInv(policy)' /\ PolicyValidate(policy)'
      BY <1>2, <1>7, <2>1, Zenon DEF KeysInv
    <2>7. result' # "none" /\ policy.master_keys' = <<>>
      BY <1>7, <2>1
    <2> QED BY <1>2, <2>1, <2>3, <2>4, <2>5, <2>6, <2>7, Zenon DEF KeysInv
  <1> QED BY <1>4, <1>5, <1>6, <1>7, Zenon

LEMMA KeysInit == Init => KeysInv
  <1> SUFFICES ASSUME Init PROVE KeysInv
    OBVIOUS
  <1>1. /\ policy = PolicyCreate /\ key = 0 /\ tmp_key = ZeroKey /\ kdfs = {}
        /\ session = <<>> /\ result = "none" /\ faults = 0
    BY Zenon DEF Init
  <1>2. /\ faults \in Nat /\ Len(session) = 0 /\ DOMAIN session = 1..0
        /\ 0 \in Nat /\ 1..0 = {}
        /\ result \notin {"ok", "running", "fail", "init_fail", "bad_param"}
    BY <1>1
  <1>3. IsBuffer(tmp_key)
    <2>1. \A o \in 0..BufferLen - 1 : ZeroKey[o] = Zero
      BY Zenon DEF ZeroKey
    <2>2. ZeroKey = [o \in 0..BufferLen - 1 |-> ZeroKey[o]]
      BY <2>1, Zenon DEF ZeroKey
    <2> QED BY <1>1, <2>2, Zenon DEF IsBuffer
  <1>4. SessionOk
    BY <1>2, Zenon DEF SessionOk
  <1>5. ValidPolicyStarts /\ NothingLeftBehind
    BY <1>1, <1>2 DEF ValidPolicyStarts, NothingLeftBehind
  <1>6. SessionKeysExact
    BY <1>2 DEF SessionKeysExact
  <1>7. PolicyInv(policy)
    BY <1>1, CreatePolicy, Zenon
  <1>8. result # "running"
    BY <1>2
  <1> QED BY <1>1, <1>2, <1>3, <1>4, <1>5, <1>6, <1>7, <1>8, Zenon DEF KeysInv

(* The application sets its policy, or removes the stream. *)
LEMMA ApplicationInv ==
    ASSUME KeysInv, Setters \/ RemoveStream
    PROVE  KeysInv'
  <1>1. CASE Setters
    <2>1. /\ result = "none" /\ key' = key /\ tmp_key' = tmp_key /\ kdfs' = kdfs
          /\ session' = session /\ result' = result /\ faults' = faults
      BY <1>1, Zenon DEF Setters, Apply, Idle
    <2>2. /\ result' \notin {"ok", "running", "fail", "init_fail", "bad_param"}
          /\ result' = "none" /\ result # "running"
      BY <2>1
    <2>3. /\ faults' \in Nat /\ IsBuffer(tmp_key)' /\ key' = 0 /\ tmp_key' = ZeroKey
          /\ kdfs' = {} /\ session' = <<>> /\ PolicyInv(policy)
      BY <2>1, <2>2, Zenon DEF KeysInv
    <2>4. PolicyInv(policy)'
      BY <1>1, <2>3, SettersKeepPolicy, Zenon
    <2>5. SessionOk' /\ SessionKeysExact'
      <3>1. result' # "ok"
        BY <2>2
      <3> QED BY <2>3, <3>1, EmptySession, Zenon
    <2>6. ValidPolicyStarts' /\ NothingLeftBehind'
      BY <2>2 DEF ValidPolicyStarts, NothingLeftBehind
    <2>7. result' # "running"
      BY <2>2
    <2> QED BY <2>2, <2>3, <2>4, <2>5, <2>6, <2>7, Zenon DEF KeysInv
  <1>2. CASE RemoveStream
    <2>1. /\ result \notin {"none", "running"} /\ key' = key /\ tmp_key' = tmp_key
          /\ kdfs' = {} /\ session' = <<>> /\ result' = "none" /\ faults' = faults
          /\ policy' = policy
      BY <1>2, Zenon DEF RemoveStream
    <2>2. /\ result' \notin {"ok", "running", "fail", "init_fail", "bad_param"}
          /\ result # "running"
      BY <2>1
    <2>3. /\ faults' \in Nat /\ IsBuffer(tmp_key)' /\ key' = 0 /\ tmp_key' = ZeroKey
          /\ PolicyInv(policy)'
      BY <2>1, <2>2, Zenon DEF KeysInv
    <2>4. SessionOk' /\ SessionKeysExact'
      <3>1. result' # "ok"
        BY <2>2
      <3> QED BY <2>1, <3>1, EmptySession, Zenon
    <2>5. ValidPolicyStarts' /\ NothingLeftBehind'
      BY <2>1, <2>2 DEF ValidPolicyStarts, NothingLeftBehind
    <2>6. result' # "running"
      BY <2>2
    <2> QED BY <2>1, <2>3, <2>4, <2>5, <2>6, Zenon DEF KeysInv
  <1> QED BY <1>1, <1>2

LEMMA KeysStep ==
    ASSUME KeysInv, [Next]_vars
    PROVE  KeysInv'
  <1>1. CASE UNCHANGED vars
    <2>1. /\ policy' = policy /\ key' = key /\ todo' = todo /\ tmp_key' = tmp_key
          /\ kdfs' = kdfs /\ session' = session /\ result' = result /\ faults' = faults
      BY <1>1 DEF vars
    <2>2. \A slot, m : KeyFor(slot, m)' = KeyFor(slot, m)
      BY <2>1, SameKeys, Zenon
    <2>3. \A slot : KeyFor(slot, key)' = KeyFor(slot, key)
      BY <2>1, Zenon DEF KeyFor, HeaderKey
    <2>4. \A m : Correct(m) => Correct(m)'
      BY <2>1, <2>2, Zenon DEF Correct
    <2>5. \A d : Partial(key, d) => Partial(key, d)'
      BY <2>1, <2>3, Zenon DEF Partial
    <2>6. Want(key)' = Want(key) /\ Full' = Full
      <3>1. PICK k : k = key
        OBVIOUS
      <3> QED BY <2>1, <3>1, SamePolicy, Zenon
    <2>7. Deriving => Deriving'
      BY <2>1, <2>4, <2>5, <2>6, Zenon DEF Deriving
    <2>8. SessionKeysExact'
      BY <2>1, <2>2, Zenon DEF KeysInv, SessionKeysExact
    <2>9. SessionOk' /\ ValidPolicyStarts' /\ NothingLeftBehind' /\ (NoKeys => NoKeys')
      BY <2>1, Zenon DEF KeysInv, SessionOk, ValidPolicyStarts, NothingLeftBehind, NoKeys
    <2> QED BY <2>1, <2>7, <2>8, <2>9, Zenon DEF KeysInv
  <1>2. ASSUME Next PROVE KeysInv'
    BY <1>2, ApplicationInv, AddStreamInv, KdfInitInv, GenerateInv, SetUpInv, KeepInv,
       KdfClearInv, CallFailsInv, Zenon DEF Next, BuiltinKdfInit, WolfsslKdfInit
  <1> QED BY <1>1, <1>2

LEMMA KeysAlways == Spec => []KeysInv
  <1>1. Init => KeysInv
    BY KeysInit
  <1>2. KeysInv /\ [Next]_vars => KeysInv'
    BY KeysStep
  <1> QED BY <1>1, <1>2, PTL DEF Spec

----------------------------------------------------------------------------
(* Theorems *)

(* Whatever the application passes to the setters, in any order: once        *)
(* srtp_policy_validate() has accepted a policy, srtp_stream_init_keys() and *)
(* the key derivation function accept its keys.                              *)
THEOREM ValidPoliciesStart == Spec => []ValidPolicyStarts
  <1>1. KeysInv => ValidPolicyStarts
    BY DEF KeysInv
  <1> QED BY <1>1, KeysAlways, PTL

(* For every number of master keys and every policy, the contexts of a       *)
(* stream work with exactly the octets derived for them, although all of     *)
(* them pass through the one buffer of srtp_stream_init_keys().              *)
THEOREM SessionKeysAreExact == Spec => []SessionKeysExact
  <1>1. KeysInv => SessionKeysExact
    BY DEF KeysInv
  <1> QED BY <1>1, KeysAlways, PTL

(* Wherever the derivation fails, and however often it is tried again, no    *)
(* octet of a key stays in the buffer, and a stream that is added leaves no  *)
(* key derivation function in use.                                           *)
THEOREM NothingStaysBehind == Spec => []NothingLeftBehind
  <1>1. KeysInv => NothingLeftBehind
    BY DEF KeysInv
  <1> QED BY <1>1, KeysAlways, PTL

=============================================================================
