------------------------------- MODULE Policy -------------------------------
(***************************************************************************)
(* srtp_policy_t (srtp/srtp_policy.c): the crypto policies of the profiles, *)
(* the setters an application calls in any order, and the validation that   *)
(* srtp_create(), srtp_stream_add() and srtp_update() run.                  *)
(*                                                                          *)
(* A setter is an operator from a policy to [status, policy]: it either     *)
(* returns "ok" with the changed policy or "bad_param" with the policy it   *)
(* was given.                                                               *)
(***************************************************************************)
EXTENDS Integers, Sequences

CONSTANTS
  Gcm,             \* whether the build has AES-GCM (#ifdef GCM)
  MaxMkiLen,       \* SRTP_MAX_MKI_LEN
  MaxMasterKeys,   \* SRTP_MAX_NUM_MASTER_KEYS
  MaxEncIds        \* SRTP_MAX_NUM_ENC_HDR_XTND_IDS

ASSUME PolicyAssumption ==
  /\ Gcm \in BOOLEAN
  /\ MaxMkiLen \in Nat \ {0}
  /\ MaxMasterKeys \in Nat \ {0}
  /\ MaxEncIds \in Nat \ {0}

MaxKeyLen == 64  \* SRTP_MAX_KEY_LEN

----------------------------------------------------------------------------
(* Crypto policies.  A key length is the key's and the salt's together. *)

Crypto(cipher, key_len, auth, auth_key_len, tag_len, serv) ==
  [cipher_type |-> cipher, cipher_key_len |-> key_len, auth_type |-> auth,
   auth_key_len |-> auth_key_len, auth_tag_len |-> tag_len, sec_serv |-> serv]

Conf == {"conf"}
Auth == {"auth"}
Both == {"conf", "auth"}

RtpDefault  == Crypto("aes_icm_128", 30, "hmac", 20, 10, Both)
RtcpDefault == Crypto("aes_icm_128", 30, "hmac", 20, 10, Both)
AesCm128HmacSha1_32 == Crypto("aes_icm_128", 30, "hmac", 20, 4, Both)
NullCipherHmacSha1_80 == Crypto("null_cipher", 30, "hmac", 20, 10, Auth)
NullCipherHmacNull == Crypto("null_cipher", 0, "null_auth", 0, 0, {})
AesCm256HmacSha1_80 == Crypto("aes_icm_256", 46, "hmac", 20, 10, Both)
AesCm256HmacSha1_32 == Crypto("aes_icm_256", 46, "hmac", 20, 4, Both)
AesCm192HmacSha1_80 == Crypto("aes_icm_192", 38, "hmac", 20, 10, Both)
AesCm192HmacSha1_32 == Crypto("aes_icm_192", 38, "hmac", 20, 4, Both)
AesGcm128_16Auth == Crypto("aes_gcm_128", 28, "null_auth", 0, 16, Both)
AesGcm256_16Auth == Crypto("aes_gcm_256", 44, "null_auth", 0, 16, Both)

Profiles == {"null_null", "aes128_cm_sha1_80", "aes128_cm_sha1_32",
             "aes192_cm_sha1_80", "aes192_cm_sha1_32", "aes256_cm_sha1_80",
             "aes256_cm_sha1_32", "null_sha1_80", "null_sha1_32",
             "aead_aes_128_gcm", "aead_aes_256_gcm"}

GcmProfiles == {"aead_aes_128_gcm", "aead_aes_256_gcm"}

Supported(profile) == profile \in Profiles /\ (profile \in GcmProfiles => Gcm)

FromProfileForRtp(profile) ==
  CASE profile = "null_null"         -> NullCipherHmacNull
    [] profile = "aes128_cm_sha1_80" -> RtpDefault
    [] profile = "aes128_cm_sha1_32" -> AesCm128HmacSha1_32
    [] profile = "aes192_cm_sha1_80" -> AesCm192HmacSha1_80
    [] profile = "aes192_cm_sha1_32" -> AesCm192HmacSha1_32
    [] profile = "aes256_cm_sha1_80" -> AesCm256HmacSha1_80
    [] profile = "aes256_cm_sha1_32" -> AesCm256HmacSha1_32
    [] profile = "null_sha1_80"      -> NullCipherHmacSha1_80
    [] profile = "null_sha1_32"      ->
         [NullCipherHmacSha1_80 EXCEPT !.auth_tag_len = 4]
    [] profile = "aead_aes_128_gcm"  -> AesGcm128_16Auth
    [] profile = "aead_aes_256_gcm"  -> AesGcm256_16Auth

(* SRTCP does not honour a request for 32-bit tags. *)
FromProfileForRtcp(profile) ==
  CASE profile = "null_null"                           -> NullCipherHmacNull
    [] profile \in {"aes128_cm_sha1_80", "aes128_cm_sha1_32"} -> RtpDefault
    [] profile \in {"aes192_cm_sha1_80", "aes192_cm_sha1_32"} ->
         AesCm192HmacSha1_80
    [] profile \in {"aes256_cm_sha1_80", "aes256_cm_sha1_32"} ->
         AesCm256HmacSha1_80
    [] profile \in {"null_sha1_80", "null_sha1_32"} -> NullCipherHmacSha1_80
    [] profile = "aead_aes_128_gcm"                     -> AesGcm128_16Auth
    [] profile = "aead_aes_256_gcm"                     -> AesGcm256_16Auth

MasterKeyLength(profile) ==
  CASE profile \in {"reserved", "null_null"}                 -> 0
    [] profile \in {"aes192_cm_sha1_80", "aes192_cm_sha1_32"} -> 24
    [] profile \in {"aes256_cm_sha1_80", "aes256_cm_sha1_32",
                    "aead_aes_256_gcm"}                       -> 32
    [] OTHER                                                  -> 16

MasterSaltLength(profile) ==
  CASE profile \in {"reserved", "null_null"} -> 0
    [] profile \in GcmProfiles               -> 12
    [] OTHER                                 -> 14

IsGcm(crypto) == crypto.cipher_type \in {"aes_gcm_128", "aes_gcm_256"}

----------------------------------------------------------------------------
(* The policy and its setters. *)

ZeroCrypto == Crypto("null_cipher", 0, "null_auth", 0, 0, {})

(* srtp_policy_create() returns zeroed memory. *)
PolicyCreate ==
  [profile |-> "reserved", ssrc |-> "undefined",
   rtp |-> ZeroCrypto, rtcp |-> ZeroCrypto,
   master_keys |-> <<>>, use_mki |-> FALSE, mki_size |-> 0,
   window_size |-> 0, allow_repeat_tx |-> FALSE,
   enc_xtn_hdr |-> <<>>, use_cryptex |-> FALSE,
   rcc_mode |-> 0, roc_tx_rate |-> 0]

Ok(p)       == [status |-> "ok", policy |-> p]
Refused(p)  == [status |-> "bad_param", policy |-> p]
If(test, p, changed) == IF test THEN Ok(changed) ELSE Refused(p)

SetSsrc(p, ssrc) ==
  If(ssrc \in {"any_inbound", "any_outbound", "specific"}, p,
     [p EXCEPT !.ssrc = ssrc])

SetProfile(p, profile) ==
  IF Supported(profile)
  THEN Ok([p EXCEPT !.rtp = FromProfileForRtp(profile),
                    !.rtcp = FromProfileForRtcp(profile),
                    !.profile = profile])
  ELSE Refused(p)

SetSecServ(p, rtp_serv, rtcp_serv) ==
  If(p.profile # "reserved", p,
     [p EXCEPT !.rtp.sec_serv = rtp_serv, !.rtcp.sec_serv = rtcp_serv])

UseMki(p, mki_len) ==
  If(mki_len <= MaxMkiLen, p,
     [p EXCEPT !.use_mki = mki_len # 0, !.mki_size = mki_len])

SetRccModeTxRate(p, mode, rate) ==
  If(mode \in 0..3 /\ (mode # 0 => rate # 0), p,
     [p EXCEPT !.rcc_mode = mode, !.roc_tx_rate = rate])

AddKey(p, key_len, salt_len, mki_len) ==
  If(/\ IF p.use_mki THEN mki_len = p.mki_size
                     ELSE mki_len = 0 /\ p.master_keys = <<>>
     /\ key_len + salt_len <= MaxKeyLen
     /\ mki_len <= MaxMkiLen
     /\ Len(p.master_keys) < MaxMasterKeys,
     p,
     [p EXCEPT !.master_keys =
        Append(@, [key_len |-> key_len, salt_len |-> salt_len,
                   mki_id_len |-> mki_len])])

RemoveKeys(p) == Ok([p EXCEPT !.master_keys = <<>>])

ValidWindowSize(n) == n = 0 \/ n \in 64 .. 32767

SetWindowSize(p, n) == If(ValidWindowSize(n), p, [p EXCEPT !.window_size = n])

SetAllowRepeatTx(p, allow) == Ok([p EXCEPT !.allow_repeat_tx = allow])

SetCryptex(p, use) == Ok([p EXCEPT !.use_cryptex = use])

AddEncHdrXtndId(p, id) ==
  If(/\ Len(p.enc_xtn_hdr) < MaxEncIds
     /\ \A i \in 1..Len(p.enc_xtn_hdr) : p.enc_xtn_hdr[i] # id,
     p, [p EXCEPT !.enc_xtn_hdr = Append(@, id)])

RemoveEncHdrXtndIds(p) == Ok([p EXCEPT !.enc_xtn_hdr = <<>>])

----------------------------------------------------------------------------
(* srtp_policy_validate() *)

NullCipherNullAuth(p) ==
  \A c \in {p.rtp, p.rtcp} :
    c.cipher_type = "null_cipher" /\ c.auth_type = "null_auth"

(* Mutant of ValidKeys: the MKI lengths of the keys are not compared. *)
ValidKeysAnyMki(p) ==
  /\ IF NullCipherNullAuth(p)
     THEN p.master_keys = <<>> /\ ~p.use_mki /\ p.mki_size = 0
     ELSE p.master_keys # <<>>
  /\ Len(p.master_keys) <= MaxMasterKeys
  /\ \A i \in 1..Len(p.master_keys) :
       LET k == p.master_keys[i] IN
       /\ k.key_len # 0
       /\ k.key_len = MasterKeyLength(p.profile)
       /\ k.salt_len = MasterSaltLength(p.profile)

ValidKeys(p) ==
  /\ IF NullCipherNullAuth(p)
     THEN p.master_keys = <<>> /\ ~p.use_mki /\ p.mki_size = 0
     ELSE p.master_keys # <<>>
  /\ Len(p.master_keys) <= MaxMasterKeys
  /\ IF p.use_mki THEN p.mki_size \in 1..MaxMkiLen ELSE p.mki_size = 0
  /\ ~p.use_mki => Len(p.master_keys) <= 1
  /\ \A i \in 1..Len(p.master_keys) :
       LET k == p.master_keys[i] IN
       /\ k.key_len # 0
       /\ k.key_len = MasterKeyLength(p.profile)
       /\ k.salt_len = MasterSaltLength(p.profile)
       /\ k.mki_id_len = IF p.use_mki THEN p.mki_size ELSE 0

(* Modes 1 and 2 carry the ROC in an HMAC tag, mode 3 after a GCM packet. *)
ValidRcc(p) ==
  p.rcc_mode # 0 =>
    /\ p.roc_tx_rate # 0
    /\ CASE p.rcc_mode \in {1, 2} -> p.rtp.auth_tag_len >= 5 /\ ~IsGcm(p.rtp)
         [] p.rcc_mode = 3        -> IsGcm(p.rtp)
         [] OTHER                 -> FALSE

PolicyValidate(p) ==
  /\ p.profile # "reserved"
  /\ p.ssrc # "undefined"
  /\ ValidKeys(p)
  /\ ValidWindowSize(p.window_size)
  /\ ~(p.enc_xtn_hdr # <<>> /\ p.use_cryptex)
  /\ ValidRcc(p)

=============================================================================
