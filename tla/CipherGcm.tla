----------------------------- MODULE CipherGcm -----------------------------
(***************************************************************************)
(* AES-GCM in its four back ends: OpenSSL (aes_gcm_ossl.c), NSS             *)
(* (aes_gcm_nss.c), Mbed TLS (aes_gcm_mbedtls.c) and wolfSSL                *)
(* (aes_gcm_wssl.c), the last with and without WOLFSSL_AESGCM_STREAM.       *)
(*                                                                          *)
(* A context has the direction, key, IV and additional data (AAD) that the  *)
(* next encrypt or decrypt uses.  OpenSSL and streaming wolfSSL hand the    *)
(* AAD to the library's object; the others collect it in a buffer of        *)
(* MaxAad octets.  A piece of AAD is [of, part, size], a text [of, len].    *)
(*                                                                          *)
(* The libraries are external: sealing is a value that says what was sealed *)
(* under what, and opening gives the text of exactly what was sealed so.    *)
(* `fails` says that a call of the library in the function fails.           *)
(***************************************************************************)
EXTENDS BackEnd, FiniteSetsExt

CONSTANT MaxAad   \* MAX_AD_SIZE

ASSUME MaxAadAssumption == MaxAad \in Nat

GcmFresh(tlen) ==
  [dir |-> "any", key |-> None, iv |-> None, aad |-> <<>>, tag_len |-> tlen,
   held |-> {}, status |-> "ok", out |-> None]

Sealed(c, text) == [key |-> c.key, iv |-> c.iv, aad |-> c.aad, text |-> text]

JunkPiece == [of |-> Junk, part |-> 0, size |-> 0]

AadSize(c) == MapThenSumSet(LAMBDA i : c.aad[i].size, DOMAIN c.aad)

(* The checks every alloc, set_iv, encrypt and decrypt begins with. *)
GcmAlloc(key_len, tlen, steps, k) ==
  IF key_len \in {28, 44} /\ tlen \in {8, 16}
  THEN Acquire(GcmFresh(tlen), steps, k)
  ELSE Return(GcmFresh(tlen), "bad_param")

WithDirection(c, dir, next) ==
  IF dir \in {"encrypt", "decrypt"} THEN next ELSE Return(c, "bad_param")

MayEncrypt(c, len, room, next) ==
  CASE c.dir # "encrypt"         -> Return(c, "bad_param")
    [] room < len + c.tag_len    -> Return(c, "buffer_small")
    [] OTHER                     -> next

MayDecrypt(c, len, room, next) ==
  CASE c.dir # "decrypt"         -> Return(c, "bad_param")
    [] len < c.tag_len           -> Return(c, "bad_param")
    [] room < len - c.tag_len    -> Return(c, "buffer_small")
    [] OTHER                     -> next

SealedLen(s, c) == s.text.len + c.tag_len

(* What the library makes of `s`: its text, or a refusal. *)
Opened(c, s, refused) ==
  IF s = Sealed(c, s.text) THEN [c EXCEPT !.out = s.text] ELSE Return(c, refused)

(* Collecting AAD in the context's buffer. *)
Collect(c, piece) ==
  IF piece.size + AadSize(c) > MaxAad THEN Return(c, "bad_param")
  ELSE [c EXCEPT !.aad = Append(@, piece)]

----------------------------------------------------------------------------
(* OpenSSL *)

OsslGcmAlloc(key_len, tlen, k) ==
  GcmAlloc(key_len, tlen,
           <<Memory("cipher", {}), Memory("state", {"cipher"}),
             Memory("evp", {"state", "cipher"})>>, k)

OsslGcmDealloc(c) == Release(c, {"evp", "state", "cipher"})

OsslGcmInit(c, key, fails) ==
  LET d == [c EXCEPT !.dir = "any", !.key = None, !.iv = None, !.aad = <<>>]
  IN IF fails THEN Return(d, "init_fail") ELSE [d EXCEPT !.key = key]

OsslGcmSetIv(c, iv, dir, fails) ==
  WithDirection(c, dir,
    IF fails THEN Return([c EXCEPT !.dir = dir, !.iv = Junk], "init_fail")
    ELSE [c EXCEPT !.dir = dir, !.iv = iv, !.aad = <<>>])

OsslGcmSetAad(c, piece, fails) ==
  IF fails THEN Return([c EXCEPT !.aad = Append(@, JunkPiece)], "algo_fail")
  ELSE [c EXCEPT !.aad = Append(@, piece)]

OsslGcmEncrypt(c, text, room, fails) ==
  MayEncrypt(c, text.len, room,
    IF fails THEN Return([c EXCEPT !.aad = Append(@, JunkPiece)], "algo_fail")
    ELSE [c EXCEPT !.out = Sealed(c, text)])

OsslGcmDecrypt(c, s, room, fails) ==
  MayDecrypt(c, SealedLen(s, c), room,
    IF fails THEN Return([c EXCEPT !.aad = Append(@, JunkPiece)], "algo_fail")
    ELSE Opened(c, s, "auth_fail"))

----------------------------------------------------------------------------
(* NSS.  Encrypt and decrypt take the AAD out of the buffer first. *)

NssGcmAlloc(key_len, tlen, k) ==
  GcmAlloc(key_len, tlen,
           <<Take("nss", "cipher_fail", {}), Memory("cipher", {"nss"}),
             Memory("state", {"nss", "cipher"})>>, k)

NssGcmDealloc(c) == Release(c, {"key", "nss", "state", "cipher"})

NssGcmInit(c, key, fails) ==
  LET d == [Release(c, {"key"}) EXCEPT !.dir = "any", !.key = None]
  IN IF fails THEN Return(d, "cipher_fail")
     ELSE [d EXCEPT !.key = key, !.held = @ \cup {"key"}]

NssGcmSetIv(c, iv, dir) ==
  WithDirection(c, dir, [c EXCEPT !.dir = dir, !.iv = iv])

NssGcmSetAad(c, piece) == Collect(c, piece)

(* Mutant of NssGcmEncrypt: the AAD is dropped only after a success. *)
NssGcmEncryptKeepsAad(c, text, room, fails) ==
  MayEncrypt(c, text.len, room,
    IF fails THEN Return(c, "cipher_fail")
    ELSE [c EXCEPT !.aad = <<>>, !.out = Sealed(c, text)])

NssGcmEncrypt(c, text, room, fails) ==
  LET d == [c EXCEPT !.aad = <<>>]
  IN MayEncrypt(d, text.len, room,
       IF fails THEN Return(d, "cipher_fail")
       ELSE [d EXCEPT !.out = Sealed(c, text)])

NssGcmDecrypt(c, s, room, fails) ==
  LET d == [c EXCEPT !.aad = <<>>]
  IN MayDecrypt(d, SealedLen(s, c), room,
       IF fails THEN Return(d, "cipher_fail")
       ELSE [Opened(c, s, "auth_fail") EXCEPT !.aad = <<>>])

----------------------------------------------------------------------------
(* Mbed TLS.  The AAD is dropped once the library was called. *)

MbedGcmAlloc(key_len, tlen, k) ==
  GcmAlloc(key_len, tlen,
           <<Memory("cipher", {}), Memory("state", {"cipher"}),
             Memory("psa", {"state", "cipher"})>>, k)

MbedGcmDealloc(c) == Release(c, {"key", "psa", "state", "cipher"})

MbedGcmInit(c, key, fails) ==
  LET d == [c EXCEPT !.dir = "any", !.aad = <<>>]
  IN IF fails THEN Return(Release([d EXCEPT !.key = None], {"key"}), "init_fail")
     ELSE [d EXCEPT !.key = key, !.held = @ \cup {"key"}]

MbedGcmSetIv(c, iv, dir) ==
  WithDirection(c, dir, [c EXCEPT !.dir = dir, !.iv = iv])

MbedGcmSetAad(c, piece) == Collect(c, piece)

MbedGcmEncrypt(c, text, room, fails) ==
  MayEncrypt(c, text.len, room,
    LET d == [c EXCEPT !.aad = <<>>]
    IN IF fails THEN Return(d, "bad_param")
       ELSE [d EXCEPT !.out = Sealed(c, text)])

MbedGcmDecrypt(c, s, room, fails) ==
  MayDecrypt(c, SealedLen(s, c), room,
    [IF fails THEN Return(c, "auth_fail") ELSE Opened(c, s, "auth_fail")
     EXCEPT !.aad = <<>>])

----------------------------------------------------------------------------
(* wolfSSL; `stream` is WOLFSSL_AESGCM_STREAM *)

WsslGcmAlloc(key_len, tlen, k) ==
  GcmAlloc(key_len, tlen, <<Memory("cipher", {}), Memory("state", {"cipher"})>>, k)

WsslGcmDealloc(c) == Release(c, {"aes", "state", "cipher"})

(* Of the calls that may fail, 1 is the allocation, 2 wc_AesInit(), 3       *)
(* wc_AesGcmSetKey(); after the first init the object is there.             *)
WsslGcmInit(c, key, k) ==
  LET d == [c EXCEPT !.dir = "any", !.aad = <<>>]
  IN CASE k = 1 /\ "aes" \notin c.held -> Return(d, "alloc_fail")
       [] k = 2 /\ "aes" \notin c.held -> Return(d, "init_fail")
       [] k = 3 -> Return([d EXCEPT !.held = @ \cup {"aes"}], "init_fail")
       [] OTHER -> [d EXCEPT !.held = @ \cup {"aes"}, !.key = key]

(* Mutant of WsslGcmSetIv: the AAD of the packet before is not dropped. *)
WsslGcmSetIvKeepsAad(c, iv, dir, stream, fails) ==
  WithDirection(c, dir,
    IF stream /\ fails THEN Return([c EXCEPT !.dir = dir, !.iv = Junk], "init_fail")
    ELSE [c EXCEPT !.dir = dir, !.iv = iv])

WsslGcmSetIv(c, iv, dir, stream, fails) ==
  WithDirection(c, dir,
    IF stream /\ fails THEN Return([c EXCEPT !.dir = dir, !.iv = Junk], "init_fail")
    ELSE [c EXCEPT !.dir = dir, !.iv = iv, !.aad = <<>>])

WsslGcmSetAad(c, piece, stream, fails) ==
  CASE ~stream         -> Collect(c, piece)
    [] stream /\ fails -> Return([c EXCEPT !.aad = Append(@, JunkPiece)], "algo_fail")
    [] OTHER           -> [c EXCEPT !.aad = Append(@, piece)]

WsslGcmEncrypt(c, text, room, stream, fails) ==
  MayEncrypt(c, text.len, room,
    LET d == IF stream THEN c ELSE [c EXCEPT !.aad = <<>>]
    IN IF fails THEN Return(d, "algo_fail")
       ELSE [d EXCEPT !.out = Sealed(c, text)])

WsslGcmDecrypt(c, s, room, stream, fails) ==
  MayDecrypt(c, SealedLen(s, c), room,
    LET d == IF fails THEN Return(c, IF stream THEN "algo_fail" ELSE "auth_fail")
             ELSE Opened(c, s, "auth_fail")
    IN IF stream THEN d ELSE [d EXCEPT !.aad = <<>>])
=============================================================================
