----------------------------- MODULE CipherIcm -----------------------------
(***************************************************************************)
(* AES integer counter mode: the built-in implementation (aes_icm.c), which *)
(* keeps the unused octets of a keystream block, and the back ends of       *)
(* OpenSSL (aes_icm_ossl.c), NSS (aes_icm_nss.c), Mbed TLS                  *)
(* (aes_icm_mbedtls.c) and wolfSSL (aes_icm_wssl.c), where the library does.*)
(*                                                                          *)
(* A keystream octet is [key, iv, block, i]: octet i of the block that      *)
(* `key` makes of the counter with `iv` (the salt, packet index and SSRC)   *)
(* and block number `block` in its last 16 bits.  What a call writes is the *)
(* keystream it added, in the order it added it.                            *)
(***************************************************************************)
EXTENDS BackEnd

CONSTANTS
  Block,     \* sizeof(v128_t), the octets of a keystream block
  CtrMax,    \* 0xffff, the largest block number
  SizeMax    \* SIZE_MAX

ASSUME IcmAssumption ==
  /\ Block \in Nat \ {0} /\ CtrMax \in Nat \ {0}
  /\ SizeMax \in Nat /\ SizeMax % Block = Block - 1

(* The built-in context: the counter and the keystream buffer with its      *)
(* count of unused octets.  A library's: the position of the next octet.    *)
IcmFresh ==
  [key |-> None, iv |-> None, ctr |-> 0, keystream_buffer |-> <<>>,
   bytes_in_buffer |-> 0, pos |-> 0, ready |-> FALSE,
   held |-> {}, status |-> "ok", out |-> <<>>]

(* srtp_aes_encrypt of a counter block: octets that name key, IV and place. *)
KeystreamBlock(c, block) ==
  [i \in 1..Block |-> [key |-> c.key, iv |-> c.iv, block |-> block, i |-> i]]

Keystream(c, from, n) ==
  [j \in 1..n |-> LET p == from + j - 1
                  IN [key |-> c.key, iv |-> c.iv, block |-> p \div Block,
                      i |-> (p % Block) + 1]]

IcmAlloc(key_len, lens, steps, k) ==
  IF key_len \in lens THEN Acquire(IcmFresh, steps, k)
  ELSE Return(IcmFresh, "bad_param")

----------------------------------------------------------------------------
(* Built in *)

BuiltinIcmAlloc(key_len, k) ==
  IcmAlloc(key_len, {30, 46},
           <<Memory("cipher", {}), Memory("state", {"cipher"})>>, k)

BuiltinIcmDealloc(c) == Release(c, {"state", "cipher"})

BuiltinIcmInit(c, key) ==
  [c EXCEPT !.key = key, !.iv = None, !.ctr = 0, !.bytes_in_buffer = 0]

(* Mutant of BuiltinIcmSetIv: the buffer of the IV before is used up first. *)
BuiltinIcmSetIvKeepsBuffer(c, iv) == [c EXCEPT !.iv = iv, !.ctr = 0]

BuiltinIcmSetIv(c, iv) ==
  [c EXCEPT !.iv = iv, !.ctr = 0, !.bytes_in_buffer = 0]

BuiltinIcmAdvance(c) ==
  [c EXCEPT !.keystream_buffer = KeystreamBlock(c, c.ctr),
            !.bytes_in_buffer = Block, !.ctr = (@ + 1) % (CtrMax + 1)]

(* n octets of the buffer are added to the data from octet `from`. *)
Use(c, from, n) == [c EXCEPT !.out = @ \o SubSeq(c.keystream_buffer, from, from + n - 1)]

(* The loop over whole blocks: `blocks[i]` is the context after i of them. *)
WholeBlocks(c, n) ==
  LET blocks[i \in 0..n] ==
        IF i = 0 THEN c ELSE Use(BuiltinIcmAdvance(blocks[i - 1]), 1, Block)
  IN blocks[n]

(* The blocks a call needs beyond the buffer, in size_t arithmetic: the     *)
(* difference wraps when the buffer has more than the call asks for.        *)
BlocksOfNewKeystream(c, n) ==
  LET bytes == (n + SizeMax + 1 - c.bytes_in_buffer) % (SizeMax + 1)
  IN ((bytes + Block - 1) % (SizeMax + 1)) \div Block

BuiltinIcmEncrypt(c, n, room) ==
  LET first == Block - c.bytes_in_buffer + 1
      d     == [Use(c, first, c.bytes_in_buffer) EXCEPT !.bytes_in_buffer = 0]
      left  == n - c.bytes_in_buffer
      e     == WholeBlocks(d, left \div Block)
      tail  == left % Block
  IN CASE room < n -> Return(c, "buffer_small")
       [] room >= n /\ BlocksOfNewKeystream(c, n) > CtrMax - c.ctr ->
            Return(c, "terminus")
       [] OTHER ->
            IF n <= c.bytes_in_buffer
            THEN [Use(c, first, n) EXCEPT !.bytes_in_buffer = @ - n]
            ELSE IF tail # 0
            THEN [Use(BuiltinIcmAdvance(e), 1, tail)
                    EXCEPT !.bytes_in_buffer = Block - tail]
            ELSE [e EXCEPT !.bytes_in_buffer = 0]

----------------------------------------------------------------------------
(* The libraries' counter mode, external: the next n octets of keystream. *)
LibraryCtr(c, n) ==
  [c EXCEPT !.out = @ \o Keystream(c, c.pos, n), !.pos = @ + n]

(* OpenSSL *)

OsslIcmAlloc(key_len, k) ==
  IcmAlloc(key_len, {30, 38, 46},
           <<Memory("cipher", {}), Memory("state", {"cipher"}),
             Memory("evp", {"state", "cipher"})>>, k)

OsslIcmDealloc(c) == Release(c, {"evp", "state", "cipher"})

OsslIcmInit(c, key, fails) ==
  IF fails THEN Return([c EXCEPT !.key = None], "fail") ELSE [c EXCEPT !.key = key]

OsslIcmSetIv(c, iv, fails) ==
  IF fails THEN Return([c EXCEPT !.iv = Junk], "fail")
  ELSE [c EXCEPT !.iv = iv, !.pos = 0]

OsslIcmEncrypt(c, n, room, fails) ==
  CASE room < n           -> Return(c, "buffer_small")
    [] room >= n /\ fails -> Return([c EXCEPT !.iv = Junk], "cipher_fail")
    [] OTHER              -> LibraryCtr(c, n)

----------------------------------------------------------------------------
(* NSS.  The library's context is made anew for every IV. *)

NssIcmAlloc(key_len, k) ==
  IcmAlloc(key_len, {30, 38, 46},
           <<Take("nss", "cipher_fail", {}), Memory("cipher", {"nss"}),
             Memory("state", {"nss", "cipher"})>>, k)

NssIcmDealloc(c) == Release(c, {"key", "ctx", "nss", "state", "cipher"})

(* No slot (k = 1), no key (k = 2) *)
NssIcmInit(c, key, k) ==
  LET d == [Release(c, {"key"}) EXCEPT !.key = None]
  IN CASE k = 1 -> Return(d, "bad_param")
       [] k = 2 -> Return(d, "cipher_fail")
       [] OTHER -> [d EXCEPT !.key = key, !.held = @ \cup {"key"}]

NssIcmSetIv(c, iv, fails) ==
  LET d == [Release(c, {"ctx"}) EXCEPT !.ready = FALSE]
  IN CASE c.key = None           -> Return(c, "bad_param")
       [] c.key # None /\ fails  -> Return(d, "cipher_fail")
       [] OTHER -> [d EXCEPT !.iv = iv, !.pos = 0, !.ready = TRUE,
                             !.held = @ \cup {"ctx"}]

NssIcmEncrypt(c, n, room, fails) ==
  CASE ~c.ready                       -> Return(c, "bad_param")
    [] c.ready /\ room < n            -> Return(c, "buffer_small")
    [] c.ready /\ room >= n /\ fails  -> Return([c EXCEPT !.iv = Junk], "cipher_fail")
    [] OTHER                          -> LibraryCtr(c, n)

----------------------------------------------------------------------------
(* Mbed TLS.  `ready` says that an operation is set up. *)

MbedIcmAlloc(key_len, k) ==
  IcmAlloc(key_len, {30, 38, 46},
           <<Memory("cipher", {}), Memory("state", {"cipher"}),
             Memory("psa", {"state", "cipher"})>>, k)

MbedIcmDealloc(c) == Release(c, {"op", "key", "psa", "state", "cipher"})

(* psa_crypto_init() (k = 1), psa_import_key() (k = 2) *)
MbedIcmInit(c, key, k) ==
  LET d == [Release(c, {"key"}) EXCEPT !.key = None]
  IN CASE k = 1 -> Return(c, "cipher_fail")
       [] k = 2 -> Return(d, "cipher_fail")
       [] OTHER -> [d EXCEPT !.key = key, !.held = @ \cup {"key"}]

Abort(c) == [Release(c, {"op"}) EXCEPT !.ready = FALSE]

MbedIcmSetIv(c, iv, fails) ==
  IF fails THEN Return(Abort(c), "cipher_fail")
  ELSE [c EXCEPT !.iv = iv, !.pos = 0, !.ready = TRUE, !.held = @ \cup {"op"}]

MbedIcmEncrypt(c, n, room, fails) ==
  CASE room < n                          -> Return(c, "buffer_small")
    [] room >= n /\ (fails \/ ~c.ready)  -> Return(Abort(c), "cipher_fail")
    [] OTHER                             -> LibraryCtr(c, n)

----------------------------------------------------------------------------
(* wolfSSL *)

WsslIcmAlloc(key_len, k) ==
  IcmAlloc(key_len, {30, 38, 46},
           <<Memory("cipher", {}), Memory("state", {"cipher"})>>, k)

WsslIcmDealloc(c) == Release(c, {"aes", "state", "cipher"})

(* The allocation (k = 1), wc_AesInit() (k = 2) *)
WsslIcmInit(c, key, k) ==
  CASE k = 1 /\ "aes" \notin c.held -> Return(c, "alloc_fail")
    [] k = 2 /\ "aes" \notin c.held -> Return(c, "init_fail")
    [] OTHER -> [c EXCEPT !.held = @ \cup {"aes"}, !.key = key]

WsslIcmSetIv(c, iv, fails) ==
  IF fails THEN Return([c EXCEPT !.iv = Junk], "fail")
  ELSE [c EXCEPT !.iv = iv, !.pos = 0]

WsslIcmEncrypt(c, n, room, fails) ==
  CASE room < n           -> Return(c, "buffer_small")
    [] room >= n /\ fails -> Return([c EXCEPT !.iv = Junk], "cipher_fail")
    [] OTHER              -> LibraryCtr(c, n)
=============================================================================
