---------------------------- MODULE PacketCrypto ----------------------------
(***************************************************************************)
(* The life of a cipher or authentication context: how srtp.c allocates,    *)
(* keys and frees it, and the calls it makes on it for one packet after the *)
(* other, with any back end, while calls of the library and allocations     *)
(* fail.  PacketTransform takes a packet's cipher and tag as functions of   *)
(* key, IV and octets; here the contexts are shown to compute them, packet  *)
(* after packet, whatever happened to the packets before.                   *)
(*                                                                          *)
(* The contexts of a session key set are independent of each other: srtp.c  *)
(* makes the calls that belong to a packet on one of them in a row.  So a   *)
(* behaviour is about one context, of any kind.                             *)
(***************************************************************************)
EXTENDS CipherGcm, CipherIcm, AuthHmac

CONSTANTS
  Keys,        \* the keys a context is given
  Kinds,       \* the pairs <<kind of context, back end>>
  Faulty,      \* those of them whose library's calls may fail
  KeyLens, OutLens,  \* the lengths asked for: keys; tags
  RtpAads, RtcpAads, \* the sizes of a header; of the AAD before the trailer
  CallLens,    \* the lengths of the keystream's pieces
  MsgLens,     \* the lengths of an authenticated packet
  MaxPackets   \* bound on the packets of a context

VARIABLES
  kind, lib,  \* the kind of context and its back end
  rtcp,       \* whether it is for RTCP packets
  phase,      \* "none", "allocated", "ready" or "failed" (to be keyed)
  key,        \* the key it was given
  c,          \* the context
  n,          \* the packets so far
  last        \* the last packet, the call that failed, and the outcome

vars == <<kind, lib, rtcp, phase, key, c, n, last>>

----------------------------------------------------------------------------
(* The function tables: srtp_cipher_type_alloc(), srtp_cipher_init(), ...,  *)
(* srtp_auth_compute() call the back end's function.                        *)

CipherAlloc(key_len, tlen, k) ==
  CASE kind = "gcm" /\ lib = "ossl"    -> OsslGcmAlloc(key_len, tlen, k)
    [] kind = "gcm" /\ lib = "nss"     -> NssGcmAlloc(key_len, tlen, k)
    [] kind = "gcm" /\ lib = "mbedtls" -> MbedGcmAlloc(key_len, tlen, k)
    [] kind = "gcm" /\ lib \in {"wssl", "wssl_stream"} -> WsslGcmAlloc(key_len, tlen, k)
    [] kind = "icm" /\ lib = "builtin" -> BuiltinIcmAlloc(key_len, k)
    [] kind = "icm" /\ lib = "ossl"    -> OsslIcmAlloc(key_len, k)
    [] kind = "icm" /\ lib = "nss"     -> NssIcmAlloc(key_len, k)
    [] kind = "icm" /\ lib = "mbedtls" -> MbedIcmAlloc(key_len, k)
    [] kind = "icm" /\ lib = "wssl"    -> WsslIcmAlloc(key_len, k)

CipherDealloc ==
  CASE kind = "gcm" /\ lib = "ossl"    -> OsslGcmDealloc(c)
    [] kind = "gcm" /\ lib = "nss"     -> NssGcmDealloc(c)
    [] kind = "gcm" /\ lib = "mbedtls" -> MbedGcmDealloc(c)
    [] kind = "gcm" /\ lib \in {"wssl", "wssl_stream"} -> WsslGcmDealloc(c)
    [] kind = "icm" /\ lib = "builtin" -> BuiltinIcmDealloc(c)
    [] kind = "icm" /\ lib = "ossl"    -> OsslIcmDealloc(c)
    [] kind = "icm" /\ lib = "nss"     -> NssIcmDealloc(c)
    [] kind = "icm" /\ lib = "mbedtls" -> MbedIcmDealloc(c)
    [] kind = "icm" /\ lib = "wssl"    -> WsslIcmDealloc(c)

CipherInit(d, x, k) ==
  CASE kind = "gcm" /\ lib = "ossl"    -> OsslGcmInit(d, x, k # 0)
    [] kind = "gcm" /\ lib = "nss"     -> NssGcmInit(d, x, k # 0)
    [] kind = "gcm" /\ lib = "mbedtls" -> MbedGcmInit(d, x, k # 0)
    [] kind = "gcm" /\ lib \in {"wssl", "wssl_stream"} -> WsslGcmInit(d, x, k)
    [] kind = "icm" /\ lib = "builtin" -> BuiltinIcmInit(d, x)
    [] kind = "icm" /\ lib = "ossl"    -> OsslIcmInit(d, x, k # 0)
    [] kind = "icm" /\ lib = "nss"     -> NssIcmInit(d, x, k)
    [] kind = "icm" /\ lib = "mbedtls" -> MbedIcmInit(d, x, k)
    [] kind = "icm" /\ lib = "wssl"    -> WsslIcmInit(d, x, k)

CipherSetIv(d, iv, dir, fails) ==
  CASE kind = "gcm" /\ lib = "ossl"    -> OsslGcmSetIv(d, iv, dir, fails)
    [] kind = "gcm" /\ lib = "nss"     -> NssGcmSetIv(d, iv, dir)
    [] kind = "gcm" /\ lib = "mbedtls" -> MbedGcmSetIv(d, iv, dir)
    [] kind = "gcm" /\ lib \in {"wssl", "wssl_stream"} ->
         WsslGcmSetIv(d, iv, dir, lib = "wssl_stream", fails)
    [] kind = "icm" /\ lib = "builtin" -> BuiltinIcmSetIv(d, iv)
    [] kind = "icm" /\ lib = "ossl"    -> OsslIcmSetIv(d, iv, fails)
    [] kind = "icm" /\ lib = "nss"     -> NssIcmSetIv(d, iv, fails)
    [] kind = "icm" /\ lib = "mbedtls" -> MbedIcmSetIv(d, iv, fails)
    [] kind = "icm" /\ lib = "wssl"    -> WsslIcmSetIv(d, iv, fails)

CipherSetAad(d, piece, fails) ==
  CASE lib = "ossl"    -> OsslGcmSetAad(d, piece, fails)
    [] lib = "nss"     -> NssGcmSetAad(d, piece)
    [] lib = "mbedtls" -> MbedGcmSetAad(d, piece)
    [] OTHER           -> WsslGcmSetAad(d, piece, lib = "wssl_stream", fails)

CipherEncrypt(d, text, room, fails) ==
  CASE kind = "gcm" /\ lib = "ossl"    -> OsslGcmEncrypt(d, text, room, fails)
    [] kind = "gcm" /\ lib = "nss"     -> NssGcmEncrypt(d, text, room, fails)
    [] kind = "gcm" /\ lib = "mbedtls" -> MbedGcmEncrypt(d, text, room, fails)
    [] kind = "gcm" /\ lib \in {"wssl", "wssl_stream"} ->
         WsslGcmEncrypt(d, text, room, lib = "wssl_stream", fails)
    [] kind = "icm" /\ lib = "builtin" -> BuiltinIcmEncrypt(d, text, room)
    [] kind = "icm" /\ lib = "ossl"    -> OsslIcmEncrypt(d, text, room, fails)
    [] kind = "icm" /\ lib = "nss"     -> NssIcmEncrypt(d, text, room, fails)
    [] kind = "icm" /\ lib = "mbedtls" -> MbedIcmEncrypt(d, text, room, fails)
    [] kind = "icm" /\ lib = "wssl"    -> WsslIcmEncrypt(d, text, room, fails)

CipherDecrypt(d, s, room, fails) ==
  CASE lib = "ossl"    -> OsslGcmDecrypt(d, s, room, fails)
    [] lib = "nss"     -> NssGcmDecrypt(d, s, room, fails)
    [] lib = "mbedtls" -> MbedGcmDecrypt(d, s, room, fails)
    [] OTHER           -> WsslGcmDecrypt(d, s, room, lib = "wssl_stream", fails)

AuthAlloc(key_len, out_len, k) ==
  CASE lib = "builtin" -> BuiltinHmacAlloc(key_len, out_len, k)
    [] lib \in {"ossl", "ossl_dup"} -> OsslHmacAlloc(out_len, k)
    [] lib = "nss"     -> NssHmacAlloc(out_len, k)
    [] lib = "mbedtls" -> MbedHmacAlloc(out_len, k)
    [] lib = "wssl"    -> WsslHmacAlloc(out_len, k)

AuthDealloc ==
  CASE lib = "builtin" -> BuiltinHmacDealloc(c)
    [] lib \in {"ossl", "ossl_dup"} -> OsslHmacDealloc(c)
    [] lib = "nss"     -> NssHmacDealloc(c)
    [] lib = "mbedtls" -> MbedHmacDealloc(c)
    [] lib = "wssl"    -> WsslHmacDealloc(c)

AuthInit(d, x, k) ==
  CASE lib = "builtin" -> BuiltinHmacInit(d, x)
    [] lib \in {"ossl", "ossl_dup"} -> OsslHmacInit(d, x, lib = "ossl_dup", k # 0)
    [] lib = "nss"     -> NssHmacInit(d, x, k)
    [] lib = "mbedtls" -> MbedHmacInit(d, x, k # 0)
    [] lib = "wssl"    -> WsslHmacInit(d, x, k # 0)

AuthStart(d, fails) ==
  CASE lib = "builtin" -> BuiltinHmacStart(d)
    [] lib \in {"ossl", "ossl_dup"} -> OsslHmacStart(d, lib = "ossl_dup", fails)
    [] lib = "nss"     -> NssHmacStart(d, fails)
    [] lib = "mbedtls" -> MbedHmacStart(d, fails)
    [] lib = "wssl"    -> WsslHmacStart(d)

AuthUpdate(d, msg, fails) ==
  CASE lib = "builtin" -> BuiltinHmacUpdate(d, msg)
    [] lib \in {"ossl", "ossl_dup"} -> OsslHmacUpdate(d, msg, fails)
    [] lib = "nss"     -> NssHmacUpdate(d, msg, fails)
    [] lib = "mbedtls" -> MbedHmacUpdate(d, msg, fails)
    [] lib = "wssl"    -> WsslHmacUpdate(d, msg, fails)

AuthCompute(d, msg, fails) ==
  CASE lib = "builtin" -> BuiltinHmacCompute(d, msg, d.out_len)
    [] lib \in {"ossl", "ossl_dup"} -> OsslHmacCompute(d, msg, d.out_len, fails)
    [] lib = "nss"     -> NssHmacCompute(d, msg, d.out_len, fails)
    [] lib = "mbedtls" -> MbedHmacCompute(d, msg, d.out_len, IF fails THEN 1 ELSE 0)
    [] lib = "wssl"    -> WsslHmacCompute(d, msg, d.out_len, fails)

----------------------------------------------------------------------------
(* Packets.  A fault is the number of the call that fails, 0 for none.      *)

Pieces(p) == [i \in DOMAIN p.aad |-> [of |-> p.n, part |-> i, size |-> p.aad[i]]]
Text(p)   == [of |-> p.n, len |-> 4]

(* What arrives as packet p: what the peer sealed, the same altered, or the *)
(* packet before once more (with the sequence number of p).                 *)
Arrived(p) ==
  LET sealed(q) == [key |-> key, iv |-> q.n, aad |-> Pieces(q), text |-> Text(q)]
  IN CASE p.is = "genuine"  -> sealed(p)
       [] p.is = "altered"  -> [sealed(p) EXCEPT !.key = Junk]
       [] p.is = "replayed" -> sealed([p EXCEPT !.n = @ - 1])

(* The calls of srtp_protect_aead(), srtp_protect_rtcp_aead() and of their  *)
(* counterparts: IV, header, for RTCP the trailer, then the payload.        *)
GcmPacket(d, p, fault) ==
  LET d1 == CipherSetIv(d, p.n, p.dir, fault = 1)
      d2 == Then(d1, CipherSetAad(d1, Pieces(p)[1], fault = 2))
      d3 == IF Len(p.aad) = 1 THEN d2
            ELSE Then(d2, CipherSetAad(d2, Pieces(p)[2], fault = 3))
      last_call == fault = Len(p.aad) + 2
  IN Then(d3, IF p.dir = "encrypt"
              THEN CipherEncrypt(d3, Text(p), Text(p).len + d3.tag_len, last_call)
              ELSE CipherDecrypt(d3, Arrived(p), Text(p).len, last_call))

(* The calls of the counter mode: IV, then the keystream in the pieces that *)
(* the prefix, CSRCs and payload, or the header extensions, take one after  *)
(* the other.  They are the same for RTP and RTCP.                          *)
IcmPacket(d, p, fault) ==
  LET calls[i \in 0..Len(p.lens)] ==
        IF i = 0 THEN CipherSetIv(d, p.n, "encrypt", fault = 1)
        ELSE Then(calls[i - 1],
                  CipherEncrypt(calls[i - 1], p.lens[i], p.lens[i], fault = i + 1))
  IN calls[Len(p.lens)]

(* The calls for a tag: start, for RTP the packet, then the rest (the ROC). *)
Message(p, i) == [j \in 1..p.parts[i] |-> <<"octet", p.n, i, j>>]

HmacPacket(d, p, fault) ==
  LET d1 == AuthStart(d, fault = 1)
      d2 == IF Len(p.parts) = 1 THEN d1
            ELSE Then(d1, AuthUpdate(d1, Message(p, 1), fault = 2))
  IN Then(d2, AuthCompute(d2, Message(p, Len(p.parts)), fault = Len(p.parts) + 1))

Packet(d, p, fault) ==
  LET e == [d EXCEPT !.status = "ok", !.out = IF kind = "icm" THEN <<>> ELSE None]
  IN CASE kind = "gcm"  -> GcmPacket(e, p, fault)
       [] kind = "icm"  -> IcmPacket(e, p, fault)
       [] kind = "hmac" -> HmacPacket(e, p, fault)

Total(lens) == MapThenSumSet(LAMBDA i : lens[i], DOMAIN lens)

GcmPackets ==
  [n : {n + 1}, dir : {"encrypt", "decrypt"},
   is : {"genuine", "altered", "replayed"},
   aad : IF rtcp THEN {<<a, 4>> : a \in RtcpAads} ELSE {<<a>> : a \in RtpAads}]

(* The libraries do not stop at 2^16 blocks of keystream, and no datagram   *)
(* is that long.                                                            *)
IcmPackets ==
  {p \in [n : {n + 1}, lens : UNION {[1..i -> CallLens] : i \in 1..3}] :
     lib = "builtin" \/ Total(p.lens) <= Block * CtrMax}

HmacPackets ==
  [n : {n + 1},
   parts : IF rtcp THEN {<<m>> : m \in MsgLens} ELSE {<<m, 4>> : m \in MsgLens}]

Packets ==
  CASE kind = "gcm" -> GcmPackets [] kind = "icm" -> IcmPackets [] OTHER -> HmacPackets

Calls(p) == CASE kind = "gcm"  -> Len(p.aad) + 2
              [] kind = "icm"  -> Len(p.lens) + 1
              [] OTHER         -> Len(p.parts) + 1

----------------------------------------------------------------------------
Init ==
  /\ \E x \in Kinds : kind = x[1] /\ lib = x[2]
  /\ rtcp \in BOOLEAN /\ (rtcp => kind # "icm")
  /\ phase = "none" /\ key = None /\ n = 0 /\ last = None
  /\ c = [held |-> {}, status |-> None]

(* srtp_crypto_kernel_alloc_cipher(), ..._alloc_auth(), for a stream *)
Allocate ==
  /\ phase = "none"
  /\ \E key_len \in KeyLens, out_len \in OutLens, k \in 0..4 :
       /\ c' = IF kind = "hmac" THEN AuthAlloc(key_len, out_len, k)
               ELSE CipherAlloc(key_len, out_len, k)
       /\ phase' = IF c'.status = "ok" THEN "allocated" ELSE "none"
  /\ UNCHANGED <<kind, lib, rtcp, key, n, last>>

Initialised(d, x, k) == IF kind = "hmac" THEN AuthInit(d, x, k) ELSE CipherInit(d, x, k)

(* srtp_stream_init_keys() *)
SetKey ==
  /\ phase = "allocated"
  /\ \E x \in Keys, k \in 0..3 :
       /\ key' = x
       /\ c' = Initialised(c, x, k)
       /\ phase' = IF c'.status = "ok" THEN "ready" ELSE "failed"
  /\ UNCHANGED <<kind, lib, rtcp, n, last>>

Process ==
  /\ phase = "ready" /\ n < MaxPackets
  /\ \E p \in Packets : \E k \in 0..Calls(p) :
       /\ k # 0 => <<kind, lib>> \in Faulty
       /\ c' = Packet(c, p, k)
       /\ last' = [packet |-> p, fault |-> k, status |-> c'.status, out |-> c'.out]
  /\ n' = n + 1
  /\ UNCHANGED <<kind, lib, rtcp, phase, key>>

(* srtp_stream_dealloc(), also when keying it or another context failed *)
Deallocate ==
  /\ phase # "none"
  /\ c' = IF kind = "hmac" THEN AuthDealloc ELSE CipherDealloc
  /\ phase' = "none" /\ n' = 0 /\ last' = None
  /\ UNCHANGED <<kind, lib, rtcp, key>>

Next == Allocate \/ SetKey \/ Process \/ Deallocate

Spec == Init /\ [][Next]_vars

----------------------------------------------------------------------------
(* Properties *)

Done(k) == kind = k /\ n > 0

(* What srtp.c got from a GCM context for a packet is that packet sealed    *)
(* under the context's key with the packet's IV and the packet's AAD and no *)
(* other, or the text of a genuine packet; an altered packet is refused.    *)
SealedAsAsked ==
  Done("gcm") /\ last.status = "ok" =>
    LET p == last.packet
    IN IF p.dir = "encrypt"
       THEN last.out = [key |-> key, iv |-> p.n, aad |-> Pieces(p), text |-> Text(p)]
       ELSE p.is = "genuine" /\ last.out = Text(p)

(* The pieces of a packet are encrypted with the keystream of its IV from   *)
(* its start, octet after octet across the calls, none skipped and none     *)
(* used twice: the block number does not wrap.                              *)
KeystreamExact ==
  Done("icm") /\ last.status = "ok" =>
    last.out = Keystream([key |-> key, iv |-> last.packet.n], 0,
                         Total(last.packet.lens))

(* SHA-1's blocks of a message as FIPS 180 pads it. *)
PaddedBlocks(msg) ==
  LET zeros == (119 - (Len(msg) % 64)) % 64
      all   == msg \o <<Fill(128)>> \o [i \in 1..zeros + 4 |-> Fill(0)]
               \o [j \in 1..4 |-> <<"bits", 8 * Len(msg), j>>]
  IN [b \in 1..Len(all) \div 64 |-> SubSeq(all, 64 * b - 63, 64 * b)]

WholeMessage(p) == IF Len(p.parts) = 1 THEN Message(p, 1)
                   ELSE Message(p, 1) \o Message(p, 2)

(* A tag is the HMAC of the packet's octets, all of them and no others,     *)
(* under the context's key; the built-in SHA-1 pads them as it should for   *)
(* every length and every split into updates.                               *)
TagExact ==
  Done("hmac") /\ last.status = "ok" =>
    LET m == WholeMessage(last.packet)
    IN last.out =
         IF lib # "builtin" THEN [key |-> key, msg |-> m]
         ELSE PaddedBlocks(Pad("opad", key)
                \o [i \in 1..20 |-> <<"digest", PaddedBlocks(Pad("ipad", key) \o m), i>>])

(* A context carries nothing from one packet to the next: a packet has the  *)
(* outcome it would have on a context that was just keyed, whatever failed  *)
(* in the packets before.                                                   *)
NothingCarriedOver ==
  n > 0 =>
    LET fresh == CASE kind = "gcm"  -> GcmFresh(c.tag_len)
                   [] kind = "icm"  -> IcmFresh
                   [] OTHER         -> HmacFresh(c.out_len)
        d     == Packet(Initialised(fresh, key, 0), last.packet, last.fault)
    IN /\ d.status = last.status
       /\ last.status = "ok" => d.out = last.out

(* No memory and no object of the library is left when the context is gone: *)
(* after it was freed, and after an alloc function that failed.             *)
NothingHeld == phase = "none" => c.held = {}
=============================================================================
