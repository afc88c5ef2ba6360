------------------------------ MODULE AuthHmac ------------------------------
(***************************************************************************)
(* HMAC-SHA1: the built-in one (hash/hmac.c over hash/sha1.c) and the back  *)
(* ends of OpenSSL (hmac_ossl.c, which starts a message by duplicating a    *)
(* context where the library cannot initialise one again), NSS              *)
(* (hmac_nss.c), Mbed TLS (hmac_mbedtls.c) and wolfSSL (hmac_wssl.c).       *)
(*                                                                          *)
(* SHA-1's compression function is an injective function of the blocks so   *)
(* far: the hash state H is the sequence of blocks that were compressed,    *)
(* and a block is a sequence of 64 octets.  A library's HMAC is a value     *)
(* that says what was authenticated under what key.                         *)
(***************************************************************************)
EXTENDS BackEnd

----------------------------------------------------------------------------
(* SHA-1 *)

Sha1Init(s) == [s EXCEPT !.H = <<>>, !.octets_in_buffer = 0, !.num_bits_in_msg = 0]

(* The rounds as an injective function: H is the sequence of the blocks.     *)
Sha1Core(s) == [s EXCEPT !.H = Append(@, s.M)]

(* Octets copied into the buffer behind those that are in it. *)
Copied(s, octets) ==
  [s EXCEPT !.M = [i \in 1..64 |->
                     IF i - s.octets_in_buffer \in DOMAIN octets
                     THEN octets[i - s.octets_in_buffer] ELSE s.M[i]],
            !.octets_in_buffer = @ + Len(octets)]

(* The loop of srtp_sha1_update(): full[i] after i full buffers, of which   *)
(* the first had octets in it already.                                      *)
Sha1Update(s, msg) ==
  LET blocks  == (s.octets_in_buffer + Len(msg)) \div 64
      used(i) == IF i = 0 THEN 0 ELSE i * 64 - s.octets_in_buffer
      full[i \in 0..blocks] ==
        IF i = 0 THEN s
        ELSE [Sha1Core(Copied(full[i - 1], SubSeq(msg, used(i - 1) + 1, used(i))))
                EXCEPT !.octets_in_buffer = 0]
  IN [Copied(full[blocks], SubSeq(msg, used(blocks) + 1, Len(msg)))
        EXCEPT !.num_bits_in_msg = @ + 8 * Len(msg)]

Fill(x) == <<"fill", x>>   \* a constant octet
Zero == [j \in 1..4 |-> Fill(0)]
BitLength(s) == [j \in 1..4 |-> <<"bits", s.num_bits_in_msg, j>>]

(* Word i of the buffer; the word in which the message ends, its octets     *)
(* behind the message replaced by the mark and zeros.                       *)
BufferWord(s, i) == [j \in 1..4 |-> s.M[4 * i + j]]
EndWord(s, i) ==
  [j \in 1..4 |-> CASE j <= s.octets_in_buffer % 4      -> s.M[4 * i + j]
                    [] j = (s.octets_in_buffer % 4) + 1 -> Fill(128)
                    [] OTHER                            -> Fill(0)]

(* Mutant of FinalWords: the length is written though the mark took its place. *)
FinalWordsTooLate(s) ==
  LET n   == s.octets_in_buffer
      end == n \div 4
  IN [i \in 0..15 |->
        CASE i = 15 /\ n <= 56            -> BitLength(s)
          [] i < end                      -> BufferWord(s, i)
          [] i = end /\ (i < 15 \/ n > 56) -> EndWord(s, i)
          [] i > end /\ (i < 15 \/ n > 56) -> Zero
          [] OTHER                        -> <<Junk, Junk, Junk, Junk>>]

(* W[0..15]; W is on the stack, so that a word nobody wrote is junk. *)
FinalWords(s) ==
  LET n      == s.octets_in_buffer
      copied == (n + 3) \div 4
      end    == IF n % 4 = 0 THEN copied ELSE copied - 1
  IN [i \in 0..15 |->
        CASE i = 15 /\ n < 56             -> BitLength(s)
          [] i = 15 /\ n >= 56 /\ n < 60  -> Zero
          [] i = end /\ (i < 15 \/ n >= 60) -> EndWord(s, i)
          [] i < end                      -> BufferWord(s, i)
          [] i > end /\ i < 15            -> Zero
          [] OTHER                        -> <<Junk, Junk, Junk, Junk>>]

LastWords(s) == [i \in 0..15 |-> IF i < 15 THEN Zero ELSE BitLength(s)]

Octets(W) == [k \in 1..64 |-> W[(k - 1) \div 4][((k - 1) % 4) + 1]]

(* srtp_sha1_final() *)
Sha1Final(s) ==
  LET once  == Append(s.H, Octets(FinalWords(s)))
      twice == IF s.octets_in_buffer >= 56 THEN Append(once, Octets(LastWords(s)))
               ELSE once
  IN [s EXCEPT !.H = twice, !.octets_in_buffer = 0]

Digest(s) == [i \in 1..20 |-> <<"digest", s.H, i>>]

----------------------------------------------------------------------------
(* The built-in HMAC *)

Pad(kind, key) == [i \in 1..64 |-> <<kind, key>>]

Sha1Ctx ==
  [H |-> <<>>, M |-> [i \in 1..64 |-> Fill(0)], octets_in_buffer |-> 0,
   num_bits_in_msg |-> 0]

(* A context: the built-in one has opad, init_ctx and ctx; a library's the  *)
(* message so far and whether the library's object can take more of it.     *)
HmacFresh(out_len) ==
  [key |-> None, opad |-> None, init_ctx |-> Sha1Ctx, ctx |-> Sha1Ctx,
   msg |-> <<>>, ready |-> FALSE, out_len |-> out_len,
   held |-> {}, status |-> "ok", out |-> None]

HmacAlloc(valid, out_len, steps, k) ==
  IF valid THEN Acquire(HmacFresh(out_len), steps, k)
  ELSE Return(HmacFresh(out_len), "bad_param")

BuiltinHmacAlloc(key_len, out_len, k) ==
  HmacAlloc(key_len <= 20 /\ out_len <= 20, out_len, <<Memory("auth", {})>>, k)

BuiltinHmacDealloc(c) == Release(c, {"auth"})

BuiltinHmacInit(c, key) ==
  LET s == Sha1Update(Sha1Init(c.init_ctx), Pad("ipad", key))
  IN [c EXCEPT !.key = key, !.opad = Pad("opad", key), !.init_ctx = s, !.ctx = s]

BuiltinHmacStart(c) == [c EXCEPT !.ctx = c.init_ctx]

BuiltinHmacUpdate(c, msg) == [c EXCEPT !.ctx = Sha1Update(@, msg)]

BuiltinHmacCompute(c, msg, tag_len) ==
  LET inner == Sha1Final(Sha1Update(c.ctx, msg))
      outer == Sha1Final(Sha1Update(Sha1Update(Sha1Init(inner), c.opad),
                                    Digest(inner)))
  IN IF tag_len > 20 THEN Return(c, "bad_param")
     ELSE [c EXCEPT !.ctx = outer, !.out = outer.H]

----------------------------------------------------------------------------
(* What the libraries have in common: more of the message, and its tag. *)
More(c, msg) == [c EXCEPT !.msg = @ \o msg]
Spoilt(c)    == [c EXCEPT !.msg = Append(@, Junk)]
Tagged(c)    == [c EXCEPT !.out = [key |-> c.key, msg |-> c.msg]]

(* OpenSSL; `use_dup` for the versions that cannot initialise again.  The   *)
(* duplicate is `ctx`, the original `ctx_dup`.                              *)
OsslHmacAlloc(out_len, k) ==
  HmacAlloc(out_len <= 20, out_len,
            <<Memory("auth", {}), Memory("state", {"auth"}),
              Memory("mac", {"state", "auth"}),
              Memory("evp", {"mac", "state", "auth"})>>, k)

OsslHmacDealloc(c) == Release(c, {"dup", "evp", "mac", "state", "auth"})

OsslHmacInit(c, key, use_dup, fails) ==
  IF fails THEN Return(c, "auth_fail")
  ELSE [c EXCEPT !.key = key, !.msg = <<>>, !.ready = ~use_dup]

OsslHmacStart(c, use_dup, fails) ==
  LET d == IF use_dup THEN [Release(c, {"dup"}) EXCEPT !.ready = FALSE] ELSE Spoilt(c)
  IN IF fails THEN Return(d, IF use_dup THEN "alloc_fail" ELSE "auth_fail")
     ELSE [d EXCEPT !.msg = <<>>, !.ready = TRUE,
                    !.held = IF use_dup THEN @ \cup {"dup"} ELSE @]

OsslHmacUpdate(c, msg, fails) ==
  IF fails THEN Return(Spoilt(c), "auth_fail") ELSE More(c, msg)

OsslHmacCompute(c, msg, tag_len, fails) ==
  CASE tag_len > 20            -> Return(c, "bad_param")
    [] tag_len <= 20 /\ fails  -> Return(Spoilt(c), "auth_fail")
    [] OTHER                   -> Tagged(More(c, msg))

----------------------------------------------------------------------------
(* NSS *)

(* Mutant of NssHmacAlloc: the second error path forgets the library. *)
NssHmacAllocKeepsNss(out_len, k) ==
  HmacAlloc(out_len <= 20, out_len,
            <<Take("nss", "auth_fail", {}), Memory("auth", {"nss"}),
              Memory("state", {"auth"})>>, k)

NssHmacAlloc(out_len, k) ==
  HmacAlloc(out_len <= 20, out_len,
            <<Take("nss", "auth_fail", {}), Memory("auth", {"nss"}),
              Memory("state", {"nss", "auth"})>>, k)

NssHmacDealloc(c) == Release(c, {"key", "ctx", "nss", "state", "auth"})

(* No slot (k = 1), no key (k = 2), no context (k = 3) *)
NssHmacInit(c, key, k) ==
  LET d == [Release(c, {"ctx", "key"}) EXCEPT !.key = None]
  IN CASE k = 1        -> Return(d, "bad_param")
       [] k \in {2, 3} -> Return(d, "auth_fail")
       [] OTHER -> [d EXCEPT !.key = key, !.held = @ \cup {"key", "ctx"}]

NssHmacStart(c, fails) ==
  IF fails THEN Return(Spoilt(c), "auth_fail") ELSE [c EXCEPT !.msg = <<>>]

NssHmacUpdate(c, msg, fails) ==
  IF fails THEN Return(Spoilt(c), "auth_fail") ELSE More(c, msg)

NssHmacCompute(c, msg, tag_len, fails) ==
  CASE tag_len > 20            -> Return(c, "bad_param")
    [] tag_len <= 20 /\ fails  -> Return(Spoilt(c), "auth_fail")
    [] OTHER                   -> Tagged(More(c, msg))

----------------------------------------------------------------------------
(* Mbed TLS.  `ready` says that an operation ("op") is set up. *)

MbedHmacAlloc(out_len, k) ==
  HmacAlloc(out_len <= 20, out_len,
            <<Memory("auth", {}), Memory("state", {"auth"})>>, k)

MbedHmacDealloc(c) == Release(c, {"key", "state", "auth"})

(* A status of the library's is returned as it is. *)
MbedHmacInit(c, key, fails) ==
  IF fails THEN Return(Release(c, {"key"}), "psa_error")
  ELSE [c EXCEPT !.key = key, !.held = @ \cup {"key"}]

MacAbort(c) == [Release(c, {"op"}) EXCEPT !.ready = FALSE]

MbedHmacStart(c, fails) ==
  IF fails THEN Return(MacAbort(c), "auth_fail")
  ELSE [c EXCEPT !.msg = <<>>, !.ready = TRUE, !.held = @ \cup {"op"}]

MbedHmacUpdate(c, msg, fails) ==
  IF fails \/ ~c.ready THEN Return(MacAbort(c), "auth_fail") ELSE More(c, msg)

(* psa_mac_update() (k = 1), psa_mac_sign_finish() (k = 2) *)
MbedHmacCompute(c, msg, tag_len, k) ==
  CASE tag_len > 20                          -> Return(c, "bad_param")
    [] tag_len <= 20 /\ (k = 1 \/ ~c.ready)  -> Return(c, "auth_fail")
    [] tag_len <= 20 /\ k = 2 /\ c.ready     -> Return(MacAbort(c), "auth_fail")
    [] OTHER                                 -> MacAbort(Tagged(More(c, msg)))

----------------------------------------------------------------------------
(* wolfSSL.  Starting does nothing; finishing starts the next message. *)

WsslHmacAlloc(out_len, k) ==
  HmacAlloc(out_len <= 20, out_len,
            <<Memory("auth", {}), Memory("state", {"auth"}),
              Take("hmac", "init_fail", {"state", "auth"})>>, k)

WsslHmacDealloc(c) == Release(c, {"hmac", "state", "auth"})

WsslHmacInit(c, key, fails) ==
  IF fails THEN Return(c, "auth_fail") ELSE [c EXCEPT !.key = key, !.msg = <<>>]

WsslHmacStart(c) == c

WsslHmacUpdate(c, msg, fails) ==
  IF fails THEN Return(Spoilt(c), "auth_fail") ELSE More(c, msg)

WsslHmacCompute(c, msg, tag_len, fails) ==
  CASE tag_len > 20            -> Return(c, "bad_param")
    [] tag_len <= 20 /\ fails  -> Return(Spoilt(c), "auth_fail")
    [] OTHER                   -> [Tagged(More(c, msg)) EXCEPT !.msg = <<>>]
=============================================================================
