--------------------------- MODULE PacketTransform ---------------------------
(***************************************************************************)
(* The octets of a packet: what srtp_protect(), srtp_protect_rtcp() and     *)
(* their AEAD versions make of a packet in the sender's buffers, and what   *)
(* srtp_unprotect(), srtp_unprotect_rtcp() and theirs make of it in the     *)
(* receiver's (srtp/srtp.c).  Stream lookup, directions, key limits and     *)
(* replay windows are in Session, SrtpStream and SrtcpStream.               *)
(*                                                                          *)
(* A buffer is a sequence of octets, offset 0 its first.  An octet is what  *)
(* was written there and the keystream octets that were added to it (adding *)
(* one twice removes it).  A field of several octets has its value in the   *)
(* first of them; a tag's value is what it was computed over.               *)
(***************************************************************************)
EXTENDS Policy, FiniteSets

CONSTANTS
  Policies,     \* the policies of sender and receiver
  Packets,      \* the packets of the application, as descriptions
  OtherPolicies,\* the policies of other streams of the sender's session
  Alterable,    \* bound: the packets that may be altered on the way
  Noises        \* what octets that are no such field may read as

VARIABLES
  policy,  \* the policy of the stream
  packet,  \* the description of the application's packet
  sent,    \* the sender's call and its outcome, or None
  wire,    \* the octets that arrive, or None
  altered, \* whether they were altered on the way
  got      \* the receiver's call and its outcome, or None

vars == <<policy, packet, sent, wire, altered, got>>

None == [status |-> "none"]
SenderRoc == 1   \* the sender's rollover counter

----------------------------------------------------------------------------
(* Octets and buffers *)

Octet(v) == [v |-> v, ks |-> {}]
Rest(n)  == [i \in 1..n |-> Octet(<<"rest", i>>)]
Field(kind, x, n) == <<Octet(<<kind, x>>)>> \o Rest(n - 1)
Free == Octet(<<"free">>)

Buffer(octets, size) == octets \o [i \in 1..size - Len(octets) |-> Free]

At(b, o) == b[o + 1]
Part(b, from, n) == SubSeq(b, from + 1, from + n)

(* Adding keystream octet k; the null cipher's keystream is zero. *)
Xor(octet, k) ==
  IF k[1] = "null_cipher" THEN octet
  ELSE [octet EXCEPT !.ks = IF k \in @ THEN @ \ {k} ELSE @ \cup {k}]

(* The description of an application's packet and its octets.  An extension *)
(* element is [id, len, pad]: data octets and zero octets that follow.      *)
ElementOctets(profile, e) ==
  (IF profile = "one_byte" THEN <<Octet(<<"octet", e.id * 16 + e.len - 1>>)>>
   ELSE <<Octet(<<"octet", e.id>>), Octet(<<"octet", e.len>>)>>)
  \o [i \in 1..e.len |-> Octet(<<"data", e.id, i>>)]
  \o [i \in 1..e.pad |-> Octet(<<"octet", 0>>)]

ExtOctets(ext) ==
  LET all[i \in 0..Len(ext.elements)] ==
        IF i = 0 THEN <<>>
        ELSE all[i - 1] \o ElementOctets(ext.profile, ext.elements[i])
  IN  Field("profile", ext.profile, 2) \o Field("length", ext.words, 2)
        \o all[Len(ext.elements)]

Payload(n) == [i \in 1..n |-> Octet(<<"payload", i>>)]

Octets(d) ==
  IF d.kind = "rtcp"
  THEN Field("rtcp_header", 0, 4) \o Field("ssrc", 0, 4) \o Payload(d.payload)
  ELSE <<Octet(<<"flags", d.cc, d.x>>), Octet(<<"rest", 1>>)>>
         \o Field("seq", d.seq, 2) \o Field("timestamp", 0, 4)
         \o Field("ssrc", 0, 4)
         \o [i \in 1..4 * d.cc |-> Octet(<<"csrc", i>>)]
         \o (IF d.x THEN ExtOctets(d.ext) ELSE <<>>)
         \o Payload(d.payload)

----------------------------------------------------------------------------
(* A call in progress: c.src is the packet of c.len octets, c.dst the       *)
(* buffer of which the caller says it has c.cap octets; in place they are   *)
(* the same memory.  c.pos is how far the packet's cipher has gone.         *)

Call(p, octets, inplace, cap, key, roc, noise) ==
  [status |-> "ok", policy |-> p, len |-> Len(octets), cap |-> cap,
   inplace |-> inplace, src |-> Buffer(octets, Len(octets)),
   dst |-> IF inplace
           THEN Buffer(octets, IF cap > Len(octets) THEN cap ELSE Len(octets))
           ELSE Buffer(<<>>, cap),
   key |-> key, roc |-> roc, noise |-> noise, iv |-> <<>>, pos |-> 0, start |-> 0,
   cryptex |-> FALSE, out |-> 0, overrun |-> FALSE]

Src(c) == IF c.inplace THEN c.dst ELSE c.src

Then(c, Step(_)) == IF c.status = "ok" /\ ~c.overrun THEN Step(c) ELSE c
Fail(c, status)  == [c EXCEPT !.status = status]
FailIf(c, test, status) == IF test THEN Fail(c, status) ELSE c

Within(size, from, n) == n = 0 \/ (n > 0 /\ from >= 0 /\ from + n <= size)
Covers(b, from, n) == Within(Len(b), from, n)
InPacket(c, from, n) == Within(c.len, from, n)

(* n octets are written at an offset of the destination. *)
Put(c, at, octets) ==
  IF ~Covers(c.dst, at, Len(octets)) THEN [c EXCEPT !.overrun = TRUE]
  ELSE [c EXCEPT !.dst = SubSeq(@, 1, at) \o octets
                           \o SubSeq(@, at + Len(octets) + 1, Len(@))]

(* memcpy() of part of the packet to the same offset of the destination. *)
Copy(c, from, n) ==
  IF ~InPacket(c, from, n) THEN [c EXCEPT !.overrun = TRUE]
  ELSE IF c.inplace THEN c ELSE Put(c, from, Part(c.src, from, n))

(* n octets of b are encrypted or decrypted into the destination with the   *)
(* cipher's next keystream octets.                                          *)
Keystream(c, cipher, pos) == <<cipher, c.key, c.iv, pos>>

CryptFrom(c, b, cipher, from, n) ==
  IF ~Covers(b, from, n) THEN [c EXCEPT !.overrun = TRUE]
  ELSE [Put(c, from, [i \in 1..n |->
              Xor(At(b, from + i - 1), Keystream(c, cipher, c.pos + i - 1))])
        EXCEPT !.pos = @ + n]

(* Mutant of Room: the octets that are appended are not counted. *)
RoomNoTrailer(c, grow) == FailIf(c, c.cap < c.len, "buffer_small")

(* The check of the output length, before anything is written. *)
Room(c, grow) == FailIf(c, c.cap < c.len + grow, "buffer_small")

(* What an octet that is read as a field says. *)
Value(c, octet, kind) == IF octet.v[1] = kind THEN octet.v[2] ELSE c.noise

Cc(b)    == At(b, 0).v[2]
X(b)     == At(b, 0).v[3]
SeqNo(b) == At(b, 2).v[2]

MkiOctets(p, key) == IF p.use_mki THEN Field("mki", key, p.mki_size) ELSE <<>>
NumKeys(p) == IF p.master_keys = <<>> THEN 1 ELSE Len(p.master_keys)

----------------------------------------------------------------------------
(* The RTP header *)

RtpHdrLen(b) == 12 + 4 * Cc(b)
XtnLen(c, b) == (Value(c, At(b, RtpHdrLen(b) + 2), "length") + 1) * 4

XtnProfile(b) ==
  LET v == At(b, RtpHdrLen(b)).v IN IF v[1] = "profile" THEN v[2] ELSE "other"

ValidateRtpHeader(c) ==
  FailIf(c, \/ c.len < 12
            \/ c.len < RtpHdrLen(c.src)
            \/ /\ X(c.src)
               /\ \/ c.len < RtpHdrLen(c.src) + 4
                  \/ c.len < RtpHdrLen(c.src) + XtnLen(c, c.src),
         "bad_param")

EncStart(c) == RtpHdrLen(c.src) + (IF X(c.src) THEN XtnLen(c, c.src) ELSE 0)

RtpCipher(p)  == IF p.rtp.cipher_type = "null_cipher" THEN "null_cipher" ELSE "rtp"
XtnCipher(p)  == IF p.rtp.cipher_type = "null_cipher" THEN "null_cipher" ELSE "xtn"
RtcpCipher(p) == IF p.rtcp.cipher_type = "null_cipher" THEN "null_cipher" ELSE "rtcp"

----------------------------------------------------------------------------
(* Cryptex (RFC 9335) *)

MoveXtnHdrBeforeCsrc(c) ==
  Put(c, 12, Part(c.dst, RtpHdrLen(c.dst), 4) \o Part(c.dst, 12, 4 * Cc(c.dst)))

MoveCsrcBeforeXtnHdr(c) ==
  Put(c, 12, Part(c.dst, 16, 4 * Cc(c.dst)) \o Part(c.dst, 12, 4))

(* Mutant of CryptexStart: the extension is left out. *)
CryptexStartAfterXtn(c, inuse) ==
  IF ~inuse THEN [c EXCEPT !.start = EncStart(c)]
  ELSE [c EXCEPT !.cryptex = TRUE,
                 !.start = EncStart(c) - (IF c.inplace THEN 4 * Cc(c.src) ELSE 0)]

(* Where encryption begins when cryptex encrypts the extension, and in      *)
(* place the CSRCs as well.                                                 *)
CryptexStart(c, inuse) ==
  IF ~inuse THEN [c EXCEPT !.start = EncStart(c)]
  ELSE [c EXCEPT !.cryptex = TRUE,
                 !.start = EncStart(c) - (XtnLen(c, c.src) - 4)
                             - (IF c.inplace THEN 4 * Cc(c.src) ELSE 0)]

CryptexProtectInit(c) ==
  LET asked == c.policy.use_cryptex /\ "conf" \in c.policy.rtp.sec_serv
  IN  IF asked /\ Cc(c.src) # 0 /\ ~X(c.src) THEN Fail(c, "cryptex_err")
      ELSE CryptexStart(c, asked /\ X(c.src))

CryptexUnprotectInit(c) ==
  CryptexStart(c, /\ c.policy.use_cryptex /\ X(c.src)
                  /\ XtnProfile(c.src) \in {"cryptex_one", "cryptex_two"})

(* Mutant of CryptexMoveOrCrypt: the CSRCs are encrypted in place only. *)
CryptexMoveOnly(c) == IF c.inplace THEN MoveXtnHdrBeforeCsrc(c) ELSE c

(* Not in place the CSRCs are in the destination already and are encrypted  *)
(* there, ahead of the rest.                                                *)
CryptexMoveOrCrypt(c) ==
  IF c.inplace THEN MoveXtnHdrBeforeCsrc(c)
  ELSE CryptFrom(c, c.dst, RtpCipher(c.policy), 12, 4 * Cc(c.dst))

WriteProfile(c, profile) ==
  Put(c, RtpHdrLen(c.dst), <<Octet(<<"profile", profile>>)>>)

CryptexProtect(c) ==
  IF ~c.cryptex THEN c
  ELSE CASE XtnProfile(c.dst) = "one_byte" ->
              CryptexMoveOrCrypt(WriteProfile(c, "cryptex_one"))
         [] XtnProfile(c.dst) = "two_byte" ->
              CryptexMoveOrCrypt(WriteProfile(c, "cryptex_two"))
         [] OTHER -> Fail(c, "parse_err")

CryptexProtectCleanup(c) ==
  IF c.cryptex /\ c.inplace THEN MoveCsrcBeforeXtnHdr(c) ELSE c

CryptexUnprotect(c) == IF c.cryptex THEN CryptexMoveOrCrypt(c) ELSE c

CryptexUnprotectCleanup(c) ==
  LET d == CryptexProtectCleanup(c) IN
  IF ~c.cryptex THEN c
  ELSE CASE XtnProfile(d.dst) = "cryptex_one" -> WriteProfile(d, "one_byte")
         [] XtnProfile(d.dst) = "cryptex_two" -> WriteProfile(d, "two_byte")
         [] OTHER -> d

----------------------------------------------------------------------------
(* Header extension encryption (RFC 6904) *)

ProtectExtensionHeader(p, id) ==
  \E i \in 1..Len(p.enc_xtn_hdr) : p.enc_xtn_hdr[i] = id

(* The elements between two offsets, with the place of their data and of    *)
(* their keystream: every element uses keystream for its own header as      *)
(* well, whether it is listed or not.  Zeros are skipped after an element.  *)
XtnElements(c, one, begin, end) ==
  LET Read(o) == Value(c, At(c.dst, o), "octet")
      hdr   == IF one THEN 1 ELSE 2
      Id(o) == IF one THEN Read(o) \div 16 ELSE Read(o)
      Size(o) == IF one THEN (Read(o) % 16) + 1 ELSE Read(o + 1)
      Zero(o) == At(c.dst, o).v = <<"octet", 0>>
      Skip(o) == CHOOSE q \in o..end : /\ q = end \/ ~Zero(q)
                                       /\ \A r \in o..q - 1 : Zero(r)
      walk[s \in (0..end) \X Nat] ==
        LET o == s[1]
            next == o + hdr + Size(o)
            e == [id |-> Id(o), at |-> o + hdr, len |-> Size(o), pos |-> s[2] + hdr]
        IN  IF o + hdr - 1 >= end THEN [ok |-> TRUE, elements |-> {}]
            ELSE IF next > end THEN [ok |-> FALSE, elements |-> {}]
            ELSE IF one /\ Id(o) = 15 THEN [ok |-> TRUE, elements |-> {}]
            ELSE LET w == walk[<<Skip(next), s[2] + hdr + Size(o)>>]
                 IN  [w EXCEPT !.elements = @ \cup {e}]
  IN  walk[<<begin, 0>>]

ProcessHeaderEncryption(c) ==
  LET begin == RtpHdrLen(c.dst) + 4
      end   == RtpHdrLen(c.dst) + XtnLen(c, c.dst)
      prof  == XtnProfile(c.dst)
      w     == XtnElements(c, prof = "one_byte", begin, end)
      Added(o) == {e \in w.elements : /\ ProtectExtensionHeader(c.policy, e.id)
                                      /\ o \in e.at .. e.at + e.len - 1}
      Enc(o, e) == Xor(At(c.dst, o), Keystream(c, XtnCipher(c.policy), e.pos + o - e.at))
      New(o) == IF Added(o) = {} THEN At(c.dst, o)
                ELSE Enc(o, CHOOSE e \in Added(o) : TRUE)
  IN  IF ~(X(c.src) /\ c.policy.enc_xtn_hdr # <<>>) THEN c
      ELSE IF prof \notin {"one_byte", "two_byte", "two_byte_app"}
      THEN Fail(c, "parse_err")
      ELSE Put(FailIf(c, ~w.ok, "parse_err"), begin,
               [i \in 1..end - begin |-> New(begin + i - 1)])

----------------------------------------------------------------------------
(* Keys, tags and the RFC 4771 fields *)

(* srtp_get_session_keys() *)
SessionKeys(c, mki_index) ==
  IF ~c.policy.use_mki THEN [c EXCEPT !.key = 1]
  ELSE IF mki_index >= NumKeys(c.policy) THEN Fail(c, "bad_mki")
  ELSE [c EXCEPT !.key = mki_index + 1]

(* The first key whose MKI stands before the packet's last octets. *)
SessionKeysForPacket(c, trailing_len) ==
  LET p  == c.policy
      at == c.len - trailing_len - p.mki_size
      match == {k \in 1..NumKeys(p) : Part(c.src, at, p.mki_size) = MkiOctets(p, k)}
  IN  IF ~p.use_mki THEN [c EXCEPT !.key = 1]
      ELSE IF at < 0 \/ match = {} THEN Fail(c, "bad_mki")
      ELSE [c EXCEPT !.key = CHOOSE k \in match : \A m \in match : k <= m]

(* Mutant of SessionKeysForRtpPacket: a tag follows the MKI in any mode. *)
SessionKeysAlwaysTag(c, carry) ==
  SessionKeysForPacket(c,
    IF IsGcm(c.policy.rtp) THEN (IF c.policy.rcc_mode = 3 /\ carry THEN 4 ELSE 0)
    ELSE c.policy.rtp.auth_tag_len)

SessionKeysForRtpPacket(c, carry) ==
  SessionKeysForPacket(c,
    IF IsGcm(c.policy.rtp) THEN (IF c.policy.rcc_mode = 3 /\ carry THEN 4 ELSE 0)
    ELSE IF c.policy.rcc_mode = 1 /\ ~carry THEN 0
    ELSE c.policy.rtp.auth_tag_len)

SessionKeysForRtcpPacket(c) ==
  SessionKeysForPacket(c,
    IF IsGcm(c.policy.rtcp) THEN 0 ELSE c.policy.rtcp.auth_tag_len)

RccCarry(p, b) == p.rcc_mode # 0 /\ SeqNo(b) % p.roc_tx_rate = 0

(* srtp_calc_aead_iv() and the counter mode's IV tell apart what they are   *)
(* computed from; srtp_calc_aead_iv_srtcp() as well.                        *)
SetIv(c, roc) ==
  [c EXCEPT !.roc = roc, !.iv = <<At(c.src, 8).v, roc, SeqNo(c.src)>>, !.pos = 0]

SetRtcpIv(c, index) == [c EXCEPT !.iv = <<At(c.src, 4).v, index>>, !.pos = 0]

(* Mutant of Mac: the ROC is not authenticated. *)
MacNoRoc(c, msg, roc, n) == IF n = 0 THEN <<>> ELSE Field("mac", <<c.key, msg>>, n)

(* The tag over the packet and then the ROC, named by what it was computed from. *)
Mac(c, msg, roc, n) == IF n = 0 THEN <<>> ELSE Field("mac", <<c.key, msg, roc>>, n)

(* RFC 4771: TAG = ROC || the leading octets of the MAC. *)
RtpTag(c, msg, carry, n) ==
  IF carry THEN Field("roc", c.roc, 4) \o SubSeq(Mac(c, msg, c.roc, n), 1, n - 4)
  ELSE Mac(c, msg, c.roc, n)

(* AES-GCM: n octets of b become n octets and a tag, or the other way round. *)
GcmTag(c, aad, text, n) == Field("gcm", <<c.key, c.iv, aad, text>>, n)

Seal(c, b, cipher, aad, from, n, tag_len) ==
  LET text == <<>> \o [i \in 1..n |-> Xor(At(b, from + i - 1), Keystream(c, cipher, i - 1))]
  IN  IF ~Covers(b, from, n) THEN [c EXCEPT !.overrun = TRUE]
      ELSE Put(c, from, text \o GcmTag(c, aad, text, tag_len))

Open(c, b, cipher, aad, from, n, tag_len) ==
  LET text == Part(b, from, n - tag_len)
  IN  IF ~InPacket(c, from, n) THEN [c EXCEPT !.overrun = TRUE]
      ELSE IF Part(b, from + n - tag_len, tag_len) # GcmTag(c, aad, text, tag_len)
      THEN Fail(c, "auth_fail")
      ELSE Put(c, from, [i \in 1..n - tag_len |->
                           Xor(text[i], Keystream(c, cipher, i - 1))])

----------------------------------------------------------------------------
(* RTP *)

RtpProtectAead(c0) ==
  LET p     == c0.policy
      tag   == p.rtp.auth_tag_len
      extra == IF p.rcc_mode = 3 /\ RccCarry(p, c0.src) THEN 4 ELSE 0
      HasRoom(c) == Room(c, tag + p.mki_size + extra)
      Supports(c) ==
        FailIf(FailIf(c, c.start > c.len, "parse_err"),
               c.cryptex /\ ~c.inplace /\ Cc(c.src) # 0, "cryptex_err")
      CopyHeader(c) == Copy(c, 0, c.start)
      Encrypt(c) == Seal(c, Src(c), "rtp", Part(c.dst, 0, c.start), c.start,
                         c.len - c.start, tag)
      Append4771(c) ==
        [Put(c, c.len + tag, MkiOctets(p, c.key)
                               \o (IF extra = 0 THEN <<>> ELSE Field("roc", c.roc, 4)))
         EXCEPT !.out = c.len + tag + p.mki_size + extra]
      c1 == Then(Then(Then(c0, HasRoom), CryptexProtectInit), Supports)
      c2 == Then(SetIv(Then(c1, CopyHeader), SenderRoc), ProcessHeaderEncryption)
      c3 == Then(Then(c2, CryptexProtect), Encrypt)
  IN  Then(Then(c3, CryptexProtectCleanup), Append4771)

RtpProtect(c0) ==
  LET p     == c0.policy
      carry == RccCarry(p, c0.src)
      tag   == IF p.rcc_mode = 1 /\ ~carry THEN 0 ELSE p.rtp.auth_tag_len
      HasRoom(c) == Room(c, p.mki_size + tag)
      Parses(c) == FailIf(c, c.start > c.len, "parse_err")
      CopyHeader(c) == Put(Copy(c, 0, c.start), c.len, MkiOctets(p, c.key))
      Encrypt(c) ==
        IF "conf" \in p.rtp.sec_serv
        THEN CryptFrom(c, Src(c), RtpCipher(p), c.start, c.len - c.start)
        ELSE Copy(c, c.start, c.len - c.start)
      Authenticate(c) ==
        IF "auth" \in p.rtp.sec_serv /\ tag > 0
        THEN Put(c, c.len + p.mki_size, RtpTag(c, Part(c.dst, 0, c.len), carry, tag))
        ELSE c
      Finish(c) == [c EXCEPT !.out = c.len + tag + p.mki_size]
      c1 == Then(Then(Then(c0, HasRoom), CryptexProtectInit), Parses)
      c2 == Then(SetIv(Then(c1, CopyHeader), SenderRoc), ProcessHeaderEncryption)
      c3 == Then(Then(Then(c2, CryptexProtect), Encrypt), CryptexProtectCleanup)
  IN  Then(Then(c3, Authenticate), Finish)

RtpUnprotectAead(c0) ==
  LET p     == c0.policy
      tag   == p.rtp.auth_tag_len
      carry == p.rcc_mode = 3 /\ RccCarry(p, c0.src)
      extra == IF carry THEN 4 ELSE 0
      n     == c0.len - tag - p.mki_size - extra
      HasRoc(c) == FailIf(c, carry /\ c.len < 12 + p.mki_size + tag + 4, "bad_param")
      ReadRoc(c) == SetIv(c, IF carry THEN Value(c, At(c.src, c.len - 4), "roc") ELSE c.roc)
      Supports(c) == FailIf(c, c.cryptex /\ ~c.inplace /\ Cc(c.src) # 0, "cryptex_err")
      Parses(c) == FailIf(c, tag + p.mki_size > c.len \/ c.start > n, "parse_err")
      HasRoom(c) == FailIf(c, c.cap < n, "buffer_small")
      CopyHeader(c) == Copy(c, 0, c.start)
      Decrypt(c) == Open(c, Src(c), "rtp", Part(Src(c), 0, c.start), c.start,
                         n - c.start + tag, tag)
      Finish(c) == [c EXCEPT !.out = n]
      c1 == Then(Then(Then(c0, HasRoc), ReadRoc), CryptexUnprotectInit)
      c2 == Then(Then(Then(Then(c1, Supports), Parses), HasRoom), CopyHeader)
      c3 == Then(Then(Then(c2, CryptexUnprotect), Decrypt), ProcessHeaderEncryption)
  IN  Then(Then(c3, CryptexUnprotectCleanup), Finish)

RtpUnprotect(c0) ==
  LET p     == c0.policy
      carry == RccCarry(p, c0.src)
      tag   == IF p.rcc_mode = 1 /\ ~carry THEN 0 ELSE p.rtp.auth_tag_len
      n     == c0.len - tag - p.mki_size
      HasRoc(c) == FailIf(c, carry /\ c.len < 12 + p.mki_size + tag, "bad_param")
      ReadRoc(c) ==
        SetIv(c, IF carry THEN Value(c, At(c.src, c.len - tag), "roc") ELSE c.roc)
      Parses(c) == FailIf(c, n < 0 \/ c.start > n, "parse_err")
      HasRoom(c) == FailIf(c, c.cap < n, "buffer_small")
      CopyHeader(c) == Copy(c, 0, c.start)
      Mine(c)   == Mac(c, Part(Src(c), 0, n), c.roc, tag)
      Theirs(c) == Part(Src(c), c.len - tag, tag)
      Authenticate(c) ==
        FailIf(c, /\ "auth" \in p.rtp.sec_serv /\ tag > 0
                  /\ IF carry THEN SubSeq(Mine(c), 1, tag - 4) # SubSeq(Theirs(c), 5, tag)
                     ELSE Mine(c) # Theirs(c),
               "auth_fail")
      Decrypt(c) ==
        IF "conf" \in p.rtp.sec_serv
        THEN CryptFrom(c, Src(c), RtpCipher(p), c.start, n - c.start)
        ELSE Copy(c, c.start, n - c.start)
      Finish(c) == [c EXCEPT !.out = n]
      c1 == Then(Then(Then(c0, HasRoc), ReadRoc), CryptexUnprotectInit)
      c2 == Then(Then(Then(Then(c1, Parses), HasRoom), CopyHeader), Authenticate)
      c3 == Then(Then(Then(c2, ProcessHeaderEncryption), CryptexUnprotect), Decrypt)
  IN  Then(Then(c3, CryptexUnprotectCleanup), Finish)

----------------------------------------------------------------------------
(* RTCP.  The trailer holds the E bit and the SRTCP index. *)

SenderIndex == 1  \* the index srtp_rdb_increment() comes to

Trailer(p) ==
  Field("trailer", [e |-> "conf" \in p.rtcp.sec_serv, index |-> SenderIndex], 4)

ReadTrailer(c, o) ==
  IF At(c.src, o).v[1] = "trailer" THEN At(c.src, o).v[2]
  ELSE [e |-> c.noise # 0, index |-> c.noise]

RtcpProtectAead(c0) ==
  LET p    == c0.policy
      tag  == p.rtcp.auth_tag_len
      conf == "conf" \in p.rtcp.sec_serv
      HasRoom(c) == Room(c, 4 + p.mki_size + tag)
      CopyHeader(c) ==
        SetRtcpIv(Put(Copy(c, 0, 8), c.len + tag, Trailer(p) \o MkiOctets(p, c.key)),
                  SenderIndex)
      Encrypt(c) ==
        IF conf
        THEN Seal(c, Src(c), "rtcp", Part(Src(c), 0, 8) \o Trailer(p), 8, c.len - 8, tag)
        ELSE Seal(Copy(c, 8, c.len - 8), c.dst, "rtcp",
                  Part(Src(c), 0, c.len) \o Trailer(p), c.len, 0, tag)
      Finish(c) == [c EXCEPT !.out = c.len + tag + 4 + p.mki_size]
  IN  Then(Then(Then(Then(c0, HasRoom), CopyHeader), Encrypt), Finish)

RtcpProtect(c0) ==
  LET p   == c0.policy
      tag == p.rtcp.auth_tag_len
      HasRoom(c) == Room(c, 4 + p.mki_size + tag)
      CopyHeader(c) ==
        SetRtcpIv(Put(Copy(c, 0, 8), c.len, Trailer(p) \o MkiOctets(p, c.key)),
                  SenderIndex)
      Encrypt(c) ==
        IF "conf" \in p.rtcp.sec_serv
        THEN CryptFrom(c, Src(c), RtcpCipher(p), 8, c.len - 8)
        ELSE Copy(c, 8, c.len - 8)
      Authenticate(c) ==
        Put(c, c.len + 4 + p.mki_size, Mac(c, Part(c.dst, 0, c.len + 4), 0, tag))
      Finish(c) == [c EXCEPT !.out = c.len + tag + 4 + p.mki_size]
      c1 == Then(Then(c0, HasRoom), CopyHeader)
  IN  Then(Then(Then(c1, Encrypt), Authenticate), Finish)

RtcpUnprotectAead(c0) ==
  LET p   == c0.policy
      tag == p.rtcp.auth_tag_len
      n   == c0.len - tag - 4 - p.mki_size
      t   == ReadTrailer(c0, n + tag)
      HasRoom(c) == FailIf(c, c.cap < n, "buffer_small")
      CopyHeader(c) == SetRtcpIv(Copy(c, 0, 8), t.index)
      CopyRest(c) == Copy(c, 8, n - 8)
      Aad(c, k) == Part(Src(c), 0, k) \o Part(c.src, n + tag, 4)
      Decrypt(c) ==
        IF t.e THEN Open(c, Src(c), "rtcp", Aad(c, 8), 8, n - 8 + tag, tag)
        ELSE Then(Open(c, Src(c), "rtcp", Aad(c, n), n, tag, tag), CopyRest)
      Finish(c) == [c EXCEPT !.out = n]
  IN  Then(Then(Then(Then(c0, HasRoom), CopyHeader), Decrypt), Finish)

RtcpUnprotect(c0) ==
  LET p    == c0.policy
      tag  == p.rtcp.auth_tag_len
      conf == "conf" \in p.rtcp.sec_serv
      n    == c0.len - tag - 4 - p.mki_size
      t    == ReadTrailer(c0, n)
      EBit(c) == SetRtcpIv(FailIf(c, t.e # conf, "cant_check"), t.index)
      Authenticate(c) ==
        FailIf(c, Mac(c, Part(Src(c), 0, n + 4), 0, tag) # Part(Src(c), c.len - tag, tag),
               "auth_fail")
      HasRoom(c) == FailIf(c, c.cap < n, "buffer_small")
      CopyHeader(c) == Copy(c, 0, 8)
      Decrypt(c) == IF conf THEN CryptFrom(c, Src(c), RtcpCipher(p), 8, n - 8)
                    ELSE Copy(c, 8, n - 8)
      Finish(c) == [c EXCEPT !.out = n]
      c1 == Then(Then(Then(c0, EBit), Authenticate), HasRoom)
  IN  Then(Then(Then(c1, CopyHeader), Decrypt), Finish)

----------------------------------------------------------------------------
(* The calls of the API *)

Protect(d, p, inplace, cap, mki_index) ==
  LET c0 == Call(p, Octets(d), inplace, cap, 0, 0, 0)
      Keys(c) == SessionKeys(c, mki_index)
      rtp  == Then(Then(c0, ValidateRtpHeader), Keys)
      rtcp == Then(FailIf(c0, c0.len < 8, "bad_param"), Keys)
  IN  IF d.kind = "rtp"
      THEN IF IsGcm(p.rtp) THEN Then(rtp, RtpProtectAead) ELSE Then(rtp, RtpProtect)
      ELSE IF IsGcm(p.rtp) THEN Then(rtcp, RtcpProtectAead) ELSE Then(rtcp, RtcpProtect)

Unprotect(kind, octets, p, inplace, cap, roc, noise) ==
  LET c0 == Call(p, octets, inplace, cap, 0, roc, noise)
      RtpKeys(c) == SessionKeysForRtpPacket(c, RccCarry(p, c.src))
      rtp  == Then(Then(c0, ValidateRtpHeader), RtpKeys)
      Long(c) == FailIf(c, c.len < 12 + p.mki_size + p.rtcp.auth_tag_len, "bad_param")
      rtcp == Then(Then(FailIf(c0, c0.len < 12, "bad_param"), SessionKeysForRtcpPacket),
                   Long)
  IN  IF kind = "rtp"
      THEN IF IsGcm(p.rtp) THEN Then(rtp, RtpUnprotectAead) ELSE Then(rtp, RtpUnprotect)
      ELSE IF IsGcm(p.rtp) THEN Then(rtcp, RtcpUnprotectAead)
      ELSE Then(rtcp, RtcpUnprotect)

(* Mutant of StreamTrailerLength: the carried ROC is forgotten. *)
StreamTrailerLengthNoRoc(p, kind, mki_index) ==
  IF p.use_mki /\ mki_index >= NumKeys(p) THEN [status |-> "bad_mki", length |-> 0]
  ELSE [status |-> "ok",
        length |-> p.mki_size + (IF kind = "rtp" THEN p.rtp.auth_tag_len
                                 ELSE p.rtcp.auth_tag_len + 4)]

(* stream_get_protect_trailer_length(), 0 when it fails. *)
StreamTrailerLength(p, kind, mki_index) ==
  IF p.use_mki /\ mki_index >= NumKeys(p) THEN [status |-> "bad_mki", length |-> 0]
  ELSE [status |-> "ok",
        length |-> p.mki_size
          + (IF kind = "rtp"
             THEN p.rtp.auth_tag_len + (IF p.rcc_mode = 3 THEN 4 ELSE 0)
             ELSE p.rtcp.auth_tag_len + 4)]

(* get_protect_trailer_length(): the longest of the template's, whatever    *)
(* its status, and of the streams' that succeed.                            *)
TrailerLength(templates, streams, kind, mki_index) ==
  LET T(p) == StreamTrailerLength(p, kind, mki_index)
      of == {T(p).length : p \in templates}
              \cup {T(p).length : p \in {q \in streams : T(q).status = "ok"}}
  IN  IF of = {} THEN [status |-> "bad_param", length |-> 0]
      ELSE [status |-> "ok", length |-> CHOOSE n \in of : \A m \in of : m <= n]

----------------------------------------------------------------------------
(* A sender, a network that may alter one octet or cut the packet short,    *)
(* and a receiver with the same policy, whose own rollover counter may be   *)
(* behind.                                                                  *)

(* A call has gone outside of its buffers, or says that the packet it made   *)
(* is longer than the buffer.                                               *)
Overran(c) == c.overrun \/ (c.status = "ok" /\ ~Covers(c.dst, 0, c.out))

Outcome(c, short) ==
  [status  |-> c.status, inplace |-> c.inplace, short |-> short, roc |-> c.roc,
   octets  |-> IF c.status = "ok" /\ ~Overran(c) THEN Part(c.dst, 0, c.out) ELSE <<>>,
   overrun |-> Overran(c)]

(* The buffer is as long as the application is told it must be, or one      *)
(* octet shorter.                                                           *)
Send ==
  /\ sent = None
  /\ \E inplace \in BOOLEAN, short \in {0, 1}, mki_index \in 0..NumKeys(policy) :
       LET room == StreamTrailerLength(policy, packet.kind, mki_index).length
           c == Protect(packet, policy, inplace,
                        Len(Octets(packet)) + room - short, mki_index)
       IN  /\ sent' = Outcome(c, short)
           /\ wire' = sent'.octets
  /\ UNCHANGED <<policy, packet, altered, got>>

Arrived == sent # None /\ sent.status = "ok" /\ got = None

AlteredTo(v) ==
  (CASE v[1] = "flags"   -> {<<"flags", cc, x>> : cc \in 0..1, x \in BOOLEAN}
     [] v[1] = "seq"     -> {<<"seq", n>> : n \in 0..1}
     [] v[1] = "length"  -> {<<"length", n>> : n \in 0..3}
     [] v[1] = "profile" -> {<<"profile", f>> : f \in {"one_byte", "cryptex_one"}}
     [] v[1] = "octet"   -> {<<"octet", n>> : n \in {0, 1, 31, 255}}
     [] v[1] = "mki"     -> {<<"mki", k>> : k \in 1..NumKeys(policy)}
     [] v[1] = "roc"     -> {<<"roc", n>> : n \in 0..1}
     [] v[1] = "trailer" -> {<<"trailer", [v[2] EXCEPT !.e = ~@]>>}
     [] OTHER            -> {<<"altered", v>>}) \ {v}

Alter ==
  /\ Arrived /\ ~altered
  /\ packet \in Alterable /\ sent.inplace /\ sent.short = 0
  /\ altered' = TRUE
  /\ \/ \E o \in 1..Len(wire) :
          /\ wire[o].v[1] # "rest"
          /\ \E v \in AlteredTo(wire[o].v) : wire' = [wire EXCEPT ![o].v = v]
     \/ \E n \in 0..Len(wire) - 1 : wire' = SubSeq(wire, 1, n)
  /\ UNCHANGED <<policy, packet, sent, got>>

Receive ==
  /\ Arrived
  /\ \E inplace \in BOOLEAN, short \in {0, 1}, roc \in {0, SenderRoc}, noise \in Noises :
       LET c == Unprotect(packet.kind, wire, policy, inplace,
                          Len(Octets(packet)) - short, roc, noise)
       IN  /\ altered \/ noise = 0
           /\ got' = [Outcome(c, short) EXCEPT !.roc = roc]
  /\ wire' = <<>>
  /\ UNCHANGED <<policy, packet, sent, altered>>

Another ==
  /\ got # None \/ (sent # None /\ sent.status # "ok")
  /\ packet' \in Packets
  /\ sent' = None /\ wire' = <<>> /\ altered' = FALSE /\ got' = None
  /\ UNCHANGED policy

Init ==
  /\ policy \in {p \in Policies : PolicyValidate(p)}
  /\ packet \in Packets
  /\ sent = None /\ wire = <<>> /\ altered = FALSE /\ got = None

Next == Send \/ Alter \/ Receive \/ Another
Spec == Init /\ [][Next]_vars

----------------------------------------------------------------------------
(* Properties *)

(* No call reads an octet outside the packet, writes one outside the buffer *)
(* or returns a length that exceeds it, whatever the packet holds and       *)
(* however long the buffer is, and a packet that leaves no room is refused. *)
InsideBuffers ==
  /\ sent # None => ~sent.overrun
  /\ got # None => ~got.overrun

JustSent == sent # None /\ got = None /\ ~altered

(* A buffer with the trailer length that the session reports is always long *)
(* enough to protect a packet: srtp_protect() never finds it too small and  *)
(* never makes the packet longer than that, whichever stream of the session *)
(* and whichever key the packet belongs to.                                 *)
TrailerSuffices ==
  JustSent =>
    /\ sent.short = 0 => sent.status # "buffer_small"
    /\ sent.status = "ok" =>
         \A mki_index \in 0..NumKeys(policy) - 1, other \in SUBSET OtherPolicies :
           LET grown == Len(sent.octets) - Len(Octets(packet)) IN
           /\ grown <= TrailerLength({policy}, other, packet.kind, mki_index).length
           /\ Cardinality(other) <= 1 =>
                grown <= TrailerLength(other, {policy}, packet.kind, mki_index).length

(* What is protected comes out of srtp_unprotect() as it went in, in place  *)
(* or not, with or without an MKI, header encryption, cryptex and a carried *)
(* ROC, and in a buffer of just its length.  A receiver whose own ROC is    *)
(* behind still gets a packet that carries the ROC under authentication.    *)
Carries == RccCarry(policy, Octets(packet))

InStep ==
  \/ packet.kind = "rtcp"
  \/ IF Carries THEN IsGcm(policy.rtp) \/ "auth" \in policy.rtp.sec_serv
     ELSE got.roc = SenderRoc

UnsupportedCryptex ==
  policy.use_cryptex /\ IsGcm(policy.rtp) /\ ~got.inplace /\ packet.cc # 0

RoundTrip ==
  got # None /\ ~altered /\ InStep =>
    \/ got.status = "ok" /\ got.octets = Octets(packet)
    \/ got.status = "buffer_small" /\ got.short = 1
    \/ got.status = "cryptex_err" /\ UnsupportedCryptex

(* The packet does not depend on where it was protected: in place and into  *)
(* another buffer give the same octets.                                     *)
PlaceDoesNotMatter ==
  JustSent /\ sent.status = "ok" =>
    \A mki_index \in 0..NumKeys(policy) - 1 :
      LET c == Protect(packet, policy, ~sent.inplace, Len(sent.octets), mki_index)
          d == Protect(packet, policy, sent.inplace, Len(sent.octets), mki_index)
      IN  \/ /\ c.status = d.status /\ c.out = d.out
             /\ Part(c.dst, 0, c.out) = Part(d.dst, 0, d.out)
          \/ "cryptex_err" \in {c.status, d.status}

(* An altered or shortened packet is not accepted as another one: what      *)
(* srtp_unprotect() returns under authentication is what was protected.     *)
(* Mode 1 leaves the packets that carry no ROC without a tag.               *)
Authenticated ==
  IF packet.kind = "rtcp" THEN policy.rtcp.auth_tag_len > 0
  ELSE \/ IsGcm(policy.rtp)
       \/ /\ "auth" \in policy.rtp.sec_serv
          /\ policy.rtp.auth_tag_len > 0 /\ policy.rcc_mode # 1

OnlyGenuine ==
  got # None /\ altered /\ Authenticated /\ got.status = "ok" =>
    got.octets = Octets(packet)

(* Which octets of the packet are to be encrypted, from its description:    *)
(* the payload, with cryptex everything after the fixed header but the      *)
(* extension's own header, and the data of the listed elements.             *)
ElementOffset(d, i) ==
  LET hdr == IF d.ext.profile = "one_byte" THEN 1 ELSE 2
      at[j \in 1..i] == IF j = 1 THEN 12 + 4 * d.cc + 4 + hdr
                        ELSE at[j - 1] + d.ext.elements[j - 1].len
                               + d.ext.elements[j - 1].pad + hdr
  IN  at[i]

ListedData(d, p) ==
  IF ~d.x \/ p.enc_xtn_hdr = <<>> \/ XtnCipher(p) = "null_cipher" THEN {}
  ELSE UNION {ElementOffset(d, i) .. ElementOffset(d, i) + d.ext.elements[i].len - 1 :
                i \in {i \in 1..Len(d.ext.elements) :
                         /\ ProtectExtensionHeader(p, d.ext.elements[i].id)
                         /\ \A j \in 1..i : d.ext.profile = "one_byte"
                                           => d.ext.elements[j].id # 15}}

RtpEncrypted(d, p) ==
  LET ext == 12 + 4 * d.cc
      body == ext + (IF d.x THEN 4 + 4 * d.ext.words ELSE 0)
      conf == "conf" \in p.rtp.sec_serv
      all == IF conf /\ p.use_cryptex /\ d.x
             THEN (12 .. Len(Octets(d)) - 1) \ (ext .. ext + 3)
             ELSE body .. Len(Octets(d)) - 1
  IN  ListedData(d, p)
        \cup (IF (conf \/ IsGcm(p.rtp)) /\ RtpCipher(p) # "null_cipher" THEN all ELSE {})

RtcpEncrypted(d, p) ==
  IF "conf" \in p.rtcp.sec_serv /\ RtcpCipher(p) # "null_cipher"
  THEN 8 .. Len(Octets(d)) - 1 ELSE {}

(* Exactly those octets are encrypted, each with a keystream octet that no  *)
(* other octet of the packet is encrypted with.                             *)
ExactlyEncrypted ==
  JustSent /\ sent.status = "ok" =>
    LET n == Len(Octets(packet))
        enc == IF packet.kind = "rtp" THEN RtpEncrypted(packet, policy)
               ELSE RtcpEncrypted(packet, policy)
        Ks(o) == sent.octets[o + 1].ks
    IN  /\ \A o \in 0..n - 1 : Cardinality(Ks(o)) = IF o \in enc THEN 1 ELSE 0
        /\ Cardinality(UNION {Ks(o) : o \in enc}) = Cardinality(enc)

=============================================================================
