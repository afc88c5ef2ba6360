-------------------------- MODULE MCPacketTransform --------------------------
(* Policies and packets for PacketTransform. *)
EXTENDS PacketTransform

Key(profile, mki) == [key_len |-> MasterKeyLength(profile),
                      salt_len |-> MasterSaltLength(profile), mki_id_len |-> mki]

MkPolicy(profile, mki, serv, rcc, cryptex, ids) ==
  LET p == SetProfile(SetSsrc(PolicyCreate, "specific").policy, profile).policy
      q == SetSecServ(p, serv, serv).policy
      r == SetRccModeTxRate(UseMki(q, mki).policy, rcc, 2).policy
      key == Key(profile, mki)
  IN  [SetCryptex(r, cryptex).policy EXCEPT
         !.master_keys = IF profile = "null_null" THEN <<>>
                         ELSE IF mki = 0 THEN <<key>> ELSE <<key, key>>,
         !.enc_xtn_hdr = ids]

MCPolicies ==
  {MkPolicy(f, mki, serv, rcc, cryptex, ids) :
     f \in {"null_null", "aes128_cm_sha1_80", "aes128_cm_sha1_32", "null_sha1_80",
            "aead_aes_128_gcm"},
     mki \in {0, 2}, serv \in {Both, Auth, Conf, {}}, rcc \in 0..3,
     cryptex \in BOOLEAN, ids \in {<<>>, <<1>>}}

MCOtherPolicies == {MkPolicy("aes128_cm_sha1_32", 0, Both, 0, FALSE, <<>>),
                    MkPolicy("aead_aes_128_gcm", 2, Both, 3, FALSE, <<>>)}

El(id, len, pad) == [id |-> id, len |-> len, pad |-> pad]
NoExt == [profile |-> "other", words |-> 0, elements |-> <<>>]
OneByte == [profile |-> "one_byte", words |-> 2,
            elements |-> <<El(2, 1, 1), El(1, 2, 2)>>]
Stops   == [profile |-> "one_byte", words |-> 2,
            elements |-> <<El(1, 1, 0), El(15, 1, 0), El(1, 3, 0)>>]
TwoByte == [profile |-> "two_byte", words |-> 2,
            elements |-> <<El(1, 1, 0), El(3, 0, 1), El(1, 0, 0)>>]
AppBits == [profile |-> "two_byte_app", words |-> 1, elements |-> <<El(1, 1, 1)>>]
Other   == [profile |-> "other", words |-> 1, elements |-> <<El(1, 1, 1)>>]
Overrun == [profile |-> "one_byte", words |-> 1, elements |-> <<El(1, 6, 1)>>]
TooLong == [profile |-> "one_byte", words |-> 3, elements |-> <<El(1, 2, 1)>>]

Rtp(cc, ext, payload, seq) ==
  [kind |-> "rtp", cc |-> cc, x |-> ext # NoExt, ext |-> ext, payload |-> payload,
   seq |-> seq]
Rtcp(payload) == [Rtp(0, NoExt, payload, 0) EXCEPT !.kind = "rtcp"]

MCAlterable == {Rtp(1, OneByte, 1, 0), Rtp(0, NoExt, 2, 1), Rtcp(2)}

MCPackets ==
  MCAlterable \cup
  {Rtp(0, NoExt, 0, 0), Rtp(1, NoExt, 2, 0), Rtp(1, NoExt, 1, 1),
   Rtp(0, OneByte, 2, 1), Rtp(2, OneByte, 0, 1), Rtp(0, Stops, 1, 0),
   Rtp(1, TwoByte, 2, 0), Rtp(0, TwoByte, 0, 1), Rtp(0, AppBits, 1, 0),
   Rtp(0, Other, 1, 0), Rtp(0, Overrun, 4, 0), Rtp(0, TooLong, 1, 1), Rtcp(0)}
=============================================================================
