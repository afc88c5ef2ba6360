--------------------------- MODULE MCPacketCrypto ---------------------------
(* PacketCrypto with every back end.                                       *)
EXTENDS PacketCrypto

Gcm  == {"gcm"} \X {"ossl", "nss", "mbedtls", "wssl", "wssl_stream"}
Icm  == {"icm"} \X {"builtin", "ossl", "nss", "mbedtls", "wssl"}
Hmac == {"hmac"} \X {"builtin", "ossl", "ossl_dup", "nss", "mbedtls", "wssl"}

MCKinds  == Gcm \cup Icm \cup Hmac
(* The built-in ones call no library.  A library's failure in the HMACs of   *)
(* Mbed TLS and wolfSSL is left out: see the README.                         *)
MCFaulty == {x \in Gcm \cup Icm : x[2] # "builtin"}
            \cup {"hmac"} \X {"ossl", "ossl_dup", "nss"}
NssMbed  == {"gcm"} \X {"nss", "mbedtls"}
(* Around the lengths at which SHA-1's padding takes another block. *)
MCMsgLens == {1, 51, 52, 55, 56, 57, 59, 60, 61, 63, 64, 115, 119, 120}
=============================================================================
