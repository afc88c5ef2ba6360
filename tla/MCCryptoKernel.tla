--------------------------- MODULE MCCryptoKernel ---------------------------
(* An application with types of its own: one for an id of the library that  *)
(* answers the built-in test data, one for the same id that answers only    *)
(* the first one's data, one that fails its own self-test, and an           *)
(* authentication type that does not answer the built-in test data.         *)
EXTENDS CryptoKernel

App(name, kind, id) == [name |-> name, kind |-> kind, id |-> id]

MCAppTypes == {App("icm_a", "cipher", "aes_icm_128"),
               App("icm_b", "cipher", "aes_icm_128"),
               App("broken", "cipher", "aes_icm_256"),
               App("mac", "auth", "hmac")}

MCPassing == {<<id, id>> : id \in InitIds}
               \cup {<<n, n>> : n \in {"icm_a", "icm_b", "mac"}}
               \cup {<<"icm_a", "aes_icm_128">>, <<"icm_b", "icm_a">>}
=============================================================================
