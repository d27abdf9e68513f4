------------------------ MODULE MCComplianceReport ------------------------
(* Findings that detectors write, at least one for every row the rules tell *)
(* apart; where a source or a primitive matters, one asset from several.    *)
EXTENDS ComplianceReport

F(type, algo, size, prim, source) ==
    [asset  |-> [type |-> type, algo |-> algo, size |-> size, prim |-> prim],
     source |-> source, class |-> "", sev |-> 0]

Asserted(f, class, sev) == [f EXCEPT !.class = class, !.sev = sev]

InSource(algo, prim) == F("algorithm", algo, 0, prim, "rust")

InKMS(algo, size, prim, source) == F("key", algo, size, prim, source)

\* Every hash, signature and cipher of the Rust detector with a rule of its own.
Source ==
    {InSource("RSA", "signature"), InSource("ECDH", "key-exchange"),
     InSource("Ed25519", "signature"), InSource("MD5", "hash"),
     InSource("SHA-256", "hash"), InSource("SHA-384", "hash"),
     InSource("SHA3", "hash"), InSource("3DES", "encryption"),
     InSource("AES", "encryption"), InSource("ML-KEM", "key-exchange")}

\* One key size seen by three connectors.
Keys ==
    {InKMS("RSA", 2048, "encryption", "aws-kms"),
     InKMS("RSA", 2048, "signature", "gcp-kms"),
     InKMS("RSA", 2048, "signature", "terraform"),
     InKMS("AES", 256, "encryption", "gcp-kms"),
     InKMS("AES", 0, "encryption", "azure-keyvault")}

RsaCertificate(size, source) == F("certificate", "RSA", size, "signature", source)

Certificates ==
    {RsaCertificate(1024, "certfile"), RsaCertificate(3072, "tls-probe"),
     Asserted(RsaCertificate(3072, "tls-probe"), "expired", High)}

Tls == F("protocol", "TLS", 0, "tls", "tls-probe")

\* Risks that a detector asserts, and what it finds no risk in.
Context ==
    {Asserted(F("key", "private-key", 0, "unknown", "hardcoded"), "hardcoded", Critical),
     Asserted(Tls, "misconfig", High), Asserted(Tls, "weak", Medium), Tls,
     Asserted(F("library", "openssl", 0, "unknown", "deps"), "none", 1),
     Asserted(F("ai-usage", "openai", 0, "unknown", "aiusage"), "none", 1)}

MCInput == Source \cup Keys \cup Certificates \cup Context

\* Two hashes of one key.
HashInput == {InSource("SHA-384", "hash"), InSource("SHA3", "hash"), InSource("AES", "encryption")}

=============================================================================
