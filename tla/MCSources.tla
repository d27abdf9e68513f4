----------------------------- MODULE MCSources -----------------------------
EXTENDS Sources, TLC

-----------------------------------------------------------------------------
(* A tree: a production and a test directory, one that is skipped, and a    *)
(* file of every kind: Rust, Go that goast and hardcoded want, and one that *)
(* nobody wants.                                                            *)

Dir(parent, skip) ==
    [kind |-> "dir", parent |-> parent, skip |-> skip, rust |-> FALSE, test |-> FALSE,
     wants |-> {}]

File(parent, rust, test, wants) ==
    [kind |-> "file", parent |-> parent, skip |-> FALSE, rust |-> rust, test |-> test,
     wants |-> wants]

MCTree ==
    << Dir(0, FALSE),
         File(1, FALSE, FALSE, {"goast", "hardcoded"}),
         File(1, FALSE, FALSE, {}),
         Dir(1, FALSE),
           File(4, TRUE, FALSE, {"rust"}),
         Dir(1, TRUE),
           File(6, TRUE, FALSE, {"rust"}),
         Dir(1, FALSE),
           File(8, TRUE, TRUE, {"rust"}) >>

Text(lines) == [lines |-> lines, parses |-> TRUE]

Key   == <<"key">>
Attr  == <<"cfg">>
Inner == <<"inner">>
Open  == <<"{">>
Close == <<"}">>
Whole == <<"{", "key", "}">>
Str   == <<"quote", "}", "quote", ";", "key">>
Note  == <<"key", ";", "//", "{", "cfg">>
Use   == <<";">>

Lines == {Key, Attr, Inner, Open, Close, Whole, Str, Note}

\* Every short file, and those of six lines with a test module.
RustLines ==
    UNION {[1 .. n -> Lines] : n \in 1 .. 2} \cup [1 .. 3 -> Lines \ {Note}]
        \cup {<<a, Attr, Open, b, Close, c>> : a, b, c \in {Key, Str, Note}}
        \cup {<<Attr, Open, a, b, c, d>> : a \in {Attr, Key, Str}, b \in {Open, Whole},
                                          c, d \in {Key, Close}}

RustContents ==
    {Text(lines) : lines \in {l \in RustLines : Tidy(l) /\ KeyLines(l) # {}}}

GoContents == {Text(<<Key>>), [lines |-> <<Key>>, parses |-> FALSE]}

Filled(go, rust) ==
    [e \in 1 .. Len(MCTree) |->
        CASE e = 2 -> go
          [] e = 5 -> rust
          [] e \in {3, 7, 9} -> Text(<<Key>>)
          [] OTHER -> Text(<<>>)]

MCContents ==
    {Filled(Text(<<Key>>), rust) : rust \in RustContents}
        \cup {Filled(go, Text(<<Attr, Whole, Key>>)) : go \in GoContents}

\* `#[cfg(test)]` before an item without a block (`mod tests;`, a `use`), and a
\* production function with a key in it behind that.
OtherContents == {Filled(Text(<<Key>>), Text(<<Attr, Use, Open, Key, Close>>))}

-----------------------------------------------------------------------------
(* Images of one or two layers, and pairs of them; names that meet after    *)
(* cleaning, files in the way of directories, sizes around every cap.       *)

F(name, size, holds) == [name |-> name, kind |-> "file", size |-> size, holds |-> holds]
NotFile(name, kind)  == [name |-> name, kind |-> kind, size |-> 0, holds |-> "text"]
Outer(kind)      == [kind |-> kind, files |-> <<>>, torn |-> FALSE]
Layer(fs, torn)  == [kind |-> "layer", files |-> fs, torn |-> torn]

A == <<"a">>
MCFiles ==
    {F(A, 1, "source"), F(A, 1, "text"), F(A, 4, "binary"),
     F(<<"..", "a">>, 2, "binary"), F(<<"vendor", "b">>, 1, "source"),
     F(<<"a", "b">>, 2, "binary"), F(<<"b">>, 3, "source"), NotFile(A, "whiteout")}

MCLayers ==
    {Layer(fs, FALSE) : fs \in UNION {[1 .. n -> MCFiles] : n \in 0 .. 2}}
        \cup {Layer(<<F(A, 1, "source")>>, TRUE)}

Small == Layer(<<F(A, 2, "source")>>, FALSE)
MCImages ==
    {<<t>> : t \in UNION {[1 .. n -> MCLayers] : n \in 1 .. 2}}
        \cup {<< <<Outer("meta"), Small>>, <<l, Outer(k)>> >> :
                 l \in MCLayers, k \in {"meta", "opaque", "torn"}}

-----------------------------------------------------------------------------
(* An account of three KMS keys and three certificates, a vault of five     *)
(* keys, two key rings with three keys between them; pages of two.          *)

MCKeySpec ==
    <<"kms", 1>> :> "RSA_1024" @@ <<"kms", 2>> :> "ML_DSA_44" @@
    <<"kms", 3>> :> "SYMMETRIC_DEFAULT" @@
    <<"acm", 1>> :> "RSA_4096" @@ <<"acm", 2>> :> "EC_prime256v1" @@
    <<"acm", 3>> :> "EC_new" @@
    <<"vault", 1>> :> "RSA" @@ <<"vault", 2>> :> "EC-HSM" @@
    <<"vault", 3>> :> "OKP" @@ <<"vault", 4>> :> "oct" @@
    <<"vault", 5>> :> "none" @@
    <<"gcp", 1, 1, 1>> :> "GOOGLE_SYMMETRIC_ENCRYPTION" @@
    <<"gcp", 1, 1, 2>> :> "AES_128_GCM" @@
    <<"gcp", 1, 2, 1>> :> "RSA_SIGN_RAW_PKCS1_2048" @@
    <<"gcp", 2, 1, 1>> :> "PQ_SIGN_ML_DSA_65" @@
    <<"gcp", 2, 1, 2>> :> "EC_SIGN_P256_SHA256"

MCResource == DOMAIN MCKeySpec
MCExpired  == {<<"acm", 2>>, <<"acm", 3>>, <<"vault", 1>>, <<"vault", 3>>}
MCDisabled == {<<"vault", 4>>}

-----------------------------------------------------------------------------
(* Endpoints: one modern, one with a legacy machine beside a modern one, one *)
(* with a key of a new kind.                                                *)

H(version, insecure, algo, size, expired) ==
    [version |-> version, insecure |-> insecure, algo |-> algo, size |-> size,
     expired |-> expired]

MCAnswer ==
    "modern" :> {H("1.3", FALSE, "ECDSA", 256, FALSE)} @@
    "mixed"  :> {H("1.2", FALSE, "RSA", 2048, FALSE), H("1.0", TRUE, "RSA", 1024, TRUE),
                 H("1.1", FALSE, "", 0, FALSE)} @@
    "new"    :> {H("1.3", FALSE, "", 0, TRUE)}

MCEndpoints == DOMAIN MCAnswer

=============================================================================
