----------------------------- MODULE MCUrlSplit -----------------------------
(***************************************************************************)
(* An instance of UrlSplit for TLC: texts of up to five characters.        *)
(***************************************************************************)
EXTENDS UrlSplit

MCTexts == UNION {[1 .. n -> {"a", "/", "?"}] : n \in 0 .. 5}
=============================================================================
