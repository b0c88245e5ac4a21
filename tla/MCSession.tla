----------------------------- MODULE MCSession -----------------------------
(***************************************************************************)
(* Small sessions for TLC: two documents, two texts, one of them with a    *)
(* character that takes two bytes.  The documents are alike.               *)
(***************************************************************************)
EXTENDS Session, TLC

Alike == Permutations(Uri)
=============================================================================
