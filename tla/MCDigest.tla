------------------------------ MODULE MCDigest ------------------------------
(***************************************************************************)
(* Values of Digest's constants: two alerts of one rule, one of another.   *)
(***************************************************************************)
EXTENDS Digest, TLC

CONSTANTS r1, r2, a, b, c

MCRuleOf == a :> r1 @@ b :> r1 @@ c :> r2
=============================================================================
