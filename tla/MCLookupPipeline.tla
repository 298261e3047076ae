--------------------------- MODULE MCLookupPipeline ---------------------------
(* Instances of LookupPipeline for TLC: two keys that table 1 tells apart. *)
EXTENDS LookupPipeline, TLC

CONSTANTS k1, k2

MCKeys == {k1, k2}
MCTwo == (k1 :> 0) @@ (k2 :> 1)
MCOne == (k1 :> 0) @@ (k2 :> 0)
=============================================================================
