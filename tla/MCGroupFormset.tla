--------------------------- MODULE MCGroupFormset ---------------------------
(***************************************************************************)
(* Up to four groups.  Worker w1 posts up to three forms, w2 one; two       *)
(* requests overlap while there are at most three groups.                   *)
(***************************************************************************)
EXTENDS GroupFormset, TLC

CONSTANTS w1, w2

FormsBound == (w1 :> 3) @@ (w2 :> 1)
=============================================================================
