----------------------------- MODULE MCKvClient -----------------------------
(* The two scripts of bin/client.rs. *)
EXTENDS KvClient

CONSTANTS tsk1, tsk2

SetTo(k, v) == [op |-> "set", key |-> k, val |-> v]
Get(k, v) == [op |-> "get", key |-> k, expect |-> v]

ClientScripts == [t \in {tsk1, tsk2} |->
  IF t = tsk1
  THEN <<SetTo("halo", "code ocean"), Get("halo", "code ocean"), Get("not-exists", Absent)>>
  ELSE <<SetTo("mineral", "electricity"), SetTo("museum", "gallery"),
         Get("mineral", "electricity"), SetTo("halo", "in-depth knowledge"),
         Get("halo", "in-depth knowledge")>>]
=============================================================================
