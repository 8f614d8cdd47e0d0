------------------------------ MODULE KvStore -------------------------------
(***************************************************************************)
(* What the key-value experiment of the client program promises its tasks: *)
(* they run their scripts against one atomic store.  A SET takes effect    *)
(* when the task goes on to its next command.  The answer of a GET is      *)
(* fixed when it is issued and is handed over later.  Only when the        *)
(* server is gone may a SET be lost or a GET fail.                         *)
(***************************************************************************)
EXTENDS Naturals, Sequences

CONSTANTS Tasks, Keys, Vals, Absent, Failed, Script

VARIABLES store, pc, pending, got, broken

vars == <<store, pc, pending, got, broken>>

NoAnswer == [val |-> "none"]

Init ==
  /\ store = [k \in Keys |-> Absent]
  /\ pc = [t \in Tasks |-> 1]
  /\ pending = [t \in Tasks |-> NoAnswer]
  /\ got = [t \in Tasks |-> <<>>]
  /\ broken = FALSE

At(t, op) ==
  /\ pending[t] = NoAnswer
  /\ pc[t] <= Len(Script[t])
  /\ Script[t][pc[t]].op = op

Advance(t) == pc' = [pc EXCEPT ![t] = @ + 1]

Set(t) ==
  /\ At(t, "set")
  /\ Advance(t)
  /\ LET cmd == Script[t][pc[t]] IN store' = [store EXCEPT ![cmd.key] = cmd.val]
  /\ UNCHANGED <<pending, got, broken>>

Get(t) ==
  /\ At(t, "get")
  /\ Advance(t)
  /\ pending' = [pending EXCEPT ![t] = [val |-> store[Script[t][pc[t]].key]]]
  /\ UNCHANGED <<store, got, broken>>

Return(t) ==
  /\ pending[t] # NoAnswer
  /\ got' = [got EXCEPT ![t] = Append(@, pending[t].val)]
  /\ pending' = [pending EXCEPT ![t] = NoAnswer]
  /\ UNCHANGED <<store, pc, broken>>

Break ==
  /\ ~broken
  /\ broken' = TRUE
  /\ UNCHANGED <<store, pc, pending, got>>

LoseSet(t) ==
  /\ broken /\ At(t, "set")
  /\ Advance(t)
  /\ UNCHANGED <<store, pending, got, broken>>

\* A GET fails at once, or while its answer is awaited.
FailGet(t) ==
  /\ broken
  /\ \/ At(t, "get") /\ Advance(t) /\ UNCHANGED pending
     \/ /\ pending[t] # NoAnswer
        /\ pending' = [pending EXCEPT ![t] = NoAnswer]
        /\ UNCHANGED pc
  /\ \E v \in {Absent, Failed} : got' = [got EXCEPT ![t] = Append(@, v)]
  /\ UNCHANGED <<store, broken>>

Next ==
  \/ Break
  \/ \E t \in Tasks : Set(t) \/ Get(t) \/ Return(t) \/ LoseSet(t) \/ FailGet(t)

Spec == Init /\ [][Next]_vars
=============================================================================
