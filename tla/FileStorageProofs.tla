-------------------------- MODULE FileStorageProofs --------------------------
(***************************************************************************)
(* Proof that a saved file stays where save() says it is, for any savers,  *)
(* names and contents.                                                     *)
(***************************************************************************)
EXTENDS FileStorage, SequenceTheorems, TLAPS

LEMMA InitIInv == Init => IInv
  BY StorageAssumption, NoneAssumption
     DEF Init, IInv, TypeOK, SaverInv, Calls, Ends

\* The steps that touch no file.
LEMMA NoFileStep ==
  ASSUME IInv, NEW s \in Savers,
         \/ Mask(s) \/ Mkdir(s) \/ Unmask(s)
         \/ OpenExists(s) \/ OpenNoDirectory(s) \/ Alternative(s)
  PROVE  IInv'
  <1> USE StorageAssumption DEF IInv
  <1>1. TypeOK'
    <2>1. CASE Mask(s)
      BY <2>1 DEF TypeOK, Mask, GoTo, fileVars, Calls
    <2>2. CASE Mkdir(s)
      BY <2>2 DEF TypeOK, Mkdir, GoTo, fileVars, Calls
    <2>3. CASE Unmask(s)
      BY <2>3 DEF TypeOK, Unmask, GoTo, fileVars, Calls
    <2>4. CASE OpenExists(s) \/ OpenNoDirectory(s)
      BY <2>4 DEF TypeOK, OpenExists, OpenNoDirectory, GoTo, dirVars, fileVars, Calls, Ends
    <2>5. CASE Alternative(s)
      BY <2>5 DEF TypeOK, Alternative, GoTo, dirVars, fileVars, Calls
    <2> QED
      BY <2>1, <2>2, <2>3, <2>4, <2>5
  <1>2. /\ UNCHANGED <<fileVars, deleted>>
        /\ pc[s] \in Calls \ {"write"}
        /\ \E call \in (Calls \ {"write"}) \cup {"refused", "no_directory"} :
             pc' = [pc EXCEPT ![s] = call]
        /\ \A t \in Savers \ {s} : path'[t] = path[t]
    BY DEF Mask, Mkdir, Unmask, OpenExists, OpenNoDirectory, Alternative,
           GoTo, Calls, TypeOK
  <1>3. ASSUME NEW t \in Savers PROVE SaverInv(t)'
    <2>1. CASE t = s
      BY <1>2, <2>1 DEF SaverInv, fileVars, TypeOK, Calls
    <2>2. CASE t # s
      BY <1>2, <2>2 DEF SaverInv, fileVars, TypeOK
    <2> QED
      BY <2>1, <2>2
  <1> QED
    BY <1>1, <1>3

\* O_EXCL: the file is new.
LEMMA OpenStep ==
  ASSUME IInv, NEW s \in Savers, Open(s)
  PROVE  IInv'
  <1> USE StorageAssumption DEF IInv
  <1>1. TypeOK'
    BY DEF TypeOK, Open, GoTo, dirVars, Calls
  <1>2. ASSUME NEW t \in Savers PROVE SaverInv(t)'
    <2>1. SaverInv(t) /\ SaverInv(s)
      OBVIOUS
    <2>2. /\ UNCHANGED <<data, nwritten, deleted, path>>
          /\ files[path[s]] = None
          /\ files' = [files EXCEPT ![path[s]] = s]
          /\ handle' = [handle EXCEPT ![s] = s]
          /\ pc[s] = "open" /\ pc' = [pc EXCEPT ![s] = "write"]
      BY DEF Open, GoTo, Exists
    <2>3. CASE t = s
      BY <2>1, <2>2, <2>3 DEF SaverInv, TypeOK, Calls
    <2>4. CASE t # s
      BY <2>1, <2>2, <2>4, NoneAssumption DEF SaverInv, TypeOK
    <2> QED
      BY <2>3, <2>4
  <1> QED
    BY <1>1, <1>2

\* A saver writes behind what it wrote before.
LEMMA AppendChunk ==
  ASSUME NEW s \in Savers, NEW k \in Nat
  PROVE  WriteAt([i \in 1..k |-> s], k + 1, s) = [i \in 1..(k + 1) |-> s]
  <1> DEFINE seq == [i \in 1..k |-> s]
  <1>1. seq \in Seq(Savers) /\ Len(seq) = k
    OBVIOUS
  <1>2. WriteAt(seq, k + 1, s) = Append(seq, s)
    BY <1>1 DEF WriteAt
  <1>3. Append(seq, s) = [i \in 1..(k + 1) |-> s]
    <2>1. /\ Append(seq, s) \in Seq(Savers)
          /\ Len(Append(seq, s)) = k + 1
          /\ Append(seq, s)[k + 1] = s
          /\ \A i \in 1..k : Append(seq, s)[i] = seq[i]
      BY <1>1
    <2>2. \A i \in 1..(k + 1) : i = k + 1 \/ i \in 1..k
      OBVIOUS
    <2>3. \A i \in 1..(k + 1) : Append(seq, s)[i] = s
      BY <2>1, <2>2
    <2>4. Append(seq, s) \in [1..(k + 1) -> Savers]
      BY <2>1, LenProperties
    <2> HIDE DEF seq
    <2> QED
      BY <2>3, <2>4
  <1> QED
    BY <1>2, <1>3

LEMMA WriteStep ==
  ASSUME IInv, NEW s \in Savers, WriteChunk(s)
  PROVE  IInv'
  <1> USE StorageAssumption DEF IInv
  <1>1. /\ SaverInv(s) /\ pc[s] = "write" /\ nwritten[s] < Chunks[s]
        /\ nwritten[s] \in Nat /\ Chunks[s] \in Nat
        /\ handle[s] = s /\ data[s] = [i \in 1..nwritten[s] |-> s]
    BY DEF WriteChunk, SaverInv, TypeOK
  <1>2. /\ data' = [data EXCEPT ![s] = [i \in 1..(nwritten[s] + 1) |-> s]]
        /\ nwritten' = [nwritten EXCEPT ![s] = @ + 1]
        /\ UNCHANGED <<dirVars, files, handle, deleted, pc, path>>
    <2>1. WriteAt(data[s], nwritten[s] + 1, s) = [i \in 1..(nwritten[s] + 1) |-> s]
      BY <1>1, AppendChunk
    <2> QED
      BY <1>1, <2>1 DEF WriteChunk
  <1>3. [i \in 1..(nwritten[s] + 1) |-> s] \in Seq(Savers)
    BY <1>1
  <1>4. TypeOK'
    BY <1>1, <1>2, <1>3 DEF TypeOK, dirVars
  <1>5. ASSUME NEW t \in Savers PROVE SaverInv(t)'
    <2>1. CASE t = s
      <3>1. /\ nwritten'[s] = nwritten[s] + 1
            /\ data'[s] = [i \in 1..nwritten'[s] |-> s]
        BY <1>1, <1>2 DEF TypeOK
      <3> QED
        BY <1>1, <1>2, <2>1, <3>1 DEF SaverInv, TypeOK, Calls
    <2>2. CASE t # s
      <3>1. nwritten'[t] = nwritten[t] /\ data'[t] = data[t]
        BY <1>2, <2>2 DEF TypeOK
      <3> QED
        BY <1>2, <3>1 DEF SaverInv
    <2> QED
      BY <2>1, <2>2
  <1> QED
    BY <1>4, <1>5

LEMMA EndStep ==
  ASSUME IInv, NEW s \in Savers, ReadFails(s) \/ Close(s)
  PROVE  IInv'
  <1> USE StorageAssumption DEF IInv
  <1>1. TypeOK'
    BY DEF TypeOK, ReadFails, Close, GoTo, dirVars, Ends
  <1>2. /\ UNCHANGED <<files, data, nwritten, deleted, path>>
        /\ pc[s] = "write"
        /\ handle' = [handle EXCEPT ![s] = None]
        /\ \/ pc' = [pc EXCEPT ![s] = "unreadable"]
           \/ pc' = [pc EXCEPT ![s] = "saved"] /\ nwritten[s] = Chunks[s]
    BY DEF ReadFails, Close, GoTo
  <1>3. ASSUME NEW t \in Savers PROVE SaverInv(t)'
    <2>1. CASE t = s
      BY <1>2, <2>1 DEF SaverInv, TypeOK, Calls
    <2>2. CASE t # s
      BY <1>2, <2>2 DEF SaverInv, TypeOK
    <2> QED
      BY <2>1, <2>2
  <1> QED
    BY <1>1, <1>3

LEMMA DeleteStep ==
  ASSUME IInv, Delete
  PROVE  IInv'
  <1> USE DEF IInv
  <1>1. ASSUME NEW n \in Names, DeleteFile(n) PROVE IInv'
    <2>1. TypeOK'
      BY <1>1, NoneAssumption DEF TypeOK, DeleteFile, Exists, dirVars
    <2>2. ASSUME NEW t \in Savers PROVE SaverInv(t)'
      BY <1>1, NoneAssumption DEF SaverInv, TypeOK, DeleteFile
    <2> QED
      BY <2>1, <2>2
  <1>2. ASSUME NEW d \in Dirs, DeleteDirectory(d) PROVE IInv'
    <2>1. TypeOK'
      BY <1>2 DEF TypeOK, DeleteDirectory, fileVars
    <2>2. ASSUME NEW t \in Savers PROVE SaverInv(t)'
      BY <1>2 DEF SaverInv, DeleteDirectory, fileVars
    <2> QED
      BY <2>1, <2>2
  <1> QED
    BY <1>1, <1>2 DEF Delete

LEMMA InductiveInvariant == Spec => []IInv
  <1>1. ASSUME IInv, [Next]_vars
        PROVE  IInv'
    <2>1. CASE UNCHANGED vars
      BY <1>1, <2>1 DEF vars, dirVars, fileVars, IInv, TypeOK, SaverInv
    <2>2. CASE Next
      BY <1>1, <2>2, NoFileStep, OpenStep, WriteStep, EndStep, DeleteStep
         DEF Next, Save
    <2> QED
      BY <1>1, <2>1, <2>2
  <1> QED
    BY InitIInv, <1>1, PTL DEF Spec

\* Whatever other savers do, the path that save() returns leads to the caller's
\* data, whole and unmixed, until it is deleted (storage.py:130-191).
THEOREM SavedFilesAreKept == Spec => []SavedIsKept
  <1>1. IInv => SavedIsKept
    BY DEF IInv, SaverInv, SavedIsKept, Whole
  <1> QED
    BY <1>1, InductiveInvariant, PTL
=============================================================================
