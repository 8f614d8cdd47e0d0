------------------------ MODULE TablePrivilegeProofs ------------------------
(***************************************************************************)
(* Proofs about TablePrivilege, for any models, fields and migrations, and *)
(* any number of runs forwards and backwards: the privileges follow the    *)
(* tables (GrantsMatchTables), a failing statement costs those of one      *)
(* table (OneFaultOneTable), and a process that runs a migration again     *)
(* locks nobody out of the tables of models (RunningAgainLocksNothing).    *)
(***************************************************************************)
EXTENDS TablePrivilege, FiniteSetTheorems, SequenceTheorems, WellFoundedInduction, TLAPS

-----------------------------------------------------------------------------
(* Induction along an interval, and the recursive functions of the module.  *)

\* A nonempty set of numbers has a least one.
LEMMA LeastNumber ==
  ASSUME NEW T, T \subseteq Nat, T # {}
  PROVE  \E x \in T : \A y \in T : x <= y
  <1>1. \E x \in T : \A y \in T : ~ (<<y, x>> \in OpToRel(<, Nat))
    BY WFMin, NatLessThanWellFounded
  <1>2. ASSUME NEW x \in T, NEW y \in T, ~ (x <= y) PROVE <<y, x>> \in OpToRel(<, Nat)
    <2>1. y \in Nat /\ x \in Nat
      OBVIOUS
    <2>2. y < x
      BY <1>2, <2>1
    <2> QED
      BY <2>1, <2>2 DEF OpToRel
  <1> QED
    BY <1>1, <1>2, Zenon

\* A set that holds 0 and, with a number, the next one up to n, holds 0..n.
LEMMA NatSetInduction ==
  ASSUME NEW n \in Nat, NEW S, 0 \in S,
         \A i \in 1..n : i - 1 \in S => i \in S
  PROVE  0..n \subseteq S
  <1> SUFFICES ASSUME NEW b \in 0..n, b \notin S PROVE FALSE
    OBVIOUS
  <1> DEFINE T == (0..n) \ S
  <1>1. T \subseteq Nat /\ T # {}
    OBVIOUS
  <1>2. PICK x \in T : \A y \in T : x <= y
    <2> HIDE DEF T
    <2> QED
      BY <1>1, LeastNumber
  <1>3. x \in 1..n /\ x \notin S
    <2>1. x \in 0..n /\ x \notin S
      OBVIOUS
    <2> QED
      BY <2>1
  <1>4. x - 1 \in 0..n /\ ~ (x <= x - 1)
    BY <1>3
  <1>5. x - 1 \in S
    <2>1. x - 1 \notin T
      BY <1>2, <1>4
    <2> QED
      BY <2>1, <1>4
  <1> QED
    BY <1>3, <1>5

\* The operations change the state one after the other.
LEMMA StatesIs ==
  ASSUME NEW S, NEW ops, Len(ops) \in Nat
  PROVE  /\ States(S, ops)[0] = S
         /\ \A i \in 1..Len(ops) : States(S, ops)[i] = Change(States(S, ops)[i - 1], ops[i])
  <1> DEFINE N == Len(ops)
             Done(f, m) == /\ f = [i \in 0..N |-> f[i]] /\ f[0] = S
                           /\ \A i \in 1..m : f[i] = Change(f[i - 1], ops[i])
             K == {m \in 0..N : \E f : Done(f, m)}
             Eq(f) == f = [i \in 0..N |-> IF i = 0 THEN S ELSE Change(f[i - 1], ops[i])]
  <1>1. 0 \in K
    <2>1. Done([i \in 0..N |-> S], 0)
      OBVIOUS
    <2> HIDE DEF Done
    <2> QED
      BY <2>1
  <1>2. ASSUME NEW m \in 1..N, m - 1 \in K PROVE m \in K
    <2>1. PICK f : Done(f, m - 1)
      BY <1>2
    <2> DEFINE h == [i \in 0..N |-> IF i = m THEN Change(f[m - 1], ops[m]) ELSE f[i]]
    <2>2. h[m] = Change(f[m - 1], ops[m]) /\ \A i \in 0..N : i # m => h[i] = f[i]
      OBVIOUS
    <2>3. h = [i \in 0..N |-> h[i]]
      OBVIOUS
    <2> HIDE DEF h
    <2>4. ASSUME NEW i \in 1..m PROVE h[i] = Change(h[i - 1], ops[i])
      <3>1. h[i - 1] = f[i - 1]
        BY <2>2
      <3>2. ASSUME i # m PROVE f[i] = Change(f[i - 1], ops[i])
        <4>1. i \in 1..(m - 1)
          BY <3>2
        <4> QED
          BY <2>1, <4>1
      <3> QED
        BY <2>2, <3>1, <3>2
    <2>5. h[0] = S
      BY <2>1, <2>2
    <2>6. Done(h, m)
      BY <2>3, <2>4, <2>5
    <2> HIDE DEF Done
    <2> QED
      BY <2>6
  <1>3. N \in K
    <2>1. \A m \in 1..N : m - 1 \in K => m \in K
      BY <1>2
    <2> HIDE DEF K, N
    <2>2. 0..N \subseteq K
      BY <1>1, <2>1, NatSetInduction DEF N
    <2> QED
      BY <2>2 DEF N
  <1>4. PICK f : Done(f, N)
    BY <1>3
  <1>5. Eq(f)
    <2> DEFINE k == [i \in 0..N |-> IF i = 0 THEN S ELSE Change(f[i - 1], ops[i])]
    <2>1. \A i \in 0..N : f[i] = k[i]
      BY <1>4
    <2>2. f = [i \in 0..N |-> f[i]] /\ k = [i \in 0..N |-> k[i]]
      BY <1>4
    <2>3. f = k
      <3> HIDE DEF k
      <3> QED
        BY <2>1, <2>2
    <2> QED
      BY <2>3
  <1> DEFINE T == CHOOSE g : Eq(g)
  <1>6. Eq(T)
    <2> HIDE DEF Eq
    <2> QED
      BY <1>5
  <1>7. States(S, ops) = T
    BY DEF States
  <1> HIDE DEF T
  <1>8. T[0] = S /\ \A i \in 1..N : T[i] = Change(T[i - 1], ops[i])
    BY <1>6
  <1> QED
    BY <1>7, <1>8

\* The states of the project after each of the migrations of the chain.
LEMMA StateAtIs ==
  ASSUME NEW n \in Nat
  PROVE  StateAt(n) = IF n = 0 THEN <<>> ELSE StateFrom(StateAt(n - 1), chain[n])
  <1> DEFINE Done(f, N, m) == /\ f = [i \in 0..N |-> f[i]] /\ f[0] = <<>>
                              /\ \A i \in 1..m : f[i] = StateFrom(f[i - 1], chain[i])
             Eq(f, N) == f = [k \in 0..N |-> IF k = 0 THEN <<>>
                                             ELSE StateFrom(f[k - 1], chain[k])]
             At(N) == CHOOSE g : Eq(g, N)
  <1>1. ASSUME NEW N \in Nat PROVE Done(At(N), N, N)
    <2> DEFINE K == {m \in 0..N : \E f : Done(f, N, m)}
    <2>1. 0 \in K
      <3>1. Done([i \in 0..N |-> <<>>], N, 0)
        OBVIOUS
      <3> HIDE DEF Done
      <3> QED
        BY <3>1
    <2>2. ASSUME NEW m \in 1..N, m - 1 \in K PROVE m \in K
      <3>1. PICK f : Done(f, N, m - 1)
        BY <2>2
      <3> DEFINE h == [i \in 0..N |-> IF i = m THEN StateFrom(f[m - 1], chain[m]) ELSE f[i]]
      <3>2. /\ h[m] = StateFrom(f[m - 1], chain[m])
            /\ \A i \in 0..N : i # m => h[i] = f[i]
        OBVIOUS
      <3>3. h = [i \in 0..N |-> h[i]]
        OBVIOUS
      <3> HIDE DEF h
      <3>4. ASSUME NEW i \in 1..m PROVE h[i] = StateFrom(h[i - 1], chain[i])
        <4>1. h[i - 1] = f[i - 1]
          BY <3>2
        <4>2. ASSUME i # m PROVE f[i] = StateFrom(f[i - 1], chain[i])
          <5>1. i \in 1..(m - 1)
            BY <4>2
          <5> QED
            BY <3>1, <5>1
        <4> QED
          BY <3>2, <4>1, <4>2
      <3>5. h[0] = <<>>
        BY <3>1, <3>2
      <3>6. Done(h, N, m)
        BY <3>3, <3>4, <3>5
      <3> HIDE DEF Done
      <3> QED
        BY <3>6
    <2>3. N \in K
      <3>1. \A m \in 1..N : m - 1 \in K => m \in K
        BY <2>2
      <3> HIDE DEF K
      <3>2. 0..N \subseteq K
        BY <2>1, <3>1, NatSetInduction
      <3> QED
        BY <3>2
    <2>4. PICK f : Done(f, N, N)
      BY <2>3
    <2>5. Eq(f, N)
      <3> DEFINE k == [i \in 0..N |-> IF i = 0 THEN <<>> ELSE StateFrom(f[i - 1], chain[i])]
      <3>1. \A i \in 0..N : f[i] = k[i]
        <4> SUFFICES ASSUME NEW i \in 0..N PROVE f[i] = k[i]
          OBVIOUS
        <4>1. i = 0 \/ i \in 1..N
          OBVIOUS
        <4>2. k[i] = IF i = 0 THEN <<>> ELSE StateFrom(f[i - 1], chain[i])
          OBVIOUS
        <4> HIDE DEF k
        <4> QED
          BY <2>4, <4>1, <4>2
      <3>2. f = [i \in 0..N |-> f[i]] /\ k = [i \in 0..N |-> k[i]]
        BY <2>4
      <3>3. f = k
        <4> HIDE DEF k
        <4> QED
          BY <3>1, <3>2
      <3> QED
        BY <3>3
    <2>6. Eq(At(N), N)
      <3> HIDE DEF Eq
      <3> QED
        BY <2>5
    <2> HIDE DEF At
    <2> QED
      BY <2>6
  <1>2. ASSUME NEW N \in Nat PROVE StateAt(N) = At(N)[N]
    BY DEF StateAt
  <1> HIDE DEF At
  <1>3. CASE n = 0
    <2>1. At(0)[0] = <<>>
      BY <1>1
    <2> QED
      BY <1>2, <1>3, <2>1
  <1>4. CASE n # 0
    <2> DEFINE D == {i \in 0..(n - 1) : At(n)[i] = At(n - 1)[i]}
    <2>1. n - 1 \in Nat
      BY <1>4
    <2>2. Done(At(n), n, n) /\ Done(At(n - 1), n - 1, n - 1)
      BY <1>1, <2>1
    <2>3. 0..(n - 1) \subseteq D
      <3>1. 0 \in D
        BY <2>1, <2>2
      <3>2. \A i \in 1..(n - 1) : i - 1 \in D => i \in D
        <4> SUFFICES ASSUME NEW i \in 1..(n - 1), At(n)[i - 1] = At(n - 1)[i - 1]
                     PROVE  At(n)[i] = At(n - 1)[i]
          OBVIOUS
        <4>1. i \in 1..n
          OBVIOUS
        <4>2. At(n)[i] = StateFrom(At(n)[i - 1], chain[i])
          BY <2>2, <4>1
        <4>3. At(n - 1)[i] = StateFrom(At(n - 1)[i - 1], chain[i])
          BY <2>2
        <4> QED
          BY <4>2, <4>3
      <3> HIDE DEF D
      <3> QED
        BY <2>1, <3>1, <3>2, NatSetInduction
    <2>4. At(n)[n - 1] = At(n - 1)[n - 1]
      BY <2>1, <2>3
    <2>5. At(n)[n] = StateFrom(At(n)[n - 1], chain[n])
      BY <1>4, <2>2
    <2> QED
      BY <1>2, <1>4, <2>1, <2>4, <2>5
  <1> QED
    BY <1>3, <1>4

\* One statement of a handler.
After(h, i, statements, caught, tables, fault) ==
  LET outcome == IF i = fault THEN "OperationalError"
                 ELSE Outcome(statements[i], tables, h.grants)
  IN  IF h.error # "ok" THEN h
      ELSE [grants |-> IF outcome = "ok" THEN Effect(statements[i], h.grants) ELSE h.grants,
            error |-> IF outcome \in caught THEN "ok" ELSE outcome]

\* A handler executes its statements one after the other.
LEMMA ExecuteIs ==
  ASSUME NEW statements, Len(statements) \in Nat, NEW caught, NEW tables, NEW granted, NEW fault
  PROVE  \E f : /\ f[0] = [grants |-> granted, error |-> "ok"]
                /\ \A i \in 1..Len(statements) :
                     f[i] = After(f[i - 1], i, statements, caught, tables, fault)
                /\ Execute(statements, caught, tables, granted, fault) = f[Len(statements)]
  <1> DEFINE N == Len(statements)
             Start == [grants |-> granted, error |-> "ok"]
             Do(h, i) == After(h, i, statements, caught, tables, fault)
             Done(f, m) == /\ f = [i \in 0..N |-> f[i]] /\ f[0] = Start
                           /\ \A i \in 1..m : f[i] = After(f[i - 1], i, statements, caught, tables, fault)
             K == {m \in 0..N : \E f : Done(f, m)}
             Eq(f) == f = [i \in 0..N |-> IF i = 0 THEN Start
                                          ELSE After(f[i - 1], i, statements, caught, tables, fault)]
  <1> HIDE DEF Start
  <1>1. 0 \in K
    <2>1. Done([i \in 0..N |-> Start], 0)
      OBVIOUS
    <2> HIDE DEF Done
    <2> QED
      BY <2>1
  <1>2. ASSUME NEW m \in 1..N, m - 1 \in K PROVE m \in K
    <2>1. PICK f : Done(f, m - 1)
      BY <1>2
    <2> DEFINE h == [i \in 0..N |-> IF i = m THEN Do(f[m - 1], m) ELSE f[i]]
    <2>2. h[m] = Do(f[m - 1], m) /\ \A i \in 0..N : i # m => h[i] = f[i]
      OBVIOUS
    <2>3. h = [i \in 0..N |-> h[i]]
      OBVIOUS
    <2> HIDE DEF h
    <2>4. ASSUME NEW i \in 1..m PROVE h[i] = Do(h[i - 1], i)
      <3>1. h[i - 1] = f[i - 1]
        BY <2>2
      <3>2. ASSUME i # m PROVE f[i] = Do(f[i - 1], i)
        <4>1. i \in 1..(m - 1)
          BY <3>2
        <4> QED
          BY <2>1, <4>1
      <3> QED
        BY <2>2, <3>1, <3>2
    <2>5. h[0] = Start
      BY <2>1, <2>2
    <2>6. Done(h, m)
      BY <2>3, <2>4, <2>5
    <2> HIDE DEF Done
    <2> QED
      BY <2>6
  <1>3. N \in K
    <2>1. \A m \in 1..N : m - 1 \in K => m \in K
      BY <1>2
    <2> HIDE DEF K, N
    <2>2. 0..N \subseteq K
      BY <1>1, <2>1, NatSetInduction DEF N
    <2> QED
      BY <2>2 DEF N
  <1>4. PICK f : Done(f, N)
    BY <1>3
  <1>5. Eq(f)
    <2> DEFINE k == [i \in 0..N |-> IF i = 0 THEN Start ELSE Do(f[i - 1], i)]
    <2>1. \A i \in 0..N : f[i] = k[i]
      BY <1>4
    <2>2. f = [i \in 0..N |-> f[i]] /\ k = [i \in 0..N |-> k[i]]
      BY <1>4
    <2>3. f = k
      <3> HIDE DEF k
      <3> QED
        BY <2>1, <2>2
    <2> QED
      BY <2>3
  <1> DEFINE T == CHOOSE g : Eq(g)
  <1>6. Eq(T)
    <2> HIDE DEF Eq
    <2> QED
      BY <1>5
  <1>7. Execute(statements, caught, tables, granted, fault) = T[N]
    BY DEF Execute, After, Start
  <1> HIDE DEF T
  <1>8. T[0] = Start /\ \A i \in 1..N : T[i] = Do(T[i - 1], i)
    BY <1>6
  <1> QED
    BY <1>7, <1>8 DEF Start

\* The sequences of a sequence, one after the other, have its elements.
LEMMA FlattenIs ==
  ASSUME NEW U, NEW seqs, NEW N \in Nat, seqs \in [1..N -> Seq(U)]
  PROVE  /\ FlattenSeq(seqs) \in Seq(U)
         /\ Range(FlattenSeq(seqs)) = UNION {Range(seqs[i]) : i \in 1..N}
  <1>1. seqs \in Seq(Seq(U)) /\ Len(seqs) = N /\ DOMAIN seqs = 1..N
    <2> DEFINE V == Seq(U)
    <2> HIDE DEF V
    <2>1. seqs \in [1..N -> V]
      BY DEF V
    <2>2. seqs \in Seq(V)
      BY <2>1
    <2>3. Len(seqs) \in Nat /\ 1..Len(seqs) = 1..N
      BY <2>1, <2>2, LenProperties
    <2>4. Len(seqs) = N
      BY <2>3
    <2> QED
      BY <2>1, <2>2, <2>4 DEF V
  <1> DEFINE Done(f, m) == /\ f = [i \in 1..N |-> f[i]]
                           /\ \A i \in 1..m : f[i] = IF i = 1 THEN seqs[i] ELSE f[i - 1] \o seqs[i]
             K == {m \in 0..N : \E f : Done(f, m)}
             Eq(f) == f = [i \in 1..N |-> IF i = 1 THEN seqs[i] ELSE f[i - 1] \o seqs[i]]
             T == CHOOSE g : Eq(g)
  <1>2. Eq(T)
    <2>1. 0 \in K
      <3>1. Done([i \in 1..N |-> 0], 0)
        OBVIOUS
      <3> HIDE DEF Done
      <3> QED
        BY <3>1
    <2>2. ASSUME NEW m \in 1..N, m - 1 \in K PROVE m \in K
      <3>1. PICK f : Done(f, m - 1)
        BY <2>2
      <3> DEFINE last == IF m = 1 THEN seqs[m] ELSE f[m - 1] \o seqs[m]
                 h == [i \in 1..N |-> IF i = m THEN last ELSE f[i]]
      <3> HIDE DEF last
      <3>2. h[m] = last /\ \A i \in 1..N : i # m => h[i] = f[i]
        OBVIOUS
      <3>3. h = [i \in 1..N |-> h[i]]
        OBVIOUS
      <3> HIDE DEF h
      <3>4. ASSUME NEW i \in 1..m
            PROVE  h[i] = IF i = 1 THEN seqs[i] ELSE h[i - 1] \o seqs[i]
        <4>1. ASSUME i # 1 PROVE h[i - 1] = f[i - 1]
          <5>1. i - 1 \in 1..N /\ i - 1 # m
            BY <4>1
          <5> QED
            BY <3>2, <5>1
        <4>2. CASE i = m
          BY <3>2, <4>1, <4>2 DEF last
        <4>3. CASE i # m
          <5>1. i \in 1..(m - 1) /\ i \in 1..N
            BY <4>3
          <5> QED
            BY <3>1, <3>2, <4>1, <4>3, <5>1
        <4> QED
          BY <4>2, <4>3
      <3>5. Done(h, m)
        BY <3>3, <3>4
      <3> HIDE DEF Done
      <3> QED
        BY <3>5
    <2>3. N \in K
      <3>1. \A m \in 1..N : m - 1 \in K => m \in K
        BY <2>2
      <3> HIDE DEF K
      <3>2. 0..N \subseteq K
        BY <2>1, <3>1, NatSetInduction
      <3> QED
        BY <3>2
    <2>4. PICK f : Done(f, N)
      BY <2>3
    <2>5. Eq(f)
      <3> DEFINE k == [i \in 1..N |-> IF i = 1 THEN seqs[i] ELSE f[i - 1] \o seqs[i]]
      <3>1. \A i \in 1..N : f[i] = k[i]
        BY <2>4
      <3>2. f = [i \in 1..N |-> f[i]] /\ k = [i \in 1..N |-> k[i]]
        BY <2>4
      <3>3. f = k
        <4> HIDE DEF k
        <4> QED
          BY <3>1, <3>2
      <3> QED
        BY <3>3
    <2> HIDE DEF Eq
    <2> QED
      BY <2>5
  <1>3. FlattenSeq(seqs) = IF N = 0 THEN seqs ELSE T[N]
    BY <1>1 DEF FlattenSeq
  <1> HIDE DEF T
  <1>4. \A i \in 1..N : T[i] = IF i = 1 THEN seqs[i] ELSE T[i - 1] \o seqs[i]
    BY <1>2
  <1> DEFINE G == {m \in 0..N : m = 0 \/ /\ T[m] \in Seq(U)
                                         /\ Range(T[m]) = UNION {Range(seqs[i]) : i \in 1..m}}
  <1>5. ASSUME NEW m \in 1..N, m - 1 \in G PROVE m \in G
    <2>1. seqs[m] \in Seq(U)
      OBVIOUS
    <2>2. CASE m = 1
      <3>1. T[m] = seqs[m]
        BY <1>4, <2>2
      <3>2. 1..m = {m}
        BY <2>2
      <3> QED
        BY <2>1, <3>1, <3>2
    <2>3. CASE m # 1
      <3>1. T[m] = T[m - 1] \o seqs[m]
        BY <1>4, <2>3
      <3>2. T[m - 1] \in Seq(U) /\ Range(T[m - 1]) = UNION {Range(seqs[i]) : i \in 1..(m - 1)}
        BY <1>5, <2>3
      <3>3. T[m] \in Seq(U) /\ Range(T[m]) = Range(T[m - 1]) \cup Range(seqs[m])
        BY <2>1, <3>1, <3>2, RangeConcatenation
      <3>4. 1..m = 1..(m - 1) \cup {m}
        OBVIOUS
      <3> HIDE DEF G
      <3>5. Range(T[m]) = UNION {Range(seqs[i]) : i \in 1..m}
        BY <3>2, <3>3, <3>4
      <3> QED
        BY <3>3, <3>5 DEF G
    <2> QED
      BY <2>2, <2>3
  <1>6. N \in G
    <2>1. \A m \in 1..N : m - 1 \in G => m \in G
      BY <1>5
    <2>2. 0 \in G
      OBVIOUS
    <2> HIDE DEF G
    <2>3. 0..N \subseteq G
      BY <2>1, <2>2, NatSetInduction
    <2> QED
      BY <2>3
  <1>7. CASE N = 0
    <2>1. FlattenSeq(seqs) = seqs /\ DOMAIN seqs = {} /\ 1..N = {}
      BY <1>1, <1>3, <1>7
    <2>2. seqs \in Seq(U)
      <3>1. seqs \in [1..0 -> U]
        BY <1>7, <2>1
      <3> QED
        BY <3>1
    <2> QED
      BY <2>1, <2>2 DEF Range
  <1>8. CASE N # 0
    BY <1>3, <1>6, <1>8
  <1> QED
    BY <1>7, <1>8

-----------------------------------------------------------------------------
(* Operations, and what they make of a state.                              *)

\* The members of a finite set, in some order.
LEMMA SetToSeqIs ==
  ASSUME NEW S, IsFiniteSet(S)
  PROVE  SetToSeq(S) \in Seq(S) /\ Range(SetToSeq(S)) = S
  <1> DEFINE n == Cardinality(S)
             Fits(f) == f \in [1..n -> S] /\ IsInjective(f)
  <1>1. n \in Nat /\ \E f : f \in Bijection(1..n, S)
    BY FS_CardinalityType DEF ExistsBijection
  <1>2. \E f : Fits(f)
    BY <1>1 DEF Bijection, Injection, IsInjective
  <1>3. Fits(SetToSeq(S))
    <2> HIDE DEF n
    <2>1. SetToSeq(S) = CHOOSE f \in [1..n -> S] : IsInjective(f)
      BY DEF SetToSeq, n
    <2> QED
      BY <1>2, <2>1
  <1> DEFINE f == SetToSeq(S)
  <1> HIDE DEF f
  <1>4. f \in [1..n -> S] /\ f \in Injection(1..n, S)
    BY <1>3 DEF Injection, IsInjective, f
  <1>5. IsFiniteSet(1..n) /\ Cardinality(1..n) = n
    BY <1>1, FS_Interval
  <1>6. f \in Surjection(1..n, S)
    BY <1>4, <1>5, FS_Injection
  <1>7. f \in Seq(S)
    BY <1>1, <1>4
  <1>8. Range(f) = S
    BY <1>4, <1>6 DEF Range, Surjection
  <1> QED
    BY <1>7, <1>8 DEF f

\* The names that a table of a model has.
Plain(m) == {<<m>>, <<"custom", m>>}

\* A state whose tables of many-to-many fields have default names.
GoodState(S) ==
  /\ DOMAIN S \subseteq Models
  /\ \A m \in DOMAIN S :
       /\ S[m] = [table |-> S[m].table, m2m |-> S[m].m2m, plain |-> S[m].plain]
       /\ S[m].table \in Plain(m) /\ DOMAIN S[m].m2m \subseteq Fields
       /\ \A f \in DOMAIN S[m].m2m : S[m].m2m[f] = NoName

HasField(S, m, f) == m \in DOMAIN S /\ f \in DOMAIN S[m].m2m

\* What the autodetector sees to.
Legal(S, op) ==
  /\ op.model \in Models
  /\ op.kind \in {"CreateModel", "DeleteModel", "AlterModelTable", "AddField", "RemoveField",
                  "AddPlainField", "RenameModel", "RenameField"}
  /\ op.kind \in {"CreateModel", "AlterModelTable"} =>
       OrDefault(op.table, op.model) \in Plain(op.model)
  /\ op.kind = "CreateModel" <=> op.model \notin DOMAIN S
  /\ op.kind = "CreateModel" => DOMAIN op.m2m \subseteq Fields
  /\ op.kind = "AddField" => op.fd \in Fields \ DOMAIN S[op.model].m2m

\* What AlterTablePrivilege asks for.
Regular(S, op) ==
  /\ op.kind \notin {"RenameModel", "RenameField"}
  /\ op.kind = "CreateModel" => \A f \in DOMAIN op.m2m : op.m2m[f] = NoName
  /\ op.kind = "AddField" => op.table = NoName
  /\ op.kind \in {"DeleteModel", "AlterModelTable"} => S[op.model].m2m = <<>>

\* The operations of the module are legal.
LEMMA LegalIs ==
  ASSUME NEW S, NEW op \in LegalOps(S)
  PROVE  /\ DOMAIN S \subseteq Models => Legal(S, op)
         /\ op.kind = "CreateModel" => DOMAIN op.m2m \subseteq Fields
  <1> DEFINE unused(name) == {name} \ Tables(S)
             tables(m) == {NoName} \cup IF m \in Named THEN unused(<<"custom", m>>) ELSE {}
             joins(m) == {NoName} \cup IF m \in Named THEN unused(<<"customJoin", m>>) ELSE {}
             fields(m) == DOMAIN S[m].m2m \cup S[m].plain
             AllTables == UNION {tables(m) : m \in Models}
             AllJoins == UNION {joins(m) : m \in Models}
             AllM2m == UNION {[F -> AllJoins] : F \in SUBSET Fields}
             Creates == {o \in [kind : {"CreateModel"}, model : Models \ DOMAIN S,
                                table : AllTables, m2m : AllM2m, plain : SUBSET Fields] :
                           /\ o.table \in tables(o.model) /\ Range(o.m2m) \subseteq joins(o.model)
                           /\ DOMAIN o.m2m \cap o.plain = {}
                           /\ \A f, g \in DOMAIN o.m2m :
                                o.m2m[f] = o.m2m[g] => f = g \/ o.m2m[f] = NoName}
             Deletes == [kind : {"DeleteModel"}, model : DOMAIN S]
             Renames == [kind : {"RenameModel"}, model : DOMAIN S, to : Models \ DOMAIN S]
             Alters(m) == {o \in [kind : {"AlterModelTable"}, model : {m}, table : tables(m)] :
                             OrDefault(o.table, m) # TableOf(S, m)}
             Adds(m) == [kind : {"AddField"}, model : {m}, fd : Fields \ fields(m),
                         table : joins(m)]
             AddsPlain(m) == [kind : {"AddPlainField"}, model : {m}, fd : Fields \ fields(m)]
             Removes(m) == [kind : {"RemoveField"}, model : {m}, fd : fields(m)]
             RenamesField(m) == [kind : {"RenameField"}, model : {m}, fd : fields(m),
                                 to : Fields \ fields(m)]
             Edits(m) == Alters(m) \cup Adds(m) \cup AddsPlain(m) \cup Removes(m)
                         \cup RenamesField(m)
  <1>1. LegalOps(S) = Creates \cup Deletes \cup Renames \cup UNION {Edits(m) : m \in DOMAIN S}
    BY DEF LegalOps
  <1>2. ASSUME NEW m, NEW t \in tables(m) PROVE OrDefault(t, m) \in Plain(m)
    BY DEF OrDefault, Plain
  <1>3. CASE op \in Creates
    <2>1. /\ op.kind = "CreateModel" /\ op.model \in Models \ DOMAIN S
          /\ op.m2m \in AllM2m /\ op.table \in tables(op.model)
      <3> HIDE DEF AllM2m, AllTables, tables, joins
      <3> QED
        BY <1>3
    <2>2. DOMAIN op.m2m \subseteq Fields
      <3> HIDE DEF AllJoins
      <3> QED
        BY <2>1
    <2> HIDE DEF tables, joins
    <2> QED
      BY <1>2, <2>1, <2>2 DEF Legal
  <1>4. CASE op \in Deletes \cup Renames
    BY <1>4 DEF Legal
  <1>5. ASSUME NEW m \in DOMAIN S, op \in Edits(m)
        PROVE  /\ DOMAIN S \subseteq Models => Legal(S, op)
               /\ op.kind = "CreateModel" => DOMAIN op.m2m \subseteq Fields
    <2>1. CASE op \in Alters(m)
      <3>1. op.kind = "AlterModelTable" /\ op.model = m /\ op.table \in tables(m)
        <4> HIDE DEF tables
        <4> QED
          BY <2>1
      <3>2. OrDefault(op.table, op.model) \in Plain(op.model)
        <4> HIDE DEF tables
        <4> QED
          BY <3>1, <1>2
      <3> QED
        BY <3>1, <3>2 DEF Legal
    <2>2. CASE op \in Adds(m)
      <3>1. op.kind = "AddField" /\ op.model = m /\ op.fd \in Fields \ DOMAIN S[m].m2m
        <4> HIDE DEF joins
        <4> QED
          BY <2>2
      <3> QED
        BY <3>1 DEF Legal
    <2>3. CASE op \in AddsPlain(m) \cup Removes(m) \cup RenamesField(m)
      <3>1. op.kind \in {"AddPlainField", "RemoveField", "RenameField"} /\ op.model = m
        <4> HIDE DEF fields
        <4> QED
          BY <2>3
      <3> QED
        BY <3>1 DEF Legal
    <2> HIDE DEF Alters, Adds, AddsPlain, Removes, RenamesField
    <2> QED
      BY <1>5, <2>1, <2>2, <2>3
  <1> QED
    <2> HIDE DEF Creates, Deletes, Renames, Edits
    <2> QED
      BY <1>1, <1>3, <1>4, <1>5

\* What one operation changes.
ChangesTo(S, op, T) ==
  /\ GoodState(T)
  /\ DOMAIN T = IF op.kind = "DeleteModel" THEN DOMAIN S \ {op.model}
                ELSE DOMAIN S \cup {op.model}
  /\ \A m \in DOMAIN S : m # op.model => T[m] = S[m]
  /\ op.kind \in {"CreateModel", "AlterModelTable"} =>
       T[op.model].table = OrDefault(op.table, op.model)
  /\ op.kind \in {"AddField", "AddPlainField", "RemoveField"} =>
       T[op.model].table = S[op.model].table
  /\ op.kind = "CreateModel" => T[op.model].m2m = op.m2m
  /\ op.kind = "AlterModelTable" => T[op.model].m2m = <<>>
  /\ op.kind = "AddField" => DOMAIN T[op.model].m2m = DOMAIN S[op.model].m2m \cup {op.fd}
  /\ op.kind = "AddPlainField" => DOMAIN T[op.model].m2m = DOMAIN S[op.model].m2m
  /\ op.kind = "RemoveField" => DOMAIN T[op.model].m2m = DOMAIN S[op.model].m2m \ {op.fd}

\* A legal and regular operation changes the state in the way ChangesTo says.
LEMMA ChangeIs ==
  ASSUME NEW S, GoodState(S), NEW op, Legal(S, op), Regular(S, op)
  PROVE  ChangesTo(S, op, Change(S, op))
  <1> DEFINE T == Change(S, op)
  <1> DEFINE m == op.model
             with(model) == [x \in DOMAIN S \cup {m} |-> IF x = m THEN model ELSE S[x]]
  <1>1. ASSUME NEW model, T = with(model)
        PROVE  /\ DOMAIN T = DOMAIN S \cup {m} /\ T[m] = model
               /\ \A x \in DOMAIN S : x # m => T[x] = S[x]
    BY <1>1
  <1>2. ASSUME NEW model, T = with(model),
               model = [table |-> model.table, m2m |-> model.m2m, plain |-> model.plain],
               model.table \in Plain(m), DOMAIN model.m2m \subseteq Fields,
               \A f \in DOMAIN model.m2m : model.m2m[f] = NoName
        PROVE  GoodState(T)
    <2> HIDE DEF with
    <2> QED
      BY <1>1, <1>2 DEF GoodState, Legal
  <1>3. ASSUME op.kind = "CreateModel" PROVE ChangesTo(S, op, T)
    <2> DEFINE model == [table |-> OrDefault(op.table, m), m2m |-> op.m2m, plain |-> op.plain]
    <2>1. T = with(model)
      BY <1>3 DEF Change
    <2>2. /\ model = [table |-> model.table, m2m |-> model.m2m, plain |-> model.plain]
          /\ model.table = OrDefault(op.table, m) /\ model.m2m = op.m2m
      OBVIOUS
    <2> HIDE DEF model, with
    <2>3. /\ model.table \in Plain(m) /\ DOMAIN model.m2m \subseteq Fields
          /\ \A f \in DOMAIN model.m2m : model.m2m[f] = NoName
      BY <1>3, <2>2 DEF Legal, Regular
    <2>4. GoodState(T)
      BY <1>2, <2>1, <2>2, <2>3
    <2> QED
      BY <1>1, <1>3, <2>1, <2>2, <2>4 DEF ChangesTo
  <1>4. ASSUME op.kind = "DeleteModel" PROVE ChangesTo(S, op, T)
    <2>1. T = [x \in DOMAIN S \ {m} |-> S[x]]
      BY <1>4 DEF Change, Restrict
    <2>2. GoodState(T)
      BY <2>1 DEF GoodState
    <2> QED
      BY <1>4, <2>1, <2>2 DEF ChangesTo
  <1>5. ASSUME m \in DOMAIN S
        PROVE  /\ S[m] = [table |-> S[m].table, m2m |-> S[m].m2m, plain |-> S[m].plain]
               /\ S[m].table \in Plain(m) /\ DOMAIN S[m].m2m \subseteq Fields
               /\ \A f \in DOMAIN S[m].m2m : S[m].m2m[f] = NoName
    BY <1>5 DEF GoodState
  <1>6. ASSUME op.kind = "AlterModelTable" PROVE ChangesTo(S, op, T)
    <2> DEFINE model == [S[m] EXCEPT !.table = OrDefault(op.table, m)]
    <2>1. T = with(model)
      BY <1>6 DEF Change
    <2>2. m \in DOMAIN S /\ S[m].m2m = <<>>
      BY <1>6 DEF Legal, Regular
    <2>3. /\ model = [table |-> model.table, m2m |-> model.m2m, plain |-> model.plain]
          /\ model.table = OrDefault(op.table, m) /\ model.m2m = S[m].m2m
      BY <1>5, <2>2
    <2> HIDE DEF model, with
    <2>4. /\ model.table \in Plain(m) /\ DOMAIN model.m2m \subseteq Fields
          /\ \A f \in DOMAIN model.m2m : model.m2m[f] = NoName
      BY <1>5, <1>6, <2>2, <2>3 DEF Legal
    <2>5. GoodState(T)
      BY <1>2, <2>1, <2>3, <2>4
    <2> QED
      BY <1>1, <1>6, <2>1, <2>2, <2>3, <2>5 DEF ChangesTo
  <1>7. ASSUME op.kind = "AddField" PROVE ChangesTo(S, op, T)
    <2> DEFINE fields == [f \in DOMAIN S[m].m2m \cup {op.fd} |->
                            IF f = op.fd THEN op.table ELSE S[m].m2m[f]]
               model == [S[m] EXCEPT !.m2m = fields]
    <2>1. T = with(model)
      BY <1>7 DEF Change
    <2>2. m \in DOMAIN S /\ op.fd \in Fields /\ op.table = NoName
      BY <1>7 DEF Legal, Regular
    <2>3. /\ DOMAIN fields = DOMAIN S[m].m2m \cup {op.fd}
          /\ \A f \in DOMAIN fields : fields[f] = NoName
      BY <1>5, <2>2
    <2> HIDE DEF fields
    <2>4. /\ model = [table |-> model.table, m2m |-> model.m2m, plain |-> model.plain]
          /\ model.table = S[m].table /\ model.m2m = fields
      BY <1>5, <2>2
    <2> HIDE DEF model, with
    <2>5. /\ model.table \in Plain(m) /\ DOMAIN model.m2m \subseteq Fields
          /\ \A f \in DOMAIN model.m2m : model.m2m[f] = NoName
      BY <1>5, <2>2, <2>3, <2>4
    <2>6. GoodState(T)
      BY <1>2, <2>1, <2>4, <2>5
    <2> QED
      BY <1>1, <1>7, <2>1, <2>2, <2>3, <2>4, <2>6 DEF ChangesTo
  <1>8. ASSUME op.kind = "RemoveField" PROVE ChangesTo(S, op, T)
    <2> DEFINE fields == [f \in DOMAIN S[m].m2m \ {op.fd} |-> S[m].m2m[f]]
               model == [table |-> S[m].table, m2m |-> fields, plain |-> S[m].plain \ {op.fd}]
    <2>1. T = with(model)
      BY <1>8 DEF Change, Restrict, TableOf
    <2>2. m \in DOMAIN S
      BY <1>8 DEF Legal
    <2>3. /\ DOMAIN fields = DOMAIN S[m].m2m \ {op.fd}
          /\ \A f \in DOMAIN fields : fields[f] = NoName
      BY <1>5, <2>2
    <2> HIDE DEF fields
    <2>4. /\ model = [table |-> model.table, m2m |-> model.m2m, plain |-> model.plain]
          /\ model.table = S[m].table /\ model.m2m = fields
      BY <2>2
    <2> HIDE DEF model, with
    <2>5. /\ model.table \in Plain(m) /\ DOMAIN model.m2m \subseteq Fields
          /\ \A f \in DOMAIN model.m2m : model.m2m[f] = NoName
      BY <1>5, <2>2, <2>3, <2>4
    <2>6. GoodState(T)
      BY <1>2, <2>1, <2>4, <2>5
    <2> QED
      BY <1>1, <1>8, <2>1, <2>2, <2>3, <2>4, <2>6 DEF ChangesTo
  <1>9. ASSUME op.kind = "AddPlainField" PROVE ChangesTo(S, op, T)
    <2> DEFINE model == [S[m] EXCEPT !.plain = @ \cup {op.fd}]
    <2>1. T = with(model)
      BY <1>9 DEF Change
    <2>2. m \in DOMAIN S
      BY <1>9 DEF Legal
    <2>3. /\ model = [table |-> model.table, m2m |-> model.m2m, plain |-> model.plain]
          /\ model.table = S[m].table /\ model.m2m = S[m].m2m
      BY <1>5, <2>2
    <2> HIDE DEF model, with
    <2>4. GoodState(T)
      BY <1>2, <1>5, <2>1, <2>2, <2>3
    <2> QED
      BY <1>1, <1>9, <2>1, <2>2, <2>3, <2>4 DEF ChangesTo
  <1> HIDE DEF T
  <1>10. \/ op.kind = "CreateModel" \/ op.kind = "DeleteModel" \/ op.kind = "AlterModelTable"
         \/ op.kind = "AddField" \/ op.kind = "RemoveField" \/ op.kind = "AddPlainField"
    BY DEF Legal, Regular
  <1>11. ChangesTo(S, op, T)
    BY <1>3, <1>4, <1>6, <1>7, <1>8, <1>9, <1>10
  <1> QED
    BY <1>11 DEF T

-----------------------------------------------------------------------------
(* What a migration leaves of the tables that were there before it.        *)

\* The first i operations of ops: those that make, drop or rename the table
\* of a model, and those that make or drop one of its many-to-many fields.
Changed(ops, i, m) ==
  \E j \in 1..i : /\ ops[j].model = m
                  /\ ops[j].kind \in {"CreateModel", "DeleteModel", "AlterModelTable"}
MakesField(op, m, f) ==
  /\ op.model = m
  /\ \/ op.kind = "CreateModel" /\ f \in DOMAIN op.m2m
     \/ op.kind = "AddField" /\ op.fd = f
DropsField(op, m, f) == op.model = m /\ op.kind = "RemoveField" /\ op.fd = f
Edited(ops, i, m, f) == \E j \in 1..i : MakesField(ops[j], m, f) \/ DropsField(ops[j], m, f)

\* How state T, after i of the operations, comes from state S before them.
Traced(S, ops, i, T) ==
  /\ GoodState(T)
  /\ \A m : ~ Changed(ops, i, m) =>
       /\ m \in DOMAIN S <=> m \in DOMAIN T
       /\ m \in DOMAIN S => T[m].table = S[m].table
  /\ \A m \in DOMAIN T : Changed(ops, i, m) =>
       \E j \in 1..i : /\ ops[j].kind \in {"CreateModel", "AlterModelTable"}
                       /\ ops[j].model = m
                       /\ OrDefault(ops[j].table, m) = T[m].table
  /\ \A m \in DOMAIN S : Changed(ops, i, m) =>
       \E j \in 1..i : ops[j].kind \in {"DeleteModel", "AlterModelTable"} /\ ops[j].model = m
  /\ \A m, f : ~ Edited(ops, i, m, f) =>
       /\ HasField(S, m, f) <=> HasField(T, m, f)
       /\ HasField(S, m, f) => ~ Changed(ops, i, m)
  /\ \A m, f : HasField(T, m, f) /\ Edited(ops, i, m, f) =>
       \E j \in 1..i : MakesField(ops[j], m, f)
  /\ \A m, f : HasField(S, m, f) /\ Edited(ops, i, m, f) =>
       \E j \in 1..i : DropsField(ops[j], m, f)

\* One more operation keeps the trace.
LEMMA TracedStep ==
  ASSUME NEW S, NEW ops, NEW n \in Nat, NEW i \in 1..n, NEW R, Traced(S, ops, i - 1, R),
         Legal(R, ops[i]), Regular(R, ops[i]), NEW T, T = Change(R, ops[i])
  PROVE  Traced(S, ops, i, T)
  <1> DEFINE op == ops[i]
             o == op.model
             changes == op.kind \in {"CreateModel", "DeleteModel", "AlterModelTable"}
  <1>1. GoodState(R)
    BY DEF Traced
  <1>2. ChangesTo(R, op, T)
    BY <1>1, ChangeIs
  <1>3. /\ op.kind \in {"CreateModel", "DeleteModel", "AlterModelTable", "AddField", "RemoveField",
                        "AddPlainField"}
        /\ op.kind = "CreateModel" <=> o \notin DOMAIN R
        /\ op.kind = "AddField" => op.fd \notin DOMAIN R[o].m2m
        /\ op.kind \in {"DeleteModel", "AlterModelTable"} => R[o].m2m = <<>>
    BY DEF Legal, Regular
  <1>4. 1..i = 1..(i - 1) \cup {i} /\ i \notin 1..(i - 1)
    OBVIOUS
  <1>5. DOMAIN <<>> = {}
    OBVIOUS
  <1>6. \A m : Changed(ops, i, m) <=> Changed(ops, i - 1, m) \/ (m = o /\ changes)
    <2> SUFFICES ASSUME NEW m
                 PROVE  Changed(ops, i, m) <=> Changed(ops, i - 1, m) \/ (m = o /\ changes)
      OBVIOUS
    <2> DEFINE Q(j) == ops[j].model = m /\ ops[j].kind \in {"CreateModel", "DeleteModel", "AlterModelTable"}
    <2>1. (\E j \in 1..i : Q(j)) <=> (\E j \in 1..(i - 1) : Q(j)) \/ Q(i)
      <3> HIDE DEF Q
      <3> QED
        BY <1>4
    <2> QED
      BY <2>1 DEF Changed
  <1>7. \A m, f : Edited(ops, i, m, f) <=>
          Edited(ops, i - 1, m, f) \/ MakesField(op, m, f) \/ DropsField(op, m, f)
    BY <1>4 DEF Edited
  <1>8. \A m : m # o => /\ m \in DOMAIN R <=> m \in DOMAIN T
                        /\ \A f : HasField(R, m, f) <=> HasField(T, m, f)
    BY <1>2 DEF HasField, ChangesTo
  \* The fields of the model that is changed.
  <1>9. /\ op.kind = "CreateModel" =>
             \A f : ~ HasField(R, o, f) /\ (HasField(T, o, f) <=> f \in DOMAIN op.m2m)
        /\ op.kind \in {"DeleteModel", "AlterModelTable"} =>
             \A f : ~ HasField(R, o, f) /\ ~ HasField(T, o, f)
        /\ op.kind = "AddField" =>
             /\ \A f : HasField(T, o, f) <=> HasField(R, o, f) \/ f = op.fd
             /\ ~ HasField(R, o, op.fd)
        /\ op.kind = "RemoveField" =>
             \A f : HasField(T, o, f) <=> HasField(R, o, f) /\ f # op.fd
        /\ op.kind = "AddPlainField" =>
             \A f : HasField(T, o, f) <=> HasField(R, o, f)
    BY <1>2, <1>3, <1>5 DEF HasField, ChangesTo
  <1> HIDE DEF op, o
  <1>10. \A m : ~ Changed(ops, i, m) =>
           /\ m \in DOMAIN S <=> m \in DOMAIN T
           /\ m \in DOMAIN S => T[m].table = S[m].table
    <2> SUFFICES ASSUME NEW m, ~ Changed(ops, i, m)
                 PROVE  /\ m \in DOMAIN S <=> m \in DOMAIN T
                        /\ m \in DOMAIN S => T[m].table = S[m].table
      OBVIOUS
    <2>1. /\ m \in DOMAIN S <=> m \in DOMAIN R
          /\ m \in DOMAIN S => R[m].table = S[m].table
      <3>1. ~ Changed(ops, i - 1, m)
        BY <1>6
      <3> QED
        BY <3>1 DEF Traced
    <2> QED
      BY <2>1, <1>2, <1>3, <1>6 DEF o, ChangesTo
  <1>11. ASSUME NEW m \in DOMAIN T, Changed(ops, i, m)
         PROVE  \E j \in 1..i : /\ ops[j].kind \in {"CreateModel", "AlterModelTable"}
                                /\ ops[j].model = m
                                /\ OrDefault(ops[j].table, m) = T[m].table
    <2>1. CASE m = o /\ op.kind \in {"CreateModel", "AlterModelTable"}
      BY <1>2, <1>4, <2>1 DEF o, op, ChangesTo
    <2>2. CASE ~ (m = o /\ op.kind \in {"CreateModel", "AlterModelTable"})
      <3>1. m \in DOMAIN R /\ T[m].table = R[m].table /\ Changed(ops, i - 1, m)
        BY <1>2, <1>3, <1>6, <1>11, <2>2 DEF o, ChangesTo
      <3> QED
        BY <1>4, <3>1 DEF Traced
    <2> QED
      BY <2>1, <2>2
  <1>12. ASSUME NEW m \in DOMAIN S, Changed(ops, i, m)
         PROVE  \E j \in 1..i : /\ ops[j].kind \in {"DeleteModel", "AlterModelTable"}
                                /\ ops[j].model = m
    <2>1. CASE Changed(ops, i - 1, m)
      BY <1>4, <2>1 DEF Traced
    <2>2. CASE ~ Changed(ops, i - 1, m)
      <3>1. m \in DOMAIN R
        BY <2>2 DEF Traced
      <3>2. m = o /\ op.kind \in {"DeleteModel", "AlterModelTable"}
        BY <1>3, <1>6, <1>12, <2>2, <3>1
      <3> QED
        BY <1>4, <3>2 DEF o, op
    <2> QED
      BY <2>1, <2>2
  <1>13. ASSUME NEW m, NEW f, ~ Edited(ops, i, m, f)
         PROVE  /\ HasField(S, m, f) <=> HasField(T, m, f)
                /\ HasField(S, m, f) => ~ Changed(ops, i, m)
    <2>1. /\ ~ Edited(ops, i - 1, m, f)
          /\ ~ MakesField(op, m, f) /\ ~ DropsField(op, m, f)
      BY <1>7, <1>13
    <2>2. /\ HasField(S, m, f) <=> HasField(R, m, f)
          /\ HasField(S, m, f) => ~ Changed(ops, i - 1, m)
      BY <2>1 DEF Traced
    <2>3. CASE m # o
      BY <1>6, <1>8, <2>2, <2>3
    <2>4. CASE m = o
      <3>1. HasField(R, o, f) <=> HasField(T, o, f)
        BY <1>3, <1>9, <2>1, <2>4 DEF MakesField, DropsField, o
      <3>2. HasField(R, o, f) => ~ changes
        BY <1>9
      <3> QED
        BY <1>6, <2>2, <2>4, <3>1, <3>2
    <2> QED
      BY <2>3, <2>4
  <1>14. ASSUME NEW m, NEW f, HasField(T, m, f), Edited(ops, i, m, f)
         PROVE  \E j \in 1..i : MakesField(ops[j], m, f)
    <2>1. CASE MakesField(op, m, f)
      BY <1>4, <2>1 DEF op
    <2>2. CASE ~ MakesField(op, m, f)
      <3>1. ~ DropsField(op, m, f)
        BY <1>9, <1>14 DEF DropsField, o
      <3>2. HasField(R, m, f)
        <4>1. CASE m # o
          BY <1>8, <1>14, <4>1
        <4>2. CASE m = o
          BY <1>3, <1>9, <1>14, <2>2, <4>2 DEF MakesField, o
        <4> QED
          BY <4>1, <4>2
      <3>3. \E j \in 1..(i - 1) : MakesField(ops[j], m, f)
        BY <1>7, <1>14, <2>2, <3>1, <3>2 DEF Traced
      <3> QED
        BY <1>4, <3>3
    <2> QED
      BY <2>1, <2>2
  <1>15. ASSUME NEW m, NEW f, HasField(S, m, f), Edited(ops, i, m, f)
         PROVE  \E j \in 1..i : DropsField(ops[j], m, f)
    <2>1. CASE Edited(ops, i - 1, m, f)
      <3>1. \E j \in 1..(i - 1) : DropsField(ops[j], m, f)
        BY <1>15, <2>1 DEF Traced
      <3> QED
        BY <1>4, <3>1
    <2>2. CASE ~ Edited(ops, i - 1, m, f)
      <3>1. HasField(R, m, f)
        BY <1>15, <2>2 DEF Traced
      <3>2. ~ MakesField(op, m, f)
        BY <1>9, <3>1 DEF MakesField, o
      <3>3. DropsField(op, m, f)
        BY <1>7, <1>15, <2>2, <3>2
      <3> QED
        BY <1>4, <3>3 DEF op
    <2> QED
      BY <2>1, <2>2
  <1> QED
    BY <1>2, <1>10, <1>11, <1>12, <1>13, <1>14, <1>15 DEF Traced, ChangesTo

\* Operations that are legal and regular, one after the other, from S on.
Follows(S, ops) ==
  \A i \in 1..Len(ops) : /\ Legal(States(S, ops)[i - 1], ops[i])
                         /\ Regular(States(S, ops)[i - 1], ops[i])

\* So the operations of a migration leave a trace as a whole.
LEMMA TracedIs ==
  ASSUME NEW S, GoodState(S), NEW ops, Len(ops) \in Nat, Follows(S, ops)
  PROVE  \A i \in 0..Len(ops) : Traced(S, ops, i, States(S, ops)[i])
  <1> DEFINE n == Len(ops)
             s == States(S, ops)
             K == {i \in 0..n : Traced(S, ops, i, s[i])}
  <1> HIDE DEF s
  <1>1. s[0] = S /\ \A i \in 1..n : s[i] = Change(s[i - 1], ops[i])
    BY StatesIs DEF s
  <1>2. 0 \in K
    <2>1. 1..0 = {}
      OBVIOUS
    <2>2. Traced(S, ops, 0, S)
      BY <2>1 DEF Traced, Changed, Edited
    <2> QED
      BY <1>1, <2>2
  <1>3. ASSUME NEW i \in 1..n, i - 1 \in K PROVE i \in K
    <2>1. Traced(S, ops, i, s[i])
      BY <1>1, <1>3, TracedStep DEF Follows, s
    <2> QED
      BY <2>1
  <1> HIDE DEF K
  <1>4. 0..n \subseteq K
    BY <1>2, <1>3, NatSetInduction
  <1> QED
    BY <1>4 DEF K, s

\* The tables of different models, and those of their fields, have
\* different names.
LEMMA NamesApart ==
  ASSUME NEW m \in Models, NEW o \in Models, NEW p \in Plain(m), p \in Plain(o)
  PROVE  m = o
  <1>1. m # "custom" /\ o # "custom"
    BY NamesAssumption
  <1>2. p[1] = m \/ (p[1] = "custom" /\ p[2] = m)
    BY DEF Plain
  <1>3. (Len(p) = 1 /\ p[1] = o) \/ (p[1] = "custom" /\ p[2] = o)
    BY DEF Plain
  <1> QED
    BY <1>1, <1>2, <1>3

\* A plain name is the model, or two words of which the first is fixed.
LEMMA PlainIs ==
  ASSUME NEW m \in Models, NEW p \in Plain(m)
  PROVE  /\ p \in Seq(Models \cup {"custom"})
         /\ (Len(p) = 1 /\ p[1] = m) \/ (Len(p) = 2 /\ p[1] = "custom")
  <1> DEFINE U == Models \cup {"custom"}
  <1>1. m \in U /\ "custom" \in U
    OBVIOUS
  <1> HIDE DEF U
  <1>2. CASE p = <<m>>
    BY <1>1, <1>2 DEF U
  <1>3. CASE p = <<"custom", m>>
    BY <1>1, <1>3 DEF U
  <1> QED
    BY <1>2, <1>3 DEF Plain

\* The default name of a field's table is no plain name of any model.
LEMMA FieldNameApart ==
  ASSUME NEW m \in Models, NEW o \in Models, NEW p \in Plain(m), NEW f, Append(p, f) \in Plain(o)
  PROVE  FALSE
  <1> DEFINE U == Models \cup {"custom"} \cup {f}
  <1>1. p \in Seq(U) /\ f \in U
    BY PlainIs, SeqMonotonic
  <1>2. m # "custom"
    BY NamesAssumption
  <1>3. (Len(p) = 1 /\ p[1] = m) \/ (Len(p) = 2 /\ p[1] = "custom")
    BY PlainIs
  <1> DEFINE q == Append(p, f)
  <1>4. (Len(q) = 1 /\ q[1] = o) \/ (Len(q) = 2 /\ q[1] = "custom")
    <2> HIDE DEF q
    <2> QED
      BY PlainIs DEF q
  <1>5. Len(q) = Len(p) + 1 /\ q[1] = p[1]
    <2> HIDE DEF U
    <2>1. /\ Len(Append(p, f)) = Len(p) + 1
          /\ \A i \in 1..Len(p) : Append(p, f)[i] = p[i]
      BY <1>1, AppendProperties
    <2> QED
      BY <1>3, <2>1
  <1> HIDE DEF q
  <1>6. CASE Len(p) = 1 /\ p[1] = m
    BY <1>2, <1>4, <1>5, <1>6
  <1>7. CASE Len(p) = 2
    BY <1>4, <1>5, <1>7
  <1> QED
    BY <1>3, <1>6, <1>7

\* The default names of two fields' tables differ.
LEMMA FieldNamesApart ==
  ASSUME NEW m \in Models, NEW o \in Models, NEW p \in Plain(m), NEW q \in Plain(o), NEW f, NEW g,
         Append(p, f) = Append(q, g)
  PROVE  m = o /\ f = g
  <1> DEFINE U == Models \cup {"custom"} \cup {f, g}
  <1>1. p \in Seq(U) /\ q \in Seq(U) /\ f \in U /\ g \in U
    BY PlainIs, SeqMonotonic
  <1>2. p = q /\ f = g
    <2> HIDE DEF U
    <2> QED
      BY <1>1, AppendInjective
  <1> QED
    BY <1>2, NamesApart

\* The tables that a migration is to grant privileges on, and to revoke them.
IsNew(S, ops, t) ==
  \E i \in 1..Len(ops) :
    \/ /\ ops[i].kind \in {"CreateModel", "AlterModelTable"}
       /\ t = OrDefault(ops[i].table, ops[i].model)
    \/ \E f : /\ MakesField(ops[i], ops[i].model, f)
              /\ t = Append(TableOf(S, ops[i].model), f)
IsOld(S, ops, t) ==
  \E i \in 1..Len(ops) :
    /\ ops[i].model \in DOMAIN S
    /\ \/ ops[i].kind \in {"DeleteModel", "AlterModelTable"} /\ t = TableOf(S, ops[i].model)
       \/ /\ ops[i].kind = "RemoveField" /\ ops[i].fd \in DOMAIN S[ops[i].model].m2m
          /\ t = JoinTable(S, ops[i].model, ops[i].fd)

\* The other things that AlterTablePrivilege asks for: a model that is given
\* a field is there afterwards, and a field that is dropped was there before.
Kept(S, ops, T) ==
  /\ \A i \in 1..Len(ops) : \A f :
       MakesField(ops[i], ops[i].model, f) => ops[i].model \in DOMAIN T
  /\ \A i \in 1..Len(ops) : ops[i].kind = "RemoveField" /\ ops[i].model \in DOMAIN S =>
       ops[i].fd \in DOMAIN S[ops[i].model].m2m \cup S[ops[i].model].plain

\* The tables of a state, those of its models and those of their fields.
LEMMA TablesAre ==
  ASSUME NEW S, GoodState(S), NEW t
  PROVE  t \in Tables(S) <=> \/ \E m \in DOMAIN S : t = S[m].table
                             \/ \E m, f : HasField(S, m, f) /\ t = Append(S[m].table, f)
  <1>1. ASSUME NEW m, NEW f, HasField(S, m, f) PROVE JoinTable(S, m, f) = Append(S[m].table, f)
    BY <1>1 DEF GoodState, HasField, JoinTable, TableOf
  <1>2. t \in Tables(S) <=> \/ \E m \in DOMAIN S : t = S[m].table
                            \/ \E m \in DOMAIN S : \E f \in DOMAIN S[m].m2m : t = JoinTable(S, m, f)
    BY DEF Tables, TableOf
  <1> QED
    BY <1>1, <1>2 DEF HasField

\* The tables before and after a migration differ by the new and old ones.
LEMMA TablesDiffer ==
  ASSUME NEW S, GoodState(S), NEW ops, Len(ops) \in Nat, Follows(S, ops),
         NEW T, T = StateFrom(S, ops), Kept(S, ops, T)
  PROVE  /\ GoodState(T)
         /\ \A t \in Tables(T) : IsNew(T, ops, t) \/ (t \in Tables(S) /\ ~ IsOld(S, ops, t))
         /\ \A t \in Tables(S) : ~ IsOld(S, ops, t) => t \in Tables(T) /\ ~ IsNew(T, ops, t)
         /\ \A t : IsOld(S, ops, t) => t \in Tables(S)
  <1> DEFINE n == Len(ops)
  <1>1. Traced(S, ops, n, T)
    BY TracedIs DEF StateFrom
  <1>2. GoodState(T)
    BY <1>1 DEF Traced
  <1>3. ASSUME NEW m \in DOMAIN S PROVE m \in Models /\ S[m].table \in Plain(m)
    BY DEF GoodState
  <1>4. ASSUME NEW m \in DOMAIN T PROVE m \in Models /\ T[m].table \in Plain(m)
    BY <1>2 DEF GoodState
  <1>5. ASSUME NEW i \in 1..n
        PROVE  /\ ops[i].model \in Models
               /\ ops[i].kind \in {"CreateModel", "AlterModelTable"} =>
                    OrDefault(ops[i].table, ops[i].model) \in Plain(ops[i].model)
    BY DEF Follows, Legal
  <1>6. ASSUME NEW i \in 1..n, ops[i].kind = "RemoveField", ops[i].model \in DOMAIN S,
               ops[i].fd \in DOMAIN S[ops[i].model].m2m
        PROVE  /\ HasField(S, ops[i].model, ops[i].fd)
               /\ JoinTable(S, ops[i].model, ops[i].fd) = Append(S[ops[i].model].table, ops[i].fd)
    BY <1>6 DEF Kept, GoodState, HasField, JoinTable, TableOf
  \* What is not old is not new either.
  <1>7. ASSUME NEW m \in DOMAIN S, ~ Changed(ops, n, m)
        PROVE  ~ IsNew(T, ops, S[m].table) /\ ~ IsOld(S, ops, S[m].table)
    <2>1. m \in Models /\ S[m].table \in Plain(m)
      BY <1>3
    <2>2. ASSUME NEW i \in 1..n, ops[i].kind \in {"CreateModel", "AlterModelTable"},
                 S[m].table = OrDefault(ops[i].table, ops[i].model)
          PROVE  FALSE
      <3>1. ops[i].model = m
        BY <1>5, <2>1, <2>2, NamesApart
      <3> QED
        BY <1>7, <2>2, <3>1 DEF Changed
    <2>3. ASSUME NEW i \in 1..n, NEW f, MakesField(ops[i], ops[i].model, f),
                 S[m].table = Append(TableOf(T, ops[i].model), f)
          PROVE  FALSE
      <3>1. ops[i].model \in DOMAIN T
        BY <2>3 DEF Kept
      <3>2. ops[i].model \in Models /\ T[ops[i].model].table \in Plain(ops[i].model)
        BY <1>4, <3>1
      <3> QED
        BY <2>1, <2>3, <3>2, FieldNameApart DEF TableOf
    <2>4. ASSUME NEW i \in 1..n, ops[i].model \in DOMAIN S,
                 ops[i].kind \in {"DeleteModel", "AlterModelTable"},
                 S[m].table = TableOf(S, ops[i].model)
          PROVE  FALSE
      <3>1. ops[i].model = m
        <4>1. ops[i].model \in Models /\ S[ops[i].model].table \in Plain(ops[i].model)
          BY <1>3, <2>4
        <4> QED
          BY <2>1, <2>4, <4>1, NamesApart DEF TableOf
      <3> QED
        BY <1>7, <2>4, <3>1 DEF Changed
    <2>5. ASSUME NEW i \in 1..n, ops[i].model \in DOMAIN S, ops[i].kind = "RemoveField",
                 ops[i].fd \in DOMAIN S[ops[i].model].m2m,
                 S[m].table = JoinTable(S, ops[i].model, ops[i].fd)
          PROVE  FALSE
      <3>1. ops[i].model \in Models /\ S[ops[i].model].table \in Plain(ops[i].model)
        BY <1>3, <2>5
      <3>2. S[m].table = Append(S[ops[i].model].table, ops[i].fd)
        BY <1>6, <2>5
      <3> QED
        BY <2>1, <3>1, <3>2, FieldNameApart
    <2> QED
      BY <2>2, <2>3, <2>4, <2>5 DEF IsNew, IsOld
  <1>8. ASSUME NEW m, NEW f, HasField(S, m, f), HasField(T, m, f), ~ Edited(ops, n, m, f),
               T[m].table = S[m].table
        PROVE  /\ ~ IsNew(T, ops, Append(S[m].table, f))
               /\ ~ IsOld(S, ops, Append(S[m].table, f))
    <2> DEFINE t == Append(S[m].table, f)
    <2>1. m \in Models /\ S[m].table \in Plain(m)
      BY <1>3, <1>8 DEF HasField
    <2>2. ASSUME NEW i \in 1..n, ops[i].kind \in {"CreateModel", "AlterModelTable"},
                 t = OrDefault(ops[i].table, ops[i].model)
          PROVE  FALSE
      <3>1. ops[i].model \in Models /\ t \in Plain(ops[i].model)
        BY <1>5, <2>2
      <3> QED
        BY <2>1, <3>1, FieldNameApart
    <2>3. ASSUME NEW i \in 1..n, NEW g, MakesField(ops[i], ops[i].model, g),
                 t = Append(TableOf(T, ops[i].model), g)
          PROVE  FALSE
      <3>1. ops[i].model \in DOMAIN T
        BY <2>3 DEF Kept
      <3>2. ops[i].model = m /\ g = f
        <4>1. ops[i].model \in Models /\ T[ops[i].model].table \in Plain(ops[i].model)
          BY <1>4, <3>1
        <4>2. Append(S[m].table, f) = Append(T[ops[i].model].table, g)
          BY <2>3 DEF TableOf
        <4>3. ASSUME NEW x, NEW y, NEW z, x \in Models, y \in Plain(x),
                     Append(S[m].table, f) = Append(y, z)
              PROVE  m = x /\ f = z
          <5> DEFINE p == S[m].table
          <5>1. m \in Models /\ p \in Plain(m) /\ Append(p, f) = Append(y, z)
            BY <2>1, <4>3
          <5> HIDE DEF p
          <5> QED
            BY <4>3, <5>1, FieldNamesApart
        <4> QED
          BY <4>1, <4>2, <4>3
      <3> QED
        BY <1>8, <2>3, <3>2 DEF Edited
    <2>4. ASSUME NEW i \in 1..n, ops[i].model \in DOMAIN S,
                 ops[i].kind \in {"DeleteModel", "AlterModelTable"},
                 t = TableOf(S, ops[i].model)
          PROVE  FALSE
      <3>1. ops[i].model \in Models /\ t \in Plain(ops[i].model)
        BY <1>3, <2>4 DEF TableOf
      <3> QED
        BY <2>1, <3>1, FieldNameApart
    <2>5. ASSUME NEW i \in 1..n, ops[i].model \in DOMAIN S, ops[i].kind = "RemoveField",
                 ops[i].fd \in DOMAIN S[ops[i].model].m2m,
                 t = JoinTable(S, ops[i].model, ops[i].fd)
          PROVE  FALSE
      <3>1. ops[i].model = m /\ ops[i].fd = f
        <4>1. ops[i].model \in Models /\ S[ops[i].model].table \in Plain(ops[i].model)
          BY <1>3, <2>5
        <4>2. Append(S[m].table, f) = Append(S[ops[i].model].table, ops[i].fd)
          BY <1>6, <2>5
        <4>3. ASSUME NEW x, NEW y, NEW z, x \in Models, y \in Plain(x),
                     Append(S[m].table, f) = Append(y, z)
              PROVE  m = x /\ f = z
          <5> DEFINE p == S[m].table
          <5>1. m \in Models /\ p \in Plain(m) /\ Append(p, f) = Append(y, z)
            BY <2>1, <4>3
          <5> HIDE DEF p
          <5> QED
            BY <4>3, <5>1, FieldNamesApart
        <4> QED
          BY <4>1, <4>2, <4>3
      <3> QED
        BY <1>8, <2>5, <3>1 DEF Edited, DropsField
    <2> QED
      BY <2>2, <2>3, <2>4, <2>5 DEF IsNew, IsOld
  <1>9. ASSUME NEW m, NEW f, HasField(S, m, f), ~ Edited(ops, n, m, f)
        PROVE  HasField(T, m, f) /\ T[m].table = S[m].table
    BY <1>1, <1>9 DEF Traced, HasField
  <1>10. ASSUME NEW t \in Tables(T), ~ IsNew(T, ops, t)
         PROVE  t \in Tables(S) /\ ~ IsOld(S, ops, t)
    <2>1. ASSUME NEW m \in DOMAIN T, t = T[m].table
          PROVE  t \in Tables(S) /\ ~ IsOld(S, ops, t)
      <3>1. ~ Changed(ops, n, m)
        BY <1>1, <1>10, <2>1 DEF Traced, IsNew
      <3>2. m \in DOMAIN S /\ t = S[m].table
        BY <1>1, <2>1, <3>1 DEF Traced
      <3> QED
        BY <1>7, <3>1, <3>2, TablesAre
    <2>2. ASSUME NEW m, NEW f, HasField(T, m, f), t = Append(T[m].table, f)
          PROVE  t \in Tables(S) /\ ~ IsOld(S, ops, t)
      <3>1. ASSUME Edited(ops, n, m, f) PROVE FALSE
        <4>1. PICK j \in 1..n : MakesField(ops[j], m, f)
          BY <1>1, <2>2, <3>1 DEF Traced
        <4>2. ops[j].model = m
          BY <4>1 DEF MakesField
        <4> QED
          BY <1>10, <2>2, <4>1, <4>2 DEF IsNew, TableOf
      <3>2. HasField(S, m, f)
        BY <1>1, <2>2, <3>1 DEF Traced
      <3>3. t = Append(S[m].table, f)
        BY <1>9, <2>2, <3>1, <3>2
      <3> QED
        BY <1>8, <1>9, <3>1, <3>2, <3>3, TablesAre
    <2> QED
      BY <1>2, <2>1, <2>2, TablesAre
  <1>11. ASSUME NEW t \in Tables(S), ~ IsOld(S, ops, t)
         PROVE  t \in Tables(T) /\ ~ IsNew(T, ops, t)
    <2>1. ASSUME NEW m \in DOMAIN S, t = S[m].table
          PROVE  t \in Tables(T) /\ ~ IsNew(T, ops, t)
      <3>1. ~ Changed(ops, n, m)
        BY <1>1, <1>11, <2>1 DEF Traced, IsOld, TableOf
      <3>2. m \in DOMAIN T /\ t = T[m].table
        BY <1>1, <2>1, <3>1 DEF Traced
      <3> QED
        BY <1>2, <1>7, <2>1, <3>1, <3>2, TablesAre
    <2>2. ASSUME NEW m, NEW f, HasField(S, m, f), t = Append(S[m].table, f)
          PROVE  t \in Tables(T) /\ ~ IsNew(T, ops, t)
      <3>1. ASSUME Edited(ops, n, m, f) PROVE FALSE
        <4>1. PICK j \in 1..n : DropsField(ops[j], m, f)
          BY <1>1, <2>2, <3>1 DEF Traced
        <4>2. /\ ops[j].model = m /\ ops[j].kind = "RemoveField" /\ ops[j].fd = f /\ m \in DOMAIN S
              /\ f \in DOMAIN S[m].m2m
          BY <2>2, <4>1 DEF DropsField, HasField
        <4>3. t = JoinTable(S, ops[j].model, ops[j].fd)
          BY <1>6, <2>2, <4>2
        <4> QED
          BY <1>11, <4>2, <4>3 DEF IsOld
      <3>2. HasField(T, m, f) /\ T[m].table = S[m].table
        BY <1>9, <2>2, <3>1
      <3> QED
        BY <1>2, <1>8, <2>2, <3>1, <3>2, TablesAre
    <2> QED
      BY <2>1, <2>2, TablesAre
  <1>12. ASSUME NEW t, IsOld(S, ops, t) PROVE t \in Tables(S)
    <2>1. PICK i \in 1..n :
            /\ ops[i].model \in DOMAIN S
            /\ \/ ops[i].kind \in {"DeleteModel", "AlterModelTable"} /\ t = TableOf(S, ops[i].model)
               \/ /\ ops[i].kind = "RemoveField" /\ ops[i].fd \in DOMAIN S[ops[i].model].m2m
                  /\ t = JoinTable(S, ops[i].model, ops[i].fd)
      BY <1>12 DEF IsOld
    <2> QED
      BY <1>6, <2>1, TablesAre DEF TableOf
  <1> QED
    BY <1>2, <1>10, <1>11, <1>12

-----------------------------------------------------------------------------
(* The statements of the two ends of a migration.                          *)

\* What is new by one operation.
Items(op) ==
  CASE op.kind = "CreateModel" ->
         <<Of(op.model, op.table)>> \o
         SetToSeq({OfField(op.model, f, op.m2m[f]) : f \in DOMAIN op.m2m})
    [] op.kind = "AddField" -> <<OfField(op.model, op.fd, op.table)>>
    [] OTHER -> <<>>

IsItem(op, x) ==
  \/ op.kind = "CreateModel" /\ x = Of(op.model, op.table)
  \/ op.kind = "CreateModel" /\ \E f \in DOMAIN op.m2m : x = OfField(op.model, f, op.m2m[f])
  \/ op.kind = "AddField" /\ x = OfField(op.model, op.fd, op.table)

\* The items that one operation asks to be granted.
LEMMA ItemsIs ==
  ASSUME NEW op, op.kind = "CreateModel" => IsFiniteSet(DOMAIN op.m2m)
  PROVE  /\ \A x : x \in Range(Items(op)) <=> IsItem(op, x)
         /\ Items(op) \in Seq(Range(Items(op)))
  <1> DEFINE R == Range(Items(op))
  <1>1. CASE op.kind = "CreateModel"
    <2> DEFINE D == DOMAIN op.m2m
               item == [f \in D |-> OfField(op.model, f, op.m2m[f])]
               X == {OfField(op.model, f, op.m2m[f]) : f \in D}
               one == <<Of(op.model, op.table)>>
    <2>1. item \in Surjection(D, X)
      BY DEF Surjection
    <2>2. IsFiniteSet(X)
      <3> HIDE DEF item, X, D
      <3> QED
        BY <1>1, <2>1, FS_Surjection DEF D
    <2>3. SetToSeq(X) \in Seq(X) /\ Range(SetToSeq(X)) = X
      <3> HIDE DEF X
      <3> QED
        BY <2>2, SetToSeqIs
    <2>4. one \in Seq({Of(op.model, op.table)}) /\ Range(one) = {Of(op.model, op.table)}
      <3> DEFINE o == Of(op.model, op.table)
      <3> HIDE DEF o
      <3>1. <<o>> \in Seq({o}) /\ Range(<<o>>) = {o}
        BY DEF Range
      <3> QED
        BY <3>1 DEF o
    <2>5. Items(op) = one \o SetToSeq(X)
      BY <1>1 DEF Items
    <2> DEFINE U == {Of(op.model, op.table)} \cup X
    <2>6. one \in Seq(U) /\ SetToSeq(X) \in Seq(U)
      <3> HIDE DEF X, one
      <3> QED
        BY <2>3, <2>4, SeqMonotonic
    <2>7. Items(op) \in Seq(U) /\ Range(Items(op)) = Range(one) \cup Range(SetToSeq(X))
      <3> HIDE DEF X, one, U
      <3> QED
        BY <2>5, <2>6, ConcatProperties, RangeConcatenation
    <2>8. Range(Items(op)) = U
      BY <2>3, <2>4, <2>7
    <2>9. R = U
      BY <2>8
    <2>10. \A x : x \in U <=> IsItem(op, x)
      BY <1>1 DEF IsItem
    <2> HIDE DEF U
    <2> QED
      BY <2>7, <2>8, <2>9, <2>10
  <1>2. CASE op.kind = "AddField"
    <2> DEFINE o == OfField(op.model, op.fd, op.table)
    <2>1. Items(op) = <<o>> /\ \A x : IsItem(op, x) <=> x = o
      BY <1>2 DEF Items, IsItem
    <2> HIDE DEF o
    <2>2. <<o>> \in Seq({o}) /\ Range(<<o>>) = {o}
      BY DEF Range
    <2>3. R = {o}
      BY <2>1, <2>2
    <2> QED
      BY <2>1, <2>2, <2>3
  <1>3. CASE op.kind \notin {"CreateModel", "AddField"}
    <2>1. Items(op) = <<>> /\ \A x : ~ IsItem(op, x)
      BY <1>3 DEF Items, IsItem
    <2>2. Range(<<>>) = {} /\ <<>> \in Seq({})
      BY DEF Range
    <2>3. R = {}
      BY <2>1, <2>2
    <2> QED
      BY <2>1, <2>2, <2>3
  <1> QED
    BY <1>1, <1>2, <1>3

\* _add_models has the items of all the operations, and no other.
LEMMA AddModelsIs ==
  ASSUME NEW n \in Nat, NEW ops, DOMAIN ops = 1..n,
         \A i \in 1..n : ops[i].kind = "CreateModel" => IsFiniteSet(DOMAIN ops[i].m2m)
  PROVE  /\ \A x : x \in Range(AddModels(ops)) <=> \E i \in 1..n : IsItem(ops[i], x)
         /\ AddModels(ops) \in Seq(Range(AddModels(ops)))
  <1> DEFINE seqs == [i \in 1..n |-> Items(ops[i])]
             U == UNION {Range(Items(ops[i])) : i \in 1..n}
  <1>1. AddModels(ops) = FlattenSeq(seqs)
    BY DEF AddModels, Items
  <1>2. ASSUME NEW i \in 1..n
        PROVE  Items(ops[i]) \in Seq(U) /\ \A x : x \in Range(Items(ops[i])) <=> IsItem(ops[i], x)
    <2> DEFINE R == Range(Items(ops[i]))
    <2>1. Items(ops[i]) \in Seq(R) /\ \A x : x \in Range(Items(ops[i])) <=> IsItem(ops[i], x)
      BY ItemsIs
    <2>2. R \subseteq U
      OBVIOUS
    <2> HIDE DEF R, U
    <2> QED
      BY <2>1, <2>2, SeqMonotonic
  <1>3. seqs \in [1..n -> Seq(U)]
    <2> DEFINE V == Seq(U)
    <2>1. \A i \in 1..n : Items(ops[i]) \in V
      BY <1>2
    <2> HIDE DEF V, U
    <2>2. seqs \in [1..n -> V]
      BY <2>1
    <2> QED
      BY <2>2 DEF V
  <1>4. \A i \in 1..n : seqs[i] = Items(ops[i])
    OBVIOUS
  <1> HIDE DEF seqs
  <1>5. /\ FlattenSeq(seqs) \in Seq(U)
        /\ Range(FlattenSeq(seqs)) = UNION {Range(seqs[i]) : i \in 1..n}
    <2> HIDE DEF U
    <2> QED
      BY <1>3, FlattenIs
  <1>6. \A x : x \in Range(FlattenSeq(seqs)) <=> \E i \in 1..n : IsItem(ops[i], x)
    BY <1>2, <1>4, <1>5
  <1>7. FlattenSeq(seqs) \in Seq(Range(FlattenSeq(seqs)))
    <2> HIDE DEF U
    <2> QED
      BY <1>5, SeqOfRange
  <1> QED
    BY <1>1, <1>6, <1>7

\* Only selects the operations of these kinds.
LEMMA OnlyIs ==
  ASSUME NEW n \in Nat, NEW ops, DOMAIN ops = 1..n, NEW kinds
  PROVE  /\ Only(ops, kinds) \in Seq(Range(ops))
         /\ Range(Only(ops, kinds)) = {ops[i] : i \in {j \in 1..n : ops[j].kind \in kinds}}
  <1> DEFINE U == Range(ops)
             seqs == [i \in 1..n |-> IF ops[i].kind \in kinds THEN <<ops[i]>> ELSE <<>>]
  <1>1. Only(ops, kinds) = FlattenSeq(seqs)
    BY DEF Only
  <1>2. ASSUME NEW i \in 1..n
        PROVE  /\ seqs[i] \in Seq(U)
               /\ Range(seqs[i]) = IF ops[i].kind \in kinds THEN {ops[i]} ELSE {}
    <2>1. ops[i] \in U
      BY DEF Range
    <2> DEFINE o == ops[i]
    <2>2. Range(<<o>>) = {o} /\ Range(<<>>) = {} /\ <<o>> \in Seq(U) /\ <<>> \in Seq(U)
      <3>1. o \in U
        BY <2>1
      <3> HIDE DEF o, U
      <3> QED
        BY <3>1 DEF Range
    <2>3. seqs[i] = IF ops[i].kind \in kinds THEN <<o>> ELSE <<>>
      OBVIOUS
    <2> HIDE DEF seqs, o, U
    <2> QED
      BY <2>2, <2>3 DEF o
  <1>3. seqs \in [1..n -> Seq(U)]
    <2> DEFINE V == Seq(U)
    <2>1. \A i \in 1..n : seqs[i] \in V
      BY <1>2
    <2>2. seqs = [i \in 1..n |-> seqs[i]]
      OBVIOUS
    <2> HIDE DEF V, U, seqs
    <2>3. seqs \in [1..n -> V]
      BY <2>1, <2>2
    <2> QED
      BY <2>3 DEF V
  <1> HIDE DEF seqs
  <1>4. /\ FlattenSeq(seqs) \in Seq(U)
        /\ Range(FlattenSeq(seqs)) = UNION {Range(seqs[i]) : i \in 1..n}
    <2> HIDE DEF U
    <2> QED
      BY <1>3, FlattenIs
  <1>5. UNION {Range(seqs[i]) : i \in 1..n} = {ops[i] : i \in {j \in 1..n : ops[j].kind \in kinds}}
    BY <1>2
  <1> QED
    BY <1>1, <1>4, <1>5

\* The names that the items of a migration have, when they are as in the
\* code, apart from those of models already filled in.
NamesFit(S, ops, names) ==
  LET items == AddModels(ops)
  IN  \A i \in 1..Len(items) :
        IF items[i].join THEN names[i] = NoName /\ items[i].model \in DOMAIN S
        ELSE OrDefault(names[i], items[i].model) = OrDefault(items[i].name, items[i].model)

\* Models whose fields can be listed.
FiniteFields(ops) ==
  \A i \in DOMAIN ops : ops[i].kind = "CreateModel" => IsFiniteSet(DOMAIN ops[i].m2m)

\* The handler that grants has a statement for each of the new tables.
LEMMA GrantStatementsAre ==
  ASSUME NEW n \in Nat, NEW ops, DOMAIN ops = 1..n, Len(ops) = n, FiniteFields(ops),
         NEW S, NEW names, NamesFit(S, ops, names), NEW verb
  PROVE  LET statements == GrantStatements(S, ops, names, verb)
         IN  /\ Len(statements) \in Nat /\ DOMAIN statements = 1..Len(statements)
             /\ \A j \in DOMAIN statements : statements[j].verb = verb
             /\ \A t : (\E j \in DOMAIN statements : statements[j].table = t) <=> IsNew(S, ops, t)
  <1> DEFINE items == AddModels(ops)
             renamed == RenameTables(ops)
             adds == [i \in DOMAIN items |-> Sql(verb, AddTableName(S, items[i], names[i]))]
             renames == [i \in DOMAIN renamed |->
                           Sql(verb, OrDefault(renamed[i].table, renamed[i].model))]
             statements == GrantStatements(S, ops, names, verb)
  <1>1. /\ \A x : x \in Range(items) <=> \E i \in 1..n : IsItem(ops[i], x)
        /\ items \in Seq(Range(items))
    BY AddModelsIs DEF FiniteFields
  <1>2. /\ renamed \in Seq(Range(ops))
        /\ Range(renamed) = {ops[i] : i \in {j \in 1..n : ops[j].kind \in {"AlterModelTable"}}}
    BY OnlyIs DEF RenameTables
  <1>3. /\ DOMAIN items = 1..Len(items) /\ Len(items) \in Nat
        /\ DOMAIN renamed = 1..Len(renamed) /\ Len(renamed) \in Nat
    <2> HIDE DEF items, renamed
    <2> QED
      BY <1>1, <1>2, LenProperties
  <1>4. ASSUME NEW i \in DOMAIN items
        PROVE  /\ ~ LookupFails(S, items[i], names[i])
               /\ AddTableName(S, items[i], names[i]) =
                    IF items[i].join THEN Append(TableOf(S, items[i].model), items[i].fd)
                    ELSE OrDefault(items[i].name, items[i].model)
    <2>1. IF items[i].join THEN names[i] = NoName /\ items[i].model \in DOMAIN S
          ELSE OrDefault(names[i], items[i].model) = OrDefault(items[i].name, items[i].model)
      BY <1>3 DEF NamesFit
    <2> HIDE DEF items
    <2> QED
      BY <2>1 DEF LookupFails, AddTableName, OrDefault
  <1>5. statements = adds \o renames
    <2> DEFINE given == [i \in DOMAIN items |->
                           IF LookupFails(S, items[i], names[i]) THEN Raises("LookupError")
                           ELSE Sql(verb, AddTableName(S, items[i], names[i]))]
    <2>1. statements = given \o renames
      BY DEF GrantStatements
    <2>2. given = adds
      <3> HIDE DEF items
      <3> QED
        BY <1>4
    <2> QED
      BY <2>1, <2>2
  <1> HIDE DEF statements
  <1> DEFINE V == Range(adds) \cup Range(renames)
  <1>6. adds \in Seq(V) /\ renames \in Seq(V)
    <2>1. /\ adds \in [1..Len(items) -> V]
          /\ renames \in [1..Len(renamed) -> V]
      <3> HIDE DEF items, renamed
      <3> QED
        BY <1>3 DEF Range
    <2> HIDE DEF adds, renames, items, renamed, V
    <2> QED
      BY <1>3, <2>1
  <1>7. statements \in Seq(V) /\ Range(statements) = V
    <2> HIDE DEF adds, renames, V
    <2>1. statements \in Seq(V) /\ Range(statements) = Range(adds) \cup Range(renames)
      BY <1>5, <1>6, ConcatProperties, RangeConcatenation
    <2> QED
      BY <2>1 DEF V
  <1>8. DOMAIN statements = 1..Len(statements) /\ Len(statements) \in Nat
    <2> HIDE DEF V
    <2> QED
      BY <1>7, LenProperties
  <1>9. ASSUME NEW st
        PROVE  st \in V <=>
                 \/ \E i \in DOMAIN items : st = Sql(verb, AddTableName(S, items[i], names[i]))
                 \/ \E i \in DOMAIN renamed :
                      st = Sql(verb, OrDefault(renamed[i].table, renamed[i].model))
    <2> HIDE DEF items, renamed
    <2> QED
      BY DEF Range
  <1> HIDE DEF V
  <1>10. \A j \in DOMAIN statements : statements[j].verb = verb
    <2> SUFFICES ASSUME NEW j \in DOMAIN statements PROVE statements[j].verb = verb
      OBVIOUS
    <2>1. statements[j] \in V
      BY <1>7 DEF Range
    <2> HIDE DEF items, renamed
    <2> QED
      BY <1>9, <2>1 DEF Sql
  <1>11. ASSUME NEW t
         PROVE  (\E j \in DOMAIN statements : statements[j].table = t) <=>
                  \/ \E i \in DOMAIN items : t = AddTableName(S, items[i], names[i])
                  \/ \E i \in DOMAIN renamed : t = OrDefault(renamed[i].table, renamed[i].model)
    <2>1. (\E j \in DOMAIN statements : statements[j].table = t) <=> \E st \in V : st.table = t
      BY <1>7 DEF Range
    <2>2. \A x : Sql(verb, x).table = x
      BY DEF Sql
    <2> HIDE DEF items, renamed
    <2> QED
      BY <1>9, <2>1, <2>2
  <1>12. ASSUME NEW t
         PROVE  (\E i \in DOMAIN items : t = AddTableName(S, items[i], names[i])) <=>
                  \/ \E i \in 1..n : /\ ops[i].kind = "CreateModel"
                                     /\ t = OrDefault(ops[i].table, ops[i].model)
                  \/ \E i \in 1..n : \E f : /\ MakesField(ops[i], ops[i].model, f)
                                            /\ t = Append(TableOf(S, ops[i].model), f)
    <2> DEFINE name(x) == IF x.join THEN Append(TableOf(S, x.model), x.fd)
                          ELSE OrDefault(x.name, x.model)
    <2>1. (\E i \in DOMAIN items : t = AddTableName(S, items[i], names[i])) <=>
            \E x \in Range(items) : t = name(x)
      <3> HIDE DEF items, name
      <3>1. \A i \in DOMAIN items : AddTableName(S, items[i], names[i]) = name(items[i])
        BY <1>4 DEF name
      <3> QED
        BY <3>1 DEF Range
    <2>2. \A m, f, x : name(Of(m, x)) = OrDefault(x, m)
      BY DEF Of
    <2>3. \A m, f, x : name(OfField(m, f, x)) = Append(TableOf(S, m), f)
      BY DEF OfField
    <2> HIDE DEF name, items
    <2>4. (\E x \in Range(items) : t = name(x)) <=> \E i \in 1..n : \E x : IsItem(ops[i], x) /\ t = name(x)
      BY <1>1
    <2>5. ASSUME NEW i \in 1..n
          PROVE  (\E x : IsItem(ops[i], x) /\ t = name(x)) <=>
                   \/ /\ ops[i].kind = "CreateModel"
                      /\ t = OrDefault(ops[i].table, ops[i].model)
                   \/ \E f : /\ MakesField(ops[i], ops[i].model, f)
                             /\ t = Append(TableOf(S, ops[i].model), f)
      BY <2>2, <2>3 DEF IsItem, MakesField
    <2> QED
      BY <2>1, <2>4, <2>5
  <1>13. ASSUME NEW t
         PROVE  (\E i \in DOMAIN renamed : t = OrDefault(renamed[i].table, renamed[i].model)) <=>
                  \E i \in 1..n : /\ ops[i].kind = "AlterModelTable"
                                  /\ t = OrDefault(ops[i].table, ops[i].model)
    <2>1. (\E i \in DOMAIN renamed : t = OrDefault(renamed[i].table, renamed[i].model)) <=>
            \E op \in Range(renamed) : t = OrDefault(op.table, op.model)
      <3> HIDE DEF renamed
      <3> QED
        BY DEF Range
    <2> HIDE DEF renamed
    <2> QED
      BY <1>2, <2>1
  <1>14. \A t : (\E j \in DOMAIN statements : statements[j].table = t) <=> IsNew(S, ops, t)
    <2> SUFFICES ASSUME NEW t
                 PROVE  (\E j \in DOMAIN statements : statements[j].table = t) <=> IsNew(S, ops, t)
      OBVIOUS
    <2>1. IsNew(S, ops, t) <=>
            \/ \E i \in 1..n : /\ ops[i].kind = "CreateModel"
                               /\ t = OrDefault(ops[i].table, ops[i].model)
            \/ \E i \in 1..n : \E f : /\ MakesField(ops[i], ops[i].model, f)
                                      /\ t = Append(TableOf(S, ops[i].model), f)
            \/ \E i \in 1..n : /\ ops[i].kind = "AlterModelTable"
                               /\ t = OrDefault(ops[i].table, ops[i].model)
      BY DEF IsNew
    <2>2. IsNew(S, ops, t) <=>
            \/ \E i \in DOMAIN items : t = AddTableName(S, items[i], names[i])
            \/ \E i \in DOMAIN renamed : t = OrDefault(renamed[i].table, renamed[i].model)
      <3> HIDE DEF items, renamed
      <3> QED
        BY <2>1, <1>12, <1>13
    <2> QED
      BY <1>11, <2>2
  <1> QED
    BY <1>8, <1>10, <1>14 DEF statements

\* The handler that revokes has a statement for each of the old tables, and
\* looks in vain for a model that is not there.
LEMMA RevokeStatementsAre ==
  ASSUME NEW n \in Nat, NEW ops, DOMAIN ops = 1..n, NEW S,
         NEW verb, verb \notin {"LookupError", "ok"},
         \A i \in 1..n : ops[i].kind = "RemoveField" /\ ops[i].model \in DOMAIN S =>
           ops[i].fd \in DOMAIN S[ops[i].model].m2m \cup S[ops[i].model].plain
  PROVE  LET statements == RevokeStatements(S, ops, verb)
         IN  /\ Len(statements) \in Nat /\ DOMAIN statements = 1..Len(statements)
             /\ \A j \in DOMAIN statements : statements[j].verb \in {verb, "LookupError", "ok"}
             /\ \A t : (\E j \in DOMAIN statements :
                          statements[j].verb = verb /\ statements[j].table = t) <=> IsOld(S, ops, t)
  <1> DEFINE removed == RmModels(ops)
             renamed == RenameTables(ops)
             items == removed \o renamed
             old(op) ==
               IF op.model \notin DOMAIN S THEN Raises("LookupError")
               ELSE IF op.kind # "RemoveField" THEN Sql(verb, TableOf(S, op.model))
               ELSE IF op.fd \in DOMAIN S[op.model].m2m
                    THEN Sql(verb, JoinTable(S, op.model, op.fd))
               ELSE IF op.fd \in S[op.model].plain THEN NoStatement
               ELSE Raises("FieldDoesNotExist")
             statements == RevokeStatements(S, ops, verb)
             kinds == {"DeleteModel", "RemoveField", "AlterModelTable"}
  <1>1. /\ removed \in Seq(Range(ops)) /\ renamed \in Seq(Range(ops))
        /\ Range(removed) =
             {ops[i] : i \in {j \in 1..n : ops[j].kind \in {"DeleteModel", "RemoveField"}}}
        /\ Range(renamed) = {ops[i] : i \in {j \in 1..n : ops[j].kind \in {"AlterModelTable"}}}
    BY OnlyIs DEF RmModels, RenameTables
  <1>2. items \in Seq(Range(ops)) /\ Range(items) = Range(removed) \cup Range(renamed)
    <2> HIDE DEF removed, renamed
    <2> QED
      BY <1>1, ConcatProperties, RangeConcatenation
  <1>3. \A op : op \in Range(items) <=> \E i \in 1..n : op = ops[i] /\ ops[i].kind \in kinds
    <2> HIDE DEF removed, renamed, items
    <2> QED
      BY <1>1, <1>2
  <1>4. Len(items) \in Nat /\ DOMAIN items = 1..Len(items)
    <2> HIDE DEF items
    <2> QED
      BY <1>2, LenProperties
  <1>5. statements = [i \in DOMAIN items |-> old(items[i])]
    BY DEF RevokeStatements
  <1> HIDE DEF statements, items
  <1>6. Len(statements) \in Nat /\ DOMAIN statements = 1..Len(statements)
    <2> DEFINE V == Range(statements)
    <2>1. statements \in [1..Len(items) -> V]
      <3> HIDE DEF old
      <3> QED
        BY <1>4, <1>5 DEF Range
    <2>2. statements \in Seq(V)
      <3> HIDE DEF V
      <3> QED
        BY <1>4, <2>1
    <2> HIDE DEF V
    <2> QED
      BY <2>2, LenProperties
  <1>7. \A st : (\E j \in DOMAIN statements : statements[j] = st) <=>
                  \E i \in 1..n : ops[i].kind \in kinds /\ st = old(ops[i])
    <2> HIDE DEF old, kinds
    <2>1. \A st : (\E j \in DOMAIN statements : statements[j] = st) <=>
                    \E op \in Range(items) : st = old(op)
      BY <1>5 DEF Range
    <2> QED
      BY <1>3, <2>1
  <1>8. ASSUME NEW i \in 1..n, ops[i].kind \in kinds
        PROVE  old(ops[i]) =
                 IF ops[i].model \notin DOMAIN S THEN Raises("LookupError")
                 ELSE IF ops[i].kind # "RemoveField" THEN Sql(verb, TableOf(S, ops[i].model))
                 ELSE IF ops[i].fd \in DOMAIN S[ops[i].model].m2m
                      THEN Sql(verb, JoinTable(S, ops[i].model, ops[i].fd))
                 ELSE NoStatement
    BY <1>8
  <1> HIDE DEF old
  <1>9. /\ \A e : Raises(e).verb = e
        /\ \A t : Sql(verb, t).verb = verb /\ Sql(verb, t).table = t
        /\ NoStatement.verb = "ok"
    BY DEF Raises, Sql, NoStatement
  <1>10. \A j \in DOMAIN statements : statements[j].verb \in {verb, "LookupError", "ok"}
    <2> SUFFICES ASSUME NEW j \in DOMAIN statements
                 PROVE  statements[j].verb \in {verb, "LookupError", "ok"}
      OBVIOUS
    <2>1. PICK i \in 1..n : ops[i].kind \in kinds /\ statements[j] = old(ops[i])
      BY <1>7
    <2> QED
      BY <1>8, <1>9, <2>1
  <1>11. ASSUME NEW t
         PROVE  (\E j \in DOMAIN statements : statements[j].verb = verb /\ statements[j].table = t)
                  <=> \E i \in 1..n : /\ ops[i].kind \in kinds
                                      /\ old(ops[i]).verb = verb /\ old(ops[i]).table = t
    <2>1. ASSUME NEW j \in DOMAIN statements, statements[j].verb = verb, statements[j].table = t
          PROVE  \E i \in 1..n : /\ ops[i].kind \in kinds
                                 /\ old(ops[i]).verb = verb /\ old(ops[i]).table = t
      <3>1. PICK i \in 1..n : ops[i].kind \in kinds /\ statements[j] = old(ops[i])
        BY <1>7
      <3> QED
        BY <2>1, <3>1
    <2>2. ASSUME NEW i \in 1..n, ops[i].kind \in kinds, old(ops[i]).verb = verb, old(ops[i]).table = t
          PROVE  \E j \in DOMAIN statements : statements[j].verb = verb /\ statements[j].table = t
      <3>1. PICK j \in DOMAIN statements : statements[j] = old(ops[i])
        <4> HIDE DEF kinds
        <4> QED
          BY <1>7, <2>2
      <3> QED
        BY <2>2, <3>1
    <2> HIDE DEF kinds
    <2> QED
      BY <2>1, <2>2
  <1>12. ASSUME NEW t, NEW i \in 1..n
         PROVE  (ops[i].kind \in kinds /\ old(ops[i]).verb = verb /\ old(ops[i]).table = t) <=>
                  /\ ops[i].model \in DOMAIN S
                  /\ \/ ops[i].kind \in {"DeleteModel", "AlterModelTable"} /\ t = TableOf(S, ops[i].model)
                     \/ /\ ops[i].kind = "RemoveField" /\ ops[i].fd \in DOMAIN S[ops[i].model].m2m
                        /\ t = JoinTable(S, ops[i].model, ops[i].fd)
    BY <1>8, <1>9
  <1>13. ASSUME NEW t
         PROVE  (\E j \in DOMAIN statements : statements[j].verb = verb /\ statements[j].table = t)
                  <=> IsOld(S, ops, t)
    <2>1. (\E i \in 1..n : /\ ops[i].kind \in kinds
                           /\ old(ops[i]).verb = verb /\ old(ops[i]).table = t) <=>
          IsOld(S, ops, t)
      <3> DEFINE Q(i) == ops[i].kind \in kinds /\ old(ops[i]).verb = verb /\ old(ops[i]).table = t
                 R(i) == /\ ops[i].model \in DOMAIN S
                         /\ \/ /\ ops[i].kind \in {"DeleteModel", "AlterModelTable"}
                               /\ t = TableOf(S, ops[i].model)
                            \/ /\ ops[i].kind = "RemoveField"
                               /\ ops[i].fd \in DOMAIN S[ops[i].model].m2m
                               /\ t = JoinTable(S, ops[i].model, ops[i].fd)
      <3>1. ASSUME NEW i \in 1..n PROVE Q(i) <=> R(i)
        <4> HIDE DEF kinds
        <4> QED
          BY <1>12
      <3>2. IsOld(S, ops, t) <=> \E i \in 1..n : R(i)
        <4>1. Len(ops) = n
          OBVIOUS
        <4> QED
          BY <4>1 DEF IsOld
      <3> HIDE DEF Q, R
      <3>3. (\E i \in 1..n : Q(i)) <=> IsOld(S, ops, t)
        BY <3>1, <3>2
      <3> QED
        BY <3>3 DEF Q
    <2> QED
      BY <1>11, <2>1
  <1> QED
    BY <1>6, <1>10, <1>13 DEF statements

-----------------------------------------------------------------------------
(* What the statements of a handler do to the privileges.                  *)

\* Grants: of tables that are there, and of all of them but that of the
\* statement that the server fails.
LEMMA Granting ==
  ASSUME NEW n \in Nat, NEW statements, Len(statements) = n, NEW caught, NEW tables, NEW granted,
         NEW fault, "OperationalError" \in caught,
         \A j \in 1..n :
           \/ /\ statements[j].verb = "GRANT"
              /\ statements[j].table \in tables \/ "ProgrammingError" \in caught
           \/ statements[j].verb = "LookupError" /\ "LookupError" \in caught
           \/ statements[j].verb = "ok"
  PROVE  LET h == Execute(statements, caught, tables, granted, fault)
         IN  /\ h.error = "ok" /\ granted \subseteq h.grants
             /\ \A t \in h.grants : t \in granted \/
                  (t \in tables /\ \E j \in 1..n : statements[j].verb = "GRANT" /\ statements[j].table = t)
             /\ \A j \in 1..n : j # fault /\ statements[j].verb = "GRANT" /\ statements[j].table \in tables =>
                  statements[j].table \in h.grants
  <1>1. PICK f : /\ f[0] = [grants |-> granted, error |-> "ok"]
                 /\ \A i \in 1..n : f[i] = After(f[i - 1], i, statements, caught, tables, fault)
                 /\ Execute(statements, caught, tables, granted, fault) = f[n]
    BY ExecuteIs
  <1> DEFINE Good(i, h) ==
               /\ h.error = "ok" /\ granted \subseteq h.grants
               /\ \A t \in h.grants : t \in granted \/
                    (t \in tables /\
                      \E j \in 1..i : statements[j].verb = "GRANT" /\ statements[j].table = t)
               /\ \A j \in 1..i : j # fault /\ statements[j].verb = "GRANT"
                                  /\ statements[j].table \in tables => statements[j].table \in h.grants
             K == {i \in 0..n : Good(i, f[i])}
  <1>2. 0 \in K
    <2>1. 1..0 = {}
      OBVIOUS
    <2> QED
      BY <1>1, <2>1
  <1>3. ASSUME NEW i \in 1..n, i - 1 \in K PROVE i \in K
    <2> DEFINE h == f[i - 1]
               st == statements[i]
               outcome == IF i = fault THEN "OperationalError" ELSE Outcome(st, tables, h.grants)
               Does == i # fault /\ st.verb = "GRANT" /\ st.table \in tables
    <2>1. Good(i - 1, h)
      BY <1>3
    <2>2. f[i] = [grants |-> IF outcome = "ok" THEN Effect(st, h.grants) ELSE h.grants,
                  error |-> IF outcome \in caught THEN "ok" ELSE outcome]
      BY <1>1, <2>1 DEF After
    <2>3. \/ st.verb = "GRANT" /\ (st.table \in tables \/ "ProgrammingError" \in caught)
          \/ st.verb = "LookupError" /\ "LookupError" \in caught
          \/ st.verb = "ok"
      OBVIOUS
    <2>4. outcome = IF i = fault THEN "OperationalError"
                    ELSE IF st.verb = "GRANT"
                         THEN IF st.table \in tables THEN "ok" ELSE "ProgrammingError"
                         ELSE st.verb
      BY <2>3 DEF Outcome
    <2> HIDE DEF outcome, h, st
    <2>5. outcome = "ok" <=> Does \/ (i # fault /\ st.verb = "ok")
      BY <2>3, <2>4
    <2>6. outcome # "ok" => outcome \in caught
      BY <2>3, <2>4
    <2>7. f[i].error = "ok"
      BY <2>2, <2>6
    <2>8. f[i].grants = IF Does THEN h.grants \cup {st.table} ELSE h.grants
      BY <2>2, <2>5 DEF Effect
    <2>9. 1..i = 1..(i - 1) \cup {i}
      OBVIOUS
    <2>10. Good(i, f[i])
      <3>1. granted \subseteq f[i].grants
        BY <2>1, <2>8
      <3>2. ASSUME NEW t \in f[i].grants, t \notin granted
            PROVE  t \in tables /\ \E j \in 1..i : /\ statements[j].verb = "GRANT"
                                                   /\ statements[j].table = t
        BY <2>1, <2>5, <2>8, <2>9, <3>2 DEF st
      <3>3. ASSUME NEW j \in 1..i, j # fault, statements[j].verb = "GRANT",
                   statements[j].table \in tables
            PROVE  statements[j].table \in f[i].grants
        BY <2>1, <2>5, <2>8, <2>9, <3>3 DEF st
      <3> QED
        BY <2>7, <3>1, <3>2, <3>3
    <2> HIDE DEF Good
    <2> QED
      BY <2>10
  <1> HIDE DEF K
  <1>4. 0..n \subseteq K
    BY <1>2, <1>3, NatSetInduction
  <1>5. Good(n, f[n])
    BY <1>4 DEF K
  <1> QED
    BY <1>1, <1>5

\* Revokes: of all the tables but that of the statement that fails.
LEMMA Revoking ==
  ASSUME NEW n \in Nat, NEW statements, Len(statements) = n, NEW caught, NEW tables, NEW granted,
         NEW fault, "OperationalError" \in caught,
         \A j \in 1..n :
           \/ statements[j].verb = "REVOKE"
           \/ statements[j].verb = "LookupError" /\ "LookupError" \in caught
           \/ statements[j].verb = "ok"
  PROVE  LET h == Execute(statements, caught, tables, granted, fault)
         IN  /\ h.error = "ok" /\ h.grants \subseteq granted
             /\ \A t \in granted : t \in h.grants \/
                  \E j \in 1..n : statements[j].verb = "REVOKE" /\ statements[j].table = t
             /\ \A j \in 1..n : j # fault /\ statements[j].verb = "REVOKE" =>
                  statements[j].table \notin h.grants
  <1>1. PICK f : /\ f[0] = [grants |-> granted, error |-> "ok"]
                 /\ \A i \in 1..n : f[i] = After(f[i - 1], i, statements, caught, tables, fault)
                 /\ Execute(statements, caught, tables, granted, fault) = f[n]
    BY ExecuteIs
  <1> DEFINE Good(i, h) ==
               /\ h.error = "ok" /\ h.grants \subseteq granted
               /\ \A t \in granted : t \in h.grants \/
                    \E j \in 1..i : statements[j].verb = "REVOKE" /\ statements[j].table = t
               /\ \A j \in 1..i : j # fault /\ statements[j].verb = "REVOKE" =>
                    statements[j].table \notin h.grants
             K == {i \in 0..n : Good(i, f[i])}
  <1>2. 0 \in K
    <2>1. 1..0 = {}
      OBVIOUS
    <2> QED
      BY <1>1, <2>1
  <1>3. ASSUME NEW i \in 1..n, i - 1 \in K PROVE i \in K
    <2> DEFINE h == f[i - 1]
               st == statements[i]
               outcome == IF i = fault THEN "OperationalError" ELSE Outcome(st, tables, h.grants)
               Does == i # fault /\ st.verb = "REVOKE" /\ st.table \in h.grants
    <2>1. Good(i - 1, h)
      BY <1>3
    <2>2. f[i] = [grants |-> IF outcome = "ok" THEN Effect(st, h.grants) ELSE h.grants,
                  error |-> IF outcome \in caught THEN "ok" ELSE outcome]
      BY <1>1, <2>1 DEF After
    <2>3. \/ st.verb = "REVOKE"
          \/ st.verb = "LookupError" /\ "LookupError" \in caught
          \/ st.verb = "ok"
      OBVIOUS
    <2>4. outcome = IF i = fault THEN "OperationalError"
                    ELSE IF st.verb = "REVOKE"
                         THEN IF st.table \in h.grants THEN "ok" ELSE "OperationalError"
                         ELSE st.verb
      BY <2>3 DEF Outcome
    <2> HIDE DEF outcome, h, st
    <2>5. outcome = "ok" <=> Does \/ (i # fault /\ st.verb = "ok")
      BY <2>3, <2>4
    <2>6. outcome # "ok" => outcome \in caught
      BY <2>3, <2>4
    <2>7. f[i].error = "ok"
      BY <2>2, <2>6
    <2>8. f[i].grants = IF Does THEN h.grants \ {st.table} ELSE h.grants
      BY <2>2, <2>5 DEF Effect
    <2>9. 1..i = 1..(i - 1) \cup {i}
      OBVIOUS
    <2>10. Good(i, f[i])
      <3>1. f[i].grants \subseteq granted
        BY <2>1, <2>8
      <3>2. ASSUME NEW t \in granted, t \notin f[i].grants
            PROVE  \E j \in 1..i : statements[j].verb = "REVOKE" /\ statements[j].table = t
        BY <2>1, <2>5, <2>8, <2>9, <3>2 DEF st
      <3>3. ASSUME NEW j \in 1..i, j # fault, statements[j].verb = "REVOKE"
            PROVE  statements[j].table \notin f[i].grants
        BY <2>1, <2>5, <2>8, <2>9, <3>3 DEF st
      <3> QED
        BY <2>7, <3>1, <3>2, <3>3
    <2> HIDE DEF Good
    <2> QED
      BY <2>10
  <1> HIDE DEF K
  <1>4. 0..n \subseteq K
    BY <1>2, <1>3, NatSetInduction
  <1>5. Good(n, f[n])
    BY <1>4 DEF K
  <1> QED
    BY <1>1, <1>5

\* Statements that do not revoke leave the privileges that there are.
NoneRevokes(statements) == \A j \in 1..Len(statements) : statements[j].verb # "REVOKE"

LEMMA NotRevoking ==
  ASSUME NEW statements, Len(statements) \in Nat, NEW caught, NEW tables, NEW granted,
         NEW fault, NoneRevokes(statements)
  PROVE  granted \subseteq Execute(statements, caught, tables, granted, fault).grants
  <1> DEFINE n == Len(statements)
  <1>1. PICK f : /\ f[0] = [grants |-> granted, error |-> "ok"]
                 /\ \A i \in 1..n : f[i] = After(f[i - 1], i, statements, caught, tables, fault)
                 /\ Execute(statements, caught, tables, granted, fault) = f[n]
    BY ExecuteIs
  <1> DEFINE K == {i \in 0..n : granted \subseteq f[i].grants}
  <1>2. 0 \in K
    BY <1>1
  <1>3. ASSUME NEW i \in 1..n, i - 1 \in K PROVE i \in K
    <2> DEFINE h == f[i - 1]
               st == statements[i]
    <2>1. \/ f[i] = h \/ f[i].grants = h.grants \/ f[i].grants = Effect(st, h.grants)
      <3> DEFINE outcome == IF i = fault THEN "OperationalError" ELSE Outcome(st, tables, h.grants)
      <3>1. f[i] = IF h.error # "ok" THEN h
                   ELSE [grants |-> IF outcome = "ok" THEN Effect(st, h.grants) ELSE h.grants,
                         error |-> IF outcome \in caught THEN "ok" ELSE outcome]
        BY <1>1 DEF After
      <3> HIDE DEF h, outcome
      <3> QED
        BY <3>1
    <2>2. h.grants \subseteq Effect(st, h.grants)
      <3>1. st.verb # "REVOKE"
        BY DEF NoneRevokes
      <3> QED
        BY <3>1 DEF Effect
    <2> QED
      BY <1>3, <2>1, <2>2
  <1> HIDE DEF K
  <1>4. 0..n \subseteq K
    BY <1>2, <1>3, NatSetInduction
  <1>5. n \in K
    BY <1>4
  <1> QED
    BY <1>1, <1>5 DEF K

-----------------------------------------------------------------------------
(* The inductive invariant.                                                *)

LegalFrom(S, ops) == \A i \in 1..Len(ops) : ops[i] \in LegalOps(States(S, ops)[i - 1])

ChainInv ==
  /\ chain \in Seq(Range(chain))
  /\ \A k \in 1..Len(chain) : /\ chain[k] \in Seq(Range(chain[k]))
                              /\ LegalFrom(StateAt(k - 1), chain[k])

RunInv ==
  /\ applied \in 0..Len(chain) /\ faults \in Nat /\ repeats \in Nat
  /\ firstRun \subseteq 1..Len(chain)
  /\ \/ running = "no"
     \/ running = "forwards" /\ applied < Len(chain)
     \/ running = "backwards" /\ applied > 0

\* The names of the tables of models are kept.
NamesInv ==
  /\ DOMAIN newNames = 1..Len(chain)
  /\ \A k \in 1..Len(chain) :
       LET items == AddModels(chain[k])
       IN  /\ newNames[k] = [i \in DOMAIN items |-> newNames[k][i]]
           /\ \A i \in DOMAIN items : ~ items[i].join =>
                OrDefault(newNames[k][i], items[i].model) = OrDefault(items[i].name, items[i].model)

\* A migration that was not begun by the process has the names of its code,
\* and so has one that is half applied, unless it is run again.
FirstRunInv ==
  /\ \A k \in firstRun : newNames[k] = NamesOf(chain[k])
  /\ running = "backwards" => applied \notin firstRun
  /\ running = "forwards" =>
       /\ applied + 1 \notin firstRun
       /\ repeats = 0 => newNames[applied + 1] = NamesOf(chain[applied + 1])

\* The tables that the user should have privileges on.
Due ==
  LET S == StateAt(applied)
  IN  {t \in Tables(S) : /\ running = "forwards" => ~ IsOld(S, chain[applied + 1], t)
                         /\ running = "backwards" => ~ IsNew(S, chain[applied], t)}

Wrong == (Due \cup grants) \ (Due \cap grants)

\* Nothing but what the code deals with, and no many-to-many field.
Simple == AllHandled /\ ~ HasFields

GrantsInv ==
  /\ AllHandled => FirstRunInv
  /\ AllHandled /\ repeats = 0 /\ faults = 0 => Wrong = {}
  /\ AllHandled /\ repeats = 0 /\ faults = 1 => \A t, u \in Wrong : t = u
  /\ Simple /\ faults = 0 => Due \subseteq grants

PrivilegeInv == ChainInv /\ RunInv /\ NamesInv /\ GrantsInv

-----------------------------------------------------------------------------
(* Migrations that AlterTablePrivilege deals with are regular.             *)

\* A model that is created has finitely many fields.
LEMMA FieldsAreFinite ==
  ASSUME NEW S, NEW ops, DOMAIN ops = 1..Len(ops), LegalFrom(S, ops)
  PROVE  FiniteFields(ops)
  <1> SUFFICES ASSUME NEW i \in DOMAIN ops, ops[i].kind = "CreateModel"
               PROVE  IsFiniteSet(DOMAIN ops[i].m2m)
    BY DEF FiniteFields
  <1>1. DOMAIN ops[i].m2m \subseteq Fields
    BY LegalIs DEF LegalFrom
  <1> DEFINE D == DOMAIN ops[i].m2m
  <1>2. D \in SUBSET Fields
    BY <1>1
  <1> HIDE DEF D
  <1> QED
    BY <1>2, FS_Subset, NamesAssumption DEF D

\* The conditions of Handled, for a migration from state S on.
HandledFrom(S, ops) ==
  /\ \A i \in DOMAIN AddModels(ops) : AddModels(ops)[i].join =>
       AddModels(ops)[i].name = NoName /\ AddModels(ops)[i].model \in DOMAIN StateFrom(S, ops)
  /\ \A i \in DOMAIN ops :
       /\ ops[i].kind \notin {"RenameModel", "RenameField"}
       /\ ops[i].kind \in {"DeleteModel", "AlterModelTable"} =>
            States(S, ops)[i - 1][ops[i].model].m2m = <<>>
       /\ ops[i].kind = "RemoveField" /\ ops[i].model \in DOMAIN S =>
            ops[i].fd \in DOMAIN S[ops[i].model].m2m \cup S[ops[i].model].plain

\* What AlterTablePrivilege deals with is regular, keeps what it asks for,
\* and has names that fit.
LEMMA HandledIs ==
  ASSUME NEW S, GoodState(S), NEW ops, Len(ops) \in Nat, DOMAIN ops = 1..Len(ops),
         LegalFrom(S, ops), HandledFrom(S, ops)
  PROVE  /\ Follows(S, ops) /\ Kept(S, ops, StateFrom(S, ops))
         /\ NamesFit(StateFrom(S, ops), ops, NamesOf(ops))
  <1> DEFINE n == Len(ops)
             s == States(S, ops)
             T == StateFrom(S, ops)
             items == AddModels(ops)
  <1>1. /\ \A x : x \in Range(items) <=> \E i \in 1..n : IsItem(ops[i], x)
        /\ items \in Seq(Range(items))
    BY FieldsAreFinite, AddModelsIs DEF FiniteFields
  <1>2. DOMAIN items = 1..Len(items) /\ Len(items) \in Nat
    <2> HIDE DEF items
    <2> QED
      BY <1>1, LenProperties
  <1>3. ASSUME NEW i \in 1..n, NEW m, NEW f, NEW x, IsItem(ops[i], OfField(m, f, x))
        PROVE  x = NoName /\ m \in DOMAIN T
    <2>1. PICK j \in DOMAIN items : items[j] = OfField(m, f, x)
      <3> HIDE DEF items
      <3> QED
        BY <1>1, <1>3 DEF Range
    <2>2. items[j].join /\ items[j].name = x /\ items[j].model = m
      <3> HIDE DEF items
      <3> QED
        BY <2>1 DEF OfField
    <2> QED
      BY <2>2 DEF HandledFrom
  <1>4. ASSUME NEW i \in 1..n PROVE Regular(s[i - 1], ops[i])
    <2>1. ASSUME ops[i].kind = "CreateModel", NEW f \in DOMAIN ops[i].m2m
          PROVE  ops[i].m2m[f] = NoName
      BY <1>3, <2>1 DEF IsItem
    <2>2. ASSUME ops[i].kind = "AddField" PROVE ops[i].table = NoName
      BY <1>3, <2>2 DEF IsItem
    <2> QED
      BY <2>1, <2>2 DEF Regular, HandledFrom
  <1>5. \A i \in 1..n : GoodState(s[i - 1])
    <2> DEFINE K == {i \in 0..n : GoodState(s[i])}
    <2> HIDE DEF s
    <2>1. s[0] = S /\ \A i \in 1..n : s[i] = Change(s[i - 1], ops[i])
      BY StatesIs DEF s
    <2>2. ASSUME NEW i \in 1..n, i - 1 \in K PROVE i \in K
      <3>1. GoodState(s[i - 1]) /\ DOMAIN s[i - 1] \subseteq Models
        BY <2>2 DEF GoodState
      <3>2. Legal(s[i - 1], ops[i])
        BY <3>1, LegalIs DEF LegalFrom, s
      <3>3. ChangesTo(s[i - 1], ops[i], s[i])
        BY <1>4, <2>1, <3>1, <3>2, ChangeIs
      <3> QED
        BY <3>3 DEF ChangesTo
    <2>3. 0 \in K
      BY <2>1
    <2> HIDE DEF K
    <2>4. 0..n \subseteq K
      BY <2>2, <2>3, NatSetInduction
    <2> QED
      BY <2>4 DEF K
  <1>6. Follows(S, ops)
    <2> SUFFICES ASSUME NEW i \in 1..n PROVE Legal(s[i - 1], ops[i])
      BY <1>4 DEF Follows
    <2>1. DOMAIN s[i - 1] \subseteq Models
      BY <1>5 DEF GoodState
    <2> QED
      BY <2>1, LegalIs DEF LegalFrom
  <1>7. Kept(S, ops, T)
    <2>1. ASSUME NEW i \in 1..n, NEW f, MakesField(ops[i], ops[i].model, f)
          PROVE  ops[i].model \in DOMAIN T
      BY <1>3, <2>1 DEF IsItem, MakesField
    <2> QED
      BY <2>1 DEF Kept, HandledFrom
  <1>8. NamesFit(T, ops, NamesOf(ops))
    <2> SUFFICES ASSUME NEW i \in 1..Len(items)
                 PROVE  IF items[i].join THEN NamesOf(ops)[i] = NoName /\ items[i].model \in DOMAIN T
                        ELSE OrDefault(NamesOf(ops)[i], items[i].model) =
                               OrDefault(items[i].name, items[i].model)
      BY DEF NamesFit
    <2>1. NamesOf(ops)[i] = items[i].name
      BY <1>2 DEF NamesOf
    <2> QED
      BY <1>2, <2>1 DEF HandledFrom
  <1> QED
    BY <1>6, <1>7, <1>8

\* No operation makes a many-to-many field.
NoFields(ops) ==
  \A i \in DOMAIN ops :
    ops[i].kind # "AddField" /\ (ops[i].kind = "CreateModel" => ops[i].m2m = <<>>)

\* Then there is no table of such a field.
LEMMA NoFieldsIs ==
  ASSUME NEW ops, Len(ops) \in Nat, DOMAIN ops = 1..Len(ops), FiniteFields(ops), NoFields(ops)
  PROVE  \A i \in DOMAIN AddModels(ops) : ~ AddModels(ops)[i].join
  <1> DEFINE items == AddModels(ops)
  <1>1. \A x : x \in Range(items) <=> \E i \in 1..Len(ops) : IsItem(ops[i], x)
    BY AddModelsIs DEF FiniteFields
  <1>2. ASSUME NEW i \in DOMAIN items PROVE ~ items[i].join
    <2>1. PICK j \in 1..Len(ops) : IsItem(ops[j], items[i])
      <3> HIDE DEF items
      <3> QED
        BY <1>1 DEF Range
    <2>2. DOMAIN <<>> = {}
      OBVIOUS
    <2>3. items[i] = Of(ops[j].model, ops[j].table)
      BY <2>1, <2>2 DEF IsItem, NoFields
    <2> HIDE DEF items
    <2> QED
      BY <2>3 DEF Of
  <1> QED
    BY <1>2

-----------------------------------------------------------------------------
(* What a handler does to the privileges, when all its errors are caught.  *)

\* granted becomes after, which has the tables of those that want says;
\* a failing statement costs one of them.
Becomes(after, want, fault) ==
  \E u : \A t : fault = 0 \/ t # u => (t \in after <=> t \in want)

GrantNew(S, ops, granted) == granted \cup {t \in Tables(S) : IsNew(S, ops, t)}
RevokeNew(S, ops, granted) == {t \in granted : ~ IsNew(S, ops, t)}
GrantOld(S, ops, granted) == granted \cup {t \in Tables(S) : IsOld(S, ops, t)}
RevokeOld(S, ops, granted) == {t \in granted : ~ IsOld(S, ops, t)}

\* Forwards, after the changes: the new tables are granted.
LEMMA GrantsNew ==
  ASSUME NEW n \in Nat, NEW ops, DOMAIN ops = 1..n, Len(ops) = n, FiniteFields(ops),
         NEW S, NEW names, NamesFit(S, ops, names), NEW granted, NEW fault, NEW caught,
         "OperationalError" \in caught, "ProgrammingError" \in caught,
         NEW h, h = Execute(GrantStatements(S, ops, names, "GRANT"), caught, Tables(S), granted, fault)
  PROVE  /\ h.error = "ok" /\ granted \subseteq h.grants
         /\ Becomes(h.grants, GrantNew(S, ops, granted), fault)
  <1> DEFINE statements == GrantStatements(S, ops, names, "GRANT")
             N == Len(statements)
             T == Tables(S)
  <1> HIDE DEF statements, T
  <1>1. /\ N \in Nat /\ DOMAIN statements = 1..N
        /\ \A j \in DOMAIN statements : statements[j].verb = "GRANT"
        /\ \A t : (\E j \in DOMAIN statements : statements[j].table = t) <=> IsNew(S, ops, t)
    BY GrantStatementsAre DEF statements
  <1>2. h = Execute(statements, caught, T, granted, fault)
    BY DEF statements, T
  <1>3. /\ h.error = "ok" /\ granted \subseteq h.grants
        /\ \A t \in h.grants : t \in granted \/
             (t \in T /\ \E j \in 1..N : statements[j].verb = "GRANT" /\ statements[j].table = t)
        /\ \A j \in 1..N : j # fault /\ statements[j].verb = "GRANT" /\ statements[j].table \in T =>
             statements[j].table \in h.grants
    BY <1>1, <1>2, Granting
  <1>4. ASSUME NEW t, fault = 0 \/ t # statements[fault].table
        PROVE  t \in h.grants <=> t \in GrantNew(S, ops, granted)
    BY <1>1, <1>3, <1>4 DEF GrantNew, T
  <1> QED
    BY <1>3, <1>4 DEF Becomes

\* Backwards, before the changes: the new tables are revoked.
LEMMA RevokesNew ==
  ASSUME NEW n \in Nat, NEW ops, DOMAIN ops = 1..n, Len(ops) = n, FiniteFields(ops),
         NEW S, NEW names, NamesFit(S, ops, names), NEW granted, NEW fault, NEW caught,
         "OperationalError" \in caught,
         NEW h, h = Execute(GrantStatements(S, ops, names, "REVOKE"), caught, Tables(S), granted, fault)
  PROVE  h.error = "ok" /\ Becomes(h.grants, RevokeNew(S, ops, granted), fault)
  <1> DEFINE statements == GrantStatements(S, ops, names, "REVOKE")
             N == Len(statements)
             T == Tables(S)
  <1> HIDE DEF statements, T
  <1>1. /\ N \in Nat /\ DOMAIN statements = 1..N
        /\ \A j \in DOMAIN statements : statements[j].verb = "REVOKE"
        /\ \A t : (\E j \in DOMAIN statements : statements[j].table = t) <=> IsNew(S, ops, t)
    BY GrantStatementsAre DEF statements
  <1>2. h = Execute(statements, caught, T, granted, fault)
    BY DEF statements, T
  <1>3. /\ h.error = "ok" /\ h.grants \subseteq granted
        /\ \A t \in granted : t \in h.grants \/
             \E j \in 1..N : statements[j].verb = "REVOKE" /\ statements[j].table = t
        /\ \A j \in 1..N : j # fault /\ statements[j].verb = "REVOKE" =>
             statements[j].table \notin h.grants
    BY <1>1, <1>2, Revoking
  <1>4. ASSUME NEW t, fault = 0 \/ t # statements[fault].table
        PROVE  t \in h.grants <=> t \in RevokeNew(S, ops, granted)
    BY <1>1, <1>3, <1>4 DEF RevokeNew
  <1> QED
    BY <1>3, <1>4 DEF Becomes

\* Forwards, before the changes: the old tables are revoked.
LEMMA RevokesOld ==
  ASSUME NEW n \in Nat, NEW ops, DOMAIN ops = 1..n, NEW S,
         \A i \in 1..n : ops[i].kind = "RemoveField" /\ ops[i].model \in DOMAIN S =>
           ops[i].fd \in DOMAIN S[ops[i].model].m2m \cup S[ops[i].model].plain,
         NEW granted, NEW fault, NEW caught, "OperationalError" \in caught, "LookupError" \in caught,
         NEW h, h = Execute(RevokeStatements(S, ops, "REVOKE"), caught, Tables(S), granted, fault)
  PROVE  h.error = "ok" /\ Becomes(h.grants, RevokeOld(S, ops, granted), fault)
  <1> DEFINE statements == RevokeStatements(S, ops, "REVOKE")
             N == Len(statements)
             T == Tables(S)
  <1> HIDE DEF statements, T
  <1>1. /\ N \in Nat /\ DOMAIN statements = 1..N
        /\ \A j \in DOMAIN statements : statements[j].verb \in {"REVOKE", "LookupError", "ok"}
        /\ \A t : (\E j \in DOMAIN statements :
                     statements[j].verb = "REVOKE" /\ statements[j].table = t) <=> IsOld(S, ops, t)
    BY RevokeStatementsAre DEF statements
  <1>2. h = Execute(statements, caught, T, granted, fault)
    BY DEF statements, T
  <1>3. /\ h.error = "ok" /\ h.grants \subseteq granted
        /\ \A t \in granted : t \in h.grants \/
             \E j \in 1..N : statements[j].verb = "REVOKE" /\ statements[j].table = t
        /\ \A j \in 1..N : j # fault /\ statements[j].verb = "REVOKE" =>
             statements[j].table \notin h.grants
    BY <1>1, <1>2, Revoking
  <1>4. ASSUME NEW t, fault = 0 \/ t # statements[fault].table
        PROVE  t \in h.grants <=> t \in RevokeOld(S, ops, granted)
    BY <1>1, <1>3, <1>4 DEF RevokeOld
  <1> QED
    BY <1>3, <1>4 DEF Becomes

\* Backwards, after the changes: the old tables are granted again.
LEMMA GrantsOld ==
  ASSUME NEW n \in Nat, NEW ops, DOMAIN ops = 1..n, Len(ops) = n, NEW S,
         \A i \in 1..n : ops[i].kind = "RemoveField" /\ ops[i].model \in DOMAIN S =>
           ops[i].fd \in DOMAIN S[ops[i].model].m2m \cup S[ops[i].model].plain,
         NEW granted, NEW fault, NEW caught, "OperationalError" \in caught, "LookupError" \in caught,
         NEW h, h = Execute(RevokeStatements(S, ops, "GRANT"), caught, Tables(S), granted, fault)
  PROVE  /\ h.error = "ok" /\ granted \subseteq h.grants
         /\ Becomes(h.grants, GrantOld(S, ops, granted), fault)
  <1> DEFINE statements == RevokeStatements(S, ops, "GRANT")
             N == Len(statements)
             T == Tables(S)
  <1>0. ASSUME NEW t, IsOld(S, ops, t) PROVE t \in T
    BY <1>0 DEF IsOld, Tables
  <1> HIDE DEF statements, T
  <1>1. /\ N \in Nat /\ DOMAIN statements = 1..N
        /\ \A j \in DOMAIN statements : statements[j].verb \in {"GRANT", "LookupError", "ok"}
        /\ \A t : (\E j \in DOMAIN statements :
                     statements[j].verb = "GRANT" /\ statements[j].table = t) <=> IsOld(S, ops, t)
    BY RevokeStatementsAre DEF statements
  <1>2. h = Execute(statements, caught, T, granted, fault)
    BY DEF statements, T
  <1>3. \A j \in 1..N :
           \/ /\ statements[j].verb = "GRANT"
              /\ statements[j].table \in T \/ "ProgrammingError" \in caught
           \/ statements[j].verb = "LookupError" /\ "LookupError" \in caught
           \/ statements[j].verb = "ok"
    BY <1>0, <1>1
  <1>4. /\ h.error = "ok" /\ granted \subseteq h.grants
        /\ \A t \in h.grants : t \in granted \/
             (t \in T /\ \E j \in 1..N : statements[j].verb = "GRANT" /\ statements[j].table = t)
        /\ \A j \in 1..N : j # fault /\ statements[j].verb = "GRANT" /\ statements[j].table \in T =>
             statements[j].table \in h.grants
    BY <1>1, <1>2, <1>3, Granting
  <1>5. ASSUME NEW t, fault = 0 \/ t # statements[fault].table
        PROVE  t \in h.grants <=> t \in GrantOld(S, ops, granted)
    BY <1>0, <1>1, <1>4, <1>5 DEF GrantOld, T
  <1> QED
    BY <1>4, <1>5 DEF Becomes

\* The same, in a state that may lack what the code looks for: the handler may
\* then end at once, but takes no privilege away.
LEMMA GrantsOldAtMost ==
  ASSUME NEW n \in Nat, NEW ops, DOMAIN ops = 1..n, NEW S, NEW granted, NEW fault, NEW caught,
         NEW h, h = Execute(RevokeStatements(S, ops, "GRANT"), caught, Tables(S), granted, fault)
  PROVE  granted \subseteq h.grants
  <1> DEFINE statements == RevokeStatements(S, ops, "GRANT")
             items == RmModels(ops) \o RenameTables(ops)
             N == Len(items)
  <1>1. items \in Seq(Range(ops))
    <2>1. RmModels(ops) \in Seq(Range(ops)) /\ RenameTables(ops) \in Seq(Range(ops))
      BY OnlyIs DEF RmModels, RenameTables
    <2> DEFINE a == RmModels(ops)
               b == RenameTables(ops)
               V == Range(ops)
    <2> HIDE DEF a, b, V
    <2>2. a \in Seq(V) /\ b \in Seq(V)
      BY <2>1 DEF a, b, V
    <2>3. a \o b \in Seq(V)
      BY <2>2, ConcatProperties
    <2> QED
      BY <2>3 DEF a, b, V
  <1>2. N \in Nat /\ DOMAIN items = 1..N
    <2> HIDE DEF items
    <2> QED
      BY <1>1, LenProperties
  <1>3. DOMAIN statements = DOMAIN items
    BY DEF RevokeStatements
  <1>4. ASSUME NEW i \in DOMAIN items PROVE statements[i].verb # "REVOKE"
    <2>1. \/ \E e \in {"LookupError", "FieldDoesNotExist"} : statements[i] = Raises(e)
          \/ \E t : statements[i] = Sql("GRANT", t)
          \/ statements[i] = NoStatement
      <3> DEFINE op == items[i]
      <3>1. statements[i] =
              IF op.model \notin DOMAIN S THEN Raises("LookupError")
              ELSE IF op.kind # "RemoveField" THEN Sql("GRANT", TableOf(S, op.model))
              ELSE IF op.fd \in DOMAIN S[op.model].m2m THEN Sql("GRANT", JoinTable(S, op.model, op.fd))
              ELSE IF op.fd \in S[op.model].plain THEN NoStatement
              ELSE Raises("FieldDoesNotExist")
        BY <1>4 DEF RevokeStatements
      <3> HIDE DEF op, statements
      <3> QED
        BY <3>1
    <2>2. /\ Raises("LookupError").verb = "LookupError"
          /\ Raises("FieldDoesNotExist").verb = "FieldDoesNotExist"
          /\ \A t : Sql("GRANT", t).verb = "GRANT"
          /\ NoStatement.verb = "ok"
      BY DEF Raises, Sql, NoStatement
    <2> HIDE DEF statements
    <2> QED
      BY <2>1, <2>2
  <1> HIDE DEF statements, items
  <1>5. Len(statements) = N
    BY <1>2, <1>3
  <1>6. h = Execute(statements, caught, Tables(S), granted, fault)
    BY DEF statements
  <1>7. NoneRevokes(statements)
    BY <1>2, <1>4, <1>5 DEF NoneRevokes
  <1> QED
    BY <1>2, <1>5, <1>6, <1>7, NotRevoking

-----------------------------------------------------------------------------
(* The states along the chain.                                             *)

\* StateAtIs holds of the next chain as well.
LEMMA StateAtNext ==
  \A n \in Nat : StateAt(n)' = IF n = 0 THEN <<>> ELSE StateFrom(StateAt(n - 1)', chain'[n])
  <1>1. \A n \in Nat : StateAt(n) = IF n = 0 THEN <<>> ELSE StateFrom(StateAt(n - 1), chain[n])
    BY StateAtIs
  <1>2. (\A n \in Nat : StateAt(n) = IF n = 0 THEN <<>> ELSE StateFrom(StateAt(n - 1), chain[n]))'
    BY <1>1, PTL
  <1> QED
    BY <1>2

\* The states do not change while the chain only grows.
LEMMA StatesStay ==
  ASSUME NEW n \in Nat, \A k \in 1..n : chain'[k] = chain[k]
  PROVE  \A k \in 0..n : StateAt(k)' = StateAt(k)
  <1> DEFINE K == {k \in 0..n : StateAt(k)' = StateAt(k)}
  <1>1. 0 \in K
    <2>1. StateAt(0)' = <<>> /\ StateAt(0) = <<>>
      BY StateAtNext, StateAtIs
    <2> QED
      BY <2>1
  <1>2. ASSUME NEW k \in 1..n, k - 1 \in K PROVE k \in K
    <2>1. StateAt(k)' = StateFrom(StateAt(k - 1)', chain'[k])
      BY StateAtNext
    <2>2. StateAt(k) = StateFrom(StateAt(k - 1), chain[k])
      BY StateAtIs
    <2> QED
      BY <1>2, <2>1, <2>2
  <1> HIDE DEF K
  <1>3. 0..n \subseteq K
    BY <1>1, <1>2, NatSetInduction
  <1> QED
    BY <1>3 DEF K

\* What is known of a migration.
Sound(k) ==
  LET S == StateAt(k - 1)
      T == StateAt(k)
      ops == chain[k]
  IN  /\ GoodState(S) /\ GoodState(T) /\ T = StateFrom(S, ops)
      /\ Follows(S, ops) /\ Kept(S, ops, T) /\ NamesFit(T, ops, NamesOf(ops))

\* The types of the chain, one migration at a time.
LEMMA ChainTypes ==
  ASSUME ChainInv, NEW k \in 1..Len(chain)
  PROVE  /\ Len(chain) \in Nat /\ DOMAIN chain = 1..Len(chain)
         /\ Len(chain[k]) \in Nat /\ DOMAIN chain[k] = 1..Len(chain[k])
         /\ StateAt(k) = StateFrom(StateAt(k - 1), chain[k])
         /\ LegalFrom(StateAt(k - 1), chain[k]) /\ FiniteFields(chain[k])
  <1>1. Len(chain) \in Nat /\ DOMAIN chain = 1..Len(chain)
    BY LenProperties DEF ChainInv
  <1>2. Len(chain[k]) \in Nat /\ DOMAIN chain[k] = 1..Len(chain[k])
    BY LenProperties DEF ChainInv
  <1>3. StateAt(k) = StateFrom(StateAt(k - 1), chain[k])
    BY <1>1, StateAtIs
  <1>4. LegalFrom(StateAt(k - 1), chain[k])
    BY DEF ChainInv
  <1>5. FiniteFields(chain[k])
    BY <1>2, <1>4, FieldsAreFinite
  <1> QED
    BY <1>1, <1>2, <1>3, <1>4, <1>5

\* The definition of the model, in the form that needs no chain.
LEMMA HandledFromIs ==
  ASSUME ChainInv, NEW k \in 1..Len(chain)
  PROVE  Handled(k) <=> HandledFrom(StateAt(k - 1), chain[k])
  BY ChainTypes DEF Handled, HandledFrom

\* The state without models is good.
LEMMA EmptyIsGood == GoodState(<<>>)
  <1>1. DOMAIN <<>> = {}
    OBVIOUS
  <1> QED
    BY <1>1 DEF GoodState

\* Every migration of a chain that is dealt with is sound.
LEMMA ChainIsSound ==
  ASSUME ChainInv, AllHandled
  PROVE  \A k \in 1..Len(chain) : Sound(k)
  <1> DEFINE n == Len(chain)
             K == {k \in 0..n : GoodState(StateAt(k))}
  <1>1. ASSUME NEW k \in 1..n, GoodState(StateAt(k - 1)) PROVE Sound(k)
    <2> DEFINE S == StateAt(k - 1)
               ops == chain[k]
    <2>1. HandledFrom(S, ops)
      BY HandledFromIs, ChainTypes DEF AllHandled
    <2>2. /\ Len(ops) \in Nat /\ DOMAIN ops = 1..Len(ops)
          /\ StateAt(k) = StateFrom(S, ops) /\ LegalFrom(S, ops)
      BY ChainTypes
    <2> HIDE DEF S, ops
    <2>3. /\ Follows(S, ops) /\ Kept(S, ops, StateFrom(S, ops))
          /\ NamesFit(StateFrom(S, ops), ops, NamesOf(ops))
      BY <1>1, <2>1, <2>2, HandledIs DEF S
    <2>4. GoodState(StateFrom(S, ops))
      BY <1>1, <2>2, <2>3, TablesDiffer DEF S
    <2> QED
      BY <1>1, <2>2, <2>3, <2>4 DEF Sound, S, ops
  <1>2. 0 \in K
    <2>1. StateAt(0) = <<>>
      BY StateAtIs
    <2> QED
      BY <2>1, EmptyIsGood, LenProperties DEF ChainInv
  <1>3. \A k \in 1..n : k - 1 \in K => k \in K
    <2> SUFFICES ASSUME NEW k \in 1..n, GoodState(StateAt(k - 1)) PROVE GoodState(StateAt(k))
      OBVIOUS
    <2> QED
      BY <1>1 DEF Sound
  <1>4. n \in Nat
    BY LenProperties DEF ChainInv
  <1> HIDE DEF K
  <1>5. 0..n \subseteq K
    BY <1>2, <1>3, <1>4, NatSetInduction
  <1> QED
    BY <1>1, <1>5 DEF K

\* In a simple chain no migration makes a many-to-many field.
LEMMA NoFieldsChain ==
  ASSUME ChainInv, Simple, NEW k \in 1..Len(chain)
  PROVE  \A i \in DOMAIN AddModels(chain[k]) : ~ AddModels(chain[k])[i].join
  <1>1. NoFields(chain[k])
    BY ChainTypes DEF Simple, HasFields, NoFields
  <1> QED
    BY <1>1, ChainTypes, NoFieldsIs

\* A legal operation more keeps a migration legal.
LEMMA LegalAppend ==
  ASSUME NEW S, NEW ops, ops \in Seq(Range(ops)), LegalFrom(S, ops),
         NEW op \in LegalOps(StateFrom(S, ops)), NEW more, more = Append(ops, op)
  PROVE  more \in Seq(Range(more)) /\ LegalFrom(S, more)
  <1> DEFINE n == Len(ops)
             U == Range(ops) \cup {op}
  <1>1. n \in Nat /\ DOMAIN ops = 1..n
    BY LenProperties
  <1>2. ops \in Seq(U) /\ op \in U
    BY SeqMonotonic
  <1>3. more \in Seq(U) /\ Len(more) = n + 1 /\ more[n + 1] = op
        /\ \A i \in 1..n : more[i] = ops[i]
    <2> HIDE DEF U
    <2> QED
      BY <1>2, AppendProperties
  <1>4. more \in Seq(Range(more))
    <2> HIDE DEF U
    <2> QED
      BY <1>3, SeqOfRange
  <1> DEFINE s == States(S, ops)
             r == States(S, more)
             K == {i \in 0..n : r[i] = s[i]}
  <1> HIDE DEF s, r
  <1>5. s[0] = S /\ \A i \in 1..n : s[i] = Change(s[i - 1], ops[i])
    BY <1>1, StatesIs DEF s
  <1>6. r[0] = S /\ \A i \in 1..(n + 1) : r[i] = Change(r[i - 1], more[i])
    <2>1. Len(more) \in Nat /\ Len(more) = n + 1
      BY <1>1, <1>3
    <2>2. /\ States(S, more)[0] = S
          /\ \A i \in 1..Len(more) : States(S, more)[i] = Change(States(S, more)[i - 1], more[i])
      <3>1. ASSUME NEW x, Len(x) \in Nat
            PROVE  /\ States(S, x)[0] = S
                   /\ \A i \in 1..Len(x) : States(S, x)[i] = Change(States(S, x)[i - 1], x[i])
        BY <3>1, StatesIs
      <3>2. Len(more) \in Nat
        BY <2>1
      <3> HIDE DEF n, U, K
      <3> QED
        BY <3>1, <3>2
    <2> HIDE DEF n
    <2> QED
      BY <2>1, <2>2 DEF r
  <1>7. ASSUME NEW i \in 1..n, i - 1 \in K PROVE i \in K
    <2>1. i \in 1..(n + 1)
      BY <1>1
    <2>2. r[i] = Change(r[i - 1], more[i]) /\ s[i] = Change(s[i - 1], ops[i])
      BY <1>5, <1>6, <2>1
    <2> QED
      BY <1>3, <1>7, <2>2
  <1>8. 0 \in K
    BY <1>1, <1>5, <1>6
  <1>9. 0..n \subseteq K
    <2> HIDE DEF K
    <2> QED
      BY <1>1, <1>7, <1>8, NatSetInduction
  <1>10. ASSUME NEW i \in 1..(n + 1) PROVE more[i] \in LegalOps(r[i - 1])
    <2>1. i - 1 \in 0..n
      BY <1>1
    <2>2. r[i - 1] = s[i - 1]
      BY <1>9, <2>1
    <2>3. CASE i = n + 1
      <3>1. s[n] = StateFrom(S, ops)
        BY DEF s, StateFrom
      <3>2. i - 1 = n
        BY <1>1, <2>3
      <3> QED
        BY <1>3, <2>2, <2>3, <3>1, <3>2
    <2>4. CASE i # n + 1
      <3>1. i \in 1..n
        BY <1>1, <2>4
      <3> QED
        BY <1>3, <2>2, <3>1 DEF LegalFrom, s
    <2> QED
      BY <2>3, <2>4
  <1> QED
    BY <1>3, <1>4, <1>10 DEF LegalFrom, r

\* So every one of the migrations that may be made is legal.
LEMMA MigrationsAreLegal ==
  ASSUME NEW S, NEW n \in Nat, n > 0, NEW ops \in Migrations(S, n)
  PROVE  ops \in Seq(Range(ops)) /\ LegalFrom(S, ops)
  <1> DEFINE Done(f, m) == /\ f = [i \in 1..n |-> f[i]]
                           /\ \A i \in 1..m : f[i] = IF i = 1 THEN Extensions(S, <<>>)
                                                     ELSE OrLonger(S, f[i - 1])
             K == {m \in 0..n : \E f : Done(f, m)}
             Eq(f) == f = [i \in 1..n |-> IF i = 1 THEN Extensions(S, <<>>)
                                          ELSE OrLonger(S, f[i - 1])]
             T == CHOOSE g : Eq(g)
  <1>1. Eq(T)
    <2>1. 0 \in K
      <3>1. Done([i \in 1..n |-> 0], 0)
        OBVIOUS
      <3> HIDE DEF Done
      <3> QED
        BY <3>1
    <2>2. ASSUME NEW m \in 1..n, m - 1 \in K PROVE m \in K
      <3>1. PICK f : Done(f, m - 1)
        BY <2>2
      <3> DEFINE last == IF m = 1 THEN Extensions(S, <<>>) ELSE OrLonger(S, f[m - 1])
                 h == [i \in 1..n |-> IF i = m THEN last ELSE f[i]]
      <3> HIDE DEF last
      <3>2. h[m] = last /\ \A i \in 1..n : i # m => h[i] = f[i]
        OBVIOUS
      <3>3. h = [i \in 1..n |-> h[i]]
        OBVIOUS
      <3> HIDE DEF h
      <3>4. ASSUME NEW i \in 1..m
            PROVE  h[i] = IF i = 1 THEN Extensions(S, <<>>) ELSE OrLonger(S, h[i - 1])
        <4>1. ASSUME i # 1 PROVE h[i - 1] = f[i - 1]
          <5>1. i - 1 \in 1..n /\ i - 1 # m
            BY <4>1
          <5> QED
            BY <3>2, <5>1
        <4>2. CASE i = m
          BY <3>2, <4>1, <4>2 DEF last
        <4>3. CASE i # m
          <5>1. i \in 1..(m - 1) /\ i \in 1..n
            BY <4>3
          <5> QED
            BY <3>1, <3>2, <4>1, <4>3, <5>1
        <4> QED
          BY <4>2, <4>3
      <3>5. Done(h, m)
        BY <3>3, <3>4
      <3> HIDE DEF Done
      <3> QED
        BY <3>5
    <2>3. n \in K
      <3>1. \A m \in 1..n : m - 1 \in K => m \in K
        BY <2>2
      <3> HIDE DEF K
      <3>2. 0..n \subseteq K
        BY <2>1, <3>1, NatSetInduction
      <3> QED
        BY <3>2
    <2>4. PICK f : Done(f, n)
      BY <2>3
    <2>5. Eq(f)
      <3> DEFINE k == [i \in 1..n |-> IF i = 1 THEN Extensions(S, <<>>) ELSE OrLonger(S, f[i - 1])]
      <3>1. \A i \in 1..n : f[i] = k[i]
        BY <2>4
      <3>2. f = [i \in 1..n |-> f[i]] /\ k = [i \in 1..n |-> k[i]]
        BY <2>4
      <3>3. f = k
        <4> HIDE DEF k
        <4> QED
          BY <3>1, <3>2
      <3> QED
        BY <3>3
    <2> HIDE DEF Eq
    <2> QED
      BY <2>5
  <1>2. Migrations(S, n) = T[n]
    BY DEF Migrations
  <1> HIDE DEF T
  <1>3. \A i \in 1..n : T[i] = IF i = 1 THEN Extensions(S, <<>>) ELSE OrLonger(S, T[i - 1])
    BY <1>1
  <1> DEFINE Fine(o) == o \in Seq(Range(o)) /\ LegalFrom(S, o)
             G == {i \in 0..n : i = 0 \/ \A o \in T[i] : Fine(o)}
  <1>4. ASSUME NEW o, Fine(o), NEW p \in Extensions(S, o) PROVE Fine(p)
    BY <1>4, LegalAppend DEF Extensions
  <1>5. Fine(<<>>)
    <2>1. Range(<<>>) = {} /\ <<>> \in Seq({}) /\ Len(<<>>) = 0
      BY DEF Range
    <2> QED
      BY <2>1 DEF LegalFrom
  <1>6. \A i \in 1..n : i - 1 \in G => i \in G
    <2> HIDE DEF Fine
    <2> SUFFICES ASSUME NEW i \in 1..n, i - 1 \in G, NEW p \in T[i] PROVE Fine(p)
      OBVIOUS
    <2>1. CASE i = 1
      BY <1>3, <1>4, <1>5, <2>1
    <2>2. CASE i # 1
      <3>1. \A o \in T[i - 1] : Fine(o)
        BY <2>2
      <3>2. p \in OrLonger(S, T[i - 1])
        BY <1>3, <2>2
      <3> QED
        BY <1>4, <3>1, <3>2 DEF OrLonger
    <2> QED
      BY <2>1, <2>2
  <1>7. 0 \in G
    OBVIOUS
  <1>8. 0..n \subseteq G
    <2> HIDE DEF G
    <2> QED
      BY <1>6, <1>7, NatSetInduction
  <1>9. n \in G
    BY <1>8
  <1> HIDE DEF Fine
  <1>10. Fine(ops)
    BY <1>2, <1>9
  <1> QED
    BY <1>10 DEF Fine

-----------------------------------------------------------------------------
(* One end of a migration.                                                 *)

\* What is known of the chain is kept with it.
LEMMA ChainStays ==
  ASSUME ChainInv, chain' = chain
  PROVE  /\ ChainInv' /\ (AllHandled' <=> AllHandled) /\ (Simple' <=> Simple)
         /\ \A k \in 0..Len(chain) : StateAt(k)' = StateAt(k)
  <1>1. Len(chain) \in Nat /\ DOMAIN chain = 1..Len(chain)
    BY LenProperties DEF ChainInv
  <1>2. \A k \in 0..Len(chain) : StateAt(k)' = StateAt(k)
    BY <1>1, StatesStay
  <1>3. \A k \in 1..Len(chain) : StateAt(k - 1)' = StateAt(k - 1) /\ StateAt(k)' = StateAt(k)
    BY <1>1, <1>2
  <1>4. ChainInv'
    BY <1>1, <1>3 DEF ChainInv
  <1>5. HasFields' <=> HasFields
    BY DEF HasFields
  <1>6. ASSUME NEW k \in 1..Len(chain) PROVE Handled(k)' <=> Handled(k)
    BY <1>3 DEF Handled
  <1>7. AllHandled' <=> AllHandled
    BY <1>1, <1>6 DEF AllHandled
  <1> QED
    BY <1>2, <1>4, <1>5, <1>7 DEF Simple

\* What a handler leaves behind when it ends with h.
Leaves(k, h, fault) ==
  /\ grants' = h.grants
  /\ faults' = IF fault = 0 THEN faults ELSE faults + 1
  /\ firstRun' = IF h.error = "ok" THEN firstRun \ {k} ELSE firstRun

\* A handler whose flag is at this end executes the grant statements.
LEMMA GrantingHandler ==
  ASSUME NEW k, NEW S, NEW reverse \in BOOLEAN, reverse <=> k \in firstRun, Handler(k, S, reverse)
  PROVE  /\ newNames' = [newNames EXCEPT ![k] = NamesAfter(S, chain[k], @)]
         /\ \E fault : Leaves(k, Execute(GrantStatements(S, chain[k], newNames[k],
                                                         IF reverse THEN "REVOKE" ELSE "GRANT"),
                                         {"OperationalError", "ProgrammingError"},
                                         Tables(S), grants, fault), fault)
  <1> DEFINE statements == GrantStatements(S, chain[k], newNames[k],
                                           IF reverse THEN "REVOKE" ELSE "GRANT")
             caught == {"OperationalError", "ProgrammingError"}
             names == [newNames EXCEPT ![k] = NamesAfter(S, chain[k], @)]
  <1> HIDE DEF statements, caught, names
  <1>1. \E fault : /\ Leaves(k, Execute(statements, caught, Tables(S), grants, fault), fault)
                   /\ newNames' = names
    BY DEF Handler, Leaves, statements, caught, names
  <1> QED
    BY <1>1 DEF statements, caught, names

\* A handler whose flag is at the other end executes the revoke statements.
LEMMA RevokingHandler ==
  ASSUME NEW k, NEW S, NEW reverse \in BOOLEAN, ~ (reverse <=> k \in firstRun),
         Handler(k, S, reverse)
  PROVE  /\ newNames' = newNames
         /\ \E fault : Leaves(k, Execute(RevokeStatements(S, chain[k],
                                                          IF reverse THEN "GRANT" ELSE "REVOKE"),
                                         {"OperationalError", "LookupError"},
                                         Tables(S), grants, fault), fault)
  <1> DEFINE statements == RevokeStatements(S, chain[k], IF reverse THEN "GRANT" ELSE "REVOKE")
             caught == {"OperationalError", "LookupError"}
  <1> HIDE DEF statements, caught
  <1>1. \E fault : /\ Leaves(k, Execute(statements, caught, Tables(S), grants, fault), fault)
                   /\ newNames' = newNames
    BY DEF Handler, Leaves, statements, caught
  <1> QED
    BY <1>1 DEF statements, caught

\* Whatever its statements do, a handler keeps the names.
LEMMA HandlerKeepsNames ==
  ASSUME ChainInv, RunInv, NamesInv, chain' = chain, NEW k \in 1..Len(chain), NEW S,
         NEW reverse \in BOOLEAN, Handler(k, S, reverse)
  PROVE  /\ NamesInv' /\ faults' \in Nat /\ firstRun' \subseteq firstRun
         /\ \A j \in 1..Len(chain) : j # k => newNames'[j] = newNames[j]
  <1>1. \E fault, h : Leaves(k, h, fault)
    BY GrantingHandler, RevokingHandler
  <1>2. faults' \in Nat /\ firstRun' \subseteq firstRun
    BY <1>1 DEF Leaves, RunInv
  <1>3. DOMAIN newNames = 1..Len(chain)
    BY DEF NamesInv
  <1> DEFINE items == AddModels(chain[k])
             names == NamesAfter(S, chain[k], newNames[k])
  <1>4. /\ names = [i \in DOMAIN items |-> names[i]]
        /\ \A i \in DOMAIN items : ~ items[i].join =>
             OrDefault(names[i], items[i].model) = OrDefault(items[i].name, items[i].model)
    <2>1. ASSUME NEW i \in DOMAIN items, ~ items[i].join
          PROVE  OrDefault(names[i], items[i].model) = OrDefault(items[i].name, items[i].model)
      <3>1. \/ names[i] = newNames[k][i]
            \/ names[i] = AddTableName(S, items[i], newNames[k][i])
        BY DEF NamesAfter
      <3>2. OrDefault(newNames[k][i], items[i].model) = OrDefault(items[i].name, items[i].model)
        BY <2>1 DEF NamesInv
      <3> DEFINE m == items[i].model
                 name == newNames[k][i]
      <3>3. AddTableName(S, items[i], name) = IF name = NoName THEN <<m>> ELSE name
        BY <2>1 DEF AddTableName
      <3>4. OrDefault(AddTableName(S, items[i], name), m) = OrDefault(name, m)
        <4> HIDE DEF m, name
        <4>1. <<m>> # NoName
          BY DEF NoName
        <4> QED
          BY <3>3, <4>1 DEF OrDefault
      <3> QED
        BY <3>1, <3>2, <3>4
    <2>2. names = [i \in DOMAIN items |-> names[i]]
      BY DEF NamesAfter
    <2> QED
      BY <2>1, <2>2
  <1> HIDE DEF names
  <1>5. /\ DOMAIN newNames' = 1..Len(chain)
        /\ newNames'[k] = names \/ newNames'[k] = newNames[k]
        /\ \A j \in 1..Len(chain) : j # k => newNames'[j] = newNames[j]
    <2>1. CASE reverse <=> k \in firstRun
      <3>1. newNames' = [newNames EXCEPT ![k] = names]
        BY <2>1, GrantingHandler DEF names
      <3> QED
        BY <1>3, <3>1
    <2>2. CASE ~ (reverse <=> k \in firstRun)
      <3>1. newNames' = newNames
        BY <2>2, RevokingHandler
      <3> QED
        BY <1>3, <3>1
    <2> QED
      BY <2>1, <2>2
  <1>6. NamesInv'
    <2> SUFFICES ASSUME NEW j \in 1..Len(chain)
                 PROVE  /\ newNames'[j] = [i \in DOMAIN AddModels(chain[j]) |-> newNames'[j][i]]
                        /\ \A i \in DOMAIN AddModels(chain[j]) : ~ AddModels(chain[j])[i].join =>
                             OrDefault(newNames'[j][i], AddModels(chain[j])[i].model) =
                               OrDefault(AddModels(chain[j])[i].name, AddModels(chain[j])[i].model)
      BY <1>5 DEF NamesInv
    <2>1. CASE newNames'[j] = newNames[j]
      BY <2>1 DEF NamesInv
    <2>2. CASE newNames'[j] # newNames[j]
      <3>1. j = k /\ newNames'[j] = names
        BY <1>5, <2>2
      <3> QED
        BY <1>4, <3>1
    <2> QED
      BY <2>1, <2>2
  <1> QED
    BY <1>2, <1>5, <1>6

\* The names of a migration fit, when no process ran it before or when it
\* has no many-to-many field.
LEMMA OwnNamesFit ==
  ASSUME NamesInv, NEW k \in 1..Len(chain), NEW S, DOMAIN AddModels(chain[k]) = 1..Len(AddModels(chain[k])),
         \A i \in DOMAIN AddModels(chain[k]) : ~ AddModels(chain[k])[i].join
  PROVE  NamesFit(S, chain[k], newNames[k])
  BY DEF NamesFit, NamesInv

\* A statement that fails makes one table wrong, the others none.
LEMMA OneTableWrong ==
  ASSUME NEW due, NEW granted, NEW due2, NEW granted2, NEW want, NEW fault,
         Becomes(granted2, want, fault),
         \A t : (t \in due <=> t \in granted) => (t \in due2 <=> t \in want)
  PROVE  LET wrong == (due \cup granted) \ (due \cap granted)
             wrong2 == (due2 \cup granted2) \ (due2 \cap granted2)
         IN  /\ fault = 0 => wrong2 \subseteq wrong
             /\ wrong = {} => \A t, u \in wrong2 : t = u
  BY DEF Becomes

\* When the wanted privileges follow the tables that are due, so do those
\* that a handler leaves, but for one table when a statement fails.
LEMMA GrantsFollow ==
  ASSUME GrantsInv, RunInv, AllHandled, repeats = 0, NEW want, NEW fault,
         faults' = IF fault = 0 THEN faults ELSE faults + 1, Becomes(grants', want, fault),
         \A t : (t \in Due <=> t \in grants) => (t \in Due' <=> t \in want)
  PROVE  /\ faults' = 0 => Wrong' = {}
         /\ faults' = 1 => \A t, u \in Wrong' : t = u
  <1>1. /\ fault = 0 => Wrong' \subseteq Wrong
        /\ Wrong = {} => \A t, u \in Wrong' : t = u
    <2> DEFINE due == Due
               due2 == Due'
               granted == grants
               granted2 == grants'
    <2> HIDE DEF due, due2, granted, granted2
    <2>1. \A t : (t \in due <=> t \in granted) => (t \in due2 <=> t \in want)
      BY DEF due, due2, granted, granted2
    <2>2. Becomes(granted2, want, fault)
      BY DEF granted2
    <2>3. /\ Wrong = (due \cup granted) \ (due \cap granted)
          /\ Wrong' = (due2 \cup granted2) \ (due2 \cap granted2)
      BY DEF Wrong, due, due2, granted, granted2
    <2> DEFINE wrong == (due \cup granted) \ (due \cap granted)
               wrong2 == (due2 \cup granted2) \ (due2 \cap granted2)
    <2>4. /\ fault = 0 => wrong2 \subseteq wrong
          /\ wrong = {} => \A t, u \in wrong2 : t = u
      BY <2>1, <2>2, OneTableWrong
    <2> HIDE DEF wrong, wrong2
    <2> QED
      BY <2>3, <2>4 DEF wrong, wrong2
  <1>2. /\ faults = 0 => Wrong = {}
        /\ faults = 1 => \A t, u \in Wrong : t = u
    BY DEF GrantsInv
  <1>3. CASE fault = 0
    BY <1>1, <1>2, <1>3
  <1>4. CASE fault # 0
    BY <1>1, <1>2, <1>4 DEF RunInv
  <1> QED
    BY <1>3, <1>4

-----------------------------------------------------------------------------
(* Each action keeps the invariant.                                        *)

\* The tables before and after a migration that is dealt with.
LEMMA SoundTables ==
  ASSUME ChainInv, NEW k \in 1..Len(chain), Sound(k),
         NEW S, S = StateAt(k - 1), NEW T, T = StateAt(k), NEW ops, ops = chain[k]
  PROVE  /\ \A t \in Tables(T) : IsNew(T, ops, t) \/ (t \in Tables(S) /\ ~ IsOld(S, ops, t))
         /\ \A t \in Tables(S) : ~ IsOld(S, ops, t) => t \in Tables(T) /\ ~ IsNew(T, ops, t)
         /\ \A t : IsOld(S, ops, t) => t \in Tables(S)
         /\ \A i \in 1..Len(ops) : ops[i].kind = "RemoveField" /\ ops[i].model \in DOMAIN S =>
              ops[i].fd \in DOMAIN S[ops[i].model].m2m \cup S[ops[i].model].plain
  <1>1. Len(ops) \in Nat
    BY ChainTypes
  <1>2. GoodState(S) /\ Follows(S, ops) /\ T = StateFrom(S, ops) /\ Kept(S, ops, T)
    BY DEF Sound
  <1>3. \A i \in 1..Len(ops) : ops[i].kind = "RemoveField" /\ ops[i].model \in DOMAIN S =>
          ops[i].fd \in DOMAIN S[ops[i].model].m2m \cup S[ops[i].model].plain
    BY <1>2 DEF Kept
  <1> QED
    BY <1>1, <1>2, <1>3, TablesDiffer

\* The handler before the changes revokes the old tables; when the process
\* runs the migration again, it grants instead.
LEMMA BeginForwardsKeeps ==
  ASSUME PrivilegeInv, BeginForwards
  PROVE  PrivilegeInv'
  <1> DEFINE k == applied + 1
             S == StateAt(applied)
             ops == chain[k]
             caught == {"OperationalError", "LookupError"}
             caughtToo == {"OperationalError", "ProgrammingError"}
  <1>1. ChainInv /\ RunInv /\ NamesInv /\ GrantsInv
    BY DEF PrivilegeInv
  <1>2. /\ applied \in Nat /\ k \in 1..Len(chain) /\ k - 1 = applied /\ faults \in Nat /\ repeats \in Nat
        /\ chain' = chain /\ running = "no" /\ running' = "forwards" /\ applied' = applied
        /\ Handler(k, S, FALSE) /\ repeats' = IF k \in firstRun THEN repeats ELSE repeats + 1
        /\ applied < Len(chain)
    <2>1. Len(chain) \in Nat
      BY <1>1, LenProperties DEF ChainInv
    <2>2. applied \in 0..Len(chain) /\ faults \in Nat /\ repeats \in Nat
      BY <1>1 DEF RunInv
    <2>3. applied < Len(chain)
      BY DEF BeginForwards
    <2>4. applied \in Nat /\ k \in 1..Len(chain) /\ k - 1 = applied
      BY <2>1, <2>2, <2>3
    <2> HIDE DEF k, S
    <2>5. /\ chain' = chain /\ running = "no" /\ running' = "forwards" /\ applied' = applied
          /\ Handler(k, S, FALSE) /\ repeats' = IF k \in firstRun THEN repeats ELSE repeats + 1
      BY DEF BeginForwards, Counted, k, S
    <2> QED
      BY <2>2, <2>3, <2>4, <2>5
  <1>3. /\ ChainInv' /\ (AllHandled' <=> AllHandled) /\ (Simple' <=> Simple)
        /\ \A j \in 0..Len(chain) : StateAt(j)' = StateAt(j)
    BY <1>1, <1>2, ChainStays
  <1>4. /\ NamesInv' /\ faults' \in Nat /\ firstRun' \subseteq firstRun
        /\ \A j \in 1..Len(chain) : j # k => newNames'[j] = newNames[j]
    BY <1>1, <1>2, HandlerKeepsNames
  <1>5. RunInv'
    BY <1>1, <1>2, <1>4 DEF RunInv
  <1>6. /\ Len(ops) \in Nat /\ DOMAIN ops = 1..Len(ops) /\ FiniteFields(ops)
        /\ StateAt(k - 1) = S
    BY <1>1, <1>2, ChainTypes
  <1>7. \A t : /\ t \in Due <=> t \in Tables(S)
               /\ t \in Due' <=> t \in Tables(S) /\ ~ IsOld(S, ops, t)
    <2>1. StateAt(applied)' = S
      BY <1>1, <1>2, <1>3 DEF RunInv
    <2> QED
      BY <1>2, <2>1 DEF Due
  <1>8. ASSUME AllHandled
        PROVE  \A i \in 1..Len(ops) : ops[i].kind = "RemoveField" /\ ops[i].model \in DOMAIN S =>
                 ops[i].fd \in DOMAIN S[ops[i].model].m2m \cup S[ops[i].model].plain
    BY <1>1, <1>2, <1>6, <1>8, ChainIsSound, SoundTables
  <1>9. Simple => AllHandled
    BY DEF Simple
  <1> HIDE DEF S, ops, k
  <1>10. CASE k \in firstRun
    <2>1. PICK fault :
            /\ newNames' = newNames
            /\ Leaves(k, Execute(RevokeStatements(S, ops, "REVOKE"), caught, Tables(S), grants, fault), fault)
      BY <1>2, <1>10, RevokingHandler DEF ops
    <2> DEFINE h == Execute(RevokeStatements(S, ops, "REVOKE"), caught, Tables(S), grants, fault)
               want == RevokeOld(S, ops, grants)
    <2>2. ASSUME AllHandled PROVE h.error = "ok" /\ Becomes(h.grants, want, fault)
      <3> DEFINE c == caught
                 n == Len(ops)
      <3>1. "OperationalError" \in c /\ "LookupError" \in c
        OBVIOUS
      <3>2. h = Execute(RevokeStatements(S, ops, "REVOKE"), c, Tables(S), grants, fault)
        OBVIOUS
      <3>3. \A i \in 1..n : ops[i].kind = "RemoveField" /\ ops[i].model \in DOMAIN S =>
              ops[i].fd \in DOMAIN S[ops[i].model].m2m \cup S[ops[i].model].plain
        BY <1>8, <2>2
      <3>4. n \in Nat /\ DOMAIN ops = 1..n
        BY <1>6
      <3> HIDE DEF c, h, n, want
      <3> QED
        BY <3>1, <3>2, <3>3, <3>4, RevokesOld DEF want
    <2> HIDE DEF h, want
    <2>3. /\ grants' = h.grants
          /\ faults' = IF fault = 0 THEN faults ELSE faults + 1
          /\ firstRun' = IF h.error = "ok" THEN firstRun \ {k} ELSE firstRun
      BY <2>1 DEF Leaves, h
    <2>4. ASSUME AllHandled PROVE FirstRunInv'
      <3>1. k \notin firstRun' /\ firstRun' \subseteq firstRun
        BY <2>2, <2>3, <2>4
      <3>2. FirstRunInv
        BY <1>1, <2>4 DEF GrantsInv
      <3>3. \A j \in firstRun' : newNames'[j] = NamesOf(chain[j])
        BY <2>1, <3>1, <3>2 DEF FirstRunInv
      <3>4. newNames'[k] = NamesOf(chain[k])
        BY <1>10, <2>1, <3>2 DEF FirstRunInv
      <3> QED
        BY <1>2, <3>1, <3>3, <3>4 DEF FirstRunInv, k
    <2>5. ASSUME AllHandled, repeats' = 0
          PROVE  /\ faults' = 0 => Wrong' = {}
                 /\ faults' = 1 => \A t, u \in Wrong' : t = u
      <3>1. \A t : (t \in Due <=> t \in grants) => (t \in Due' <=> t \in want)
        BY <1>7 DEF want, RevokeOld
      <3>2. Becomes(grants', want, fault)
        BY <2>2, <2>3, <2>5
      <3>3. repeats = 0
        BY <1>2, <1>10, <2>5
      <3> QED
        BY <1>1, <2>3, <2>5, <3>1, <3>2, <3>3, GrantsFollow
    <2>6. ASSUME Simple, faults' = 0 PROVE Due' \subseteq grants'
      <3>1. AllHandled /\ fault = 0 /\ faults = 0
        BY <1>2, <1>9, <2>3, <2>6
      <3>2. Due \subseteq grants
        BY <1>1, <2>6, <3>1 DEF GrantsInv
      <3>3. \A t : t \in grants' <=> t \in want
        BY <2>2, <2>3, <3>1 DEF Becomes
      <3> QED
        BY <1>7, <3>2, <3>3 DEF want, RevokeOld
    <2> QED
      BY <1>3, <1>4, <1>5, <1>9, <2>4, <2>5, <2>6 DEF PrivilegeInv, GrantsInv
  <1>11. CASE k \notin firstRun
    <2>1. repeats' # 0
      BY <1>2, <1>11
    <2>2. ASSUME AllHandled PROVE FirstRunInv'
      <3>1. FirstRunInv
        BY <1>1, <2>2 DEF GrantsInv
      <3>2. \A j \in firstRun' : j \in 1..Len(chain) /\ j # k /\ j \in firstRun
        BY <1>1, <1>4, <1>11 DEF RunInv
      <3>3. \A j \in firstRun' : newNames'[j] = NamesOf(chain[j])
        BY <1>4, <3>1, <3>2 DEF FirstRunInv
      <3> QED
        BY <1>2, <2>1, <3>2, <3>3 DEF FirstRunInv, k
    <2>3. ASSUME Simple, faults' = 0 PROVE Due' \subseteq grants'
      <3>1. PICK fault :
              Leaves(k, Execute(GrantStatements(S, ops, newNames[k], "GRANT"), caughtToo,
                                Tables(S), grants, fault), fault)
        BY <1>2, <1>11, GrantingHandler DEF ops
      <3> DEFINE h == Execute(GrantStatements(S, ops, newNames[k], "GRANT"), caughtToo,
                              Tables(S), grants, fault)
      <3>2. NamesFit(S, ops, newNames[k])
        <4>1. DOMAIN AddModels(ops) = 1..Len(AddModels(ops))
          <5>1. AddModels(ops) \in Seq(Range(AddModels(ops)))
            BY <1>6, AddModelsIs DEF FiniteFields
          <5> QED
            BY <5>1, LenProperties
        <4>2. \A i \in DOMAIN AddModels(ops) : ~ AddModels(ops)[i].join
          BY <1>1, <1>2, <2>3, NoFieldsChain DEF ops
        <4> QED
          BY <1>1, <1>2, <4>1, <4>2, OwnNamesFit DEF ops
      <3>3. grants \subseteq h.grants
        <4> DEFINE c == caughtToo
                   n == Len(ops)
                   names == newNames[k]
        <4>1. "OperationalError" \in c /\ "ProgrammingError" \in c
          OBVIOUS
        <4>2. h = Execute(GrantStatements(S, ops, names, "GRANT"), c, Tables(S), grants, fault)
          OBVIOUS
        <4>3. n \in Nat /\ DOMAIN ops = 1..n /\ Len(ops) = n /\ NamesFit(S, ops, names)
          BY <1>6, <3>2
        <4> HIDE DEF c, h, n, names
        <4> QED
          BY <1>6, <4>1, <4>2, <4>3, GrantsNew
      <3> HIDE DEF h
      <3>4. grants \subseteq grants' /\ faults = 0
        BY <1>2, <2>3, <3>1, <3>3 DEF Leaves, h
      <3>5. Due \subseteq grants
        BY <1>1, <2>3, <3>4 DEF GrantsInv
      <3> QED
        BY <1>7, <3>4, <3>5
    <2> QED
      BY <1>3, <1>4, <1>5, <1>9, <2>1, <2>2, <2>3 DEF PrivilegeInv, GrantsInv
  <1> QED
    BY <1>10, <1>11

\* The handler after the changes grants the new tables.
LEMMA EndForwardsKeeps ==
  ASSUME PrivilegeInv, EndForwards
  PROVE  PrivilegeInv'
  <1> DEFINE k == applied + 1
             S == StateAt(applied)
             T == StateAt(k)
             ops == chain[k]
             caught == {"OperationalError", "ProgrammingError"}
  <1>1. ChainInv /\ RunInv /\ NamesInv /\ GrantsInv
    BY DEF PrivilegeInv
  <1>2. /\ applied \in Nat /\ k \in 1..Len(chain) /\ k - 1 = applied /\ faults \in Nat /\ repeats \in Nat
        /\ chain' = chain /\ running = "forwards" /\ running' = "no" /\ applied' = k
        /\ Handler(k, T, FALSE) /\ repeats' = repeats
    <2>1. Len(chain) \in Nat
      BY <1>1, LenProperties DEF ChainInv
    <2>2. applied \in 0..Len(chain) /\ faults \in Nat /\ repeats \in Nat
      BY <1>1 DEF RunInv
    <2>3. running = "forwards" /\ applied < Len(chain)
      BY <1>1 DEF EndForwards, RunInv
    <2>4. applied \in Nat /\ k \in 1..Len(chain) /\ k - 1 = applied
      BY <2>1, <2>2, <2>3
    <2> HIDE DEF k, T
    <2>5. /\ chain' = chain /\ running' = "no" /\ applied' = k
          /\ Handler(k, T, FALSE) /\ repeats' = repeats
      BY DEF EndForwards, k, T
    <2> QED
      BY <2>2, <2>3, <2>4, <2>5
  <1>3. /\ ChainInv' /\ (AllHandled' <=> AllHandled) /\ (Simple' <=> Simple)
        /\ \A j \in 0..Len(chain) : StateAt(j)' = StateAt(j)
    BY <1>1, <1>2, ChainStays
  <1>4. /\ NamesInv' /\ faults' \in Nat /\ firstRun' \subseteq firstRun
        /\ \A j \in 1..Len(chain) : j # k => newNames'[j] = newNames[j]
    BY <1>1, <1>2, HandlerKeepsNames
  <1>5. RunInv'
    BY <1>1, <1>2, <1>4 DEF RunInv
  <1>6. /\ Len(ops) \in Nat /\ DOMAIN ops = 1..Len(ops) /\ FiniteFields(ops)
        /\ StateAt(k - 1) = S /\ k \in 0..Len(chain)
    BY <1>1, <1>2, ChainTypes
  <1>7. \A t : /\ t \in Due <=> t \in Tables(S) /\ ~ IsOld(S, ops, t)
               /\ t \in Due' <=> t \in Tables(T)
    <2>1. StateAt(applied)' = T
      BY <1>2, <1>3, <1>6
    <2> QED
      BY <1>2, <2>1 DEF Due
  <1>8. Simple => AllHandled
    BY DEF Simple
  <1> SUFFICES (AllHandled => FirstRunInv') /\ (AllHandled /\ repeats = 0 /\ faults' = 0 => Wrong' = {})
               /\ (AllHandled /\ repeats = 0 /\ faults' = 1 => \A t, u \in Wrong' : t = u)
               /\ (Simple /\ faults' = 0 => Due' \subseteq grants')
    BY <1>2, <1>3, <1>4, <1>5, <1>8 DEF PrivilegeInv, GrantsInv
  <1> SUFFICES ASSUME AllHandled
               PROVE  /\ FirstRunInv'
                      /\ repeats = 0 /\ faults' = 0 => Wrong' = {}
                      /\ repeats = 0 /\ faults' = 1 => \A t, u \in Wrong' : t = u
                      /\ Simple /\ faults' = 0 => Due' \subseteq grants'
    BY <1>8
  <1>9. FirstRunInv /\ k \notin firstRun /\ (repeats = 0 => newNames[k] = NamesOf(ops))
    BY <1>1, <1>2 DEF GrantsInv, FirstRunInv
  <1>10. Sound(k)
    BY <1>1, <1>2, ChainIsSound
  <1>11. ASSUME repeats = 0 \/ Simple PROVE NamesFit(T, ops, newNames[k])
    <2>1. CASE repeats = 0
      BY <1>9, <1>10, <2>1 DEF Sound
    <2>2. CASE Simple
      <3>1. DOMAIN AddModels(ops) = 1..Len(AddModels(ops))
        <4>1. AddModels(ops) \in Seq(Range(AddModels(ops)))
          BY <1>6, AddModelsIs DEF FiniteFields
        <4> QED
          BY <4>1, LenProperties
      <3>2. \A i \in DOMAIN AddModels(ops) : ~ AddModels(ops)[i].join
        BY <1>1, <1>2, <2>2, NoFieldsChain
      <3> QED
        BY <1>1, <1>2, <3>1, <3>2, OwnNamesFit
    <2> QED
      BY <1>11, <2>1, <2>2
  <1>12. \A t : (t \in Due <=> t \in grants) => (t \in Due' <=> t \in GrantNew(T, ops, grants))
    <2>1. /\ \A t \in Tables(T) : IsNew(T, ops, t) \/ (t \in Tables(S) /\ ~ IsOld(S, ops, t))
          /\ \A t \in Tables(S) : ~ IsOld(S, ops, t) => t \in Tables(T) /\ ~ IsNew(T, ops, t)
      BY <1>1, <1>2, <1>6, <1>10, SoundTables
    <2> HIDE DEF S, T, ops
    <2> QED
      BY <1>7, <2>1 DEF GrantNew
  <1> HIDE DEF S, T, ops, k
  <1>13. PICK fault :
           Leaves(k, Execute(GrantStatements(T, ops, newNames[k], "GRANT"), caught,
                             Tables(T), grants, fault), fault)
    BY <1>2, <1>9, GrantingHandler DEF ops
  <1> DEFINE h == Execute(GrantStatements(T, ops, newNames[k], "GRANT"), caught,
                          Tables(T), grants, fault)
             want == GrantNew(T, ops, grants)
  <1>14. ASSUME repeats = 0 \/ Simple PROVE Becomes(h.grants, want, fault)
    <2> DEFINE c == caught
               n == Len(ops)
               names == newNames[k]
    <2>1. "OperationalError" \in c /\ "ProgrammingError" \in c
      OBVIOUS
    <2>2. h = Execute(GrantStatements(T, ops, names, "GRANT"), c, Tables(T), grants, fault)
      OBVIOUS
    <2>3. n \in Nat /\ DOMAIN ops = 1..n /\ Len(ops) = n /\ NamesFit(T, ops, names)
      BY <1>6, <1>11, <1>14
    <2> HIDE DEF c, h, n, names, want
    <2> QED
      BY <1>6, <2>1, <2>2, <2>3, GrantsNew DEF want
  <1> HIDE DEF h, want
  <1>15. grants' = h.grants /\ faults' = IF fault = 0 THEN faults ELSE faults + 1
    BY <1>13 DEF Leaves, h
  <1>16. FirstRunInv'
    <2>1. \A j \in firstRun' : j \in 1..Len(chain) /\ j # k /\ j \in firstRun
      BY <1>1, <1>4, <1>9 DEF RunInv
    <2>2. \A j \in firstRun' : newNames'[j] = NamesOf(chain[j])
      BY <1>4, <1>9, <2>1 DEF FirstRunInv
    <2> QED
      BY <1>2, <2>2 DEF FirstRunInv
  <1>17. ASSUME repeats = 0
         PROVE  /\ faults' = 0 => Wrong' = {}
                /\ faults' = 1 => \A t, u \in Wrong' : t = u
    <2>1. Becomes(grants', want, fault)
      BY <1>14, <1>15, <1>17
    <2>2. \A t : (t \in Due <=> t \in grants) => (t \in Due' <=> t \in want)
      BY <1>12 DEF want
    <2> QED
      BY <1>1, <1>15, <1>17, <2>1, <2>2, GrantsFollow
  <1>18. ASSUME Simple, faults' = 0 PROVE Due' \subseteq grants'
    <2>1. fault = 0 /\ faults = 0
      BY <1>2, <1>15, <1>18
    <2>2. Due \subseteq grants
      BY <1>1, <1>18, <2>1 DEF GrantsInv
    <2>3. \A t : t \in grants' <=> t \in want
      BY <1>14, <1>15, <1>18, <2>1 DEF Becomes
    <2>4. grants \subseteq want
      BY DEF want, GrantNew
    <2>5. ASSUME NEW t \in Due', t \notin grants PROVE t \in want
      <3>1. t \notin Due
        BY <2>2, <2>5
      <3> QED
        BY <1>12, <2>5, <3>1 DEF want
    <2> QED
      BY <2>3, <2>4, <2>5
  <1> QED
    BY <1>16, <1>17, <1>18

\* The handler before the changes are undone revokes the new tables; when
\* the process runs the migration again, it grants the old ones instead.
LEMMA BeginBackwardsKeeps ==
  ASSUME PrivilegeInv, BeginBackwards
  PROVE  PrivilegeInv'
  <1> DEFINE k == applied
             T == StateAt(k)
             ops == chain[k]
             caught == {"OperationalError", "ProgrammingError"}
             caughtToo == {"OperationalError", "LookupError"}
  <1>1. ChainInv /\ RunInv /\ NamesInv /\ GrantsInv
    BY DEF PrivilegeInv
  <1>2. /\ k \in 1..Len(chain) /\ faults \in Nat /\ repeats \in Nat
        /\ chain' = chain /\ running = "no" /\ running' = "backwards" /\ applied' = k
        /\ Handler(k, T, TRUE) /\ repeats' = IF k \in firstRun THEN repeats ELSE repeats + 1
    <2>1. Len(chain) \in Nat
      BY <1>1, LenProperties DEF ChainInv
    <2>2. applied \in 0..Len(chain) /\ faults \in Nat /\ repeats \in Nat
      BY <1>1 DEF RunInv
    <2>3. applied > 0
      BY DEF BeginBackwards
    <2>4. k \in 1..Len(chain)
      BY <2>1, <2>2, <2>3
    <2> HIDE DEF T
    <2>5. /\ chain' = chain /\ running = "no" /\ running' = "backwards" /\ applied' = k
          /\ Handler(k, T, TRUE) /\ repeats' = IF k \in firstRun THEN repeats ELSE repeats + 1
      BY DEF BeginBackwards, Counted, T
    <2> QED
      BY <2>2, <2>4, <2>5
  <1>3. /\ ChainInv' /\ (AllHandled' <=> AllHandled) /\ (Simple' <=> Simple)
        /\ \A j \in 0..Len(chain) : StateAt(j)' = StateAt(j)
    BY <1>1, <1>2, ChainStays
  <1>4. /\ NamesInv' /\ faults' \in Nat /\ firstRun' \subseteq firstRun
        /\ \A j \in 1..Len(chain) : j # k => newNames'[j] = newNames[j]
    BY <1>1, <1>2, HandlerKeepsNames
  <1>5. RunInv'
    BY <1>1, <1>2, <1>4 DEF RunInv
  <1>6. /\ Len(ops) \in Nat /\ DOMAIN ops = 1..Len(ops) /\ FiniteFields(ops)
        /\ k \in 0..Len(chain)
    BY <1>1, <1>2, ChainTypes
  <1>7. \A t : /\ t \in Due <=> t \in Tables(T)
               /\ t \in Due' <=> t \in Tables(T) /\ ~ IsNew(T, ops, t)
    <2>1. StateAt(applied)' = T
      BY <1>2, <1>3, <1>6
    <2> QED
      BY <1>2, <2>1 DEF Due
  <1>8. Simple => AllHandled
    BY DEF Simple
  <1>9. ASSUME AllHandled, \A j \in firstRun' : j # k PROVE FirstRunInv'
    <2>1. FirstRunInv
      BY <1>1, <1>9 DEF GrantsInv
    <2>2. \A j \in firstRun' : j \in 1..Len(chain) /\ j # k /\ j \in firstRun
      BY <1>1, <1>4, <1>9 DEF RunInv
    <2>3. \A j \in firstRun' : newNames'[j] = NamesOf(chain[j])
      BY <1>4, <2>1, <2>2 DEF FirstRunInv
    <2> QED
      BY <1>2, <2>2, <2>3 DEF FirstRunInv
  <1> SUFFICES ASSUME AllHandled
               PROVE  /\ \A j \in firstRun' : j # k
                      /\ repeats' = 0 /\ faults' = 0 => Wrong' = {}
                      /\ repeats' = 0 /\ faults' = 1 => \A t, u \in Wrong' : t = u
                      /\ Simple /\ faults' = 0 => Due' \subseteq grants'
    BY <1>3, <1>4, <1>5, <1>8, <1>9 DEF PrivilegeInv, GrantsInv
  <1>10. CASE k \in firstRun
    <2>1. NamesFit(T, ops, newNames[k])
      <3>1. newNames[k] = NamesOf(ops)
        BY <1>1, <1>10 DEF GrantsInv, FirstRunInv
      <3>2. Sound(k)
        BY <1>1, <1>2, ChainIsSound
      <3> QED
        BY <3>1, <3>2 DEF Sound
    <2> HIDE DEF T, ops, k
    <2>2. PICK fault :
            Leaves(k, Execute(GrantStatements(T, ops, newNames[k], "REVOKE"), caught,
                              Tables(T), grants, fault), fault)
      BY <1>2, <1>10, GrantingHandler DEF ops
    <2> DEFINE h == Execute(GrantStatements(T, ops, newNames[k], "REVOKE"), caught,
                            Tables(T), grants, fault)
               want == RevokeNew(T, ops, grants)
    <2>3. h.error = "ok" /\ Becomes(h.grants, want, fault)
      <3> DEFINE c == caught
                 n == Len(ops)
                 names == newNames[k]
      <3>1. "OperationalError" \in c
        OBVIOUS
      <3>2. h = Execute(GrantStatements(T, ops, names, "REVOKE"), c, Tables(T), grants, fault)
        OBVIOUS
      <3>3. n \in Nat /\ DOMAIN ops = 1..n /\ Len(ops) = n /\ NamesFit(T, ops, names)
        BY <1>6, <2>1
      <3> HIDE DEF c, h, n, names, want
      <3> QED
        BY <1>6, <3>1, <3>2, <3>3, RevokesNew DEF want
    <2> HIDE DEF h, want
    <2>4. /\ grants' = h.grants
          /\ faults' = IF fault = 0 THEN faults ELSE faults + 1
          /\ firstRun' = firstRun \ {k}
      BY <2>2, <2>3 DEF Leaves, h
    <2>5. ASSUME repeats' = 0
          PROVE  /\ faults' = 0 => Wrong' = {}
                 /\ faults' = 1 => \A t, u \in Wrong' : t = u
      <3>1. \A t : (t \in Due <=> t \in grants) => (t \in Due' <=> t \in want)
        BY <1>7 DEF want, RevokeNew
      <3>2. Becomes(grants', want, fault)
        BY <2>3, <2>4
      <3>3. repeats = 0
        BY <1>2, <1>10, <2>5
      <3> QED
        BY <1>1, <2>4, <3>1, <3>2, <3>3, GrantsFollow
    <2>6. ASSUME Simple, faults' = 0 PROVE Due' \subseteq grants'
      <3>1. fault = 0 /\ faults = 0
        BY <1>2, <2>4, <2>6
      <3>2. Due \subseteq grants
        BY <1>1, <2>6, <3>1 DEF GrantsInv
      <3>3. \A t : t \in grants' <=> t \in want
        BY <2>3, <2>4, <3>1 DEF Becomes
      <3> QED
        BY <1>7, <3>2, <3>3 DEF want, RevokeNew
    <2> QED
      BY <2>4, <2>5, <2>6
  <1>11. CASE k \notin firstRun
    <2>1. repeats' # 0
      BY <1>2, <1>11
    <2>2. \A j \in firstRun' : j # k
      BY <1>4, <1>11
    <2>3. ASSUME Simple, faults' = 0 PROVE Due' \subseteq grants'
      <3> HIDE DEF T, ops, k
      <3>2. PICK fault :
              Leaves(k, Execute(RevokeStatements(T, ops, "GRANT"), caughtToo,
                                Tables(T), grants, fault), fault)
        BY <1>2, <1>11, RevokingHandler DEF ops
      <3> DEFINE h == Execute(RevokeStatements(T, ops, "GRANT"), caughtToo,
                              Tables(T), grants, fault)
      <3>3. grants \subseteq h.grants
        <4> DEFINE c == caughtToo
                   n == Len(ops)
        <4>1. h = Execute(RevokeStatements(T, ops, "GRANT"), c, Tables(T), grants, fault)
          OBVIOUS
        <4>2. n \in Nat /\ DOMAIN ops = 1..n
          BY <1>6
        <4> HIDE DEF c, h, n
        <4> QED
          BY <4>1, <4>2, GrantsOldAtMost
      <3> HIDE DEF h
      <3>4. grants \subseteq grants' /\ faults = 0
        BY <1>2, <2>3, <3>2, <3>3 DEF Leaves, h
      <3>5. Due \subseteq grants
        BY <1>1, <2>3, <3>4 DEF GrantsInv
      <3> QED
        BY <1>7, <3>4, <3>5
    <2> QED
      BY <2>1, <2>2, <2>3
  <1> QED
    BY <1>10, <1>11

\* The handler after the changes are undone grants the old tables.
LEMMA EndBackwardsKeeps ==
  ASSUME PrivilegeInv, EndBackwards
  PROVE  PrivilegeInv'
  <1> DEFINE k == applied
             S == StateAt(k - 1)
             T == StateAt(k)
             ops == chain[k]
             caught == {"OperationalError", "LookupError"}
  <1>1. ChainInv /\ RunInv /\ NamesInv /\ GrantsInv
    BY DEF PrivilegeInv
  <1>2. /\ k \in 1..Len(chain) /\ k - 1 \in 0..Len(chain) /\ faults \in Nat /\ repeats \in Nat
        /\ chain' = chain /\ running = "backwards" /\ running' = "no" /\ applied' = k - 1
        /\ Handler(k, S, TRUE) /\ repeats' = repeats
    <2>1. Len(chain) \in Nat
      BY <1>1, LenProperties DEF ChainInv
    <2>2. applied \in 0..Len(chain) /\ faults \in Nat /\ repeats \in Nat
      BY <1>1 DEF RunInv
    <2>3. running = "backwards" /\ applied > 0
      BY <1>1 DEF EndBackwards, RunInv
    <2>4. k \in 1..Len(chain) /\ k - 1 \in 0..Len(chain)
      BY <2>1, <2>2, <2>3
    <2> HIDE DEF S
    <2>5. /\ chain' = chain /\ running' = "no" /\ applied' = k - 1
          /\ Handler(k, S, TRUE) /\ repeats' = repeats
      BY DEF EndBackwards, S
    <2> QED
      BY <2>2, <2>3, <2>4, <2>5
  <1>3. /\ ChainInv' /\ (AllHandled' <=> AllHandled) /\ (Simple' <=> Simple)
        /\ \A j \in 0..Len(chain) : StateAt(j)' = StateAt(j)
    BY <1>1, <1>2, ChainStays
  <1>4. /\ NamesInv' /\ faults' \in Nat /\ firstRun' \subseteq firstRun
        /\ \A j \in 1..Len(chain) : j # k => newNames'[j] = newNames[j]
    BY <1>1, <1>2, HandlerKeepsNames
  <1>5. RunInv'
    BY <1>1, <1>2, <1>4 DEF RunInv
  <1>6. Len(ops) \in Nat /\ DOMAIN ops = 1..Len(ops)
    BY <1>1, <1>2, ChainTypes
  <1>7. \A t : /\ t \in Due <=> t \in Tables(T) /\ ~ IsNew(T, ops, t)
               /\ t \in Due' <=> t \in Tables(S)
    <2>1. StateAt(applied)' = S
      BY <1>2, <1>3
    <2> QED
      BY <1>2, <2>1 DEF Due
  <1>8. Simple => AllHandled
    BY DEF Simple
  <1> SUFFICES ASSUME AllHandled
               PROVE  /\ FirstRunInv'
                      /\ repeats = 0 /\ faults' = 0 => Wrong' = {}
                      /\ repeats = 0 /\ faults' = 1 => \A t, u \in Wrong' : t = u
                      /\ Simple /\ faults' = 0 => Due' \subseteq grants'
    BY <1>2, <1>3, <1>4, <1>5, <1>8 DEF PrivilegeInv, GrantsInv
  <1>9. FirstRunInv /\ k \notin firstRun
    BY <1>1, <1>2 DEF GrantsInv, FirstRunInv
  <1>10. Sound(k)
    BY <1>1, <1>2, ChainIsSound
  <1>11. \A i \in 1..Len(ops) : ops[i].kind = "RemoveField" /\ ops[i].model \in DOMAIN S =>
           ops[i].fd \in DOMAIN S[ops[i].model].m2m \cup S[ops[i].model].plain
    BY <1>1, <1>2, <1>10, SoundTables
  <1>12. \A t : (t \in Due <=> t \in grants) => (t \in Due' <=> t \in GrantOld(S, ops, grants))
    <2>1. /\ \A t \in Tables(T) : IsNew(T, ops, t) \/ (t \in Tables(S) /\ ~ IsOld(S, ops, t))
          /\ \A t \in Tables(S) : ~ IsOld(S, ops, t) => t \in Tables(T) /\ ~ IsNew(T, ops, t)
          /\ \A t : IsOld(S, ops, t) => t \in Tables(S)
      BY <1>1, <1>2, <1>10, SoundTables
    <2> HIDE DEF S, T, ops
    <2> QED
      BY <1>7, <2>1 DEF GrantOld
  <1> HIDE DEF S, T, ops, k
  <1>13. PICK fault :
           /\ newNames' = newNames
           /\ Leaves(k, Execute(RevokeStatements(S, ops, "GRANT"), caught,
                                Tables(S), grants, fault), fault)
    BY <1>2, <1>9, RevokingHandler DEF ops
  <1> DEFINE h == Execute(RevokeStatements(S, ops, "GRANT"), caught, Tables(S), grants, fault)
             want == GrantOld(S, ops, grants)
  <1>14. Becomes(h.grants, want, fault)
    <2> DEFINE c == caught
               n == Len(ops)
    <2>1. "OperationalError" \in c /\ "LookupError" \in c
      OBVIOUS
    <2>2. h = Execute(RevokeStatements(S, ops, "GRANT"), c, Tables(S), grants, fault)
      OBVIOUS
    <2>3. n \in Nat /\ DOMAIN ops = 1..n /\ Len(ops) = n
      BY <1>6
    <2>4. \A i \in 1..n : ops[i].kind = "RemoveField" /\ ops[i].model \in DOMAIN S =>
            ops[i].fd \in DOMAIN S[ops[i].model].m2m \cup S[ops[i].model].plain
      BY <1>11
    <2> HIDE DEF c, h, n, want
    <2> QED
      BY <2>1, <2>2, <2>3, <2>4, GrantsOld DEF want
  <1> HIDE DEF h, want
  <1>15. grants' = h.grants /\ faults' = IF fault = 0 THEN faults ELSE faults + 1
    BY <1>13 DEF Leaves, h
  <1>16. FirstRunInv'
    BY <1>2, <1>4, <1>9, <1>13 DEF FirstRunInv
  <1>17. ASSUME repeats = 0
         PROVE  /\ faults' = 0 => Wrong' = {}
                /\ faults' = 1 => \A t, u \in Wrong' : t = u
    <2>1. Becomes(grants', want, fault)
      BY <1>14, <1>15
    <2>2. \A t : (t \in Due <=> t \in grants) => (t \in Due' <=> t \in want)
      BY <1>12 DEF want
    <2> QED
      BY <1>1, <1>15, <1>17, <2>1, <2>2, GrantsFollow
  <1>18. ASSUME Simple, faults' = 0 PROVE Due' \subseteq grants'
    <2>1. fault = 0 /\ faults = 0
      BY <1>2, <1>15, <1>18
    <2>2. Due \subseteq grants
      BY <1>1, <1>18, <2>1 DEF GrantsInv
    <2>3. \A t : t \in grants' <=> t \in want
      BY <1>14, <1>15, <2>1 DEF Becomes
    <2>4. grants \subseteq want
      BY DEF want, GrantOld
    <2>5. ASSUME NEW t \in Due', t \notin grants PROVE t \in want
      <3>1. t \notin Due
        BY <2>2, <2>5
      <3> QED
        BY <1>12, <2>5, <3>1 DEF want
    <2> QED
      BY <2>3, <2>4, <2>5
  <1> QED
    BY <1>16, <1>17, <1>18

\* The process that loads the migrations has the names of their code.
LEMMA Loaded ==
  ASSUME Load(chain'), DOMAIN chain' = 1..Len(chain'), running' = "no"
  PROVE  NamesInv' /\ FirstRunInv' /\ firstRun' = 1..Len(chain')
  <1>1. /\ firstRun' = 1..Len(chain') /\ DOMAIN newNames' = 1..Len(chain')
        /\ \A k \in 1..Len(chain') : newNames'[k] = NamesOf(chain'[k])
    BY DEF Load
  <1>2. NamesInv'
    BY <1>1 DEF NamesInv, NamesOf
  <1>3. FirstRunInv'
    BY <1>1 DEF FirstRunInv
  <1> QED
    BY <1>1, <1>2, <1>3

\* A process that begins has flags and names as the code writes them.
LEMMA RestartKeeps ==
  ASSUME PrivilegeInv, Restart
  PROVE  PrivilegeInv'
  <1>1. ChainInv /\ RunInv /\ NamesInv /\ GrantsInv
    BY DEF PrivilegeInv
  <1>2. /\ chain' = chain /\ applied' = applied /\ running = "no" /\ running' = "no"
        /\ grants' = grants /\ faults' = faults /\ repeats' = repeats /\ Load(chain')
    BY DEF Restart
  <1>3. /\ ChainInv' /\ (AllHandled' <=> AllHandled) /\ (Simple' <=> Simple)
        /\ \A j \in 0..Len(chain) : StateAt(j)' = StateAt(j)
    BY <1>1, <1>2, ChainStays
  <1>4. DOMAIN chain' = 1..Len(chain')
    BY <1>1, <1>2, LenProperties DEF ChainInv
  <1>5. NamesInv' /\ FirstRunInv' /\ firstRun' = 1..Len(chain')
    BY <1>2, <1>4, Loaded
  <1>6. RunInv'
    BY <1>1, <1>2, <1>5 DEF RunInv
  <1>7. Due' = Due
    BY <1>1, <1>2, <1>3 DEF Due, RunInv
  <1>8. Wrong' = Wrong
    BY <1>2, <1>7 DEF Wrong
  <1> QED
    BY <1>1, <1>2, <1>3, <1>5, <1>6, <1>7, <1>8 DEF PrivilegeInv, GrantsInv

\* A new migration is legal, and changes nothing that the others do.
LEMMA MakeMigrationKeeps ==
  ASSUME PrivilegeInv, MakeMigration
  PROVE  PrivilegeInv'
  <1> DEFINE n == Len(chain)
             left == MaxOps - Len(FlattenSeq(chain))
             S == StateAt(applied)
  <1>1. ChainInv /\ RunInv /\ NamesInv /\ GrantsInv
    BY DEF PrivilegeInv
  <1>2. chain \in Seq(Range(chain)) /\ n \in Nat /\ DOMAIN chain = 1..n
    BY <1>1, LenProperties DEF ChainInv
  <1> HIDE DEF left, S
  <1>3. /\ running = "no" /\ applied = n /\ left > 0
        /\ applied' = applied /\ running' = running /\ grants' = grants
        /\ faults' = faults /\ repeats' = repeats
    BY DEF MakeMigration, left
  <1>4. PICK ops \in Migrations(S, left) : chain' = Append(chain, ops) /\ Load(chain')
    BY DEF MakeMigration, left, S
  <1>5. left \in Nat
    <2> DEFINE U == UNION {Range(chain[i]) : i \in 1..n}
    <2>1. FlattenSeq(chain) \in Seq(U)
      <3>1. ASSUME NEW i \in 1..n PROVE chain[i] \in Seq(U)
        <4>1. chain[i] \in Seq(Range(chain[i])) /\ Range(chain[i]) \subseteq U
          BY <1>1 DEF ChainInv
        <4> HIDE DEF U
        <4> QED
          BY <4>1, SeqMonotonic
      <3> HIDE DEF U
      <3>2. chain \in [1..n -> Seq(U)]
        BY <1>2, <3>1
      <3> QED
        BY <1>2, <3>2, FlattenIs
    <2> HIDE DEF U
    <2>2. Len(FlattenSeq(chain)) \in Nat
      BY <2>1, LenProperties
    <2> QED
      BY <1>3, <2>2, BoundsAssumption DEF left
  <1>6. ops \in Seq(Range(ops)) /\ LegalFrom(S, ops)
    BY <1>3, <1>4, <1>5, MigrationsAreLegal
  <1>7. /\ Len(chain') = n + 1 /\ DOMAIN chain' = 1..(n + 1)
        /\ \A k \in 1..n : chain'[k] = chain[k]
        /\ chain'[n + 1] = ops /\ chain' \in Seq(Range(chain'))
    <2> DEFINE V == Range(chain) \cup {ops}
    <2>1. chain \in Seq(V)
      <3>1. \A k \in 1..n : chain[k] \in V
        BY <1>2 DEF Range
      <3> HIDE DEF V
      <3> QED
        BY <1>2, <3>1
    <2>2. ops \in V
      OBVIOUS
    <2> HIDE DEF V
    <2>3. /\ chain' \in Seq(V) /\ Len(chain') = n + 1
          /\ (\A k \in 1..n : chain'[k] = chain[k]) /\ chain'[n + 1] = ops
      BY <1>4, <2>1, <2>2, AppendProperties
    <2>4. DOMAIN chain' = 1..(n + 1)
      BY <2>3, LenProperties
    <2>5. chain' \in Seq(Range(chain'))
      BY <2>3, SeqOfRange
    <2> QED
      BY <2>3, <2>4, <2>5
  <1>8. \A k \in 0..n : StateAt(k)' = StateAt(k)
    BY <1>2, <1>7, StatesStay
  <1>9. ChainInv'
    <2>1. ASSUME NEW k \in 1..(n + 1)
          PROVE  chain'[k] \in Seq(Range(chain'[k])) /\ LegalFrom(StateAt(k - 1)', chain'[k])
      <3>1. CASE k = n + 1
        <4>1. StateAt(k - 1)' = S
          BY <1>2, <1>3, <1>8, <3>1 DEF S
        <4> QED
          BY <1>6, <1>7, <3>1, <4>1
      <3>2. CASE k # n + 1
        <4>1. k \in 1..n /\ k - 1 \in 0..n
          BY <1>2, <3>2
        <4>2. chain[k] \in Seq(Range(chain[k])) /\ LegalFrom(StateAt(k - 1), chain[k])
          BY <1>1, <4>1 DEF ChainInv
        <4>3. StateAt(k - 1)' = StateAt(k - 1)
          BY <1>8, <4>1
        <4> QED
          BY <1>7, <4>1, <4>2, <4>3
      <3> QED
        BY <3>1, <3>2
    <2> QED
      BY <1>7, <2>1 DEF ChainInv
  <1>10. NamesInv' /\ FirstRunInv' /\ firstRun' = 1..Len(chain')
    BY <1>3, <1>4, <1>7, Loaded
  <1>11. RunInv'
    BY <1>1, <1>2, <1>3, <1>7, <1>10 DEF RunInv
  <1>12. AllHandled' => AllHandled
    <2>1. ASSUME NEW k \in 1..n PROVE Handled(k)' <=> Handled(k)
      <3>1. k \in 0..n /\ k - 1 \in 0..n
        BY <1>2
      <3>2. StateAt(k)' = StateAt(k) /\ StateAt(k - 1)' = StateAt(k - 1)
        BY <1>8, <3>1
      <3> QED
        BY <1>7, <3>2 DEF Handled
    <2> QED
      BY <1>2, <1>7, <2>1 DEF AllHandled
  <1>13. HasFields => HasFields'
    BY <1>2, <1>7 DEF HasFields
  <1>14. Due' = Due /\ Wrong' = Wrong
    <2>1. Due' = Due
      BY <1>2, <1>3, <1>8 DEF Due
    <2> QED
      BY <1>3, <2>1 DEF Wrong
  <1>15. Simple' => Simple
    BY <1>12, <1>13 DEF Simple
  <1>16. GrantsInv'
    BY <1>1, <1>3, <1>10, <1>12, <1>13, <1>14, <1>15 DEF GrantsInv
  <1> QED
    BY <1>9, <1>10, <1>11, <1>16 DEF PrivilegeInv

\* A step that changes nothing keeps the invariant.
LEMMA StutteringKeeps ==
  ASSUME PrivilegeInv, UNCHANGED vars
  PROVE  PrivilegeInv'
  <1>1. ChainInv /\ RunInv /\ NamesInv /\ GrantsInv
    BY DEF PrivilegeInv
  <1>2. /\ chain' = chain /\ applied' = applied /\ running' = running /\ firstRun' = firstRun
        /\ newNames' = newNames /\ grants' = grants /\ faults' = faults /\ repeats' = repeats
    BY DEF vars
  <1>3. /\ ChainInv' /\ (AllHandled' <=> AllHandled) /\ (Simple' <=> Simple)
        /\ \A j \in 0..Len(chain) : StateAt(j)' = StateAt(j)
    BY <1>1, <1>2, ChainStays
  <1>4. RunInv'
    BY <1>1, <1>2 DEF RunInv
  <1>5. NamesInv'
    BY <1>1, <1>2 DEF NamesInv
  <1>6. FirstRunInv => FirstRunInv'
    BY <1>2 DEF FirstRunInv
  <1>7. Due' = Due
    BY <1>1, <1>2, <1>3 DEF Due, RunInv
  <1>8. Wrong' = Wrong
    BY <1>2, <1>7 DEF Wrong
  <1> QED
    BY <1>1, <1>2, <1>3, <1>4, <1>5, <1>6, <1>7, <1>8 DEF PrivilegeInv, GrantsInv

\* With no migrations there are no tables, and no privileges.
LEMMA InitIsRight ==
  ASSUME Init
  PROVE  PrivilegeInv
  <1>1. /\ chain = <<>> /\ applied = 0 /\ running = "no" /\ firstRun = {} /\ newNames = <<>>
        /\ grants = {} /\ faults = 0 /\ repeats = 0
    BY DEF Init
  <1>2. Len(chain) = 0 /\ DOMAIN chain = {} /\ 1..Len(chain) = {} /\ chain \in Seq(Range(chain))
    BY <1>1
  <1>3. ChainInv
    BY <1>2 DEF ChainInv
  <1>4. RunInv
    BY <1>1, <1>2 DEF RunInv
  <1>5. NamesInv
    BY <1>1, <1>2 DEF NamesInv
  <1>6. FirstRunInv
    BY <1>1 DEF FirstRunInv
  <1>7. Due = {}
    <2>1. StateAt(applied) = <<>>
      BY <1>1, StateAtIs
    <2>2. Tables(<<>>) = {}
      BY DEF Tables
    <2> QED
      BY <2>1, <2>2 DEF Due
  <1>8. Wrong = {} /\ Due \subseteq grants
    BY <1>1, <1>7 DEF Wrong
  <1>9. AllHandled
    BY <1>2 DEF AllHandled
  <1>10. GrantsInv
    BY <1>6, <1>8, <1>9 DEF GrantsInv
  <1> QED
    BY <1>3, <1>4, <1>5, <1>10 DEF PrivilegeInv

-----------------------------------------------------------------------------
(* Theorems.                                                               *)

\* However migrations are made, run, undone and run again, the privileges
\* are those that the migrations applied ask for, except for what failing
\* statements, processes that run a migration twice and operations that
\* AlterTablePrivilege does not deal with can make wrong.
THEOREM PrivilegesFollow == Spec => []PrivilegeInv
  <1>1. Init => PrivilegeInv
    BY InitIsRight
  <1>2. PrivilegeInv /\ [Next]_vars => PrivilegeInv'
    <2> SUFFICES ASSUME PrivilegeInv, [Next]_vars PROVE PrivilegeInv'
      OBVIOUS
    <2>1. CASE MakeMigration
      BY <2>1, MakeMigrationKeeps
    <2>2. CASE Restart
      BY <2>2, RestartKeeps
    <2>3. CASE BeginForwards
      BY <2>3, BeginForwardsKeeps
    <2>4. CASE BeginBackwards
      BY <2>4, BeginBackwardsKeeps
    <2>5. CASE EndForwards
      BY <2>5, EndForwardsKeeps
    <2>6. CASE EndBackwards
      BY <2>6, EndBackwardsKeeps
    <2>7. CASE UNCHANGED vars
      BY <2>7, StutteringKeeps
    <2> QED
      BY <2>1, <2>2, <2>3, <2>4, <2>5, <2>6, <2>7 DEF Next
  <1> QED
    BY <1>1, <1>2, PTL DEF Spec

\* Between migrations the tables that are wrong are those of the invariant.
LEMMA MismatchedIs ==
  Mismatched = IF running = "no" THEN Wrong ELSE {}
  BY DEF Mismatched, Wrong, Due

\* The user has privileges on exactly the tables that exist, after any
\* migrations forwards and backwards, unless a process runs one twice, a
\* statement fails, or a migration has what the code does not deal with.
THEOREM PrivilegesMatchTables == Spec => []GrantsMatchTables
  <1>1. PrivilegeInv => GrantsMatchTables
    BY MismatchedIs DEF PrivilegeInv, RunInv, GrantsInv, GrantsMatchTables
  <1> QED
    BY <1>1, PrivilegesFollow, PTL

\* In migrations that AlterTablePrivilege deals with and that make no
\* many-to-many field, no user is locked out of a table, even by a process
\* that runs them twice, whose flags are the wrong way round, and whose
\* handler may end early for an ordinary field that it does not find.
THEOREM NobodyLockedOut == Spec => []RunningAgainLocksNothing
  <1>1. PrivilegeInv => RunningAgainLocksNothing
    BY MismatchedIs DEF PrivilegeInv, RunInv, GrantsInv, RunningAgainLocksNothing, Simple, Wrong
  <1> QED
    BY <1>1, PrivilegesFollow, PTL

\* A statement that the server fails costs the privileges of one table,
\* since the handler goes on with the others.
THEOREM OneStatementOneTable == Spec => []OneFaultOneTable
  <1>1. ASSUME PrivilegeInv PROVE OneFaultOneTable
    <2> SUFFICES ASSUME repeats = 0, faults = 0 \/ faults = 1, AllHandled
                 PROVE  Cardinality(Mismatched) \in {0, 1}
      BY <1>1 DEF OneFaultOneTable, PrivilegeInv, RunInv
    <2>1. \A t, u \in Mismatched : t = u
      BY <1>1, MismatchedIs DEF PrivilegeInv, GrantsInv
    <2>2. CASE Mismatched = {}
      BY <2>2, FS_EmptySet
    <2>3. CASE Mismatched # {}
      <3>1. PICK t : Mismatched = {t}
        BY <2>1, <2>3
      <3> QED
        BY <3>1, FS_Singleton
    <2> QED
      BY <2>2, <2>3
  <1> QED
    BY <1>1, PrivilegesFollow, PTL

=============================================================================
