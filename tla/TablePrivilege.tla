--------------------------- MODULE TablePrivilege ---------------------------
(***************************************************************************)
(* migrations.py: the privileges of a database user follow the tables that *)
(* Django migrations make, rename and drop.  AlterTablePrivilege puts      *)
(* itself at both ends of the operations of a migration; at one end it     *)
(* revokes, at the other it grants, and a flag of its own tells it which   *)
(* of the two it is at.                                                    *)
(*                                                                         *)
(* The migrations are not a parameter: every sequence of legal operations, *)
(* within the bounds, is made and then run forwards and backwards.         *)
(***************************************************************************)
EXTENDS Integers, Sequences, FiniteSets, SequencesExt, Functions

CONSTANTS
  Models, Fields,    \* models of the application, and names of their fields
  Named,             \* models for which table names may be written in the code
  MaxMigrations,     \* bound: migrations made
  MaxOps,            \* bound: operations, over all the migrations
  MaxIrregular       \* bound: statements that the database server fails, and
                     \* migrations begun again by one process, together

\* No default name of a table is one that is written in the code.
ASSUME NamesAssumption ==
  /\ Named \subseteq Models /\ "custom" \notin Models
  /\ IsFiniteSet(Fields)

ASSUME BoundsAssumption ==
  MaxMigrations \in Nat /\ MaxOps \in Nat /\ MaxIrregular \in Nat

VARIABLES
  chain,      \* the migrations, each a sequence of operations
  applied,    \* how many of them are applied
  running,    \* direction of the migration that is half run, "no" if none is
  firstRun,   \* migrations whose AlterTablePrivilege has _first_run = True
  newNames,   \* new_table_name of each of its _add_models
  grants,     \* tables that the user has privileges on, in the database server
  faults,     \* statements failed so far
  repeats     \* history: migrations begun again by the process that had run them

vars == <<chain, applied, running, firstRun, newNames, grants, faults, repeats>>

-----------------------------------------------------------------------------
(* Project states.  A name is a sequence: the default name of a model's    *)
(* table is <<model>>, and what is joined by "_" is appended.              *)

NoName == <<>>

\* A model is a record of its table, of the db_table option of its many-to-many
\* fields, and of its ordinary fields, which have no table.
TableOf(S, m) == S[m].table
JoinTable(S, m, f) ==
  IF S[m].m2m[f] = NoName THEN Append(TableOf(S, m), f) ELSE S[m].m2m[f]

Tables(S) == {TableOf(S, m) : m \in DOMAIN S} \cup
             UNION {{JoinTable(S, m, f) : f \in DOMAIN S[m].m2m} : m \in DOMAIN S}

OrDefault(name, m) == IF name = NoName THEN <<m>> ELSE name

\* RenameModel renames the table too, when it has the default name.
Renamed(model, old, new) ==
  IF model.table = <<old>> THEN [model EXCEPT !.table = <<new>>] ELSE model

\* RenameField keeps the options of the field.
FieldRenamed(model, old, new) ==
  [model EXCEPT
     !.m2m = [f \in {IF g = old THEN new ELSE g : g \in DOMAIN @} |->
                @[IF f = new THEN old ELSE f]],
     !.plain = {IF g = old THEN new ELSE g : g \in @}]

Change(S, op) ==
  LET m == op.model
      with(model) == [x \in DOMAIN S \cup {m} |-> IF x = m THEN model ELSE S[x]]
  IN  CASE op.kind = "CreateModel" ->
             with([table |-> OrDefault(op.table, m), m2m |-> op.m2m, plain |-> op.plain])
        [] op.kind = "DeleteModel" -> Restrict(S, DOMAIN S \ {m})
        [] op.kind = "AlterModelTable" -> with([S[m] EXCEPT !.table = OrDefault(op.table, m)])
        [] op.kind = "AddField" ->
             with([S[m] EXCEPT !.m2m = [f \in DOMAIN @ \cup {op.fd} |->
                                          IF f = op.fd THEN op.table ELSE @[f]]])
        [] op.kind = "AddPlainField" -> with([S[m] EXCEPT !.plain = @ \cup {op.fd}])
        [] op.kind = "RemoveField" ->
             with([table |-> TableOf(S, m), m2m |-> Restrict(S[m].m2m, DOMAIN S[m].m2m \ {op.fd}),
                   plain |-> S[m].plain \ {op.fd}])
        [] op.kind = "RenameField" -> with(FieldRenamed(S[m], op.fd, op.to))
        [] op.kind = "RenameModel" ->
             [x \in (DOMAIN S \ {m}) \cup {op.to} |->
                IF x = op.to THEN Renamed(S[m], m, x) ELSE S[x]]

\* The states before the first one of the operations, and after each.
States(S, ops) ==
  LET states[i \in 0..Len(ops)] ==
        IF i = 0 THEN S ELSE Change(states[i - 1], ops[i])
  IN  states

StateFrom(S, ops) == States(S, ops)[Len(ops)]

\* The state after each of the migrations.
StateAt(n) ==
  LET at[k \in 0..n] == IF k = 0 THEN <<>> ELSE StateFrom(at[k - 1], chain[k])
  IN  at[n]

\* The operations that a migration may have after state S, written by the
\* autodetector or by hand: all those of Django that change a table's name, make
\* or drop one, or make, drop or rename a field.  No two tables get one name.
\* An AddField of an ordinary field is called AddPlainField.
LegalOps(S) ==
  LET unused(name) == {name} \ Tables(S)
      tables(m) == {NoName} \cup IF m \in Named THEN unused(<<"custom", m>>) ELSE {}
      joins(m) == {NoName} \cup IF m \in Named THEN unused(<<"customJoin", m>>) ELSE {}
      fields(m) == DOMAIN S[m].m2m \cup S[m].plain
  IN  {op \in [kind : {"CreateModel"}, model : Models \ DOMAIN S,
               table : UNION {tables(m) : m \in Models},
               m2m : UNION {[F -> UNION {joins(m) : m \in Models}] : F \in SUBSET Fields},
               plain : SUBSET Fields] :
         /\ op.table \in tables(op.model) /\ Range(op.m2m) \subseteq joins(op.model)
         /\ DOMAIN op.m2m \cap op.plain = {}
         /\ \A f, g \in DOMAIN op.m2m : op.m2m[f] = op.m2m[g] => f = g \/ op.m2m[f] = NoName}
      \cup [kind : {"DeleteModel"}, model : DOMAIN S]
      \cup [kind : {"RenameModel"}, model : DOMAIN S, to : Models \ DOMAIN S]
      \cup UNION {
        {op \in [kind : {"AlterModelTable"}, model : {m}, table : tables(m)] :
           OrDefault(op.table, m) # TableOf(S, m)}
        \cup [kind : {"AddField"}, model : {m}, fd : Fields \ fields(m), table : joins(m)]
        \cup [kind : {"AddPlainField"}, model : {m}, fd : Fields \ fields(m)]
        \cup [kind : {"RemoveField"}, model : {m}, fd : fields(m)]
        \cup [kind : {"RenameField"}, model : {m}, fd : fields(m), to : Fields \ fields(m)]
          : m \in DOMAIN S}

\* The migrations from state S on, of at most n operations.
Extensions(S, ops) == {Append(ops, op) : op \in LegalOps(StateFrom(S, ops))}
OrLonger(S, some) == some \cup UNION {Extensions(S, ops) : ops \in some}

Migrations(S, n) ==
  LET upTo[i \in 1..n] ==
        IF i = 1 THEN Extensions(S, <<>>) ELSE OrLonger(S, upTo[i - 1])
  IN  upTo[n]

-----------------------------------------------------------------------------
(* AlterTablePrivilege._extract_table_names.  Operations of other kinds    *)
(* than these are discarded, RenameModel and RenameField among them.       *)

\* A new table of a model itself, and one of a many-to-many field.
Of(m, name) == [model |-> m, join |-> FALSE, name |-> name]
OfField(m, f, name) == [model |-> m, join |-> TRUE, fd |-> f, name |-> name]

AddModels(ops) ==
  LET items(op) ==
        CASE op.kind = "CreateModel" ->
               <<Of(op.model, op.table)>> \o
               SetToSeq({OfField(op.model, f, op.m2m[f]) : f \in DOMAIN op.m2m})
          [] op.kind = "AddField" -> <<OfField(op.model, op.fd, op.table)>>
          [] OTHER -> <<>>
  IN  FlattenSeq([i \in DOMAIN ops |-> items(ops[i])])

Only(ops, kinds) ==
  FlattenSeq([i \in DOMAIN ops |-> IF ops[i].kind \in kinds THEN <<ops[i]>> ELSE <<>>])

RmModels(ops) == Only(ops, {"DeleteModel", "RemoveField"})
RenameTables(ops) == Only(ops, {"AlterModelTable"})

-----------------------------------------------------------------------------
(* The statements of one end, each [sql, table]; a lookup that fails is    *)
(* a statement without a table, which raises error instead, and one that   *)
(* finds no table is none.                                                 *)

Sql(verb, table) == [verb |-> verb, table |-> table]
Raises(error) == [verb |-> error, table |-> NoName]
NoStatement == [verb |-> "ok", table |-> NoName]

\* _get_add_table_name, which writes what it finds back into the item.
AddTableName(S, item, name) ==
  IF name = NoName
  THEN IF item.join THEN Append(TableOf(S, item.model), item.fd) ELSE <<item.model>>
  ELSE IF item.join THEN Append(name, item.fd) ELSE name

LookupFails(S, item, name) == name = NoName /\ item.join /\ item.model \notin DOMAIN S

\* _grant_table_priv, for _add_models and then _rename_tables.
GrantStatements(S, ops, names, verb) ==
  LET items == AddModels(ops)
      renamed == RenameTables(ops)
  IN  [i \in DOMAIN items |->
         IF LookupFails(S, items[i], names[i]) THEN Raises("LookupError")
         ELSE Sql(verb, AddTableName(S, items[i], names[i]))]
      \o [i \in DOMAIN renamed |-> Sql(verb, OrDefault(renamed[i].table, renamed[i].model))]

\* new_table_name of the items, as far as the loop comes.
NamesAfter(S, ops, names) ==
  LET items == AddModels(ops)
      stuck(i) == LookupFails(S, items[i], names[i])
  IN  [i \in DOMAIN items |->
         IF \E j \in 1..i : stuck(j) THEN names[i] ELSE AddTableName(S, items[i], names[i])]

\* Bug: the old names of renamed tables are forgotten.
RevokeStatementsRemovedOnly(S, ops, verb) ==
  LET old(op) ==
        IF op.model \notin DOMAIN S THEN Raises("LookupError")
        ELSE IF op.kind # "RemoveField" THEN Sql(verb, TableOf(S, op.model))
        ELSE IF op.fd \in DOMAIN S[op.model].m2m THEN Sql(verb, JoinTable(S, op.model, op.fd))
        ELSE IF op.fd \in S[op.model].plain THEN NoStatement
        ELSE Raises("FieldDoesNotExist")
      items == RmModels(ops)
  IN  [i \in DOMAIN items |-> old(items[i])]

\* _revoke_table_priv, for _rm_models and then _rename_tables.  A field is
\* looked for in the model; one that is not many-to-many has no table.
RevokeStatements(S, ops, verb) ==
  LET old(op) ==
        IF op.model \notin DOMAIN S THEN Raises("LookupError")
        ELSE IF op.kind # "RemoveField" THEN Sql(verb, TableOf(S, op.model))
        ELSE IF op.fd \in DOMAIN S[op.model].m2m THEN Sql(verb, JoinTable(S, op.model, op.fd))
        ELSE IF op.fd \in S[op.model].plain THEN NoStatement
        ELSE Raises("FieldDoesNotExist")
      items == RmModels(ops) \o RenameTables(ops)
  IN  [i \in DOMAIN items |-> old(items[i])]

-----------------------------------------------------------------------------
(* MySQL.  Privileges are kept by name: they outlive the table.            *)

Outcome(st, tables, granted) ==
  CASE st.verb = "GRANT" -> IF st.table \in tables THEN "ok" ELSE "ProgrammingError"
    [] st.verb = "REVOKE" -> IF st.table \in granted THEN "ok" ELSE "OperationalError"
    [] OTHER -> st.verb

Effect(st, granted) ==
  CASE st.verb = "GRANT" -> granted \cup {st.table}
    [] st.verb = "REVOKE" -> granted \ {st.table}
    [] OTHER -> granted

\* Bug: no error is caught.
ExecuteToFirstError(statements, caught, tables, granted, fault) ==
  LET after[i \in 0..Len(statements)] ==
        IF i = 0 THEN [grants |-> granted, error |-> "ok"]
        ELSE LET h == after[i - 1]
                 outcome == IF i = fault THEN "OperationalError"
                            ELSE Outcome(statements[i], tables, h.grants)
             IN  IF h.error # "ok" THEN h
                 ELSE [grants |-> IF outcome = "ok" THEN Effect(statements[i], h.grants)
                                  ELSE h.grants,
                       error |-> outcome]
  IN  after[Len(statements)]

\* _common_handler executes the statements.  Errors in caught are logged and
\* the loop goes on; any other one ends the handler.  The server fails
\* statement number fault.
Execute(statements, caught, tables, granted, fault) ==
  LET after[i \in 0..Len(statements)] ==
        IF i = 0 THEN [grants |-> granted, error |-> "ok"]
        ELSE LET h == after[i - 1]
                 outcome == IF i = fault THEN "OperationalError"
                            ELSE Outcome(statements[i], tables, h.grants)
             IN  IF h.error # "ok" THEN h
                 ELSE [grants |-> IF outcome = "ok" THEN Effect(statements[i], h.grants)
                                  ELSE h.grants,
                       error |-> IF outcome \in caught THEN "ok" ELSE outcome]
  IN  after[Len(statements)]

\* Bug: _first_run is never cleared.
HandlerKeepsFirstRun(k, S, reverse) ==
  LET ops == chain[k]
      granting == reverse <=> k \in firstRun
      statements ==
        IF granting
        THEN GrantStatements(S, ops, newNames[k], IF reverse THEN "REVOKE" ELSE "GRANT")
        ELSE RevokeStatements(S, ops, IF reverse THEN "GRANT" ELSE "REVOKE")
      caught == {"OperationalError", IF granting THEN "ProgrammingError" ELSE "LookupError"}
  IN  /\ grants' = Execute(statements, caught, Tables(S), grants, 0).grants
      /\ UNCHANGED <<firstRun, newNames, faults>>

\* One end of migration k, at project state S.  _first_run is only cleared
\* by a handler that comes to its end.
Handler(k, S, reverse) ==
  LET ops == chain[k]
      granting == reverse <=> k \in firstRun
      statements ==
        IF granting
        THEN GrantStatements(S, ops, newNames[k], IF reverse THEN "REVOKE" ELSE "GRANT")
        ELSE RevokeStatements(S, ops, IF reverse THEN "GRANT" ELSE "REVOKE")
      caught == {"OperationalError", IF granting THEN "ProgrammingError" ELSE "LookupError"}
      sql == {i \in DOMAIN statements : statements[i].verb \in {"GRANT", "REVOKE"}}
  IN  \E fault \in {0} \cup IF faults + repeats' < MaxIrregular THEN sql ELSE {} :
        LET h == Execute(statements, caught, Tables(S), grants, fault)
        IN  /\ grants' = h.grants
            /\ faults' = IF fault = 0 THEN faults ELSE faults + 1
            /\ firstRun' = IF h.error = "ok" THEN firstRun \ {k} ELSE firstRun
            /\ newNames' = IF granting
                           THEN [newNames EXCEPT ![k] = NamesAfter(S, ops, @)]
                           ELSE newNames

-----------------------------------------------------------------------------
Init ==
  /\ chain = <<>> /\ applied = 0 /\ running = "no"
  /\ firstRun = {} /\ newNames = <<>>
  /\ grants = {} /\ faults = 0 /\ repeats = 0

NamesOf(ops) == [i \in DOMAIN AddModels(ops) |-> AddModels(ops)[i].name]

\* A process loads the migrations ms: patched_init makes their
\* AlterTablePrivilege, once per class.
Load(ms) ==
  /\ firstRun' = DOMAIN ms
  /\ newNames' = [k \in DOMAIN ms |-> NamesOf(ms[k])]

\* The next migration file, once all the others are applied, and a process
\* that knows it.
MakeMigration ==
  /\ running = "no" /\ applied = Len(chain) /\ Len(chain) < MaxMigrations
  /\ LET left == MaxOps - Len(FlattenSeq(chain))
     IN  /\ left > 0
         /\ \E ops \in Migrations(StateAt(applied), left) :
              chain' = Append(chain, ops) /\ Load(chain')
  /\ UNCHANGED <<applied, running, grants, faults, repeats>>

Counted(k) ==
  /\ repeats' = IF k \in firstRun THEN repeats ELSE repeats + 1
  /\ repeats' + faults <= MaxIrregular

\* manage.py migrate: the handler at the end of the operations that comes
\* first, which for a reversed migration is the last one.
BeginForwards ==
  /\ running = "no" /\ applied < Len(chain)
  /\ running' = "forwards"
  /\ Counted(applied + 1)
  /\ Handler(applied + 1, StateAt(applied), FALSE)
  /\ UNCHANGED <<chain, applied>>

BeginBackwards ==
  /\ running = "no" /\ applied > 0
  /\ running' = "backwards"
  /\ Counted(applied)
  /\ Handler(applied, StateAt(applied), TRUE)
  /\ UNCHANGED <<chain, applied>>

\* The schema is changed, the handler at the other end runs, and the
\* migration is recorded.
EndForwards ==
  /\ running = "forwards"
  /\ running' = "no" /\ applied' = applied + 1
  /\ UNCHANGED <<chain, repeats>>
  /\ Handler(applied + 1, StateAt(applied + 1), FALSE)

EndBackwards ==
  /\ running = "backwards"
  /\ running' = "no" /\ applied' = applied - 1
  /\ UNCHANGED <<chain, repeats>>
  /\ Handler(applied, StateAt(applied - 1), TRUE)

Restart ==
  /\ running = "no"
  /\ Load(chain)
  /\ UNCHANGED <<chain, applied, running, grants, faults, repeats>>

Next ==
  \/ MakeMigration \/ Restart
  \/ BeginForwards \/ BeginBackwards \/ EndForwards \/ EndBackwards

Spec == Init /\ [][Next]_vars

-----------------------------------------------------------------------------
(* Properties *)

\* What AlterTablePrivilege deals with: no model or field has its name changed,
\* the tables of many-to-many fields have default names, no model gets another
\* table or is dropped while it has such a field, and no field is removed, or
\* model with such a field dropped, that the same migration made.
Handled(k) ==
  LET ops == chain[k]
      S == StateAt(k - 1)
      before(i) == States(S, ops)[i - 1]
      items == AddModels(ops)
  IN  /\ \A i \in DOMAIN items : items[i].join =>
           items[i].name = NoName /\ items[i].model \in DOMAIN StateAt(k)
      /\ \A i \in DOMAIN ops :
           /\ ops[i].kind \notin {"RenameModel", "RenameField"}
           /\ ops[i].kind \in {"DeleteModel", "AlterModelTable"} =>
                before(i)[ops[i].model].m2m = <<>>
           /\ ops[i].kind = "RemoveField" /\ ops[i].model \in DOMAIN S =>
                ops[i].fd \in DOMAIN S[ops[i].model].m2m \cup S[ops[i].model].plain

AllHandled == \A k \in DOMAIN chain : Handled(k)

HasFields ==
  \E k \in DOMAIN chain : \E i \in DOMAIN chain[k] :
    \/ chain[k][i].kind = "AddField"
    \/ chain[k][i].kind = "CreateModel" /\ chain[k][i].m2m # <<>>

\* Between migrations: tables the user cannot use, and names on which the
\* user has privileges though there is no such table.
Mismatched ==
  IF running # "no" THEN {}
  ELSE LET tables == Tables(StateAt(applied))
       IN  (tables \cup grants) \ (tables \cap grants)

\* The user has privileges on exactly the tables that exist, however often
\* migrations are undone and redone, unless a process runs one twice, a
\* statement fails, or a migration has what the code does not deal with.
GrantsMatchTables ==
  Mismatched # {} => repeats > 0 \/ faults > 0 \/ ~ AllHandled

\* A process that runs a migration again forgets to revoke, but without
\* many-to-many fields it never locks the user out of a table, though it may
\* look in vain for the ordinary fields that the migration removes.
RunningAgainLocksNothing ==
  ~ (Mismatched \subseteq grants) => faults > 0 \/ HasFields \/ ~ AllHandled

\* One failing statement costs the privileges of one table.
OneFaultOneTable ==
  Cardinality(Mismatched) > 1 => repeats > 0 \/ faults > 1 \/ ~ AllHandled
=============================================================================
