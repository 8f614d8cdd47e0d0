# A verification project for EnvToolSetupJunkBox

The repository is a collection of programs and program parts: a Redis-like
server and client on Tokio, a hand-written executor, libuv and ffmpeg programs
in C, Django, Alembic and Elasticsearch extensions in Python, and configuration. This
directory holds TLA+ models of the parts that keep state under concurrency or
failure, the TLC configurations that check them on small instances, and proofs
for TLAPS. Paths below are relative to `src/code_snippet/`; `mini-redis-demo`
stands for `rust/async_prog/tokio/mini-redis-demo`.

## 1. Inventory

### A. mini-redis (`mini-redis-demo/src`)

| part | state | operations |
|---|---|---|
| store, `db.rs` | key-value map, map of broadcast channels, one mutex, a handle count | `set`, `get`, `publish`, `subscribe`, clone, drop (the last drop clears the map) |
| server, `bin/server.rs` | semaphore of 10 permits, shutdown broadcast, one task per connection | acquire a permit, accept, spawn; ctrl-c; wait for the permits |
| commands, `cmd/` | per stream: the stream map of receivers, `Subscribe.channels` | GET, SET, PUBLISH, SUBSCRIBE and what a stream accepts: SUBSCRIBE, UNSUBSCRIBE |
| frames, `frame.rs`, `connection.rs`, `parse.rs` | read buffer, write buffer | read and parse a frame, write a frame, cursor over a request |
| client library, `clients/client.rs` | connection, list of channels | get, set, publish, subscribe, unsubscribe, message stream |
| client program, `bin/client.rs` | mpsc queue, oneshot replies, connection of the manager | two scripted tasks, manager, join, then publishers and subscribers |

Tasks share the store and the two broadcast kinds (channels, shutdown); a
connection is a socket between a client and its task. Hard: the interleaving of
tasks at every await, `select!` picking a ready branch at random, slow readers,
disconnections and panics in the middle of a task, ctrl-c at any point, and the
overwriting of a ring a subscriber is too slow for. What makes it correct:
permits are conserved, everybody learns of the shutdown and it ends, replies
come in order, a subscriber gets what it subscribed to, in order, and loses
only what the ring has overwritten.

### B. timer_future (`rust/async_prog/timer_future/src`)

A spawner and an executor around one bounded queue, tasks whose future sits in
a slot, timers whose state a thread and a poll share under a mutex. Hard: the
race between expiry and poll, a wake-up while the future is not yet back in its
slot, a send to the queue while a lock is held, and knowing when to stop.
Correct: no wake-up lost or doubled, no send blocks, the executor ends exactly
when the tasks have.

### C. Rust exercises (`rust/the_book`, `rust/rustonomicon`)

Language exercises; the blog post's states and the channel and mutex examples
of `concurrency.rs` keep state, the rest is syntax.

### D. libuv programs (`c/libuv`)

Callbacks on an event loop: file copy (`file_access.c`), a thread-pool job list
that SIGINT cancels (`queue_work.c`), pipes, TCP echo, locks. Hard: callbacks in
any order, requests that are reused, short writes, cancelling what already runs,
handles closed twice.

### E. ffmpeg transcoder (`c/ffmpeg/transcode_fragment`)

Demuxes, decodes, filters, encodes and writes fragmented MP4 or HLS. Hard:
feeding and draining decoders, filters and encoders to the last frame, errors
between two steps, and moving a finished segment away while the next is written.

### F. Python (`python`)

| part | state | operations |
|---|---|---|
| file storage, `storage.py` | the directory tree, the process's umask | save under a free name, make directories, delete |
| table privileges, `django/3.x/migrations.py` | a flag and a list of names in each migration's operation; the grants of a user in MySQL | run at either end of a migration, forwards or backwards |
| user groups, `django/3.x/common/formsets__deprecated.py`, `common/forms__deprecated.py`, `membership/` | the groups and the closure table of their hierarchy | create groups, move groups to other parents |
| authentication, `django/3.x/contrib/auth/models.py`, `middleware.py` | accounts, Django's groups that mirror the user groups, roles | mirror a group, apply a role, log in, check a permission |
| search client, `../elasticsearch/5.6/client_query_django.py` | a query set: its conditions, the range and the result it has loaded | filter, load, count and slice for Django's Paginator; a job that deletes old documents |

The pages of user groups and the authentication meet in the mirror: the form of
a user group writes the closure table and the group of `django.contrib.auth`
with its permissions, and that group is what an account gets as a role. Hard:
worker processes that validate and plan from tables another one is about to
change, a reordering loop that waits, rows reused for other paths in one
transaction, permissions read when a form is shown and compared when it is
saved, an operation that has to guess from a flag at which end of a migration
it is, statements that fail and are only logged. What makes them correct: the
closure table holds each path of the hierarchy once, privileges follow the
tables through any way up and down the migrations, an account has the
permissions its administrators last gave it.

The search client stands in for a query set of Django: the Paginator counts it
and slices it, and it answers both from one search of its own page. A job of the
same file deletes the documents those searches find. Hard: two readings of the
page number in one request, conditions that nest, an index that changes between
two calls, batches that are deleted in part. Correct: a page is of one search and
holds what its conditions ask for, and the job ends with the old documents gone.

Alembic, Kombu and small scripts call a library and keep nothing of their own.

Lua and shell files are configuration.

## 2. Modules

| module | models |
|---|---|
| `FakeDatabase` | `db.rs` and the broadcast ring behind a channel |
| `RedisServer` | `bin/server.rs`, `shutdown.rs`, `cmd/`; extends the store |
| `KvStore` | abstract: scripts against one atomic store |
| `KvClient` | the key-value experiment of `bin/client.rs`; implements `KvStore` |
| `TimerExecutor` | `timer_future` |
| `FileStorage` | saving, deleting and directories of `storage.py` |
| `ClosureTable` | the queries, plan, writes and validators of the closure-table formset, as operators |
| `GroupFormset` | the pages that create and move groups; extends `ClosureTable` |
| `TablePrivilege` | `migrations.py` |
| `AuthGroups` | the mirror of user groups in `django.contrib.auth`, and roles |
| `AccountAccess` | accounts and permission checks; extends `AuthGroups` |
| `SearchQuery` | Q objects turned into clauses, and what both mean, as operators |
| `SearchPages` | the query set, the Paginator and the clean-up job, for any meaning of the conditions |
| `SearchClient` | `SearchPages` with the queries of `SearchQuery` |
| `RedisServerProofs` | safety of `RedisServer`: types, permits, shutdown, the life of the data, messages, replies, subscriptions |
| `KvClientProofs` | safety of `KvClient`, and that it implements `KvStore` |
| `TimerExecutorProofs`, `FileStorageProofs` | safety of their modules |
| `GroupFormsetProofs` | insertions and updates keep the table, the reordering ends, tangled plans take three trees |
| `TablePrivilegeProofs` | privileges follow the tables |
| `AccountAccessProofs` | safety of `AccountAccess` |
| `SearchPagesProofs` | safety of `SearchPages` |
| `MC*` | instances for TLC |

### FakeDatabase and RedisServer

A message's payload is its number in its channel, so a channel is the count
`tail[ch]` and a receiver is a `cursor`. The ring is tokio's, modelled from its
use: `Capacity` stands for the 30 of `db.rs:94` (tokio rounds it up to a power of
two, 32; no property depends on the number), and a receiver that has fallen
behind continues with the oldest message kept, because the stream of
`subscribe.rs:229-237` ignores `Lagged`. The mutex is never poisoned (nothing
panics while it is held), so every store operation is one step. A handle is an
`Arc`: `refs` is its strong count, `CloneHandle` and `ReleaseHandle` change it,
and `DropHandle` is the `drop()` of `db.rs`, which reads it before the handle's
own release. Other tasks step in between the two.

A step of a connection task is the code between two awaits: a request is read,
executed and its reply handed to `write_frame` (`writing`); `FlushFrame` is the
end of that write. While it lasts, the task does nothing else, as in the code.
The phases of a connection:

- `new`, `queued` (in the listener's backlog),
- `idle` (the loop of `process_single_request`), `stream` (the loop of
  `Subscribe::apply`), `exiting` (locals not yet dropped), `releasing` (`drop()`
  of the store handle has run, the handle still counts and the permit is still
  held), `gone`.

`Rejected` and `RejectedInStream` say which requests fail to parse and where the
error goes: a panic of the task in the first loop, a return to the first loop
from a stream. There SUBSCRIBE and UNSUBSCRIBE read all strings of their frame and
leave `finish()` nothing to refuse; a command that a stream does not support fails
in `finish()` when it has arguments, and gets its error reply only when it has none.
`CtrlC` drops the accept loop at its await, with the permit and the handle it may
hold; `NotifyShutdown` ends that drop and notifies every receiver that exists
then. Clients are any program that speaks
the protocol: they pipeline, stop and close when they like; a reset may make
the task miss requests it has not read.

### KvClient and KvStore

The mpsc queue is the suffix of `accepted` that is not `taken`. A task's SET
goes on at once (its oneshot receiver is dropped), a GET waits. The server may
be stopped at any time: requests then fail, and a failed GET panics its task
through `unwrap`; if the manager cannot connect it panics and the queue goes
with every reply it holds. `Join` is `bin/client.rs:105-107`.

`KvStore` says what this amounts to: scripts that run against one atomic store,
where a SET takes effect when it is issued. The refinement mapping of
`KvClient` reads the abstract store off `accepted` (the last SET of each key)
and the promised answer of a waiting GET off the part of it before that GET.

### TimerExecutor

`queue` is the sync_channel, `slot` tells whether `Task.future` holds its
future, `timer` and `waker` are a timer's shared state; `waking` is a thread
inside `wake()`, which holds the timer's lock until the queue has room. The
channel closes when no `Arc<Task>` is left (each holds a sender): none in the
queue, the executor, a stored waker or a thread. `MaxQueued >= Cardinality(Tasks)`
is assumed, as in the program (1000 and 2): with a smaller queue `main()` would
wait for ever in `spawn`, before the executor runs.

### FileStorage

A step is one call of the operating system. `pc` names the next call of a
saver: `umask`, `makedirs`, `umask` of `mkdir()`, then the loop of
`_fs_storage_save_common`: `open`, after a collision `get_alternative_path`
(`Alternative`: a path that was free when looked at), the chunks and the close.
A file is named by its creator, and `data` says who wrote each chunk of it, so
that two savers sharing a file would show. The thread, process or coroutine
that saves makes no difference but for the umask, which threads share. The
file's lock is left out: nobody else takes it, and the file is new. Contents
are streams; `util_os.safe_file_move` is not in the repository.

### ClosureTable and GroupFormset

A group is its number and a table is a set (or, once written, a bag) of rows
`[anc, desc, depth]`. `ClosureTable` follows `formsets__deprecated.py` from the
queries up: which trees an update edits (`EditTrees`), which of them must be
placed before which (`Dependency`, `Orders`), their new ancestors and what they
take along (`NewAncestors`, `NewDescendants`), and the writing
(`ConstructEditPaths`), where old rows are overwritten with new paths, rows left
over serve the next tree, and the last ones are deleted. Rows have identities
there, so that a row used twice shows. `PathsOf` is the reference: the paths of
a hierarchy, one by one.

`GroupFormset` is the life of a request: `PostNew` and `PostEdit` validate,
`PlanEdit` is `get_sorted_update_forms()`, which runs before the transaction, `Spin`
the same when no order exists and the `while` of `_reorder_edit_tree` never ends,
`Insert` and `Update` are the transactions and `Rollback` any error in one. The code
knows a group of an edit by two ids: the forms belong to the groups of the URL in
the order of their ids (`formsets__deprecated.py:144-151`), which is what the update
works on, while the validators read the `id` that was posted with each form
(`forms__deprecated.py:364`, `formsets__deprecated.py:196`, `:297`). Nothing
compares the two. So `Accepts` judges the ids posted, which `PostEdit` takes to be
the groups' own or any other distinct numbers (`mismatched`), some of no group. The
validator classes are not in the repository; `Acyclic` and `OutsideItself` say what
they are taken to refuse, after their names and the comments where they are made
(`:235-242`, `:271-277`). `forest` is the hierarchy as the committed requests ask
for it. `Exact` is what the table must be: `PathsOf(forest)`, each path once, of a
hierarchy without a cycle. A table that is not is the end of the exploration.

### TablePrivilege

The migrations are not given: `MakeMigration` writes every sequence, within the
bounds, of the operations that make, drop or rename a model, its table or a field,
many-to-many or ordinary (`LegalOps`); the code discards the renaming of models and
of fields. `BeginForwards` .. `EndBackwards` are the two calls of
`AlterTablePrivilege` that frame the operations of a migration in either direction.
`Handler` is `_common_handler` with the statements it makes: which of granting and
revoking is due follows from the direction and the flag `_first_run` (`firstRun`),
as in the code. `newNames` is written back by `_get_add_table_name`. An error is
caught and logged or ends the handler, by its class: `LookupError` is caught in one
of the loops, `FieldDoesNotExist`, which is none, in neither. A handler that it ends
leaves `_first_run` set. `grants` are MySQL's: kept by name, whether the table
exists or not. `Restart` is another process of `manage.py`, with a fresh flag:
`firstRun` is the set of the migrations whose flag still is. `Migrations` are the
sequences of operations that each are legal after the ones before (`Extensions`). No
model is named like the fixed part of a name written in the code
(`NamesAssumption`), or two models could claim one table.

### AuthGroups and AccountAccess

`db` is the database: names of the user groups, the mirror of each (`auth`) and
the roles. A request carries its forms with what was read when it was posted
(`old`); `SaveForm` is one form in the transaction, `Commit` all of them and
`Refuse` an error in one, which rolls all back. `want` remembers the permissions
of the last committed form of each group. `AccountAccess` adds accounts and a
request of one: the middleware loads the account with its flags
(`ProcessRequest`), the view asks for a permission later (`CheckPermission`) and
the roles are read then.

### SearchQuery, SearchPages and SearchClient

A document is the set of fields whose lookup holds for it, so a leaf of a
condition is a field and whether `lookup_map` knows its lookup. `Parse` is
`_parse_nonleaf_q` with its losses: leaves without a known lookup, groups left
with one child, the negation. That the clause made of a known lookup
(`client_query_django.py:149-158`) finds what the lookup means to Django is
assumed. `Holds` is the reference, a Q object as Django reads
it; `Matches` is the bool query of Elasticsearch. The clauses are taken to be
required together, since the templates they are put into are the subclasses'.

`SearchPages` is the state machine. What a condition becomes (`Query`) and whether a
document meets it (`Meets`) are its parameters, since what it does with a page does
not depend on them; `SearchClient` takes them from `SearchQuery`, whose recursive
operators the prover cannot use. `view` goes through `Open`, `Filter`, `Count` (the
view's own `count()` or `len()`), `ValidateNumber` and `GetItem` (the two calls of
the Paginator) to a page `served`, `missing`, `refused` by Elasticsearch (page 0
counted by the view itself) or `crashed` by an assertion or a missing key. The
result is an empty marker until `Load` has searched. A turn of the job's loop is one
`DeleteByQuery`: a batch of old documents, of which those that changed meanwhile
stay as conflicts. `DeleteFails` is a response with failures or none in time. `Log`
adds documents. What the repository does not hold is external: the Paginator, the
index, and who logs.

## 3. Runs

| run | instance | shows |
|---|---|---|
| `redis_commands` | 2 connections, 2 permits, 2 channels, ring of 2, every handler, 2 + 3 requests | permits, shutdown, reply order, counts, life of the data; delivery: order, confirmation before messages, losses |
| `redis_progress` | 2 connections, 2 permits, 1 channel, ring of 1, 2 + 2 requests, fair | a backlog drains, requests are answered, the shutdown ends |
| `redis_parse_error` | 2 connections, 1 permit, 2 channels, ring of 1 | violated: a parse error in a stream does not end the connection |
| `kv_client` | the two scripts of `bin/client.rs`, queue of 2, fair | atomic store, replies not crossed, `main()` proceeds |
| `kv_asserts` | the same | violated: the assertion on `"halo"` depends on the schedule |
| `timer_executor` | 3 tasks, 1 or 2 timers each, fair | no lost or double wake-up, no blocked send, the executor ends |
| `file_storage` | 3 savers of one path, 3 names, fair | a saved file is kept whole and unshared; every save ends |
| `directory_mode` | 2 savers, 2 directories | violated: a directory made under the other thread's umask |
| `group_formset` | 4 groups, 3 forms, 2 workers | what a request must be like to break the table or hang |
| `table_privilege` | 2 models, 1 field of either kind, 2 migrations, 4 operations | privileges follow tables, and what it takes to part them |
| `account_access` | 2 workers, 2 groups, 1 account | who loses a permission or a role and when a form is refused |
| `search_client` | 4 documents, pages and batches of 2, 2 filters, fair | what a search finds, whole pages, which pages crash, the end and the leftovers of the job |

Bounds. `MaxRequests` bounds what a client sends. In `redis_commands` three
publications overrun a ring of two, so that a lagged receiver has two messages it
could stop at and one it has lost, and the two requests of the other client are
every pair of those listed: to subscribe to two channels and unsubscribe one, to set
and get, to be rejected after either. Longer exchanges, such as subscribing again
after unsubscribing, and servers where one connection waits for the permit of
another are left to the proofs, which are for any number. A third `AcquirePermit`
finds no permit, and `ctrl-c` finds one held by the accept loop. `redis_progress`
has one channel and a ring that two publications overrun. The queue of the client
program holds 29 commands, which its eight never fill; two make it fill. Three tasks
with different numbers of timers let a thread, the executor and another thread meet
at the queue. Three savers of one path, with as many names, collide at the path
wanted and again at the alternative; one has no content at all.

Four groups are enough for three moved trees and one that stays, with which every
shape of the reordering occurs; fewer never tangle (`TangleTakesThree`). Requests
that overlap have at most three groups between them, and hierarchies are explored
with parents numbered above their children, which loses none up to renaming. Two
migrations of up to four operations in all make, rename and drop a table with a
many-to-many field and undo it; `MaxIrregular` allows one failing statement or one
migration that a process runs twice, since the properties are about what a single
irregularity costs. `Named` leaves one of the two models with default table names
only. With one name for fields a field cannot be renamed; with two the states are
too many, and a migration that renames a field is one that the properties leave out
(`Handled`). The proofs are for any set of names. Two groups, two names and two
permissions are enough for a group to take the former name of another. The `Bound`
of `AccountAccess` keeps administrators that overlap apart from the life of
accounts, which they do not touch: it is part of `Spec`, and a request of an account
never runs beside more than one pending form. Four documents make two pages, and
three old ones two batches, one of them not full; `First` nests conditions two deep
with each loss that `Parse` has. Page 2 (`MaxPage`) is there or missing with what
the filters find and the job has left.

Deadlock is checked in `account_access` and `search_client`. It is not elsewhere:
the other programs stop, wait for clients that have nothing more to say, or, in
`group_formset` and `table_privilege`, have used up their bounds.

Fairness. Calls of the operating system return, and a random token is free after
some tries (`Alternative` is the last of them). Tokio runs every task that can go
on, and threads run: weak fairness of each task's steps, of the accept loop and of
`main()`. Ends of writes are among a task's steps: a client is assumed to read, or
to close. Nothing obliges a client to send or close, or the operator to press
ctrl-c. Because the traffic is bounded, weak fairness of a task is enough although
`select!` may prefer one branch: each branch runs out of work.

The Django models have no fairness: nothing obliges an administrator to post or a
worker to end, and their properties are about what a step may do. In `search_client`
only the job's calls are fair: each has a timeout
(`client_query_django.py:256-257`).

Every property of a passing run has a mutant, a plausible bug of the definition
it names (the definitions marked `Bug:`), under which TLC finds it violated.

## 4. Proofs

`RedisServerProofs` proves, for any finite sets of connections and channels and
any bounds, with the assumptions of the modules (`CapacityAssumption`,
`AbsentAssumption`, `FiniteAssumption`, `BoundsAssumption`,
`RequestsAssumption`):

- `TypeCorrect`: `TypeOK` is inductive by itself; one lemma per group of actions.
- `PermitsAreConserved`: no strengthening is needed beyond types. `TasksFinite`
  makes the number of tasks meaningful; each action keeps the set of tasks
  (`TaskStepKeepsTasks`), adds one to it or removes one.
- `NobodyMissesShutdown`: `ShutdownReachesAll` is not inductive: before ctrl-c
  it says nothing. `SignalInv` adds that while the server accepts, every task in
  its loops is armed, which is why the order of `server.rs:51` and `:55` matters.
- `DataOutlives` (`WritesStay`): `RefsInv` says that the reference count is that of
  the handles there are, server_start's and one of each task, half dropped ones
  included. So who reads a count of 1 is the last (`LastHandle`), and once nobody
  may ask for a key, nobody will again (`UseEnds`); until then a key that was set
  stays set (`KeysStay`).
- `EndAfterTasks`: `EndMeansDrained` from the conservation of permits, since
  `main()` leaves its loop only when all of them are free.
- `MessagesInOrder`: `DeliveredInOrder` speaks of what is already on the wire, so
  the induction needs `CursorInv`: a receiver is at least as far as every message
  it gave, the one being written included, and no further than its channel.
  `QuietStep` covers all steps that only move receivers and channels forward;
  `Deliver`, which hands over a newer message than any before (`NextIsNew`), and
  `FlushFrame` have lemmas of their own. Subscribing again is harmless because a
  new receiver starts at the tail.
- `NothingKeptIsSkipped` (`SkipsOnlyOverwritten`): `PollMoves` shows that of all
  steps only a delivery moves a receiver that stays; where it stops is the next
  message or, after an overrun, `tail - Capacity + 1`, and either is the oldest
  one waiting.
- `RepliesInOrder`: `AnswersInOrder` compares the wire with the requests, but a
  reply is for some steps neither read nor sent; `AnswerInv` follows it: until a
  connection has read a SUBSCRIBE, the frames on its wire and the one in hand are
  as many as the requests read (`CountInv`), each answers its request (`SentInv`,
  `InHandInv`), and `SubscribeInv` says that the first SUBSCRIBE comes after no
  more frames than requests. `ReadStep`, `WrittenStep` and `SentRequestStep` are
  the three ways to disturb it.
- `OnlyWhileSubscribed` and `CountsAreRight` relate the stream map of the task to
  what the client can tell from the wire. By `ReceiverInv` a channel in the map is
  confirmed on the wire, or its confirmation is just being written; `WritingInv`
  says the same for the message in hand. For the counts (`Matches`), the map must
  be what the client believes to hold once it has the frame in hand. A parse error
  in a stream destroys that (it empties the map without a reply), so the claim and
  its invariant are about connections that have not met one.

`KvClientProofs` proves the whole of the client's safety for any scripts, tasks and
capacity of the queue (`KvAssumption`). `Inv` says what the queue owes to whom:
a waiting task waits for the last command it sent, a GET, and an answer it has is
that of the store as the GET found it, or a failure when the server is down
(`WaitersInv`); a GET not yet answered is waited for (`PendingInv`); nobody else
has an answer (`ReplyInv`); a manager that is not connected has taken nothing
(`ManagerInv`); and the server's store is what the commands already handled have
left (`StoreInv`). `AtomicStore` is the refinement: `SendRefines` maps
an accepted command to the abstract SET or GET, `TaskRefines` a received answer
to the abstract answer, and `ManagerRefines` the manager's steps to stutters,
which rests on `LastWriteAppend`: what a prefix of the queue leaves in a key does
not depend on what follows. That a last write exists is proved from the
well-foundedness of the naturals, because `LastWrite` chooses it.

`PrivateKeysRead` is about any scripts that assert, of a key no other task writes,
what they last wrote to it themselves (`ScriptAssumption`; the assertions of
`bin/client.rs:87-104` do, but for that on `"halo"`, a key both tasks write, which
the assumption leaves free). `OwnInv` ties the queue to the script: what a prefix
of `accepted` leaves in such a key is what as much of the script leaves in it, so
that the GET in the queue finds the value its task expects. It holds while the
server runs; without it every GET fails.

`TimerExecutorProofs` proves the four invariants of the run, for any finite set of
tasks, any number of timers (`TimersAssumption`) and any queue that can hold the
tasks (`QueueAssumption`; `NoneAssumption` keeps "no task" apart). None is
inductive: that a task in the queue has its future depends on who else might wake
it. `IInv` says where a task's one wake-up is in each state of its timer, and that
the future is in its slot exactly when the executor does not work on the task and
the task has not returned; one lemma per group of actions. `EachTaskHasOneWakeUp`,
`FutureIsFound` and `NoTaskIsAbandoned` follow state by state. For `NoSendBlocks`
the queue is an injection into the tasks without the sender's own, so it is shorter
than `Cardinality(Tasks)`.

`FileStorageProofs` proves `SavedFilesAreKept` for any savers, names and contents
(`StorageAssumption`, `NoneAssumption`). `SaverInv` adds where a saver stands: it
writes only through a handle of a file of its own, of which it has written
`nwritten` chunks, and before `Open` it has none; `AppendChunk` is the lemma about
the growing file.

`GroupFormsetProofs` is about hierarchies and requests of any size
(`BoundsAssumption`). `Faithful` says what `PathsOf` computes, without recursion:
a row of length `n + 1` above a group is a row of length `n` above its parent.
The paths of a hierarchy are such a table (`PathsAreFaithful`), and the only one
(`FaithfulTablesAgree`).

- `InsertLeafKeepsFaithful`: inserting a group under any parent keeps that.
  `OnlyUpdatesBreak`: so does a whole insertion, because the order of its forms
  saves a group under one that has its number already (`SavedUnderEarlier`).
- `OnlyMovedTreesAreEdited`: from such a table an update edits just the groups
  whose parent it changes, since the query finds each group's parent
  (`ParentIsRead`).
- `AcceptedUpdatesEnd` (`OnlyUncheckedSpins`): what the validators are taken to
  accept (their classes are not in the repository) are requests after which
  following parents ends, when the ids posted are those of the groups. So each group has a rank
  (`AcyclicRank`) and a moved tree waits only for trees above it (`DependencyIs`):
  sorting by rank is an order (`SortedOrderExists`, `OrdersExist`) and
  `_reorder_edit_tree` has somewhere to go on.
- `TangledPlansMoveThree` (`TangleTakesThree`): if a tree `h` that is moved stays
  among what another moved tree `g` takes along, then what `h` waits for is a
  third moved tree: it is not `g`, or `h` would have been taken out, and it is not
  `h` (`TangledByThree`).
- `OtherUpdatesKeepTheTable` (`OnlyUncheckedOrTangledBreaks`): what an update writes,
  unless it is stale, mismatched or tangled, are just the paths of the new hierarchy `H`.
  - *Paths.* A hierarchy without a cycle has at most one path between two groups
    (`Tree`, `OneDistance`). Let `g` be the nearest moved tree above `d`, or `d`
    itself: up to `g` the paths to `d` are the old ones, and beyond it those of
    `g` (`MovedPaths`); without such a tree all are (`StillPaths`).
  - *Plan.* `NewAncestorsAre`: what `_construct_edit_ancestors` joins from the old
    table and from the trees placed before is the list of the ancestors in `H`.
    `NewDescendantsAre`: in a plan that is not tangled, a moved tree keeps just the
    groups that it is the nearest moved tree of, so no two trees write the same path
    and none is missed (`TargetsAre`, `OldRowsAre`).
  - *Writing.* Rows go into slots, first the tree's old ones, then those left by
    earlier trees, then new ones; `SlotsAre` proves that no slot is used twice.
    `PathsWritten` follows one tree's rows through them, `TreeWritten` turns slots
    back into rows (`Holds`), and `PlanWritten` goes over the trees.
    `NotFewer` covers what the code relies on without saying so: old rows that are
    left over are deleted only if the tree has fewer ancestors than before, and
    otherwise there are none.

All but the first two speak of a request while its table has not changed under it,
which is `FormsetInv`: a request in progress that is neither stale nor mismatched
was validated (`Validated`) and planned (`Planned`) from the table as it is, and
every commit of another worker makes it stale (`CommitKeeps`, `OneRequestChanges`).

`TablePrivilegeProofs` proves the three properties of `TablePrivilege` for any
models, fields and migrations, and for any number of ways up and down them
(`NamesAssumption`, `BoundsAssumption`). `PrivilegeInv` speaks of the middle of a
migration too, when the schema and the privileges are apart: the tables that the
user should have (`Due`) are then those that both ends have in common, and those
on which `Due` and `grants` disagree (`Wrong`) are none, or one after a fault. It
holds on to the flag as well: between the two ends it is cleared, and a fresh one
comes with the names of the code (`FirstRunInv`), or the handler at the other end
would revoke what it has to grant. The proof has three layers.

- *States.* The operations of a migration leave a trace (`TracedIs`): what
  became of a model or a field follows from what was done to it. Names are told
  apart (`NamesApart`, `FieldNameApart`, `FieldNamesApart`). Hence `TablesDiffer`:
  the tables afterwards are those before without the old ones (`IsOld`: dropped,
  renamed) and with the new ones (`IsNew`), and new and old do not meet. It needs
  what `Handled` asks for, and shows that no more is needed.
- *Statements.* A handler has a statement for each new table
  (`GrantStatementsAre`) or for each old one (`RevokeStatementsAre`), whatever
  order the lists are built in, and executing them grants or revokes just these,
  but for one table when one fails (`Granting`, `Revoking`, `Becomes`).
- *Steps.* One lemma per action. `GrantsFollow` is common to the handlers: what
  they leave is wrong where it was before, or at the statement that failed.
  For `NobodyLockedOut` the invariant has a second half, about migrations that
  are handled and make no many-to-many field (`Simple`, `NoFieldsChain`): one that
  a process runs again grants at both ends (`NotRevoking`, `GrantsOldAtMost`). It
  needs `Handled` too: an ordinary field added and removed by one migration makes
  the lookup raise what is not caught.

`AccountAccessProofs` proves the five properties of the run for any workers,
accounts, names, permissions and any number of forms in a request
(`GroupsAssumption`: no group is called what an absent mirror is, and a group may
have no permissions). A transaction folds `SaveForm` over its forms; `SavedIs`
turns the fold into a recursive function, and `DoneUpto` says what its first `i`
forms have done: every group they name is as they ask, every other as it was
(`OneMoreForm`, `SavedDoes`). `DistinctNamesSave` says when none of them fails.
`AInv` has `GroupsInv`, for the tables and for the requests: one that was not
overtaken still has the permissions it was shown. `AccessInv` says that a request
in progress is of an account that was active.

`SearchPagesProofs` proves, for any documents, any meaning of the conditions, any
size of pages and batches (`SizesAssumption`):

- `PagesServed` (`OnlyOddPagesCrash`) and `PagesFull` (`PageIsOfOneSearch`) by
  `ViewInv`: in every phase the result is unloaded or what one search of the
  page asked for gave (`IsResult`), and the number the Paginator has accepted is
  within the pages of that result's total (`NumberedInv`). `PagesAre` and
  `RangeIs` are the arithmetic of the last page.
- `LeftoversReported` (`LeftoverOnlyByConflict`) by `JobInv`: an index the job has
  gone on from holds old documents only if its last batch met conflicts. Nothing
  adds an old document (`OldOnlyGo`).

Only model-checked:

- liveness under fairness (`ShutdownCompletes`, `BacklogDrains`,
  `RequestsAnswered`, `MainProceeds`, `RunEnds`, `SavesEnd`, `JobEnds`), which
  the prover does not do;
- `FiltersAnswered` of `SearchClient`: conditions are trees of any depth, read by
  recursive operators.

## 5. Findings

- `parse.rs:19-21` says that a parse error terminates the connection. In a
  stream it only ends the subscriptions, without a reply.
- `bin/client.rs:91` asserts a value that the other task may have overwritten.
- `storage.py:254-262` resets the process's umask around `makedirs`; two threads
  that do so at once make a directory whose mode is filtered after all.

The models also show, without a statement in the repository to set against it:

- Moving three groups in one request can leave paths in the closure table twice.
  When a moved tree `k2` was below a moved tree `k`, a third tree `k3` is put
  under `k` and `k2` under `k3`, the subtree of `k2` stays among what `k` takes
  along (`Tangled`; `formsets__deprecated.py:541` means to take it out).
- Validation and planning read the table outside the transaction. Two requests
  that overlap can make a cycle, or a wrong table, and the reordering loop of the
  one that is overtaken can run for ever (`OnlyUncheckedSpins`).
- A form of an edit is judged by the `id` it was posted with and saved to the group
  that the URL gives it. A request in which these differ passes the validators and
  can do the same as an overtaken one, with nothing running beside it.
- Only default table names follow a many-to-many field: one with a `db_table` is
  granted under another name, one of a renamed model loses its privileges, and
  those of a dropped model stay in MySQL. The renaming of models and fields is not
  looked at. A migration that adds and removes one field, of whatever kind, raises
  `FieldDoesNotExist` at one end, which is logged and leaves `_first_run` set, so
  that the other end revokes again instead of granting (`Handled` lists the
  conditions). A process that runs a migration a second time grants but does not revoke.
- The mirror of a renamed group keeps its first name, so that another group
  cannot take that name with permissions, and the request is refused with all
  its forms (`OnlyRenamedRefuses`).
- Permissions are compared with what they were when the form was posted: an
  overtaken form is skipped or refused (`OnlyOvertakenMisses`). Emptying a group
  of permissions takes it from its accounts, and filling it again does not give
  it back (`RolesLostOnlyByEmptying`).
- A search that finds nothing crashes: `filter_path` drops the empty list that
  `client_query_django.py:74` reads, though line 81 expects that. So does a page
  that is written as `last` or with a space, unless it is the first
  (`OnlyOddPagesCrash`).
- A negated Q object is searched for as if it were not negated, and a lookup that
  `lookup_map` lacks is dropped: it widens a conjunction and narrows a
  disjunction (`FiltersAnswered` says what is left).
- A batch of which every document has changed ends the cleaning of its index
  (`LeftoverOnlyByConflict`).

Noticed, not modelled: `client_query_django.py` uses `_logger`, `timedelta`, `date`
and `time` without importing or defining them (lines 60, 142, 230-233), so that as
committed slicing, filtering and the job raise `NameError`; the model takes them for
a logger and the classes of `datetime`. `get_subscribed`
(`clients/client.rs:140-142`) is said to return the channels currently subscribed
to; the list behind it only grows. In `formsets__deprecated.py` the list of old
paths is not cleared after a `ValueError`.

## 6. Not modelled

- The client library's `subscribe`, `unsubscribe` and message stream, and the
  subscribers of `bin/client.rs`: scripts without properties of their own; what
  the server does with such clients is in `RedisServer`, for any client.
- The byte format of frames and partial reads (`frame.rs`, `connection.rs`): one
  task owns the buffer, so it is a function of the bytes, and unit tests reach it.
- Mutex poisoning: nothing panics while a lock is held.
- The transcoder: when a packet, frame or segment is complete is decided inside
  libavformat and libavcodec, which are not in the repository, and any model of
  them would decide the result.
- libuv: each program shows one call of the library, whose event loop orders
  the callbacks.
- In the file storage, moving a temporary file (`util_os.safe_file_move` is not in
  the repository), `open()`, the closing of opened files, and the errors of
  `makedirs`, which end a save before it has made a file.
- In `migrations.py`, several database users, the assertions on settings when the
  module is loaded, and a crash inside a migration (MySQL cannot roll back its
  schema changes, so what remains is up to Django).
- In the group pages, deleting (the cascade is in models that are not in the
  repository), and the profile forms and pages; a request about a group deleted
  meanwhile.
- In the authentication, the cookies with JSON web tokens (their keystore is not
  in the repository), more than one backend, permissions of single users, signals.
- In the search client, the subclasses that edit the templates and the keyword
  conditions that are theirs, pages written with digits that `isdigit()` accepts and
  `int()` refuses (superscripts), the order of the hits, and the totals the job adds
  up for its response.
- Alembic, Kombu, OpenSSL, the small scripts: sequences of library
  calls; their state is the broker's, the database's or the server's.
- The exercises of the Rust book, the FFI sample, Lua and shell files: no state
  beyond one function, or configuration.
