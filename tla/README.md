# Dactyl in TLA+

Dactyl (`dactyl-db`) is a small database facade in Rust: one `Connection` that
forwards to a local SQLite adapter, to a Neon HTTP adapter or to a Supabase HTTP
adapter. Almost all of its own logic is in the SQLite adapter: atomic batches,
online backup, and the recovery of a damaged database by dump and reload, which
moves files of other people's data around in a directory it does not own. That
is where this project starts.

Paths below are relative to the repository.

## 1. Inventory

| Component | State it keeps | Operations | Talks to |
|---|---|---|---|
| Dump-reload recovery, `src/adapter/sqlite/recovery.rs` | the private staging directory, the identities (device, inode) of the files it knows, the list of moves to undo; the adapter's handle | `recover`: inspect, stage, rebuild, archive, activate, reopen, and on failure quarantine and roll back | the database directory (shared with anybody), SQLite |
| Logical rebuild, same file, `rebuild_database` | the new database, the cursor over the old one | copy tables, rows, `sqlite_sequence`, indexes, views, triggers; validate | two SQLite connections |
| Statements and batches, `src/adapter/sqlite/mod.rs` | one handle, its open transaction, `last_insert_rowid` | `read`, `write`, `atomic` | SQLite, and through it every other connection to the file |
| Online backup, same file | temporary file, backup handle, deadline | `backup_database`, `perform_backup`, `publish_temp_file` | the live source, the destination directory |
| Opening and registry, same file | process-wide count of open connections per path | `open_with_options`, `Drop`, the guard of recovery | all connections of the process |
| Neon transport, `src/adapter/neon/mod.rs` | none between requests | `read`, `write`, `atomic`, `health` | an HTTP service |
| Supabase transport, `src/adapter/supabase.rs` | none between requests | the same | an HTTP service |
| Facade and routing, `src/lib.rs`, `src/adapter/mod.rs` | the boxed adapter | `open_*`, `from_env`, forwarding | environment, adapters |
| Values and rows, `src/rows.rs` | none | conversions of parameters and cells | all adapters |
| Schema inspection, `src/schema.rs` and `adapter/sqlite/mod.rs` | none | catalog queries | SQLite |
| Contract and errors, `src/contract.rs`, `src/error.rs` | none | data types, `is_retryable` | everything |
| Library loader, `src/adapter/sqlite/ffi.rs` | the loaded symbols | `dlopen` | SQLite |

What makes each correct, and what is hard about it:

* **Recovery.** The original is never lost, at any moment and after any crash;
  nobody else's file is replaced; `Ok` means the rebuilt database is active and
  the original archived; a plain error means the original is back. Hard: every
  system call may fail after others took effect; other processes create and
  exchange directory entries between any two calls; a power loss takes back
  renames that were not synced, in any combination.
* **Rebuild.** Same rows, objects and counters as the source. Hard: what SQLite
  does by itself on an insert (triggers, foreign keys, the sequence table) makes
  the order of the phases matter.
* **Batches.** All or nothing, as the outcome says; no transaction outlives its
  call; every call returns. Hard: other writers, SQLite ending a transaction by
  itself, which operations get a transaction at all, a query that fails after its
  effect, and two numbers per connection that outlive the statement they are about.
* **Backup.** What is published is one consistent, durable snapshot; existing
  files are conflicts. Hard: the source is written while it is copied, two
  backups race for a name, a sync fails after the publication.
* **Registry.** Recovery refuses a database that has another connection in the
  process. Hard: the guard is not held while recovery runs, the key of a path
  depends on whether the file exists, a handle is open before it is registered
  and after it is unregistered.
* **Transports.** An error says whether the work may have been done. Hard: lost
  and late answers, retries.
* **Values.** A value comes back as the value it was, or as an error. Hard: up to
  seven conversions follow one another, each with kinds and numbers of its own
  (widths, column affinities, what JSON has no form for).
* **Schema inspection.** The description is one the database once had. Hard: it is
  put together from many statements, between which other connections commit.

`PROJECT.json` lists the hazards, each at its line, with the properties about it.

## 2. Modules

```
Directory      names, inodes, rename: shared by the two file-moving modules
Custody        abstract: where the original database is, and what each outcome says of it
Recovery       recover() in full, the directory and its other users      implements Custody
RecoveryProofs the theorems about Recovery, with the refinement of Custody
Rebuild        rebuild_database(), which Recovery takes as one step
RebuildProofs  the theorems about Rebuild
Store          abstract: every call takes effect in one step or not at all
Batch          read(), write(), atomic() on several connections          implements Store
BatchProofs    the theorems about Batch
OnlineBackup   backup() by several callers, with the source being written
BackupProofs   the theorems about OnlineBackup
Delivery       abstract: what the outcome of a remote call says of its work
Transport      read(), write(), atomic() of Neon and Supabase, and retries    implements Delivery
TransportProofs the theorems about Transport
Registry       opening, dropping and recovering connections of one process
RegistryProofs the theorems about Registry
Values         the way of one value from a caller through columns, rebuilds and wires
ValuesProofs   the theorems about Values
Catalog        inspect_schema() while other connections commit
CatalogProofs  the theorems about Catalog
```

The constants of a run are in its `MC*.cfg`. A module is run directly by TLC, or
through an `MC*` module that adds a symmetry set (`MCRegistry`, `MCCatalog`).
A module states a type invariant where a proof starts from it, or where a type
says something by itself (in Batch: one write transaction at a time). In the others
every property relates states, and a value out of its type fails one of them.
Some definitions have a second one next to them with a name such as
`SkipSync`, `RollbackForgotten` or `UniqueColumnsAny`: those are plausible bugs.
Nothing in the specifications uses them. `PROJECT.json` pairs each with the
property that fails when it takes the place of the correct definition.

### Directory, and what a power loss does

A directory is a function from names to inodes. Names are not strings: suffix 0
is the database file and suffixes 1..N its sidecars, at the active path
(`Source(i)`) and at the archive path (`Archive(i)`), plus the two names in the
staging directory. Each original file, the rebuilt file and each file of another
writer is an inode of its own, which is what `(dev, ino)` identities tell apart.

`dir` is what running programs see. `images` is the set of directories a power
loss may leave: each change since the last directory sync was applied to some of
them and not to others, and a completed sync makes `dir` the only one. A change
is applied to an older image in the form it has there (`Bind` where the name is
free, `Rename` of what is there), so any subset of the unsynced changes may be
missing. A sync that reports an error may have done its work or not; the model
keeps the older images, which contain the newer.

### Recovery

One call. `pc` is the phase, `slot` the index of the archive or restore loop,
`step` the position inside `move_noreplace`, which is three separate actions
(`Pick`: identity check, `RenameNoReplace`: `renameat2`, `ConfirmMove`: second
identity check), so other writers act between them. `moved` is the code's
`Vec` of moves to undo.

| Action | Code in `recovery.rs` |
|---|---|
| `Inspect` | the checks before anything is created, as one step |
| `CreateStage`, `DropStage` | `Stage::create`, `Drop for Stage` |
| `BeginExclusive`, `RebuildDatabase`, `RollbackSnapshot` | the snapshot transaction |
| `PrepareRebuilt`, `CloseOriginal`, `RecheckArchive` | mode and sync, close, the repeated existence check |
| `ArchiveNext`, `SyncArchive`, `CheckCleared` | the archive loop and what follows it |
| `ActivateRebuilt`, `SyncActivated`, `ReopenRebuilt` | activation |
| `Restrict`, `Quarantine`, `SyncQuarantine` | `Stage::quarantine` |
| `RestoreNext`, `CheckRestored`, `ReopenOriginal` | `rollback_original` |

Every fallible call has a failing branch: it fails where its condition does not
hold, or by an I/O error of its own, of which there are `MaxFaults`.
`ForeignCreate` and `ForeignReplace` are the other writers. They create entries
or exchange one for their own; they do not delete. `Crash` ends the process, with
or without the power, at every point.

`DatabaseWhole` relates the main file to its journals until the call returns: while the
main file is active, every sidecar that survived is beside it, however far archiving
or rolling back has come, since SQLite reads a database without its `-wal` or
`-journal` as another one. That is why the main file is archived first and restored
last. The exception is in the code: a sidecar whose move took place but could not be
confirmed is not in `moved`, so rollback leaves it in the archive and puts the main
file back (`LeftInArchive`, `recovery.rs:457`). In the other direction nothing is
promised: a rollback that stops part of the way, because a name was taken or a call
failed, returns `RecoveryRollbackFailed` with the main file in the archive and
sidecars it had already moved at the active path; the comment at `recovery.rs:536`
("On collision the archived original remains intact") is right about the main file
only.

`IntruderNoticed` says what other writers can not achieve: a file of theirs at the
active path, or a sidecar they create there during archiving, ends in an error. The
sidecar that appears between the last check (`recovery.rs:470`) and the activation is
the one that goes unnoticed.

### Rebuild

The source is a choice of rows, AUTOINCREMENT counters, indexes (some of them
UNIQUE and violated by the rows, the damage recovery exists for), insert
triggers and foreign keys. `EXCLUSIVE` keeps it unchanged. The module models what
SQLite does on an insert, since the point of the order of phases is that
it should not happen.

### Batch

The database is a set of keys; a statement is a verb and a key, a `CREATE` claims
a name the way an insert claims a key. `txn` holds the connections inside `BEGIN
IMMEDIATE`, `working` what they see. A batch is chosen while it runs, except for
whether it has a mutating operation, which `atomic` looks at first. `outcome` is
the return made by the last step, so that the refinement to `Store` ties each
return to the effect of the very same step.

`rowid` and `changes` are the two numbers SQLite keeps per connection,
`last_insert_rowid` and `changes64`, and `result` is what `execute_write` made of
them in the last step. Both outlive the statement they are about, so `ResultsTrue`
says how far a result can be trusted. A count is that of its statement, except for a
`CREATE` or a query run by `write`, which report what an earlier statement changed
(`mod.rs:816`). An SQL that starts with INSERT and inserts a row with a rowid reports
the key of that row. But `execute_write` reports `last_insert_rowid` for any SQL that
starts with INSERT (`mod.rs:805`), also when the statement did not set it, and then
the key is that of an earlier statement of the connection:

| Statement | Verb | What is reported |
|---|---|---|
| `INSERT OR IGNORE` that inserts nothing | `ignore` | 0 rows, an earlier key |
| `INSERT ... ON CONFLICT DO UPDATE` that updates | `upsert` | 1 row, an earlier key |
| `INSERT` into a `WITHOUT ROWID` table | `bare` | 1 row, an earlier key |
| `WITH ... INSERT` | `with` | 1 row, no key |

The first three are not what `contract.rs:133` says ("A generated key explicitly
returned by a write, never an ambient handle"); after an upsert a caller cannot tell
from the result which of the two keys it got.

`query_rows` steps a statement before it converts the cells of the row (`mod.rs:835`),
and SQLite makes all changes of a statement with RETURNING in its first step. A cell
that does not convert (a non-finite REAL, text that is not UTF-8) makes the call fail
with an error of kind `Value` after the change (`PerformUnread`): inside a mutating
batch it is rolled back, outside a transaction it is committed when the statement is
finalized. So `read("insert ... returning ...")` can return `Err` with its row stored.
The outcome is called `unread`, and `Store` says of it that the change may or may not
have happened; every other error means that it did not.

A batch of `Read` operations has no transaction. The refinement to `Store` says
what it is instead: as many single statements as it has operations. A
`WITH ... INSERT` passes for a read (`IsQuery`), so what it inserted stays when a
later operation of the batch fails, or its own rows cannot be converted, against
`README.md:23-24` ("all-or-nothing batch", "a failed batch persists nothing").

### OnlineBackup

The source is the number of its last commit, and a commit may change every
chunk: a copy is a snapshot exactly when all its chunks come from one commit.
`sqlite3_backup_step` starts over when the source was written in between.

### Transport

One caller with a connection of either route and mode makes one call, `read` or
`write` (a request to `/query` with one operation) or `atomic` (to `/batch`), and
makes it again as long as the error is one `is_retryable` names. `Checks` is the
order in which each adapter looks at a call before it sends it; Supabase looks at
the context when it opens. `Decoded` is `decode_response`, `remote_error`,
`rows_from_response` and the result count of each adapter, with one member of
`Answers` for each answer that is treated differently. The service, the network
and gateways are the environment: a request may be executed long after its call
returned, during a later attempt; an answer may be lost, malformed, come from a
gateway, or stop in the middle of its body. The service is trusted to keep its
side of `docs/supabase-service.md`: one transaction per request, the access mode
of the message enforced, the kind of each operation enforced in a Supabase batch,
and no code sent for work that was done. A Neon service is only trusted with the
access mode.

What parameters and rows become on the way is in Values; Transport has an answer
that can be decoded and one that can not.

`Delivery` says what an outcome tells a caller. `Definite` lists the error kinds
that promise that nothing happened and nothing will; of the others nothing is
said, as `docs/supabase-service.md:64` has it of failed mutations.

### Registry

The connections of one process to one path, each owned by a thread. They share the
counts of `OPEN_CONNECTIONS`, the directory entry of the path, and no lock that is
held over more than one action.

| Action | Code |
|---|---|
| `OpenHandle`, `OpenFails`, `Register`, `Identify` | `open_with_options`: the handle is opened and configured, then counted, then its identity taken by path |
| `Unregister`, `CloseHandle` | `Drop` of the adapter, then of the handle inside it |
| `Guard` | the access mode and `has_other_connection` |
| `Inspect` ... `Undo`, `Restore` | `recover`, each phase as what it does to the path and to the handle |
| `Replace` | another program |

`path_key` canonicalises the path at every call, which works only as long as there
is a file; so a path has two spellings, and `PathKey` depends on `file`. The
history variables name the ways in which the guard, which is not held, can be
right when it is asked and wrong afterwards:

* `late`: handles that were open but not counted when a guard was asked, or that
  were opened while a recovery ran. They go on working on the archived file
  (`OrphansWereLate` says that no other handle does).
* `straddled`: adapters whose path changed hands between opening the handle and
  taking the identity. Such an adapter copies one file and archives another, although
  `docs/sqlite-recovery.md:70` speaks of "the opened source inode".
* `strayed`: an alias was looked up while a recovery had the file away; the
  connection is then counted under a key nobody else asks for, and for ever.

A read-write open that comes while the file is in the archive makes an empty file
at the path. Activation and rollback both find the name taken and give up; the
original stays in the archive (`Blocked`).

A recovery moves back only what it recorded (`Restore`). If the very first move of
the archive loop fails there is nothing recorded, and rollback (`Undo`) reopens
whatever is at the path by then; it does not touch the file that an earlier recovery
has left in the archive.

### Values

One value, from a caller or from a foreign JSON message, on its way: `Accept`
(`From` and `Deserialize` for `Parameter`), `Send` (as it is, or over JSON to a
service), `Store` (`bind_all` and the affinity of the column), `Copy` (one row of a
rebuild, reading by `Statement::value` and binding `parameter_from_value`), `Read`
(a row of a local query, or of `rows_from_response`), and then the getters and the
lookup by name. A value is a kind and a number, and every conversion is an operator
from values to values. Widths are constants: integers are `-Top .. Top - 1`, a real
keeps integers exactly up to `Exact`.

The exceptions in the properties are what the code does with the rest:

* an unsigned integer above `i64::MAX` turns negative (`as i64`, `rows.rs:143`);
* for an empty BLOB SQLite returns a null pointer, of which a slice is made:
  undefined behaviour, an abort in a build that checks (`mod.rs:1008`);
* an infinity that SQLite has stored has no JSON form, and text that is not UTF-8
  no `String`: such a row can neither be read nor rebuilt;
* over JSON a double with many digits may arrive as the one next to it
  (`serde_json` without `float_roundtrip`), and NaN and the infinities arrive as
  NULL on Neon, while Supabase refuses them before sending;
* a row of Neon is a JSON object: of two equal names the last is kept, and without
  a list of columns they come in the order of their names.

### Catalog

`inspect_schema` on a local database: one action per query, in their order
(`ListTables`, then per table `ListIndexes`, `InspectIndex` for each,
`InspectColumns`, `InspectKeys`, `CountRows`), and commits of other connections
between any two. `index_info` asks by a name that may have come to mean another
index meanwhile. An expression has no name and is left out of an index's columns,
so a UNIQUE index on an expression and one column makes that column unique in the
description (`UniqueWasSo` says it that way); an index whose name was used again can
get the flag of one and the columns of the other. A table that was dropped after it
was listed makes the whole call fail, at the count.

## 3. Runs

| Run | Bounds | What it shows |
|---|---|---|
| `recovery` | 3 sidecars, 2 failing calls, 1 entry created by another writer | the original is always reachable (`OriginalNeverLost`), activation never precedes durability, `Ok` and `Err` mean what they say, main file and journals stay together (`DatabaseWhole`), no entry is destroyed, the call returns, `Custody` is implemented |
| `recovery_writers` | 2 sidecars, 1 failing call, 1 created and 1 exchanged entry | with identities changing under every check, the original is still never lost, by the inductive invariant of the proof (`CustodyInv`), and neither an intruder's file nor its sidecar becomes part of a successful recovery |
| `rebuild` | 2 tables, 2 keys, 1 failing call, every source | a rebuild that succeeds is faithful; one succeeds whenever nothing fails and no UNIQUE index is violated |
| `batch` | 2 connections, 2 keys, 8 verbs, 2 operations, 1 failing call, unreadable rows anywhere | mutating batches are atomic and single statements are, except queries answered `unread` (`ImplementsStore`), no transaction is left open, results are about their own statement as far as `ResultsTrue` says, every call returns |
| `backup` | 2 calls, 1 or 2 destinations, 2 chunks, 1 commit, 1 failing call | what is published is a whole durable snapshot, earlier files are kept, returns tell the truth, calls end |
| `transport` | 2 attempts, batches of up to 2 operations, every kind of operation, both routes and modes | outcomes never deny work that is or will be done and work happens once and as a whole (`ImplementsDelivery`), a caller that retries retryable errors doubles its work only after Timeout or Unavailable, reads change nothing where the adapter promises it, every call returns |
| `registry` | 2 connections, 2 spellings, 2 recoveries, 1 exchanged file, 2 failing calls | counts are exact and the guard tells the truth while no alias strays, recoveries never overlap, what is archived is what was copied, only late handles are orphaned |
| `values` | 4-bit integers, reals exact to 4, blobs of one byte, rows of 2 columns, 2 rebuilds, every kind, route and affinity | no value comes back as another one, a declared column gives it back, rebuilds are exact, parameters arrive, lookups find the right cell |
| `catalog` | 2 tables, 2 index names, 4 kinds of index, 2 commits during the call, every initial schema of these | a table described without disturbance is described truly, columns are unique only if an index said so, no table is forgotten |

Three runs each state something the repository's own text says and find that
the code does not do it:

| Run | Text | What happens |
|---|---|---|
| `rebuild_sequence` | "restores ... `sqlite_sequence`" | the copied counter is a second entry that SQLite does not consult: keys of deleted rows are given out again |
| `rebuild_names` | "rebuilds a new database from schema and table data" | a user table named like `sqlitedata` matches `LIKE 'sqlite_%'` and is left out |
| `backup_shared` | "an operator never loses a prior backup implicitly" | two calls both find the destination free; the second rename replaces the first backup |

Other places where the code does not do what a text says are exceptions of passing
properties, described with their modules in section 2: the collision during rollback
(Recovery), the batch of reads, the query that fails after its effect and the
generated key that is an earlier statement's (Batch), the identity taken late
(Registry).

### Why the bounds are enough

* Recovery handles sidecars in one loop and only tells the main file from the
  rest: three sidecars give a first, a middle and a last one. Two failing calls
  are needed for a failure inside the handling of a failure (rollback,
  quarantine, sync and reopen after it); a third could only fail a phase that
  already gives up. One foreign entry can collide with any one move in either
  direction; with exchanges the state space multiplies, so that run has two
  sidecars and one failing call.
* Two tables are enough for a parent and a child, for a trigger of one writing to
  the other, and for order by name against order by dependency. One failing call
  ends a rebuild.
* Two connections contend for the one write lock; two operations let the second
  fail after the first took effect; the one failing call lands on `BEGIN`, on an
  operation, or on `COMMIT`. Rows that cannot be converted are data and not a
  failing call, so they are not bounded. Two keys make a row and the row whose key
  is still the connection's last one.
* Two operations give a batch with a read and a write, and one whose second
  operation fails a check; a second attempt is what a late request of the first
  can overtake or double. A third attempt would only double again.
* Two chunks let a commit fall between them; two calls and two destinations
  cover sharing a name and not sharing it.
* In Registry one connection recovers while the other opens, drops or tries to
  recover; the second recovery can come after the first or want to overlap it, the
  exchanged file can fall between any two phases, and the second failing call lets a
  failure meet a path that an earlier one left blocked. The connections are
  interchangeable and all properties are safety, so symmetry is sound.
* Four bits give the integers a minimum, a maximum and unsigned values above it;
  reals that are exact up to 4 round above, as doubles do above 2^53. A second
  rebuild tells a copy that is exact from one that settles. Two columns are enough
  for equal names and for names out of order.
* Two commits make an index name mean something else (dropped and created again) or
  drop a table after it was listed; a second table lets the commits fall while
  another table is described. Index names are interchangeable.

### Fairness

Only the thread that made a call is assumed to keep running (weak fairness of its
own steps). Nothing is assumed of other writers, of locks being freed, or of
anybody making a call. Waiting is bounded by the code: SQLite's busy timeout ends
`BEGIN IMMEDIATE`, and `perform_backup` has a deadline for BUSY and LOCKED. The
deadline does not cover starting over after a write to the source: `CallsEnd`
relies on the number of commits being bounded (`MaxCommits`), and for a source
written between all steps nothing in the code makes a backup end.

Registry, Values and Catalog state safety only and assume no fairness: their
operations are straight lines of calls into SQLite and the file system.

A remote call relies on the deadlines of its HTTP client: 15 seconds for Supabase
(`REQUEST_TIMEOUT`), the library's default for Neon. On Supabase the body is read
piece by piece and the deadline is one of each piece, so a body that keeps
arriving is ended by the limit of 4 MiB and not by the clock. Nothing is assumed of
the service.

## 4. Proofs

Every theorem is about all values of the constants: nothing is assumed of them but
the `ASSUME` of the component's module, except where said below. The provers check
all of it; there is no step taken on trust.

### Recovery: RecoveryProofs

For every number of sidecars and every bound on failures and other writers, from
`ConstantsAssumption`: the four constants are natural numbers.

* `TypeCorrect`: `Spec => []TypeOK`. `TypeOK` is inductive as it stands because
  it carries the ranges of the loop index by phase (`restore` starts at N,
  `activate` and `quarantine` use slot 0, a move in progress has a real slot).
  One step of the proof per action; the changes of the directory are lemmas
  (`BindNameType`, `MoveEntryType` and so on).
* `NothingIsDestroyed`: `Spec => NothingDestroyed`. Given `TypeOK`, the directory
  changes only by binding a free name (`BindKeeps`), by a rename whose
  destination is free (`RenameKeeps`, which is the guard of `renameat2` with
  `RENAME_NOREPLACE`), by an exchange that records what it takes out, or by one
  of the exceptions the property names.
* `OriginalIsNeverLost`: `Spec => []OriginalNeverLost`. At every moment, and in
  every directory a power loss may leave, each file of the original that no other
  writer took out is at its own name or at its archive name. This alone is not
  inductive: a rename with a free destination loses nothing only if the file it
  moves is the one the code believes it to be. `CustodyInv` adds what the code
  relies on. Per suffix: until its move is tried, its archive name is not one an
  earlier crash could bring the original back to (`MayArchive`); from the
  confirmed move to the end of rollback, the archive name stays bound in the
  directory programs see, so that a rename can not land on it, and an image in
  which the original is still at the active path has a free archive name
  (`Taken`). From the sync of the archive until rollback the original main file
  is in no image at the active path (`Replacing`), which is what makes the
  activation and the quarantine harmless. The invariant is stated of every image, since a crash makes any
  of them the directory. One lemma for each kind of change of the directory
  (`BindStep`, `ReplaceStep`, `CloseStep`, `RenameStep`, `DropStep`, `CrashStep`,
  and `QuietStep` for steps that leave it alone), then one step per action.

The second half is about what a return means, and the refinement. The custody
invariant says where the original can be; `OutcomeInv` adds what `recover` knows of
it. It has five parts: which suffixes the call still carries (`CarriedInv`), which
moves are recorded for rollback (`RecordsInv`), at which name each file is while the
call counts on it, in all the images after a sync (`PlacesInv`), which file the
connection has open (`AdapterInv`), and that in every image a rebuilt file at the
active path was synced, and the original archived there (`PublicInv`).

`recover` knows a file by its identity at the moment it looks. Another writer that
moves an entry out after that makes any return untrue of the directory, and the code
can do nothing about it. These theorems are therefore about behaviours up to the
first such move: `[](displaced = 0 => ...)`. Before it, other writers may create
entries, any number of calls may fail, and the machine may stop.

* `DurableBeforeActive`, `SuccessIsTrue`, `FailureIsUndone`, `SidecarsFollow`: the
  invariants `ActivationIsDurable`, `SuccessHolds`, `FailureRestores` and
  `DatabaseWhole` of the run.
* `CustodyImplemented`: if `MaxDisplaced = 0`, `Spec => ImplementsCustody`. Archiving
  the main file, activating, quarantining, restoring it and each return are a step
  of Custody, by the names of the main file alone; the rest stutters. A crash is a
  step because every image has the original at one of its names and, where a rebuilt
  file is active, at the archive name.
* `IntrudersAreNoticed`: `Spec => IntruderNoticed`, with any number of entries
  created and exchanged. What a check compares with is what the call was given
  (`ChecksInv`); so from the moment an intruder is where a check still to come
  will look, and from then on in every later phase, the call can only end in an
  error (`Doomed`).

### Transport: TransportProofs

All the safety of Transport, for batches of any size and
any number of attempts, from `BoundsAssumption` (both are positive numbers):

* `TransportTypes`, `ReadsStoreNothing`, `RetriesDoubleOnlyIfOpen`: the three
  invariants of the run. They follow from `TransportInv`, which ties each outcome to
  the fate of its message (`FateInv`): a result in the answer means the message was
  executed, a refusal that it never will be, a definite outcome that there is no
  message or a refused one, and what is stored for an attempt is all of its work if
  its message was executed and nothing otherwise.
* `TransportKeepsPromise`: `Spec => ImplementsDelivery`. A call that returns is
  the step `Tell` (`FinishTells`), the service executing a message is `Store`, also
  long after, and everything else stutters.

### Registry: RegistryProofs

All five safety properties of the run, for any finite set of connections and any
bounds, from `RegistryAssumption`.

* `OpenAreCounted`: each action adds to or takes from the count of a key exactly the
  connection that enters or leaves it (`CardinalityPlusOne`, `CardinalityMinusOne`).
  A connection is taken from the key its spelling has when it is dropped, so the sum
  is exact only while no alias has strayed.
* `GuardIsTrue`: a step that asks the guard reads the count, which is exact.
* `OneRecovery`: the guard is not held, but the connection it admitted stays
  counted for as long as its recovery runs, so the next one to ask sees it.
* `CopyIsArchived`: `ReadInv` follows the adapter's identity, the file it copied and
  the file in the archive through the phases. It rests on `HoldersInv`: of the
  recoveries that have put a file away no two have the same one, and each file is
  still there. With only one recovery at a time this would be plain, but a strayed
  alias lets a second one in, and the property has no exception for it.
* `OrphansAreLate`: `LateInv`. A handle that a guard could not count is in `late`
  from the moment the guard was asked (`Unseen`); a handle opened while a file is
  away gets another file.

### Batch: BatchProofs

All the safety of Batch, for any connections, keys and verbs, from
`BatchAssumption`. `BatchInv` adds to `TypeOK` that a mutating call has a transaction
from its `BEGIN` until it returns and no other call has one (`Transacting`).

* `TypesHold`, `LockIsReturned`: parts of `BatchInv`.
* `ResultsAreTrue`: by what a statement does to the contents and to the two numbers
  of its connection. It claims a key only for a statement that inserted a row with a
  rowid; the other statements that start with INSERT may report an earlier key.
* `PromiseKept`: `Spec => ImplementsStore`. A `COMMIT` is the step that takes effect;
  a statement outside a transaction is a call of its own, which answers `unread` when
  it fails after its effect (`PerformUnread`); whatever happens inside a transaction
  stutters, since nobody else sees it.

### Online backup: BackupProofs

All the safety of OnlineBackup, for any calls, destinations, chunks and commits, from
`BoundsAssumption`.

* `OnlyWholeCopies`: `CopyInv` says how far a copy is (the chunks so far are of one
  commit; the code starts over when they are not), and `PlaceInv` that in every
  image a copy is outside its temporary name only if it is whole and durable.
* `PriorIsKept`: `PriorInv`. A destination is looked at before the call starts, and a
  name that was free is given to no older file afterwards.
* `ReturnsAreTrue`: `OwnInv`, for a call whose destination no other call names: what
  is at its two names, phase by phase. `PlaceInv` keeps the others out. Without the
  condition it is false, as `backup_shared` shows.

### Rebuild: RebuildProofs

For any tables, rows, foreign keys, triggers, UNIQUE indexes and failing calls, from
`TablesAssumption` (finitely many tables, numbered from 1) and `BoundsAssumption`.

`RebuildInv` says, phase by phase, what a phase leaves to the later ones: the tables
created are the listed ones below `next`, those of them already copied have all their
rows, of the one in work the rows behind the cursor, and no trigger exists before the
rows are in. A phase is passed only without a failure, so what holds after the last
one holds of a rebuild that returns Ok (`Reached`).

* `ListedIsCopied`: with any names, an Ok rebuild holds the tables `schema_objects`
  lists, all of their rows, and all indexes and triggers.
* `RebuildIsFaithful`: `Spec => []Faithful` if no table has a name that the pattern
  `sqlite_%` takes for an internal one (`LooseNames = {}`). The condition is needed:
  `rebuild_names` is a counterexample without it.
* `FailureIsCaused`: with the same condition, a rebuild fails only if a call failed or
  the rows break a UNIQUE index. It rests on foreign keys being off from the start,
  and on triggers coming last.

### Values: ValuesProofs

All the safety of Values, for integers of any width (`Top`), reals exact up to any
bound below it, any column names and any number of rebuilds, from `ValuesAssumption`.

`JourneyInv` lists the forms a value can have at each hop, in terms of what the caller
gave: what was accepted (`Accepted`), what the wire made of it (`Sent`), what the
column made of that (`Kept`), and what the way back made of that (`Seen`). The
number of rebuilds does not enter because storing what was stored changes nothing
(`StoredTwice`, for which rounding twice must be rounding once: `RoundedTwice`).

* `ParametersGetThere`, `CopiesAreExact`: each hop alone, from `JourneyInv`.
* `NothingIsAltered`: every form in `Seen`, given to the getter of its own type, by
  kind of value (`ShownBool`, `ShownInteger`, `ShownReal` and so on).
* `ValuesReadBack`: also needs `FailedInv`, the reasons for which a value does not
  arrive.
* `LookupsFind`: `RowInv`, how the columns and cells of a row come from what was sent.

### Schema inspection: CatalogProofs

All three properties of Catalog, for any tables, index names and number of commits,
from `CatalogAssumption`.

* `NoTableForgotten`: `ProgressInv`. A table that was never dropped is described or
  still to do, and only one of the two.
* `UniqueHasCause`: `VersionsInv`. Each entry of an index was listed from one meaning
  of its name and given its columns by the same or another one.
* `DescriptionsAreTrue`: `TruthInv`. As long as nothing was committed since the work on
  a table began, what is collected is the truth: the listed indexes and those looked
  at are together the table's, and its columns and keys are its own. It rests on
  two lemmas about the helpers: an index names one column exactly when it has
  one named term (`NamedOne`), and grouping and sorting the rows of
  `foreign_key_list` gives the keys back (`KeysGrouped`).

The models order sets with operators of their own (`Ordered`, `InOrder`, the least
table to do) because the prover has no definition of `SortSeq` and `SelectSeq`, on
which the library's sorting rests.

### What is only model-checked

* Liveness (`Returns`, `CallsReturn`, `CallsEnd`, `CallReturns`,
  `SoundSourceRebuilt`): it needs `ENABLED`, which is out of the prover's reach. Of
  `SoundSourceRebuilt` the half that is safety is `FailureIsCaused`; that a rebuild
  ends at all is left to the run.
* The properties a run shows violated, each by its counterexample.

## 5. What is abstracted, and what is not modelled

* The checks before anything is created, and the rebuild inside recovery, are one
  step each: the first only reads and the code repeats the ones that matter, the
  second runs under an exclusive lock on a file in a private directory.
* SQLite, the file system and other writers are modelled from how the code uses
  them. The sidecars SQLite removes when a connection closes are a
  nondeterministic choice.
* Registry has one path and takes each phase of a recovery as one step on it: what
  can fail inside a phase, sidecars and crashes are in Recovery, of which Registry
  keeps only the ways a phase can end. The counts live in memory, so a crash loses
  nothing that matters.
* Values leaves out the spelling of numerals (`2` or `2.0`), the order of comparing
  values in queries, and what parses inside a text. Collections of cells are rows of
  two.
* Catalog leaves out names, declared types, nullability and default values, which are
  copied from one row of one query, virtual and shadow tables; remote routes
  refuse the call. Its tables are those the query lists: it passes over one named
  like `sqlitedata`, as the rebuild does (`rebuild_names`).
* Contents: a writer of another process that commits to the source between the
  snapshot and the rename is left to the caller by `docs/sqlite-recovery.md`,
  and is a hazard without a property. So is what SQLite would make of a leftover
  or foreign journal beside a published file.
* Rebuild leaves out views, virtual tables, generated columns and pragmas.
* Batch leaves out SQL that controls transactions and SQL with several statements;
  a statement is about one row of a table without triggers.
* Backup takes names as SQLite and the file system resolve them: a symbolic link to
  nothing, which `exists` in `ensure_absent` takes for absent, is not modelled.
* Transport leaves out redirections on the Neon route, which the HTTP library
  follows, the endpoint policy, and what is in rows. A context is valid, absent or
  malformed; error codes and statuses that are treated alike have one member.
  On the Neon route a parameter that is no JSON number (NaN, infinity) is sent as
  NULL, any JSON object is taken for a result of a single call, and counts or cells
  that are missing are filled in: the model has all three, and the properties say
  where they claim less of Neon.
* Not modelled: `lib.rs` and `adapter/mod.rs`, which hold a boxed adapter and pass
  each call on without a state of their own, and choose the adapter once from the
  environment; `contract.rs` and `error.rs`, plain data types (the ones with behaviour,
  `is_retryable` and the result types, are in Transport and Batch); `ffi.rs`, which
  looks symbols up in a shared library once. None of them has a sequence of steps a
  property could be about.

## 6. Plan

Done first, because a mistake there loses data: Recovery with Custody, then
Rebuild, Batch with Store, OnlineBackup; then Transport with Delivery; then
Registry, Values and Catalog, so that every component with behaviour of its own
has a module.

Every safety property that a passing run checks is a theorem, and so are the three
refinements (of Custody, Store and Delivery). Theorems worth adding: that Rebuild
implements the one step Recovery takes it for, and custody with entries moved out by
other writers (`CustodyImplemented` assumes none).

Models worth extending: leftover journals beside a backup's destination and beside a
rebuilt file, SQL that ends the transaction of its batch.
