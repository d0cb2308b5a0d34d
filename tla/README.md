# KoraDB: specifications, model checking and proofs

KoraDB is a single-node document database: protobuf documents in collections,
secondary indexes, a schema registry, a query executor, a gRPC server with API
keys, a command line, an embedded Go SDK and a C library, all on one bbolt file.
This directory holds TLA+ models of its parts, the TLC runs over them and the
TLAPS proofs. `PROJECT.json` maps each definition to the lines it models and
lists the runs, the hazards, the findings and the theorems.

## Inventory

| part | state | operations | what is hard | modules | properties |
|---|---|---|---|---|---|
| storage (`internal/storage`) | buckets in a bbolt file, file lock | Open, Close, Update, View, scans, NextSequence, Snapshot | rollback, crash, failing commit, Close under load | Engine, Restore, Native | through the others' |
| index (`internal/index`, `engine/index.go`) | `idx:` buckets of entry keys | indexInsert, indexDelete, LookupByIndex, EncodeValue | ambiguity of concatenated keys, entries left behind, signed order | IndexKeys, Engine, Ids | `IndexAgreement`, `OrderKept`, LookupExact |
| engine (`internal/engine`) | metadata, documents, sequences | CreateCollection, Insert, Get, Update, Delete | several writes per call, descriptors that change between them, reuse of ids | Engine, DocStore | `ImplementsDocStore`, `KeyFieldMatches`, `AutoIdsFresh`, `DocsReadable` |
| ids and literals (`engine.go`, `values.go`) | none | encodeKey, IDFromStorageKey, scalarValueFromString, CompareValues | edges of 32 and 64 bits, other spellings of one number | Ids, Backends | `IdsDenote`, `IdsUsable`, `LiteralsAgree` |
| schema registry (`internal/schema`) | active records, history, descriptors in memory, three locks | Register, MessageDescriptor, reload | lock order, commit against activation, closures of different age | SchemaRegistry | `StepwiseCompatible`, `ServesCatalog`, `HistoryImmutable`, `TypesStable`, `CallsEnd` |
| query (`internal/query`, the Query handler) | the client's token | ExecutePageContext, ExecuteWithLimitContext, filter conversion | writes between pages, two plans, token reuse, budgets | Query | `PageExact`, `TraversalAscends`, `StableReturned`, `TokenBinds`, `FilterLimits` |
| auth (`internal/auth`, `server/keys.go`) | key records | create, revoke, authenticate, role check, bootstrap | overlapping revocations, expiry, requests on their way | AuthKeys | `AdminRemains`, `DeadTokensStayOut` |
| interceptors, metrics, server command | semaphore, token bucket, counters, shutdown | deadline, concurrency, auth, rate, audit, handlers, graceful stop | late answers, clocks out of order, cancelled calls, draining | Pipeline | `SlotsMatch`, `RateBound`, `NeverLate`, `EffectsAdmitted`, `MetricsAgree`, `Answered`, `Stops` |
| recovery, backup | paths, files, file locks | RestoreFile, Restore, backup, Open, Close | a kill between two renames, a server that starts meanwhile, loss of power | Restore | `PublishedWhole`, `BackupWhole`, `OriginalKept`, `AllOrNothing`, `LockRespected`, `CommandsEnd` |
| C library and Go SDK as libraries | handle table, open databases | KoraDBOpen, KoraDBClose, calls | close racing use, concurrent opens, Close between two transactions | Native | `Closable`, `ValidUntilClosed`, `Exclusive`, `HandleStable`, `CallsReturn` |
| the four ways in (CLI embedded and remote, SDK, C) | none of their own | insert, get, update, delete, query, keys | each converts operators, roles, sizes and errors on its own | Backends, Vocabulary | `SameEitherWay` |
| certificates, build info, message types | none | formatting, generated data | | | not modelled |

The parts meet in these places. The engine asks the registry for descriptors
inside its transactions: `Activate` of Engine and Query stands for the
registry's activation, and the writers of SchemaRegistry for the engine's
transactions. The executor reads indexes and documents in one snapshot. A
request passes the key table (AuthKeys) as one of the interceptors (Pipeline)
before a handler runs. Backends composes the command line, the wire, the handlers
and the engine's operations, each as a function. Restore and Native share the
file lock that bbolt takes on the inode it opened.

## Modules

* **IndexKeys**: entry keys, prefixes and fixed-width keys as operators over byte
  strings.
* **Engine**: one write transaction at a time (bbolt's writer lock), split into
  the steps of the code: metadata, old document, decode, parse, key, writes,
  commit. A read transaction keeps the snapshot it opened. Descriptors may
  change between any two steps; a crash drops what is uncommitted. `store` is
  the file, `wtx` the write transaction, `view` the read transactions, `desc`
  the registry's descriptor, `call` and `res` the clients.
* **DocStore**: what clients are promised, each call taking effect in one step.
  `ImplementsDocStore` maps the committed documents and the answers to it.
* **SchemaRegistry**: Register lock by lock. A `.proto` text is a record of
  package, imports and fields, and a descriptor is the text it carries.
  Compilation, linking and compatibility are operators over such records.
* **AuthKeys**: the key table, a clock, the server's mode and the requests on
  their way to a handler. A token is identified with its key; the secret is not
  modelled.
* **Query**: one page request served document by document, beside writers and
  registrations, from a wire filter that `toFilterWithLimits` converts and
  bounds, or from the SDK. A filter is a finite tree (`Height` says how deep), and
  the code's recursions over it are recursive functions: the budget left by the
  conversion, the filter it builds, the verdict, the signature. `todo` is the
  set of candidates not yet looked at, of which the least is next. Index lookups
  are exact, which EngineProofs shows for values that satisfy `Unambiguous`, and
  SHA-256 is taken to tell signatures apart. `acc`, `trav` and `stable` are
  history.
* **Pipeline**: each unary call is a goroutine that enters the interceptors in
  the order `runServe` chains them, runs the handler and leaves in the opposite
  order; `call` has its stage, deadline and code. `sem`, `bucket`, `inFlight` and
  `outcomes` are shared. The bucket's clock is read in one step and used in
  another, as in the code. Clients have deadlines of their own and give up; a
  signal drains the server, and it may die at any time. `seen` is what each
  client was told, `admitted` a history count.
* **Restore**: a directory maps paths to inodes, `file` says what an inode holds
  and whether it was synced, `lock` who has it open. Restorers, servers and
  backups are processes that take one system call at a time; any step may fail,
  any process be killed, and once the power may fail, which tears what was not
  synced. A server that finds no file creates an empty database, as bbolt does.
* **Native**: threads that open, use and close databases through the C handle
  table or as the SDK's objects. `table` and `next` are the table and its
  counter, `db` the `*engine.DB` objects with bbolt's writer, readers and a
  waiting Close, `given`, `held` and `ended` what callers were given and closed.
* **Vocabulary**, **Ids**: operators and roles in each of their spellings, ids as
  text, as values and as keys, and the encoding of indexed values. Text is a
  numeral (sign, leading zeros, magnitude) or a word, so that parsing and
  formatting are modelled by what they do.
* **Backends**: the same commands given to the four ways in, each with a database
  of its own.
* **\*Proofs**: the theorems, each beside the module it is named after.
  **MC\***: the constants for TLC.

Operators whose comment calls them a mutant or a plausible bug are variants of a
definition that follows; the specifications do not use them.

## Runs

| run | shows | bounds | distinct states |
|---|---|---|---|
| `engine` | agreement of data and indexes, keys, fresh ids, readability, refinement of DocStore | 2 clients, 1 collection, 2 fields, sequence up to 2; descriptors grow | 317,772 |
| `registry` | history, compatibility, served descriptors, stable types; every call ends | 2 callers, 1 writer, 2 schemas, 3 versions, an importer stored before what it imports, crashes | 37,640 |
| `auth` | administrators remain, dead tokens stay out | 3 keys, 2 callers, a clock of 2 ticks | 87,088 |
| `query` | exact pages under both plans, ordered and complete traversals, tokens, filter budgets | 3 keys, 2 documents, 14 filters sent, pages of -1 to 2, depth 3, 2 predicates, one registration | 478,129 |
| `pipeline` | slots, rate, deadlines, effects, counters; every client answered, a drained server ends | 2 calls, one slot, rate and burst 1, a clock of 2 ticks, windows shorter and longer than the server's | 189,518 |
| `restore` | original kept, snapshot whole, all or nothing, lock respected, commands end | 2 successive restores, a server, a backup; torn, whole and oversized snapshots | 330,914 |
| `native` | no leak, valid handles, exclusive files, stable handles, calls return | 2 C threads, 1 goroutine, 2 files, 2 opens | 44,762 |
| `backends` | same answers in four ways, ids at the edges, literals as ids, order of entries | integers of 2 and 3 bits, 17 texts, 2 documents | 242 |

Two actors give every pair of overlapping calls. Where a theorem covers a
property, the bound is no limit: it holds for any number of actors. Three keys
give a traversal a page before, at and after a write. Two calls and one slot
make one call meet a full semaphore, an empty bucket and a clock older than the
bucket's. Two restores make the second find the first one's rollback file. Two
bits and three bits keep the two integer widths and all their edges apart, with
numerals just inside and just outside each; the texts include signs, leading
zeros and words. `backends` has few states because each one is a set of stored
documents, and every command is evaluated in it by the properties.
`SchemaStable` in Engine separates what needs an evolving schema
(`DocsReadable`, the refinement) from what does not. `restore` and `pipeline` do
not check deadlock: once every command has ended nothing is left to do.

The passing `registry` run has importers stored before what they import; the
reload finding is about the other order. None of its texts changes its package,
which is what `registry_moved` is about. Its results hold for such names and
texts only, which RegistryProofs states as `ReloadsActive` and `PackagesFixed`:
`ServesCatalog`, `StepwiseCompatible` and `TypesStable` are not properties of the
registry in general.

Four runs end in a violation, each of a sentence in a document, comment or test:

* `registry_reopen`: after a restart the registry uses the copy of a schema kept
  by a later importer. With two importers the copies may not link, and the
  database does not open. (With one it serves an old version, and compares new
  ones with it.)
* `registry_moved`: a change of package passes the compatibility check.
* `auth_expired_admin`: an expired administrator counts as one, so the last
  active one can be revoked.
* `query_descriptor`: the filter's descriptor may be older than the documents'.
  What protobuf-go does with such a read is outside this repository and is not
  modelled.

**Fairness.** SchemaRegistry: strong fairness of each registration and writer.
Go's mutexes become unfair only to a bounded degree (a starving waiter is handed
the lock), and a goroutine that can run does. Pipeline: weak fairness of each
call's next step and of the end of a drained server; the clock, the client, the
signal and the crash are not fair, so that no deadline has to pass for an answer.
Restore: weak fairness of the steps of a command that was started, and of a
server's wait for the lock, which bbolt polls with a timeout. Native: weak
fairness of a call's steps, strong fairness of acquiring bbolt's locks, again
Go's mutexes. Nothing assumes that a command is started, that a server stops or
that a caller closes.

## Proofs

All theorems hold for every value of the constants under the named assumptions
of the modules, which TLC evaluates in each run, and under the hypotheses some of
them state. Those about Engine also assume
`Unambiguous(Vals)`: no value continues another with the separator byte, the case
`index.go` declares out of scope. Arithmetic of powers is beyond the prover, so
that fixed-width keys are distinct is a named assumption.

* **EngineProofs**: first the index encoding: a prefix scan is exact, entries are
  distinct (`LookupExact`, `EntryKeyInjective`). Then the engine: `IInv` is inductive, for descriptors that change in any way.
  `IndexAgreement` alone is not inductive: a transaction that is half-way
  through has a working copy whose soundness, key and loaded document have to be
  known at each stage (`StageOK`), and a reader's snapshot has to be sound too
  (`ViewOK`). Type correctness, `IndexAgreement`, `KeyFieldMatches` and
  `KeysMinted` follow. `RInv` adds what a transaction has done so far relative to
  the committed collection (`Progress`: nothing yet, or at its commit exactly the
  call's effect) and, while the registry only adds fields, that everything a
  store, a snapshot or a working copy holds is whole under the active descriptor
  (`AllReadable`). From it follow `DocsReadable`, the action property
  `AutoIdsFresh`, and, if `SchemaStable`, the refinement of DocStore: each step
  of Engine is a step of DocStore or a stutter under the mapping `docsOf`,
  `resOf`, in which a write takes effect at its commit and a read at its
  snapshot.
* **RegistryProofs**: `GInv` is inductive without conditions: the holder of
  `regMu` is the only registration under way, and the version it was given
  follows the active record's. That no history record is written twice
  (`HistoryImmutable`) follows. `CInv` adds that a record agrees with its history
  and holds its own text (`RecordInv`), what a registration has compiled,
  compared and stored at each stage (`CallInv`), that the served descriptors are
  the stored ones but in the window between commit and activation (`ServedInv`),
  and that the active texts link. It is inductive under `ReloadsActive`: nothing
  crashes, or importers sort before what they import, so that the record that
  decides a path on reload is the path's own. `StepwiseCompatible`,
  `ServesCatalog` and `Reopens` follow under it; `TypesStable` needs
  `PackagesFixed` as well. `registry_reopen` and `registry_moved` show that
  these hypotheses cannot be dropped. That names are finitely many is assumed in
  the form used: every nonempty set of them has a last element.
* **QueryProofs**: the functions of Query recurse over filters of any shape. The
  library's induction theorems take an operator, which the provers cannot
  instantiate, so induction is stated over sets: if membership in a set passes
  from all filters of lower height to a filter, every filter is in it
  (`RankInduction`, from the least element of a set of heights), and a function
  defined by recursion on height exists and satisfies its equation (`Recursion`).
  From these follows what each function computes. A verdict reached
  with a descriptor that is not the message's own is the one its own gives
  (`EvalAgrees`), and no document that an index seed leaves out matches
  (`SeedComplete`). Signatures are
  prefix-free, hence injective (`SignatureInjective`): two that continue alike
  open the same group with the same number of members, and each member ends in
  the same place. The conversion passes exactly the filters within depth and
  predicate limits (`AcceptsExactly`), by an induction that says for every depth
  and budget what is left. The invariant `QInv` relates a request half-way
  through to its snapshot: what was returned and the matching rest of `todo`
  make up everything that matches after the cursor, the first below the second
  (`Served`). A token stands at the last key returned, and what matched all along
  was returned or lies after it (`TokenInv`). All five safety properties of the
  run follow.
* **AuthKeysProofs**: `IInv` adds that a dead token stays dead and that a stopped
  server has no requests. `AdminRemains`, `DeadTokensStayOut` and the action
  property `AdminsNeverVanish` follow.
* **PipelineProofs**: `PInv` says of each call what its stage implies (`CallOK`):
  before the handler there is no effect, a late result is one that the deadline
  check or the client's own deadline will turn down, a clock that was read is
  not ahead of time. The rate needs `RateInv`: tokens and admissions together are
  bounded by the burst and the time *of the last refill*, which refills from
  older clocks leave alone. Slots and counters are cardinalities of sets of
  calls by stage; each action moves one call between them. All five safety
  properties of the run follow.
* **RestoreProofs**: `RInv` says for each stage of a restore what destination,
  rollback path and staged file are (`RestorerOK`): between the offline check
  and the move the destination is what `Inspect` found and the rollback path is
  free; between the two renames the old database is at the rollback path and
  the destination is free or was created by an opener in the gap. This needs
  that restores take turns (`Turns`), that staging and backup paths hold only
  their own file (`DirOK`), and that a lock's holder opened the file that has it
  (`OpenerOK`, `LockOK`). All five safety properties of the run follow, the three
  action properties included.
* **NativeProofs**: `NInv` says that a database being opened is known to its
  opener alone, that one being closed was given out (`ThreadOK`), that the table
  holds only what was given, each database under one handle (`TableOK`), and that
  the counter equals the number of databases numbered (`NumbersMatch`), from
  which a fresh number is in range and unused. `Closable`, `ValidUntilClosed`,
  `Exclusive` and the action property `HandleStable` follow.
* **BackendsProofs**: formatting is undone by parsing and the conversions between
  signed and unsigned by each other, for integers of any width (`RoundTrip`);
  the sign flip keeps the order (`EncodingOrdered`). `OrderKept` follows at once,
  `IdsUsable` from the invariant `BInv`, that documents are stored under the
  keys of their values. `DInv` adds that the four databases are equal and hold,
  each under the key it denotes, the values inserted and not deleted. From it
  follow `IdsDenote`, `SameEitherWay` (each way in converts a command to the same
  call of the engine, or refuses it alike) and `LiteralsAgree` (an equality on
  the key field and Get lead to the same key).

`CInv`, `DInv` and `QInv` are not among the properties of the runs; TLC was given
them on the same instances before they were proved (`CInv` with crashes where
importers come first, without crashes otherwise).

Every safety property of a passing run is proved. Only model-checked is liveness
(`CallsEnd`, `Answered`, `Stops`, `CommandsEnd`, `CallsReturn`): the prover does not
support fairness.

## What the properties do not say

Each of these is behaviour of the code that a property is stated around; none
contradicts what the repository promises.

* Restores are run one at a time (docs/RESTORE.md: "stop every process that uses
  the destination database first"), and rollback paths are neither the backup's
  output nor temporary files. Two restores that overlap
  with the same rollback path can replace the original's last name. A server
  started between the two renames creates an empty database, which the second
  rename replaces; one started after the offline check goes on serving the file
  that was moved aside (`LockRespected` excludes only earlier openers).
* A backup is renamed without having been synced, so `BackupWhole` is stated for
  the time before a power failure.
* koradb.h says a handle is valid "until KoraDBClose succeeds". A Close under way,
  or one that failed, ends it too; `ValidUntilClosed` is stated up to the call
  of a Close.
* Over the wire a page is cut to 32 bits and refused above 1000, and a role has to
  be written plainly, while the embedded backend trims and lowers it; the C
  library refuses an empty literal. `SameEitherWay` is stated within these
  limits.
* A message that does not decode is neither audited nor counted, because the
  generated handler decodes before the interceptors run; `MetricsAgree` counts
  what was recorded.
* A write that committed late is answered DeadlineExceeded; `EffectsAdmitted` says
  what a caller can conclude from each code.

## Not modelled

* TLS, listeners, certificate generation, build information, the Prometheus text
  and the wording of audit records and errors: I/O and formatting without
  state. Flags appear as the bounds `runServe` accepts.
* The command line's parsing and printing, and its schema and collection
  commands, which forward.
* Floats, which can be neither keys nor indexed (NaN compares equal to every
  number in `cmpFloat64`), and values with embedded NUL bytes, which `index.go`
  declares out of scope.
* `Verify` and `ValidateSnapshot`, which only read; the B+tree and file format of
  bbolt, protobuf's compiler and grpc-go, which are external and appear by what
  the code relies on; the generated message types.
* Engine and SchemaRegistry are not composed: Engine's `Grows` (the registry
  only adds fields) is what SchemaRegistry's compatibility check is for, and is
  assumed where `SchemaStable` says so.
