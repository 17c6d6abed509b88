# Formal models of replication-manager's cluster evaluation core

This directory holds TLA+ models of the parts of replication-manager that
evaluate a cluster of replicated database servers:

- the aggregate predicates;
- the replication topology resolver;
- the resilient connection manager;
- the slow-log and status diagnostics.

It also holds the TLC configurations that model-check them and the TLAPS
proofs about them. The code is `src/unnamed/part_000` (the `cluster_has.go`
part of package `cluster`) and `src/cluster/srv_get.go`. `spec.md` describes
what they are meant to do.

## The system and its parts

The monitor polls every server, and the state machine, the API and the
orchestrator write each node's health state and its three cookies:
provisioned, restart requested and reprovision requested. The parts read
these facts as follows:

- The **aggregate predicates** (`HasAllDbUp`, `HasRequestDBRestart`,
  `HasRequestDBRollingRestart`, `HasRequestDBRollingReprov`,
  `HasRequestDBReprov`, `HasRequestProxiesRestart`,
  `HasRequestProxiesReprov`, `IsProvisioned`) fold them into cluster-wide
  booleans that the failover state machine acts on. `IsProvisioned` also
  writes: it sets the provision cookie of a running host that lacks one.
- The **topology resolver** reads each server's replication status records:
  - `GetSlaveStatus` finds the record of a channel;
  - `GetReplicationServerID` and `GetReplicationDelay` read the upstream id
    and the lag;
  - `GetSibling` scans the cluster for another replica of the same upstream.
- The **connection manager** (`GetNewDBConn`) opens a connection. When TLS
  certificates are in use it falls back from the current certificate to the
  old one and then to none. It does this by writing the shared fields
  `TLSConfigUsed` and `DSN` of the `ServerMonitor`.
- The **diagnostics accessors** turn what the monitor collected into the
  API's views. `GetPFSStatementsSlowLog` folds the slow-log buffer into one
  row per query digest, sorts them and keeps the first 50 rows. `GetSlowLog`
  lists one row per slow query, sorted. `GetQueryExplainSlowLog` and its siblings look a
  digest up and return the plan of its query. `GetStatusDelta` gives the
  change of each numeric status counter since the previous poll.

## Modules

| module | models | state | actions |
|---|---|---|---|
| `ClusterFacts` | `part_000` 15-24 | `state`, `prov`, `restart`, `reprov` per host; `onPremise` | `EnvWrite` (the writers outside the predicates); `SpecValue`, the meaning `spec.md` 4.2 gives each predicate |
| `AtomicPredicates` | `spec.md` 4.2 and 5 | the facts of `ClusterFacts`; the caller's last `answer` | `Answer`, `Forget`, `Provision`, `Write` |
| `ClusterHas` | `part_000` 34-62, 116-191 | the facts of `ClusterFacts`; the running call's `pc` and loop index `idx`; the returned `ret`; ghost `seen` | `LoopStart`, `LoopHit`, `LoopAdvance`, `LoopExhausted` (one per loop predicate); `ProvOnPremise`, `ProvNoHosts`, `ProvStart`, `ProvVisit`, `ProvUnreachable`, `ProvAllDone`; `Environment` |
| `ReplicationTopology` | `srv_get.go` 71-111, 120-187 | `Replications` of every server | `Poll`; the accessors are operators |
| `ServerDiagnostics` | `srv_get.go` 252-269, 281-311, 325-344, 360-440 | the slow-log `buffer` | `ReadSlowLog`; the accessors are operators |
| `ConnManager` | `srv_get.go` 442-477 | `TLSConfigUsed`, `DSN`, the configurations the server accepts, and per caller its position, its `conn`/`err` and ERR00080; ghost `stable` | `Call`, `PgConnect`, `Connect`, `ConnectOld`, `ConnectNone`, `SetTLS` (one per statement), `SetDSNRead` and `SetDSNWrite` (two per `SetDSN()` call), `Rotate` |

The modules are the following:

- **`ClusterHas`.** A Go `for range` loop is not atomic with respect to the
  goroutines that write node state, so each iteration of each loop is one
  step, over the slice the code ranges over. The loops are described by a
  table:
  - `LoopList`: the slice;
  - `NilGuarded`: the `cluster.Servers == nil` guards;
  - `Hit`: the loop condition;
  - `ExitValue`: the early return.

  `IsProvisioned` is one loop over the servers and then the proxies. A visit
  tests the host's cookie, then whether it runs, and sets its cookie, all in
  one step (`ProvVisit`). That is exact when no write overlaps a call, which
  is the only setting in which `ProvisionedCorrect` is checked and proved; a
  write between the test and the set (`part_000:42-44`) is not represented.

  The environment changes one state or one cookie per step. It does so only
  between calls (`Concurrent = FALSE`), or at any time (`Concurrent = TRUE`).

  The ghost `seen` collects the values `spec.md` 4.2 gives the running
  predicate in every state since its call. This gives
  `Correct(p) == ret.p = p => ret.v \in seen`: the value returned is the
  value the spec gives for some state during the call.

  `ClusterHas` and `AtomicPredicates` both extend `ClusterFacts`, which
  holds what they share: the lists, the per-host facts, the writers
  (`EnvWrite`) and `SpecValue`.
- **`AtomicPredicates`** is the abstract specification: what `spec.md`
  promises of the predicates. `spec.md` 5 asks an evaluation to see one
  consistent snapshot, so a call is one step, `Answer(p)`. That step sets
  the caller's `answer` to `SpecValue(p)` of that instant. The other steps
  are:
  - `Forget`: a new call starts;
  - `Provision(h)`: a running host without a provision cookie gets one;
  - `Write`: an `EnvWrite`, after which the caller may hold no answer.

  `ClusterHas` defines `ImplementsAtomicPredicates` as `Atomic!Spec`, with
  `Atomic == INSTANCE AtomicPredicates WITH answer <- ret`. The refinement
  mapping hides `pc`, `idx` and `seen`. Each code step maps to an abstract
  step as follows:
  - `LoopHit`, `LoopExhausted`, `ProvOnPremise`, `ProvUnreachable` and
    `ProvAllDone` map to `Answer`;
  - `LoopStart` and `ProvStart` map to `Forget`;
  - a `ProvVisit` that sets a cookie maps to `Provision`;
  - `Environment` maps to `Write`;
  - every other step is a stutter.
- **`ReplicationTopology`.** A record is reduced to the fields the
  accessors read:
  - its channel and its upstream server id;
  - its `Seconds_Behind_Master`, which may be NULL;
  - its master host and port, heartbeat period and `Using_Gtid`.

  A poll replaces a server's whole list. `GetSlaveStatusLastSeen` is an
  operator over the last-seen list it is given, because
  `LastSeenReplications` is written outside `src/`.
- **`ServerDiagnostics`.** The slow-log buffer is filled outside `src/`, so
  the model lets it hold any list of up to `MaxEntries` entries. An entry is
  reduced to its query text and its time in ms, and its digest is
  `DigestOf[query]`. Two query texts that differ only in their literals
  share a digest.

  `strconv.FormatFloat(x, 'g', 1, 64)` is modelled by what it does:
  `FormatG1` rounds to one significant digit, with ties to even. The
  per-digest map is built by a recursive function over the buffer's
  prefixes: `SlowPFSAfter[n]` is the map after `n` iterations of the loop,
  each doing `Aggregate`. `GetSlowLog`'s loop is `SlowLogRowsAfter` in the
  same way. Entries with no text are skipped by both loops; that text is the
  named constant `EmptyQuery`. `dbhelper`'s sorters are outside `src/`, and
  `sort.Sort` is not stable, so both sorts are modelled as some order that
  lists every row exactly once: `SortedRows` for the map's rows, and
  `SlowLogOrder`, a permutation of `GetSlowLog`'s rows (`SlowLogRows`), for
  `srv_get.go:438`. No property depends on the order chosen. The `i < 50`
  cut is `Keep`. `GetStatusDelta` is an operator over
  two status maps, where a value that `ParseInt` rejects is not a natural
  number.
- **`ConnManager`.** Every Go statement that reads or writes
  `TLSConfigUsed` or `DSN` is a step of its own, so concurrent callers on one
  server interleave as goroutines do. `SetDSN` is outside `src/`. It reads
  `TLSConfigUsed` and then assigns `DSN`, with no lock between the two, so
  it is two steps: `SetDSNRead` keeps the value read in the caller's local
  `read`, and `SetDSNWrite` assigns it to `DSN`. `Rotate` changes the set of client configurations the
  database server accepts. Certificate rotation, a restart or a change of
  `require_secure_transport` do this.

The MC modules (`MCClusterHas`,
`MCReplicationTopology`, `MCConnManager`, `MCServerDiagnostics`) give the constants their values.

## Runs

A passing run is a property that holds on the instance. A violation run is a
disagreement between the code and `spec.md` (or the code's own comments), and
each one is recorded as a finding in `PROJECT.json`. Each passing property is
paired with a mutant of the code that TLC finds violating it; the mutant
operators sit next to the definitions they mutate.

| run | cfg | result | what it shows |
|---|---|---|---|
| cluster_has | `MCClusterHas.cfg` | pass | With no writes during a call, each predicate returns the value `spec.md` 4.2 gives it. That the loops implement `AtomicPredicates` is proved, not model-checked (`ClusterHasRefinement!Refinement`). |
| cluster_has_nil | `MCClusterHasNil.cfg` | pass | A nil `Servers` makes the all-servers predicates false. |
| cluster_has_empty_slice | `MCClusterHasEmptySlice.cfg` | violation | An empty non-nil `Servers` slice makes `HasAllDbUp` true (`part_000:117`). |
| cluster_has_concurrent | `MCClusterHasConcurrent.cfg` | violation | A write during a loop makes `HasRequestDBReprov` false while a reprov cookie existed at every instant. The loop reads no snapshot. |
| topology | `MCReplicationTopology.cfg` | pass | `GetSibling` finds a sibling exactly when one exists. |
| topology_symmetry | `MCTopologySymmetry.cfg` | violation | With three replicas of one master, the sibling relation is not symmetric. |
| conn | `MCConnManager.cfg` | pass | With one caller at a time under rotation: the ladder tries every tier, ERR00080 means the old certificate, and the DSN is reset on return. |
| conn_concurrent | `MCConnManagerConcurrent.cfg` | violation | With two callers, one caller's `SetDSN` reads the old certificate the other set and assigns the DSN after the other's final reset: both return, and the DSN is built for the old certificate (`srv_get.go:471`). |
| conn_race | `MCConnManagerRace.cfg` | violation | One caller's write between another's `TLSConfigUsed = ...` and `SetDSN()` skips a tier that was accepted throughout. |
| diagnostics | `MCServerDiagnostics.cfg` | pass | Several properties hold for every buffer of up to three entries. The per-digest view agrees with the per-query view on count, maximum and query text, whatever order the sorts leave. The cut keeps exactly `min(#digests, limit)` distinct digests. Every listed digest can be explained. |
| slowlog_total | `MCSlowLogTotal.cfg` | violation | Three queries of one digest take 0.4 s, 0.9 s and 0.4 s. Their `Exec_time_total` is 1 s, not 2 s (1.7 s to one digit): the total is re-rounded at every query (`srv_get.go:366`). |

Five more disagreements were found while modelling and are recorded as
hazards in `PROJECT.json`, without a run of their own:

- **No hosts.** When `Conf.Hosts` is empty, `IsProvisioned` returns false
  (`part_000:38`). `spec.md` 4.2 says an empty host set is provisioned. This
  is why `ProvisionedCorrect` and the refinement are checked only where hosts
  are configured.
- **The working tier is not kept.** `GetNewDBConn` resets `TLSConfigUsed`
  and the DSN to the current configuration on return (`srv_get.go:469`).
  `spec.md` 4.4 says the working tier is kept. The theorem
  `DsnResetSequential` proves the reset for one caller at a time.

- **Colliding `server_id`s.** `GetSibling` excludes the asking server by
  `ServerID`. On an instance where two servers share a `server_id`,
  `SiblingSound` fails: the two never see each other as siblings.
- **False ERR00080.** With two callers, `AlertMeansOldCert` fails: a
  concurrent reset makes the old-certificate retry connect with the current
  certificate, and ERR00080 is still raised. This is the same race as
  `conn_race`.
- **`IsInCaptureMode`.** Its inverted test `len(cluster.Servers) > 0` makes
  it false whenever the cluster has servers (`part_000:105`).

### Bounds

- **Aggregate predicates.** Two database servers and one proxy, with three
  health states. This is enough for:
  - a hit at the first and at the second position of a loop;
  - a loop over the proxies after the servers;
  - a write before and after the loop position.

  The nil and empty cases use an empty server list.
- **Topology.** Three servers, two channels (the default and a named one),
  two upstream ids and up to two records per server. Host, port, heartbeat
  and GTID mode have one value each, since `GetSibling` does not read them. This covers:
  - a server with no record of its channel;
  - two records of one channel;
  - three replicas of one master, the smallest instance where first-match
    order matters.
- **Connection manager.** One or two callers, and every subset of the three
  tiers accepted at every step. A third caller adds no new interleaving of
  the two shared fields: two already reach both races.
- **Diagnostics.** Four query texts: the empty parse, two texts of one
  digest, and one of another. Two times are used, 400 and 900 ms, and up to
  three entries with a limit of one row. This covers:
  - a digest met twice, with different texts;
  - entries with no text, which one scan skips and the other does not;
  - more digests than the limit;
  - a running total that crosses a rounding boundary.

### Fairness

No run checks a liveness property, so no specification assumes fairness.
The predicate loops range over a finite slice and the connection ladder is
straight-line code, so that every call returns would hold by the shape of
the models and says nothing about the code.

## Proofs

TLAPS checks these theorems for every value of the constants that the
modules' `ASSUME`s allow:

- **`ClusterHasProofs!TypeCorrect`** (`Spec => []TypeOK`). The argument is a
  direct induction over the steps, with one step per action. It rests on four
  lemmas:
  - `ProvListFacts`: the servers-then-proxies list is a sequence of hosts,
    with its length and indexing;
  - `LoopListFacts`;
  - `ElementIsHost`;
  - `SpecValueBoolean`.
- **`ConnManagerProofs!TypeCorrect`** (`Spec => []TypeOK`).
- **`ClusterHasRefinement!Refinement`**
  (`ASSUME NoOverlap PROVE Spec => ImplementsAtomicPredicates`).
  `NoOverlap` is `~Concurrent /\ ~HostsEmpty /\ DbServers # << >>`. Each of
  its three conjuncts is needed:
  - `cluster_has_concurrent` shows a write during a loop breaking the
    refinement;
  - `ProvNoHosts` answers false where `spec.md` 4.2 says true;
  - `cluster_has_empty_slice` shows an empty slice making `HasAllDbUp`
    true.

  The proof is the standard one. Initial states map to initial states, and
  every step maps to an abstract step or a stutter (`RefineStep`), under the
  invariant `RInv` (`InvariantHolds`, `Spec => []RInv`). `RInv` says that a
  running loop has passed only over elements it does not stop on
  (`LoopInv`), and that `IsProvisioned`, past its on-premise shortcut, has
  given a cookie to every host it visited (`ProvInv`). Without `RInv` a
  loop's final return could not be tied to the state it returns in. TLC
  checked `RInv` on the cluster_has instance before it was proved.

  The lemmas are:
  - `LoopTable` and `SpecTable` unfold the predicate tables, which the SMT
    backend cannot read as `CASE`;
  - `HitDecides` and `ExhaustedDecides` state that the element a loop stops
    on, or the loop's running to the end, decides the value `spec.md` gives;
  - `ProvListCovers` states that `IsProvisioned` visits every host;
  - `SameFacts` states that the instance's operators are the module's own.

- **`ClusterHasCorrectness!LoopsCorrect`**
  (`ASSUME ~Concurrent, ServersNil \/ DbServers # << >> PROVE
  Spec => []ClusterPredicatesCorrect`) and
  **`ProvisionedCorrectness`** (`ASSUME ~Concurrent, ~HostsEmpty PROVE
  Spec => []ProvisionedCorrect`). Each hypothesis excludes one divergence
  that a run exhibits:
  - a write during a call (`cluster_has_concurrent`);
  - an empty non-nil `Servers` slice (`cluster_has_empty_slice`);
  - no configured hosts (`ProvNoHosts`).

  A nil slice is allowed: the nil guards answer false, which is what
  `spec.md` gives for an empty node set. The theorems rest on
  **`CInvHolds`** (`Spec => []CInv`). `CInv` is `RInv` together with two
  conjuncts:
  - `RunInv`: while a call runs it has not answered yet, and the value
    `spec.md` gives its predicate is the one recorded when it started;
  - `NilInv`: with a nil slice no nil-guarded predicate is inside its loop.

  The answer invariant `AnswerInv(P)` says that a returned answer of a
  predicate in `P` is the value on the state it was computed on. It is
  proved inductive together with `CInv`, one lemma per kind of predicate:
  - `LoopAnswerStep`;
  - `ProvAnswerStep`.

  `ExhaustedDecides` was generalised from non-empty slices to any slice the
  predicate's guard lets through. TLC checked `CInv /\ AnswerInv(...)` on
  the cluster_has and cluster_has_nil instances before they were proved.
- **`ReplicationTopologyProofs!SiblingSoundness`**
  (`ASSUME DistinctServerIDs PROVE Spec => []SiblingSound`), for every
  server list, every status list a poll can store and every channel
  configuration. `GetSibling` excludes the asking server by `server_id`, so
  the hypothesis that server_ids are distinct is needed: replication
  requires it, but nothing in the code checks it. The property holds in
  every state, so the proof needs no strengthening. It has two parts:
  - with distinct ids, a position is a candidate exactly when its server is
    a sibling of the kind `spec.md` 4.3 describes;
  - `LeastExists` states that a non-empty set of positions has a first one,
    which is what the code's `CHOOSE` of the least index picks. It is
    derived from `WFMin` and `NatLessThanWellFounded` of
    `WellFoundedInduction`.
- **`ConnManagerSequential!LadderCompleteness`**, **`AlertSound`** and
  **`DsnResetSequential`** (`ASSUME NEW c, Callers = {c} PROVE
  Spec => []LadderComplete`, and the same for `AlertMeansOldCert` and
  `DsnResetOnReturn`). They hold for any `HaveTLS` and any behaviour of the
  server. They do not hold for two callers: `conn_race` shows
  `LadderComplete`, and `conn_concurrent` `DsnResetOnReturn`, broken by the
  unlocked shared fields. The proofs rest on the invariant `SeqInv` (`SeqInvariant`), which
  has two parts:
  - `CallInv` says what the lone caller knows at each position: the tiers
    it has found refused are outside `stable`, and `stable` stays within
    what the server accepts during a call. It also covers `pg`, fixed by
    the branch taken, and whether ERR00080 was raised and with which
    connection;
  - `SharedInv` says which tier `TLSConfigUsed`, the DSN and the value
    `SetDSN` read hold at each position, so that every dial uses the tier
    its branch set, and the caller returns with both fields current.

  TLC checked `SeqInv` on the one-caller instance with `HaveTLS` true and
  false before it was proved.
- **`ServerDiagnosticsProofs!DigestRowsAgreeThm`**, **`LimitExactThm`** and
  **`ListedDigestExplainsThm`** (`Spec => []DigestRowsAgree`, and the same for
  the other two). They hold for every buffer, every limit and every digest
  function under `DiagnosticsAssumption`. Two of its conjuncts are needed
  here:
  - no texted query has the digest of the empty text, so an entry skipped
    by both loops cannot be the first entry of a listed digest;
  - `NotFound` is not a query text, so an explained row is not mistaken
    for the lookup's error.

  Both views are loops over the buffer. The argument runs them side by side
  and proves the prefix invariant `LoopInv` (`LoopAll`): after `n` entries
  the map has a key for exactly the digests of the rows `GetSlowLog`'s loop
  has appended, before its sort. The row of each digest (`DigestInv`) carries:
  - the number of those rows;
  - their largest time;
  - the text of the first of them;
  - the position in the buffer of the first entry of the digest.

  One lemma covers each kind of iteration: `StepSkip` for an entry with no
  text, `StepOld` for a digest already in the map, `StepNew` for a new one.
  From `LoopInv` over the whole buffer, the remaining lemmas do the rest:
  - `SortedFacts` states that the map's rows are finitely many, one per
    digest, so the injective listing `SortedRows` exists;
  - `OrderFacts` and `RowsOfMine` state that `SlowLogOrder` exists and is a
    permutation, so a digest has as many sorted rows as unsorted ones (a
    bijection, `FS_Bijection`), with the same times and texts;
  - `OutFacts` states that the cut keeps its first `min(#digests, limit)`
    rows;
  - `ListedDigestExplainsHolds` shows that the first entry `DigestInv`
    records is the least index `GetQueryFromSlowLogDigest` chooses.

  The library's induction theorems take the step as an operator parameter,
  which the provers cannot instantiate. The proofs therefore carry their
  own induction, `PrefixInduction`. Its parameter is the set of
  counterexamples, and it is derived from `WFMin`. The same induction
  proves that each prefix function exists (`RowsExist`, `AggExist`). That
  is what makes its recursive definition an equation the provers can
  unfold (`RowsEquation`, `AggEquation`). To make the proof possible, the
  fold became a recursive function instead of `FoldLeft`, and the empty
  text became the named constant `EmptyQuery`, because the SMT backend
  cannot read `""`. `TotalIsRoundedSum`, whose reference sum uses
  `FoldFunction`, moved to `MCServerDiagnostics`, a module no proof uses.

The following are checked only by TLC, on the instances above:

- the properties the violation runs break: `SiblingSymmetric`,
  `TotalIsRoundedSum`, and `ClusterPredicatesCorrect`, `LadderComplete` and
  `DsnResetOnReturn` outside the hypotheses of their theorems.

No liveness property is checked. TLAPS could not prove one anyway: it does
not reason about ENABLED.

## Not modelled

- The trivial getters of `part_000` (`IsActive`, `IsVerbose`,
  `IsInFailover`, `IsDiscovered`).
- `IsMasterFailed`, which needs `GetMaster`, outside `src/`.
- How `LastSeenReplications` is kept. No property checks
  `GetSlaveStatusLastSeen`, because the code that writes that list is not in
  `src/`.
- The diagnostics pass-throughs: process list, schemas, tables, metadata
  locks and response time. The map-to-sorted-list copies (`GetVariables`,
  `GetStatus`, `GetInnoDBStatus`, `GetDictTables`) are left out too. They
  copy what the monitor read and compute nothing.
- `GetPrometheusMetrics`, whose metric names come from `GetDatabaseMetrics`,
  outside `src/`. Its index hazard is listed in `PROJECT.json`.
- The slow-log table and the configuration file generation (`srv_get.go`
  479-814), which are file I/O.
- `src/etc/.../config.toml`, which is data.
- The membership predicates (`IsInIgnoredHosts`, `IsInPreferedBackupHosts`,
  `IsInIgnoredReadonly`, `IsInPreferedHosts`, `IsInHostList`, `HaveDBTag`,
  `HaveProxyTag`, `HasSchedulerEntry`, `IsInCaptureMode`). Each is a pure
  lookup of one value in a list, a comma-separated string or a map. A model
  would only restate the comparison. The one edge case is the empty token
  that `strings.Split("")` returns: it matches only a server with an empty
  URL or name, which the code outside `src/` never builds.
- The cookie store, `IsRunning`, `SetDSN` and the state machine are outside
  `src/`. They appear only as the environment of the models, or as the
  steps modelled from the spec (`SetDSN` as a read and a later write).
