# A TLA+ model of the KV-cache offload benchmark

The repository measures whether LLM inference gets faster when vLLM, through
LMCache, keeps its KV cache in an external store (Valkey), in host memory or on
disk.  It is a test bed of scripts: what it produces is a *claim* ("L2 RETRIEVAL
CONFIRMED for every document", a cold and a cached TTFT), and it is right when the
claim is true of what the servers did.  That is what these modules are about.  The corpus it
measures with is built by a program of its own, `corpus/build_corpus.py`, whose
promise is a directory of documents and a description of it that agree.

## 1. Inventory

| Component | Source | State it keeps | Operations |
|---|---|---|---|
| End-to-end corpus harness | `benchmarks/bench_corpus_e2e.py` | one row per document, counter readings, the JSON record | wait for the servers, FLUSHALL, cold pass, settle, cached pass with counter reads, attribution, summary |
| Tier driver on a GPU host | `infra/run_tier.sh`, `benchmarks/configs/*_tier.yaml` | pid file, logs, the disk tier's directory, result files | `serve` (stop, clear, launch, wait), `bench`, `stop` |
| Matrix runner | `infra/run_tiers.ps1` | none but the results it copied back | `setup`, `deploy`, `sanity`, `single`, `fleet`, `all` |
| Test bed life cycle | `infra/Run-TierBench.ps1`, `provision.ps1`, `teardown.ps1` | `bench.env.ps1`; EC2 keeps the rest | check, provision (placement group, capacity sweep, launches), run, tear down |
| Host setup | `infra/setup_gpu.sh`, `setup_valkey.sh` | what is installed on the host | one run, to success or failure |
| Paired baseline | `benchmarks/bench_baseline.py` | two pools, a set of buffers each, futures | prime and warm, ABBA reps, verification |
| Microbenchmarks | `benchmarks/valkey_microbench.py`, `connector_compare.py`, `bench_latency.py`, `bench_exists_patch.py`, `bench_resource_efficiency.py` | a pool and its buffers; a child process | timed loops |
| Corpus builder | `corpus/build_corpus.py`, `corpus/generators/*.py` | scenarios and their document counts, the text under way, lists of entries; on disk documents, JSONL, metadata | Stage 1 (scenarios from a model, validated), allocation, Stage 2 (ask, continue, trim, noise, trim) per document, the three kinds of file |
| Comparison and token count | `benchmarks/compare_tiers.py`, `corpus_tokens.py` | none | read files, print |
| Valkey, vLLM, LMCache, EC2 | not in the repository | keys and counters; processes; instances | modelled from what the scripts rely on |

How they interact.  `Run-TierBench.ps1` calls `provision.ps1`, `run_tiers.ps1` and
`teardown.ps1`, which share the file `bench.env.ps1` and nothing else.
`run_tiers.ps1` drives `run_tier.sh` over ssh on two GPU hosts; `run_tier.sh bench`
starts the harness on the first of them; the harness talks HTTP to vLLM and RESP
to Valkey.  LMCache stores computed KV asynchronously, and publishes its counters
periodically.  Nothing in this chain holds a lock, a transaction or a lease, and
every link can break while the parts below it go on.

What is hard here, and what makes each part correct:

- *Harness.*  The evidence for reuse is the difference between two reads of a
  global counter, while stores are still landing, while servers die or restart,
  and while a read can fail.  Correct: "yes" only of a document the tier held; "?"
  exactly when the evidence is missing; a cold pass that is cold; a fleet hit that
  crossed nodes; a run that ends.
- *Tier driver and matrix runner.*  Leftovers: a server, an orphaned EngineCore, a
  disk tier, a result file, or a harness still running after its ssh session went.
  Correct: each measurement is of the tier it names, from an empty tier, and the
  file fetched was written by this session.  The scripts can keep this only where their
  own stops work, and no harness of an earlier session is left.
- *Test bed.*  Steps of several that fail one by one, with hosts that end on
  their own.  Correct: the recorded bed is one bed in one zone; a running host is
  recorded, or was lost in one of the known ways; a new bed is set up before use.
- *Benchmarks with worker pools.*  A failed GET while others are in flight, stale
  buffers that pass verification, a pool closed under its workers.  Correct: what
  was verified was fetched, and a miss is not the fastest GET of all.
- *Corpus builder.*  It talks to a server that fails, refuses, answers nothing or
  answers something else; it writes the directory in place, over an earlier build's,
  and can end between any two writes; its counts come from floating-point
  products.  Correct: a document that whole metadata lists is as listed, unless a
  later build has begun to replace it; a short document has a reason; the documents are
  the number asked for, in proportion; every request gets its attempts, and a build
  that fails had cause to.

`PROJECT.json` lists the hazards one by one, each at its line and with the
properties that would catch it going wrong.

## 2. Modules

| Module | Models | Lines of the code it follows |
|---|---|---|
| `ReuseReport` | abstract: what a cached pass promises | the promise in the harness's docstring and summary |
| `CorpusE2E` | the harness and the servers it measures | `bench_corpus_e2e.py` `main`, `_wait_for_server`, `_keyspace_hits`, `_lmcache_hit_tokens`, `_flush_l2`, `_send` |
| `CorpusE2EProofs` | theorems about `CorpusE2E`: types, attribution | |
| `SharedTierProofs` | on top of it: the shared tier, and the refinement of `ReuseReport` | |
| `LocalTierProofs` | on top of that: the node-local tiers | |
| `TierMatrix` | `RunTier` over `serve`, `bench`, `stop`, with interrupted sessions | `run_tiers.ps1`, `run_tier.sh` |
| `TierMatrixProofs` | theorems about `TierMatrix` | |
| `TestBed` | the life of the three hosts | `Run-TierBench.ps1`, `provision.ps1`, `run_tiers.ps1` setup and deploy, `teardown.ps1` |
| `TestBedProofs` | theorems about `TestBed` | |
| `ThroughputBench` | the worker-pool benchmarks | `bench_baseline.py`, `valkey_microbench.py`, `connector_compare.py` |
| `ThroughputBenchProofs` | theorems about `ThroughputBench` | |
| `SealedCorpus` | abstract: what a corpus directory promises its readers | the order of the writes in `build_corpus` |
| `CorpusBuilder` | a build, and builds one after another over the same directories | `build_corpus.py` `main`, `_call_with_retry`, `generate_scenarios`, `generate_document`, `build_corpus` |
| `Generators` | the registry of domains: keys, prompts, placeholders | `generators/__init__.py`, `legal.py`, `medical.py`, `narrative.py` |
| `Allocation` | the largest-remainder allocation, and what a fair one is | `allocate_counts` |
| `AllocationProofs` | the theorem that its shares are fair | |
| `CorpusBuilderProofs` | theorems about `CorpusBuilder` | |
| `MC*` | constants of the instances TLC checks | |

**CorpusE2E.**  `pc` is the statement `main()` stands at, `doc` the loop's index,
`before`, `rows`, `pass_before` and `pass_delta` its variables, `report` what the
summary prints.  One action per call or loop body: `WaitForServer`, `FlushL2`,
`ColdSend`, `Settle`, `ReadBefore`, `CachedSend`, `ReadAfter` (and
`ReadPassBefore`, `ReadPassAfter` for the node-local tiers), `Summary`;
`StepRaises` and `WaitTimesOut` are its error paths.  Beside it run the servers:
`StoreLands` (a queued store becomes visible, whole or a prefix of it, evicting if
the tier is local and full), `ServerReady`, `ServerDies`, `ValkeyRestarts`,
`StatsFlush`.  A request is one action because the harness is the only client and
sends one at a time; a store of an earlier request may land between any two
statements.  The history variables `cold`, `served`, `origin`, `unread` and
`clean` record what really happened; no action of the harness reads them.

The `Serve` operator is the model of vLLM with LMCache: look up, retrieve or fail
to, compute the rest, queue it for the store.  Valkey counts the lookup and the
retrieve (`keyspace_hits` counts every EXISTS and GET that finds its key);
LMCache counts tokens retrieved.  A request may also never reach the tier: vLLM's own prefix
cache, which `run_tier.sh` switches off, may be on, since the harness can be run by hand,
and a stream can end without a token.

`ReuseReport` says the promise without the counters: documents are asked in order,
each is judged once and before the next, "yes" is said only of a document the
tier held, the summary is printed once, about all verdicts.  `CorpusE2E` with
`--backend valkey` implements it (`ImplementsReuseReport`, a refinement by
`INSTANCE ... WITH`); the node-local tiers do not, which is the first finding.

**TierMatrix.**  A session is one start of `run_tiers.ps1`; `todo` is its list of
`RunTier` calls.  `StopForServe`, `Launch`, `Ready`/`NotReady` are
`run_tier.sh serve`; `Fetch`/`BenchThrows` the end of `bench`; `Stop` the
`stop`.  A store holds the *set of benches whose KV it holds*; per-document detail
is in `CorpusE2E`.  `Interrupted` ends the session anywhere and leaves the hosts as
they are.  A harness is a process of its own (`BenchStep`) and outlives its
session: `run_tier.sh` gets no terminal, so nothing signals it, and its output
goes to a block-buffered pipe that it hardly writes to.  A result file is the
session of the harness that wrote it and the session in which it did.  Every kill of
`stop_vllm` and the `rm` of `clear_tier` is `|| true`: `Stopped` and `Launch` may leave
what they should have removed, and nothing notices.  Three variables are history:
`crowded` (some harness of an earlier session survived a `stop_vllm` of this one),
`unswept` (the nodes where the last stop or clearing failed) and `failures` (how many did).

**TestBed.**  `pc` and `job` are the operator's script, whichever it is: the
scripts call each other, so one at a time runs.  `inst`, `born` and `pg` are EC2;
`env` is `bench.env.ps1`; `got` and `az` are `provision.ps1`'s variables, lost when
it throws.  `Throws` ends the script where it stands; a launch that EC2 granted can also throw
(`LaunchGpuPair`, `LaunchValkey`), with the hosts running and nothing naming them, and the
placement group can be left deleted, or with its old pin (`Placement`).  `ShutsDown` ends a
host at any time (the dead-man's switch, or anything else).

**ThroughputBench.**  The three programs do the same things in different orders:
open a pool, make a pass of SET, GET or EXISTS over all keys, zero the buffers,
compare them, record a measurement, close.  `place` says where in its order a
program is: what it does next, in which phase, with which pool, and in which loop and rep.
The order itself is `After`, the place that follows a place, with one operator per
function (`PrimeAndWarm`, `TimedGet`, `TimedSet` and `AfterPaired` for `measure_paired`;
`AfterConfig` for `bench_config`; `AfterBackend` for `bench_backend`); a step that succeeds takes
it (`Moves`), one that fails goes to the `finally` clause or out of the program (`Raises`).  Within a pass the workers of the pool run beside
the program (`WorkerStep`), in submission order and one operation each.  What the
programs make of a bad result differs, and is `Bad` and `Gathered`: only
`_get_pass` looks at the booleans; `f.result()` is called in order, `asyncio.gather`
raises at once.  `client` is what the
installed client has: the buffer GET that the zero-copy arms insist on, and the flag
that forces the copy path of the others, whose absence an assertion reports
(`Toggle`).  `delivered` is history: the keys whose payload the last GET pass
really brought.  `out` has the lists of `measure_paired`, one per arm and operation; a
measurement is the rep it was taken in and its number among all of them, which is
what the pairing is about.

**CorpusBuilder.**  `pc` is the statement a build stands at, `cmd` its command line,
`how` the way the last one ended (`Reasons`: one for each exception or exit the code has).
One action per call and branch: `DetectModel`, `LoadTokenizer`, `BeginStage1`; a
request in one of the three places that make one ends by `CallFails` (which retries),
`CallRefused`, or one of `ScenariosReply`, `FirstReply`, `EmptyReply`,
`MoreReply`; `Trim` and `AddNoise`; and a file is opened in one step and written in the
next, since `open(path, "w")` truncates it and a process can end in between.
`Killed` ends the build anywhere, and the next `Start` finds the disk as it is.

A text is the number of tokens in it; an empty one is `EmptyReply`.  On disk that
number is one of four sizes, relative to the target: what a reader of the corpus tells
apart.  `docs[d]` is a function of the file's number, so a build of fewer
documents leaves the higher numbers of an earlier one; `jsonl[d]` is one of
`--target-tokens`, which is in that file's name.  A scenario is its weight
and the keys it has beyond or short of those the prompt asks for: this is all that
the validation and `template.format(**scenario, ...)` look at.  Trimming decodes the
first tokens and counts again, which need not give the same number; the
difference is one of `Drifts`.  A target is any whole number, since
`parse_args` takes any: `Kept` is what `ids[:target]` keeps for one below zero, and the summary of
a build with noise divides by one that is zero (`zero_target`).  `reply`, `fails` and `recent` are
history.  Each document, list and metadata file carries the build whose text it is; no file
says this, and no action reads it.

`MinTarget` is exact arithmetic where the code has `int(token_target * (1 - 0.02))`: in
doubles `1 - 0.02` is the double nearest to 98/100, the error of the product is less than
half of its last place, and so a product that should be a whole number is one; the others
are at least 1/50 from the next whole number.

`Allocation` counts quotas in fractions of a document, and the float product is the
exact one or its neighbour.  That is coarser than IEEE arithmetic and
includes what it can do here: put a quota that is a whole number on the wrong
side of it.

`SealedCorpus` has no requests, retries or texts in it: documents appear and change one at
a time, in order, and never vanish; a seal, which is the metadata, is put on a directory only
when every listed document is there, whole, as listed and of the build that seals.  The seal is no lock.
The files are written in place, so a later build replaces documents under a seal before it
withdraws it, and one that is killed in between leaves the seal on a directory it is no
longer true of; nothing on disk tells a reader.  What is promised of this is that the replaced
documents come first, and that no build writes to a document once it has sealed the
directory.  `CorpusBuilder` implements it.

Operators that nothing uses (`DeltaUnguarded`, `FlushesNothing`, `ValkeyInDefaultAZ`,
...) are mutants: the definition they stand before with a plausible bug.  With the
bug in place TLC finds the property violated; `PROJECT.json` says which for which.

## 3. Runs

| Run | Checks | Shows |
|---|---|---|
| `corpus_valkey` | `YesMeansFound`, `DeltaIsExact`, `QuestionMeansUnread`, `FlushedColdIsCold`, `FleetReuseCrossesNodes`, `ImplementsReuseReport`, `EveryRunEnds` | on the shared tier the attribution is exact, whatever lands, dies, restarts or cannot be read |
| `corpus_local` | `PassYesNeedsHit`, `LocalTierStaysLocal`, `ZeroMeansNone`, `EveryRunEnds` | what the pass-level attribution of local tiers does guarantee |
| `matrix` | `ColdPassIsCold`, `FleetReusesThisRun`, `MeasuresItsTier`, `OneEngine`, `FetchedIsThisRun`, `RunnerReturns` | leftovers of interrupted sessions do not reach a measurement, except through a harness that survives or a stop or clearing that fails unnoticed; a fetched file was written while its session ran |
| `testbed` | `EnvIsOneBed`, `OnlyKnownLosses`, `FreshBedIsSetUp`, `ScriptsReturn` | the recorded bed is one bed, hosts are lost in two ways only, and a new bed is set up before use |
| `throughput` | `MissIsNotThroughput`, `VerifiedIsFetched`, `QuietBetweenPasses`, `PairedAndCounterbalanced`, `NoFalseAlarm`, `EveryBenchEnds` | stale buffers do not pass for fetched ones, and pairs are pairs |
| `corpus_builder` | `MetadataDescribesDisk`, `LengthIsExplained`, `AllocationIsProportional`, `FailureIsEarned`, `ImplementsSealedCorpus`, `EveryBuildEnds` | a document that metadata lists is as listed or was replaced by a later build, whichever build was killed where; short documents, failures and counts have their reasons |
| `corpus_local_yes`, `corpus_local_total`, `corpus_local_false_no`, `matrix_resumed`, `testbed_rerun`, `corpus_exact` | one property each, expected to be violated | a sentence of the repository that the code does not keep (section 6) |

Every module's `TypeOK` is checked by its passing run, that of `CorpusE2E` by
`corpus_valkey` (the proof of it is for the local tiers too).

**Bounds.**  `CorpusE2E`: two documents are the least that can be confused with
one another (a hit of one in the window of the other, one confirmed and one not)
and one chunk each keeps a found prefix distinct from none; `Capacity = 1` makes a
local tier evict; `MaxEvents = 2` allows, after the first run, a second start or a
restart of Valkey, so a store of the first run can land in the second.
`TierMatrix`: `MaxSessions = 2` is an interrupted session and its successor; the
instance has more than one tier so that a leftover can be of the wrong one;
`MaxFailures = 1` stop or clearing fails unnoticed (none in `matrix_resumed`, whose counterexample needs none).
`TestBed`: two attempts in two zones, neither of which need be the default one;
`MaxInst = 5` is a bed of three and a second GPU pair, the smallest number with
which a second set overlaps the first.

`ThroughputBench`: three keys on two workers have a key in flight, one queued and
one done at once; two loops have a first and a later one; three reps are needed for
an order that alternates twice; `MaxFailures = 2` lets a lost SET meet a failed GET.

`CorpusBuilder`: two builds, since a build is disturbed by what one earlier left and
by nothing before it; at most two documents, from one scenario or two, so a
killed build leaves some of its files and a shorter one leaves another's; commands with and
without noise, with a model name or none, with no documents or fewer, and in the domain
that is a stub, and for targets of 100 and 200 tokens, of none and of fewer; replies of each kind that is turned down, and accepted ones with missing, extra
and negative data.  `MaxContinuations` is 4 where the code has 10: with continuations of 30 (a low yield) and 50 tokens
it is the least with which low yields that are in a row, that are not, and running out all
happen, the last for the target of 200: 0 + 30 + 50 + 30 + 50 is short of 196.  Noise adds one token or removes five, which is
more than the tolerance, so it can make a document of a sufficient length short.  Allocations are judged for up to `MaxShares` documents, 15, beyond the sum of
any instance's weights, after which quotas repeat.

**Deadlock** is not checked where the bound itself stops the system: in
`CorpusE2E` a finished harness may not be started again after `MaxEvents`, and
in `TierMatrix` no session starts after `MaxSessions`, and a program of
`ThroughputBench` ends, and no build of `CorpusBuilder` starts after `MaxBuilds`.
`TestBed` is checked for
deadlock.

**Fairness.**  The scripts and the harness are sequential, and each call they make
is bounded: `urlopen` and the sockets have timeouts, `_wait_for_server` a
deadline, `wait_ready` 900 s and a check that vLLM is alive, ssh a connect timeout and
keep-alives, the builder's client a timeout and `_call_with_retry` a number of attempts, the EC2 waiters a number of tries.  So weak fairness of "the next
step, whatever its outcome" is what the code gives, and the error outcome is among
the steps.  Nothing is assumed about servers becoming ready, stores landing or
Valkey staying up.  `StatsFlush` is fair because LMCache's logging thread lives as
long as its process; the sleep of `max(settle, 15)` seconds before the last read
of a local counter is modelled as longer than its period (`StatsLanded`).

## 4. Proofs

Every theorem but `SharesAreFair`, which is about an operator, is about a specification with all
its constants open.  Each follows from an
inductive invariant, given below with the reason why the property alone is not inductive;
TLC checked these invariants on the instances of section 3 before they were proved.

### The harness

`CorpusE2EProofs` proves, for every number of documents and chunks, every
backend, capacity and number of restarts:

- `TypeCorrect`: `Spec => []TypeOK`.
- `AttributionSound`: `Spec => []YesMeansFound`.  On the Valkey tier a "yes" is
  said only of a document the tier held when it was asked for it.

They rest on the named assumptions of `CorpusE2E` about its constants, which TLC
evaluates in every run.

`YesMeansFound` is not inductive: it says nothing of the counter.  The invariant
that is, `AttributionInv`, joins to it that

- rows are written in document order, and those not yet reached hold no verdict
  (`RowsInTurn`): otherwise a second write to a row could contradict the first;
- a retrieve delivers only what the lookup found (`GotIsFound`);
- `CounterWindow`: between `ReadBefore` and `ReadAfter` the counter stands at no
  more than the value read, plus what the current document's own request moved it by
  (a restart of Valkey only lowers it), so a positive difference is that
  document's;
- the loops of the local tiers are not entered by the Valkey tier
  (`PassReadsAreLocal`), whose one delta for all rows would break the claim.

The crux is `ReadAfterStep`: `delta > 0` means both reads succeeded, hence by
`CounterWindow` that `found + got > 0`, hence by `GotIsFound` that `found > 0`.
`CachedSendStep` establishes the window, `ReadBeforeStep` opens it, `OtherSteps`
shows that stores landing, flushes, deaths and restarts do not widen it.

`SharedTierProofs` adds, about `--backend valkey`:

- `DeltasAreExact` and `QuestionsAreUnread`.  `CounterWindow` bounds the counter from above,
  which makes a "yes" true; that a "no" is a miss, and that a document is "?" only for
  its own failed read, needs the other half.  `ReadingInv` has the equation
  (`ExactWindow`: between the two reads the counter stands exactly at the value read plus
  what this request hit, as long as Valkey was not restarted), and which reads can have
  failed by now (`ReadsInTurn`).  Stores that land do not move the counter, and dying
  servers do not: this is `OtherReading`.
- `ColdPassIsFlushed` and `FleetHitsCrossNodes`.  Both are about KV that lands late.
  `FlushInv` says that after a clean flush Valkey holds, and is about to be given, only
  documents the cold pass has already asked for (`ColdWindow`), and that until the second
  node is asked for a document whatever is held or under way of it is the first
  node's (`FromFirst`).  A document found there is therefore the first node's.
- `HarnessImplementsReuseReport`: `Spec => ImplementsReuseReport` when `"valkey"` is the
  only backend (for the others it is false: section 6).  `AskStep`, `JudgeStep`,
  `SummariseStep` and `RestartStep` map the four actions that show anything onto
  those of `ReuseReport`, and `PromiseStep` shows that every other one shows nothing.
  `JudgeStep` needs `AttributionInv` *after* the step: "yes" is said only of a found
  document.  `ReportInv` says that rows before `doc` are judged and the report is
  empty until the end, so that the abstract turn is the concrete loop index.

`LocalTierProofs` is about the node-local tiers, whose one counter is read twice a pass:

- `UnmovedMeansNone`.  `PassInv`: since the first read the counter is no lower, and is
  higher if anything was retrieved (`Moved`); `/metrics` is never ahead of the counter (`Behind`).
- `PassYesIsEarned` and `LocalTiersStayLocal`, for the first run on fresh nodes.
  `FreshInv`: a node's tier holds, or is about to be given, nothing of a document the node was
  not asked for, so nothing is hit before the cached pass, and on the second node
  nothing at all.  `HitInv`: whatever says that the counter moved (the counter, what is
  published, the delta, a row, the report) says that something was retrieved.

### The tier driver and the matrix runner

`TierMatrixProofs`, for every list of tiers, set of stages and number of sessions:
`TypeCorrect`, `OneEngineAlways`, `TierIsMeasured`, `ResultIsThisRun`, `ColdPass`, `FleetReuse`.
All but the first come out of `MatrixInv`.  The properties speak of the
measurement; what makes them hold happens earlier, so the invariant follows a call through
its steps: between `stop_vllm` and the launch the card is free (`CardIsFree`), every node
this call has launched serves its tier or nothing (`RightTier`), the second node is
used by a fleet only (`FleetNode`).  Unless a harness survived, from the first
stop on there is none but this call's (`Alone`), so a local store from its launch on, and the shared
one from the flush on, holds this call's KV only (`FreshStore`); and
the harness exits with 0 only after it wrote its file in this session (`OwnResult`).  None of this
holds of a node in `unswept`, and each part says so.  The exceptions of the properties
are the cases in which they are false: a harness that survives can use, fill or flush this session's tier,
and overwrite its file between the harness's exit and the `scp`; a server that survives
`stop_vllm` answers on the port.  What needs no exception is that the file was
written while this session ran (`ResultIsThisRun`, first part).

### The test bed

`TestBedProofs`, for every sweep of zones and any number of instances: `TypeCorrect`,
`RecordedBedIsOne`, `LossesAreKnown` and `FreshBedsAreSetUp`.  `BedInv`: ids are given in order and keep their role and zone
(`BornInv`), and `provision.ps1`'s variables hold a pair in one zone or a whole bed,
according to where it stands (`ScriptInv`), which is why what it writes is a bed
(`EnvInv`).  `LossInv` adds that while a new bed is launched and not yet recorded none of the old
one runs unless a loss was already counted: otherwise writing the file would
orphan hosts unseen.  `SetupInv` adds how far the loops of the setup and the upload have got,
and that a run that provisioned cannot take the branch that skips them.  What a refused teardown
leaves running is still named by the file (`OnlyKnownLosses`), although the script says it is gone.

### The worker pools

`ThroughputBenchProofs`, for any keys, workers, loops, reps and number of failures:

- `PoolsAreQuiet`, whatever `After` is: `QuietInv` adds that while a pass runs every other
  pool is idle.
- `TypeCorrect`.  That the loop and the rep stay within their bounds depends on where they are
  counted, so `FlowInv` says which places each program has (`PlaceOK`).  `AfterPaired`,
  `AfterConfig` and `AfterBackend` stay within them, and go from one to the next along a
  few kinds of edges (`PairedEdge`, ...), which is all that the proofs below use of them.
- `NoMissIsCounted` (an action property).  The buffers of `bench_baseline.py` are never cleared, and only the
  first is looked at in the timed reps.  `MissInv` has the reason why it is enough: a
  buffer that holds the payload means that the server does not hold a key of
  an earlier run, so after the verified warm-up of both arms every hit is a hit of
  this run's payload; and `_get_pass` raises at anything but a hit.
- `AcceptedIsFetched` (an action property).  RESP returns no hit vector, so the result of a pass says
  nothing there.  `FetchInv` follows the buffers from the zeroing to the verification: between them
  the payload is in a buffer only if the pass under way brought it.  For the pools
  with a hit vector it says so of the keys that were reported.
- `RaisesForAReason`.  `CalmInv` says what holds while nothing outside has gone wrong:
  after the priming SET the server has every key, no future is bad, and what is
  verified was filled in before.
- `PairsAreCounterbalanced`.  The property speaks of pairs, the loop appends one measurement at a
  time: `PairInv` gives the length of each list at every place (`Taken`) and the number
  of each entry (`InOrder`, `Turn`: the place of an arm and operation among the
  four of its rep).

### The corpus builder

`CorpusBuilderProofs` proves, for any command lines, replies, text lengths, drifts
and number of builds:

- `TypeCorrect`: `Spec => []TypeOK`, with two facts that it needs to be inductive:
  a request stands at an attempt it has failed as often before (`Retries`), and within
  the continuation loop the counts are below their limits (`Continuations`).
- `FailuresAreEarned`: `Spec => []FailureIsEarned`.  The invariant `FailureInv` joins
  to it that past Stage 1 the domain has prompts (`Prompted`), that the scenarios a build
  works with are the accepted ones (`Accepted`), and that a document under way belongs to
  one of them (`InDocument`).  The lemma under it is
  `DomainsAreSound`: in every implemented domain the keys that are required fill both
  templates, and the prompt asks for them; it is about the registry's data, and fails when a key
  is dropped from one of the lists.
- `LengthsAreExplained`: `Spec => []LengthIsExplained`.  `LengthInv` follows the reason
  from the place that gives up (`Lows`: the counter of low yields agrees with what the last
  two continuations brought) through `trim` and `noise` to the file.  The property is of the text that is
  about to be written: nothing extends it after the noise, so besides the three reasons of
  `generate_document` there is a fourth, that it was long enough before.
- `MetadataIsTrue`: `Spec => []MetadataDescribesDisk`.  The property says nothing of a
  build under way, which is where it is won: `DiskInv` adds how far the build has got with the
  files of its directory (`Progress`: its documents so far are on disk as its entries say and have the
  numbers below `doc_id`, and its JSONL file is whole by the time the metadata is
  opened), and that what lies there otherwise is of earlier builds (`Older`).  A build may be
  killed at any of these points; what it has replaced of an earlier one is what comes
  before it (`Layered`).
- `BuilderImplementsSealedCorpus`: `Spec => ImplementsSealedCorpus`, step by step from
  `DiskInv`: `OpenDocument` and `WriteDocument` are `Write`, `OpenMetadata` is `Withdraw`, or nothing where
  there was no seal, `WriteMetadata` is `Seal`.
- `AllocationIsFair`: `Spec => []AllocationIsProportional`.  That the shares are fair is
  `SharesAreFair` of `AllocationProofs`; what is left is that the build keeps to them.  `CountInv`
  says where the two loops stand: the documents so far are the shares of
  the scenarios that are done, and those of the one under way up to the place in it.

`SharesAreFair` is about `Allocation` alone, for every number of scenarios, all
weights with a positive sum and every rounding.  A total is a fold, which the prover has no induction
for; but it is the number of cells of a set (`Area`, `TotalIsArea`), and what has to be shown
of all subsets of a finite set follows from a smallest one that lacks it
(`SetInduction`, from the library's well-foundedness theorem).  The largest remainder is then
about ranks: `Ahead` puts the scenarios in an order without ties, so the ranks are the
numbers from 0 on, and exactly as many scenarios get one document more as are left over.  That no
share leaves its quota although a floor may be wrong is because a product can be
off only beside a whole number, where the fraction sends it to one end of the order.

The theorems of `CorpusBuilderProofs` rest on the named assumptions of `CorpusBuilder`, `SharesAreFair` on none.  One of them is about the
world: `DriftsAssumption`, that decoding and encoding a cut text loses less than the tolerance of
two per cent, for targets above zero; without it a trimmed text could be short for no reason.

### Model-checked only

- Every liveness property: the prover has no rule for `ENABLED`.
- What the runs that end in a violation show (section 6).

## 5. What is not modelled, and limits of what is

- `load_corpus`, padding and the timing statistics: they choose and describe data.
- Key pair, security group, AMI look-up and preflight queries: made before anything
  is launched and never changed after.  `LaunchGpuPair` is one action because the
  code asks for both in one request.
- The `rm -rf ~/kit` of the deploy stage is in `TestBed` (`UploadKit`,
  `UploadThrows`) and not in `TierMatrix`.
- A "yes" certifies that the *lookup* found the document.  A retrieve that fails
  afterwards still moved the counter; the harness has no second signal.
- In fleet mode with a local tier the counter read is the first node's, while the
  second serves: `ZeroMeansNone` is therefore stated for one node.
- The three counter prefixes of LMCache's metrics are one counter: which one it publishes is
  fixed for the life of a server.
- A request that timed out and is still being served when the harness is started again: the
  harness assumes that nobody else sends requests while it runs
  (`bench_corpus_e2e.py:365-367`).
- `FlushedColdIsCold` is about a FLUSHALL that no store outran.  One that was outrun leaves a
  warm cold pass, and the harness has no way to tell.
- `Interrupted` leaves the harness going.  A `serve` or `stop` on the host can survive a
  dropped ssh too; if it ends before the next session starts this is an interruption one step
  later, and if it goes on beside the next session's it is not modelled.
- `ThroughputBench` has `valkey_microbench.py --compare` and both backends of
  `connector_compare.py`, with verification on.  In their timed loops no result is
  looked at, so a key lost there counts as throughput; only `bench_baseline.py`
  says of itself that it cannot.  What `close` does with futures in flight is
  LMCache's: nothing looks at them after it.
- `bench_latency.py`, `bench_exists_patch.py` and `bench_resource_efficiency.py` are
  planned (section 7); comparison and token counting are reports over files.
- Of the corpus builder: the wording of prompts, the context that a continuation is
  given (`MAX_CONTEXT_CHARS`) and the statistics printed at the end.  Scenarios are
  well-typed: a weight that is no number raises `TypeError` and ends the build as
  a missing one does.
- vLLM refuses a `max_tokens` below one, which a target below one asks for; the model
  allows the answer.
- `corpus.noise` is not in the repository: `--noise` imports it after Stage 1, and
  `PrepareOutput` lets that succeed or fail.
- With a negative weight, which the validation lets through if the sum is positive, the
  shares still add up to the documents asked for, but one of them can be negative and is then
  written as none, so more documents are written than asked for, and the metadata's `documents` is
  not the number of its entries.  `AllocationIsProportional` has the sum for these weights too, and leaves the
  number of documents out.
- A build of fewer documents leaves the files of a longer one beyond its own.  The metadata does not
  list them (`MetadataDescribesDisk` says they are of other builds), but `load_corpus` of the harness
  reads every `doc_*.txt` when there is no metadata.
- `teardown.ps1:3` says it ends everything; it ends the recorded bed.  What else can be
  running is what `OnlyKnownLosses` names.

## 6. Where the code and its words part

Each is a run that TLC must find violated; `PROJECT.json` quotes the lines.

1. `corpus_local_yes`: on a local tier one hit marks every document "yes", one the tier did not serve too, and may
   print "L2 RETRIEVAL CONFIRMED for every document".
2. `corpus_local_total`: the printed total is the movement times the number of
   documents.
3. `corpus_local_false_no`: an unreadable local counter prints "no reuse recorded by
   the tier".
4. `matrix_resumed`: a harness that outlives an interrupted session warms the tier
   under the resumed session's cold pass.
5. `testbed_rerun`: running again launches a second set when one host of three is
   gone, or when the query fails.
6. `corpus_exact`: a document within two per cent of `--target-tokens`, or one the
   model stopped adding to, is written as it is, not with the exact number of tokens.

## 7. Plan

Done, in this order, the most important behaviour first: `ReuseReport` and
`CorpusE2E`; `TestBed`; `TierMatrix`; `ThroughputBench`; `CorpusBuilder` with
`SealedCorpus`; and for each of them the proofs of section 4, both refinements included.

Left:

1. What `load_corpus` reads of a directory that `CorpusBuilder` left, with and without
   metadata: the composition of the two programs.
2. The remaining microbenchmarks: the child process of
   `bench_resource_efficiency.py`, whose parent waits on a queue that a killed child
   never fills; the percentile of `bench_latency.py` against its definition.
3. A property of the fleet mode's counter on local tiers.
4. A `serve` or `stop` of an interrupted session beside the next session's.
