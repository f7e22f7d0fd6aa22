--------------------------- MODULE ThroughputBench ---------------------------
(***************************************************************************)
(* The three throughput benchmarks of the connector, bench_baseline.py,    *)
(* valkey_microbench.py and connector_compare.py.  Each drives one or more *)
(* pools of worker threads against a Valkey server: a pass submits one     *)
(* operation per key, the pool's workers take them in order, and the       *)
(* program gathers the futures, by itself or with asyncio.  What differs   *)
(* is the order of the passes, what is made of a failed operation, and     *)
(* what is compared when; the order is an operator of the program's place, *)
(* After, and one module runs all three.                                   *)
(*                                                                         *)
(* The pools belong to LMCache and are modelled from how the programs use  *)
(* them.  What is at stake is the number printed: a GET that fetched       *)
(* nothing is the fastest one.                                             *)
(***************************************************************************)
EXTENDS Integers, Sequences, FiniteSets

CONSTANTS
    Tools,       \* the programs of the instance
    NumKeys,     \* --num-keys
    NumWorkers,  \* --num-workers
    Loops,       \* --loops
    Reps,        \* --reps, of bench_baseline.py
    MaxFailures  \* bound: failed operations and constructors, Valkey restarts

ASSUME ToolsAssumption ==
    Tools \subseteq {"bench_baseline", "valkey_microbench", "connector_compare"}
ASSUME FlagsAssumption ==
    /\ NumKeys \in Nat \ {0} /\ NumWorkers \in Nat \ {0}
    /\ Loops \in Nat \ {0} /\ Reps \in Nat \ {0}
ASSUME MaxFailuresAssumption == MaxFailures \in Nat

VARIABLES
    tool,       \* the program
    client,     \* the installed client: it can read into a buffer, it has the flag
                \* that turns this off
    pc,         \* between two steps, in a pass, closing after an error, or ended
    place,      \* where in its order of passes
    pools,      \* the pools that are open
    job,        \* the future of each pool and key in the pool's latest pass
    got, found, \* keys the latest GET and EXISTS passes reported as hits
    store,      \* what the server holds under each key
    views,      \* what each set of read buffers holds
    out,        \* the measurements of each arm, with the rep and order they were taken in
    delivered,  \* history: keys whose payload the latest GET pass brought
    failures    \* history: what went wrong outside the program

program == <<tool, client, pc, place, pools, got, found, out>>
vars == <<program, job, store, views, delivered, failures>>

-----------------------------------------------------------------------------
\* Beside the definitions there are mutants, operators that nothing uses: each is
\* the definition it stands before with a bug the programs do not have.

Keys == 1..NumKeys
Pools == {"base", "opt", "w1", "wN", "buf", "glide", "resp"}
Workers(p) == IF p \in {"base", "w1"} THEN 1 ELSE NumWorkers
ZeroCopy(p) == p \in {"opt", "buf", "glide"}

\* bench_baseline.py has a set of buffers for each arm; the others share one
\* between their configurations.
Buffers == {"base", "opt", "shared"}
BufferOf(p) == IF p \in {"base", "opt"} THEN p ELSE "shared"

-----------------------------------------------------------------------------
(* The place of a program in its order of passes, of valkey_microbench.py with  *)
(* --compare, of connector_compare.py with both backends, neither with --no-verify. *)

Steps ==
    {"open", "toggle", "set", "get", "exists", "zero", "verify_reads", "verify_sample", "verify",
     "record_get", "record_set", "close", "end"}
Phases == {"start", "prime", "warm", "check", "timed", "close"}
Arms == {"base", "opt"}
Ops == {"get", "set"}

Place(what, phase, p) == [do |-> what, phase |-> phase, pool |-> p, loop |-> 0, rep |-> 0]
Timed(what, rep, p, n) == [do |-> what, phase |-> "timed", pool |-> p, loop |-> n, rep |-> rep]
Ended(p) == Place("end", "close", p)

\* measure_paired: prime and warm both arms, then reps of four measurements, the
\* arm that goes first alternating.
OnlyWarm(p) == Place("get", "warm", p)
PrimeAndWarm(p) == Place("set", "prime", p)
BaseFirst(rep) == <<"base", "opt">>
ArmOrder(rep) == IF rep % 2 = 0 THEN <<"base", "opt">> ELSE <<"opt", "base">>
GoesFirst(a) == a.pool = ArmOrder(a.rep)[1]
TimedPass(a, record) ==
    IF a.loop < Loops THEN Timed(a.do, a.rep, a.pool, a.loop + 1) ELSE [a EXCEPT !.do = record]

TimedGet(a) ==
    CASE a.do = "get" -> TimedPass(a, "record_get")
      [] a.do = "record_get" -> [a EXCEPT !.do = "verify_sample"]
      [] a.do = "verify_sample" ->
            IF GoesFirst(a) THEN Timed("get", a.rep, ArmOrder(a.rep)[2], 1)
            ELSE Timed("set", a.rep, ArmOrder(a.rep)[1], 1)
TimedSet(a) ==
    CASE a.do = "set" -> TimedPass(a, "record_set")
      [] a.do = "record_set" ->
            IF GoesFirst(a) THEN Timed("set", a.rep, ArmOrder(a.rep)[2], 1)
            ELSE IF a.rep + 1 < Reps THEN Timed("get", a.rep + 1, ArmOrder(a.rep + 1)[1], 1)
            ELSE Place("close", "close", "base")
AfterPaired(a) ==
    CASE a.do = "open" -> IF a.pool = "base" THEN Place("open", "start", "opt")
                          ELSE Place("toggle", "start", "opt")
      [] a.do = "toggle" -> PrimeAndWarm("base")
      [] a.phase = "prime" -> Place("get", "warm", a.pool)
      [] a.phase = "warm" /\ a.do = "get" -> [a EXCEPT !.do = "verify_reads"]
      [] a.do = "verify_reads" ->
            IF a.pool = "base" THEN PrimeAndWarm("opt") ELSE Timed("get", 0, ArmOrder(0)[1], 1)
      [] a.phase = "timed" ->
            IF a.do \in {"get", "record_get", "verify_sample"} THEN TimedGet(a) ELSE TimedSet(a)
      [] a.do = "close" -> IF a.pool = "base" THEN Place("close", "close", "opt") ELSE Ended("opt")

\* The passes of the other two: SET, GET, EXISTS, in each of the timed loops.
AllPasses(a) == [a EXCEPT !.do = IF a.do = "set" THEN "get" ELSE "exists"]
TimedLoop(a) ==
    IF a.loop < Loops THEN Timed("set", a.rep, a.pool, a.loop + 1)
    ELSE Place("close", "close", a.pool)

\* bench_config: what was read is compared in the first timed loop.
AfterConfig(a) ==
    CASE a.do = "open" -> Place("toggle", "start", a.pool)
      [] a.do = "toggle" -> Place("set", "prime", a.pool)
      [] a.phase = "prime" -> Place("set", "warm", a.pool)
      [] a.phase \in {"warm", "timed"} /\ a.do \in {"set", "get"} -> AllPasses(a)
      [] a.phase = "warm" /\ a.do = "exists" -> Timed("set", 0, a.pool, 1)
      [] a.phase = "timed" /\ a.do = "exists" -> [a EXCEPT !.do = "record_get"]
      [] a.do = "record_get" -> IF a.loop = 1 THEN [a EXCEPT !.do = "verify"] ELSE TimedLoop(a)
      [] a.do = "verify" -> TimedLoop(a)
      [] a.do = "close" -> CASE a.pool = "w1" -> Place("open", "start", "wN")
                             [] a.pool = "wN" -> Place("open", "start", "buf")
                             [] a.pool = "buf" -> Ended("buf")

\* bench_backend: what was read is compared before the timed loops, in a pass
\* that starts from zeroed buffers.
NoZeroing(p) == Place("get", "check", p)
VerifyPass(p) == Place("zero", "check", p)
AfterBackend(a) ==
    CASE a.do = "open" -> Place("toggle", "start", a.pool)
      [] a.do = "toggle" -> Place("set", "prime", a.pool)
      [] a.phase = "prime" -> Place("get", "warm", a.pool)
      [] a.phase = "warm" /\ a.do = "exists" -> VerifyPass(a.pool)
      [] a.do = "zero" -> [a EXCEPT !.do = "get"]
      [] a.phase = "check" /\ a.do = "exists" -> [a EXCEPT !.do = "verify"]
      [] a.do = "verify" -> Timed("set", 0, a.pool, 1)
      [] a.phase # "prime" /\ a.do \in {"set", "get"} -> AllPasses(a)
      [] a.phase = "timed" /\ a.do = "exists" -> [a EXCEPT !.do = "record_get"]
      [] a.do = "record_get" -> TimedLoop(a)
      [] a.do = "close" -> IF a.pool = "glide" THEN Place("open", "start", "resp") ELSE Ended("resp")

FirstPool(t) ==
    CASE t = "bench_baseline" -> "base"
      [] t = "valkey_microbench" -> "w1"
      [] t = "connector_compare" -> "glide"
After(a) ==
    CASE tool = "bench_baseline" -> AfterPaired(a)
      [] tool = "valkey_microbench" -> AfterConfig(a)
      [] tool = "connector_compare" -> AfterBackend(a)

P == place.pool
At(what) == pc = "run" /\ place.do = what
Moves == pc' = "run" /\ place' = After(place)
Raises(to) == pc' = to /\ UNCHANGED place

-----------------------------------------------------------------------------
(* The pool. *)

Passes == {"set", "get", "exists"}
Unfinished(p) == {k \in Keys : job[p][k] = "submitted"}
\* One operation in flight per worker, taken in the order of submission.
InFlight(p) ==
    {k \in Unfinished(p) : Cardinality({j \in Unfinished(p) : j < k}) < Workers(p)}

Resolves(p, k, result) == job' = [job EXCEPT ![p][k] = result]
Fails == failures < MaxFailures /\ failures' = failures + 1

CopiesMiss(k, b) == store[k]
Received(k, b) == IF store[k] = "absent" THEN views[b][k] ELSE store[k]

\* submit_get_into: a hit fills the buffer; a miss leaves it as it was; an
\* error is reported as a miss, and may leave it half filled.
WorkerGets(p, k) ==
    LET b == BufferOf(p) IN
    \/ /\ Resolves(p, k, IF store[k] = "absent" THEN "miss" ELSE "ok")
       /\ views' = [views EXCEPT ![b][k] = Received(k, b)]
       /\ delivered' = IF store[k] = "mine" THEN delivered \cup {k} ELSE delivered
       /\ UNCHANGED failures
    \/ /\ Fails
       /\ \/ Resolves(p, k, "miss")
          \/ p = "resp" /\ Resolves(p, k, "raised")
       /\ views' \in {views, [views EXCEPT ![b][k] = "torn"]}
       /\ UNCHANGED delivered

\* submit_set: an error is raised, or is lost, since nobody looks at the result.
WorkerSets(p, k) ==
    /\ \/ /\ Resolves(p, k, "ok")
          /\ store' = [store EXCEPT ![k] = "mine"]
          /\ UNCHANGED failures
       \/ /\ Fails
          /\ Resolves(p, k, "ok") \/ Resolves(p, k, "raised")
          /\ UNCHANGED store
    /\ UNCHANGED <<views, delivered>>

WorkerAsks(p, k) ==
    /\ \/ Resolves(p, k, IF store[k] = "absent" THEN "miss" ELSE "ok") /\ UNCHANGED failures
       \/ Fails /\ (Resolves(p, k, "miss") \/ Resolves(p, k, "raised"))
    /\ UNCHANGED <<views, delivered>>

WorkerStep(p, k) ==
    /\ p \in pools /\ k \in InFlight(p)
    /\ \/ place.do = "get" /\ WorkerGets(p, k) /\ UNCHANGED store
       \/ place.do = "set" /\ WorkerSets(p, k)
       \/ place.do = "exists" /\ WorkerAsks(p, k) /\ UNCHANGED store
    /\ UNCHANGED program

\* Started with --save '' --appendonly no: a restart loses the keys.
ValkeyRestarts ==
    /\ pc \in {"run", "pass"}
    /\ Fails
    /\ store' = [k \in Keys |-> "absent"]
    /\ UNCHANGED <<program, job, views, delivered>>

-----------------------------------------------------------------------------
(* The program. *)

\* A pool that cannot be built: nothing is closed, the pools before it neither.
Open ==
    /\ At("open")
    /\ \/ pools' = pools \cup {P} /\ Moves /\ UNCHANGED failures
       \/ Fails /\ Raises("raised") /\ UNCHANGED pools
    /\ UNCHANGED <<tool, client, got, found, out, job, store, views, delivered>>

\* bench_baseline.py has opened both pools when it forces the copy path of one.
ForcesCopy(p) == p \in {"opt", "w1", "wN"}

\* The zero-copy path is insisted on, or the copy path is forced: through a flag of
\* the client that is asserted to be there, in valkey_microbench.py before the try
\* whose finally closes the pool.
Toggle ==
    /\ At("toggle")
    /\ IF ZeroCopy(P) /\ ~client.buffer_get THEN Raises("closing")
       ELSE IF ForcesCopy(P) /\ ~client.flag
            THEN Raises(IF tool = "bench_baseline" THEN "closing" ELSE "raised")
            ELSE Moves
    /\ UNCHANGED <<tool, client, pools, got, found, out, job, store, views,
                   delivered, failures>>

BeginPass ==
    /\ pc = "run" /\ place.do \in Passes
    /\ pc' = "pass"
    /\ job' = [job EXCEPT ![P] = [k \in Keys |-> "-"]]
    /\ delivered' = IF place.do = "get" THEN {} ELSE delivered
    /\ UNCHANGED <<tool, client, place, pools, got, found, out, store, views, failures>>

Submitted == \A k \in Keys : job[P][k] # "-"

Submit ==
    /\ pc = "pass" /\ ~Submitted
    /\ LET k == CHOOSE k \in Keys : job[P][k] = "-" /\ \A j \in 1..(k - 1) : job[P][j] # "-"
       IN job' = [job EXCEPT ![P][k] = "submitted"]
    /\ UNCHANGED <<program, store, views, delivered, failures>>

\* Only _get_pass of bench_baseline.py looks at the result of a future here.
OnlyExceptions == {"raised"}
Bad == IF tool = "bench_baseline" /\ place.do = "get" THEN {"miss", "raised"} ELSE {"raised"}

\* f.result() of the first future that is bad, those before it being good; gather
\* raises as soon as any of them does.
GathersForEver == FALSE
Gathered ==
    \E k \in Keys :
        /\ job[P][k] \in Bad
        /\ tool = "connector_compare" \/ \A j \in 1..(k - 1) : job[P][j] \notin {"submitted"}

PassRaises ==
    /\ pc = "pass" /\ Submitted
    /\ Gathered
    /\ Raises("closing")
    /\ UNCHANGED <<tool, client, pools, got, found, out, job, store, views,
                   delivered, failures>>

\* batch_get of the RESP client returns nothing: [True] * len(keys).
AllSeen == Keys
Hits == IF P = "resp" /\ place.do = "get" THEN Keys ELSE {k \in Keys : job[P][k] = "ok"}

FirstFuture == job[P][1] # "submitted"
Drained == Unfinished(P) = {}

PassEnds ==
    /\ pc = "pass" /\ Submitted
    /\ Drained
    /\ \A k \in Keys : job[P][k] \notin Bad
    /\ got' = IF place.do = "get" THEN Hits ELSE got
    /\ found' = IF place.do = "exists" THEN Hits ELSE found
    /\ Moves
    /\ UNCHANGED <<tool, client, pools, out, job, store, views, delivered, failures>>

\* out[arm][op].append
Measured ==
    Len(out["base"]["get"]) + Len(out["base"]["set"]) + Len(out["opt"]["get"]) + Len(out["opt"]["set"])
Appended(op) == [out EXCEPT ![P][op] = Append(@, [rep |-> place.rep, nth |-> Measured + 1])]

Record ==
    /\ \E op \in Ops :
          /\ At(IF op = "get" THEN "record_get" ELSE "record_set")
          /\ out' = IF tool = "bench_baseline" THEN Appended(op) ELSE out
    /\ Moves
    /\ UNCHANGED <<tool, client, pools, got, found, job, store, views,
                   delivered, failures>>

Zero ==
    /\ At("zero")
    /\ views' = [views EXCEPT !["shared"] = [k \in Keys |-> "zero"]]
    /\ Moves
    /\ UNCHANGED <<tool, client, pools, got, found, out, job, store,
                   delivered, failures>>

\* _verify_reads, _verify_sample, and the verification of the other two programs.
Holds(p, ks) == \A k \in ks : views[BufferOf(p)][k] = "mine"
AllHit == got = Keys /\ found = Keys /\ Holds(P, Keys)

Verify ==
    /\ \E kind \in {"verify_reads", "verify_sample", "verify"} :
          /\ At(kind)
          /\ IF \/ kind = "verify_reads" /\ Holds(P, Keys)
                \/ kind = "verify_sample" /\ Holds(P, {1})
                \/ kind = "verify" /\ AllHit
             THEN Moves ELSE Raises("closing")
    /\ UNCHANGED <<tool, client, pools, got, found, out, job, store, views,
                   delivered, failures>>

Close ==
    /\ At("close")
    /\ pools' = pools \ {P}
    /\ Moves
    /\ UNCHANGED <<tool, client, got, found, out, job, store, views,
                   delivered, failures>>

\* The finally clause, futures in flight or not.
CloseAfterError ==
    /\ pc = "closing"
    /\ pools' = {}
    /\ Raises("raised")
    /\ UNCHANGED <<tool, client, got, found, out, job, store, views,
                   delivered, failures>>

\* The table is printed.
Report ==
    /\ At("end")
    /\ Raises("done")
    /\ UNCHANGED <<tool, client, pools, got, found, out, job, store, views,
                   delivered, failures>>

-----------------------------------------------------------------------------
\* The keys have the same names in every run of a program, the payload is new:
\* the server may hold the one of an earlier run.
Init ==
    /\ tool \in Tools
    /\ client \in [buffer_get : BOOLEAN, flag : BOOLEAN]
    /\ pc = "run" /\ place = Place("open", "start", FirstPool(tool))
    /\ pools = {}
    /\ job = [p \in Pools |-> [k \in Keys |-> "-"]]
    /\ got = {} /\ found = {}
    /\ \E held \in {"absent", "old"} : store = [k \in Keys |-> held]
    /\ views = [b \in Buffers |-> [k \in Keys |-> "zero"]]
    /\ out = [p \in Arms |-> [op \in Ops |-> <<>>]]
    /\ delivered = {} /\ failures = 0

ProgramStep ==
    \/ Open \/ Toggle \/ BeginPass \/ Submit \/ PassRaises \/ PassEnds \/ Record
    \/ Zero \/ Verify \/ Close \/ CloseAfterError \/ Report

Next ==
    \/ ProgramStep
    \/ \E p \in Pools, k \in Keys : WorkerStep(p, k)
    \/ ValkeyRestarts

\* A worker's operation ends, with an error if the request times out.
Spec ==
    /\ Init /\ [][Next]_vars
    /\ WF_vars(ProgramStep)
    /\ \A p \in Pools : WF_vars(\E k \in Keys : WorkerStep(p, k))

-----------------------------------------------------------------------------
Measurements == [rep : Nat, nth : Nat]
Contents == {"absent", "old", "mine"}

\* Every variable stays in its type.
TypeOK ==
    /\ tool \in Tools /\ client \in [buffer_get : BOOLEAN, flag : BOOLEAN]
    /\ pc \in {"run", "pass", "closing", "raised", "done"}
    /\ place \in [do : Steps, phase : Phases, pool : Pools, loop : 0..Loops, rep : 0..(Reps - 1)]
    /\ pools \in SUBSET Pools
    /\ job \in [Pools -> [Keys -> {"-", "submitted", "ok", "miss", "raised"}]]
    /\ got \in SUBSET Keys /\ found \in SUBSET Keys
    /\ out \in [Arms -> [Ops -> Seq(Measurements)]]
    /\ store \in [Keys -> Contents]
    /\ views \in [Buffers -> [Keys -> {"zero", "old", "mine", "torn"}]]
    /\ delivered \in SUBSET Keys
    /\ failures \in Nat

\* bench_baseline.py: "a silent miss cannot be counted as free throughput".  When a
\* timed GET pass ends, the payload of every key came from the server in that
\* pass, although the buffers are never cleared and only one is compared.
MissIsNotThroughput ==
    [][tool = "bench_baseline" /\ pc = "pass" /\ pc' = "run" /\ place.do = "get" /\ place.phase = "timed"
         => delivered = Keys]_vars

\* What a verification accepts was fetched by the pass it verifies, for every key
\* and every connector, not left in the buffers by the warm-up or by the
\* configuration before it.
VerifiedIsFetched == [][At("verify") /\ place' # place => delivered = Keys]_vars

\* No worker writes a buffer, or takes part in a time, after the pass it belongs to:
\* the program compares and measures quiet pools, and the arms never overlap.
QuietBetweenPasses == pc = "run" => \A p \in Pools : Unfinished(p) = {}

\* The k-th measurements of the two arms, whose ratio is printed, are of one rep
\* and next to each other, the arm that goes first alternates, and the table has a
\* pair of every rep.
PairedAndCounterbalanced ==
    \A op \in Ops :
        LET base == out["base"][op]  opt == out["opt"][op] IN
        /\ \A k \in DOMAIN base \cap DOMAIN opt :
              /\ base[k].rep = opt[k].rep
              /\ base[k].nth - opt[k].nth \in {1, -1}
              /\ k > 1 => (base[k].nth < opt[k].nth <=> opt[k - 1].nth < base[k - 1].nth)
        /\ tool = "bench_baseline" /\ pc = "done" => Len(base) = Reps /\ Len(opt) = Reps

\* A program raises only when something went wrong outside it or the client is not what
\* it needs: stale buffers, keys of an earlier run, or a slow worker are no reason.
NoFalseAlarm == pc = "raised" => failures > 0 \/ ~client.buffer_get \/ ~client.flag

\* Every program ends, with a table or an error.
EveryBenchEnds == pc = "run" ~> pc \in {"done", "raised"}
=============================================================================
