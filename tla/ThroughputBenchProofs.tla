------------------------ MODULE ThroughputBenchProofs ------------------------
(***************************************************************************)
(* Theorems about ThroughputBench, for any keys, workers, loops, reps and  *)
(* failures.                                                               *)
(***************************************************************************)
EXTENDS ThroughputBench, TLAPS

Futures == [Keys -> {"-", "submitted", "ok", "miss", "raised"}]

\* Before a pass is gathered its pool is the only one with work to do.
QuietInv ==
    /\ job \in [Pools -> Futures]
    /\ QuietBetweenPasses
    /\ pc = "pass" => \A p \in Pools \ {P} : Unfinished(p) = {}

\* No pool has work initially.
LEMMA InitQuiet == Init => QuietInv
<1> SUFFICES ASSUME Init PROVE QuietInv
  OBVIOUS
<1>1. \A p \in Pools : job[p] = [k \in Keys |-> "-"]
  BY DEF Init
<1>2. \A p \in Pools : Unfinished(p) = {}
  BY <1>1 DEF Unfinished
<1>3. job \in [Pools -> Futures] /\ pc = "run"
  BY DEF Init, Futures
<1> QED BY <1>2, <1>3 DEF QuietInv, QuietBetweenPasses

\* A worker takes a future out of the pool's work and gives it none.
LEMMA WorkerQuiet ==
    ASSUME QuietInv, NEW q \in Pools, NEW k \in Keys, WorkerStep(q, k) PROVE QuietInv'
<1>1. UNCHANGED program /\ \E r \in {"ok", "miss", "raised"} : Resolves(q, k, r)
  BY DEF WorkerStep, WorkerGets, WorkerSets, WorkerAsks
<1>2. PICK r \in {"ok", "miss", "raised"} : job' = [job EXCEPT ![q][k] = r]
  BY <1>1 DEF Resolves
<1>3. job' \in [Pools -> Futures]
  BY <1>2 DEF QuietInv, Futures
<1>4. \A p \in Pools : Unfinished(p)' \subseteq Unfinished(p)
  BY <1>2 DEF QuietInv, Futures, Unfinished
<1>5. pc' = pc /\ P' = P
  BY <1>1 DEF program, P
<1> QED BY <1>3, <1>4, <1>5 DEF QuietInv, QuietBetweenPasses

\* The pass of one pool touches no other pool's futures.
LEMMA PassQuiet ==
    ASSUME QuietInv, BeginPass \/ Submit PROVE QuietInv'
<1>1. \E f \in Futures : job' = [job EXCEPT ![P] = f]
  <2>1. CASE BeginPass
    <3>1. [k \in Keys |-> "-"] \in Futures
      BY DEF Futures
    <3> QED BY <2>1, <3>1 DEF BeginPass
  <2>2. CASE Submit
    <3>1. PICK k : job' = [job EXCEPT ![P][k] = "submitted"]
      BY <2>2 DEF Submit
    <3>2. CASE P \in Pools
      <4>1. [job[P] EXCEPT ![k] = "submitted"] \in Futures
        BY <3>2 DEF QuietInv, Futures
      <4>2. job' = [job EXCEPT ![P] = [job[P] EXCEPT ![k] = "submitted"]]
        BY <3>1
      <4> QED BY <4>1, <4>2
    <3>3. CASE P \notin Pools
      <4>1. [k1 \in Keys |-> "-"] \in Futures
        BY DEF Futures
      <4>2. job' = [job EXCEPT ![P] = [k1 \in Keys |-> "-"]]
        BY <3>1, <3>3 DEF QuietInv
      <4> QED BY <4>1, <4>2
    <3> QED BY <3>2, <3>3
  <2> QED BY <2>1, <2>2
<1>2. job' \in [Pools -> Futures] /\ \A p \in Pools \ {P} : job'[p] = job[p]
  BY <1>1 DEF QuietInv
<1>3. pc' = "pass" /\ P' = P
  BY DEF BeginPass, Submit, P, program
<1>4. \A p \in Pools \ {P} : Unfinished(p) = {}
  BY DEF BeginPass, Submit, QuietInv, QuietBetweenPasses
<1>5. \A p \in Pools \ {P} : Unfinished(p)' = Unfinished(p)
  BY <1>2 DEF Unfinished
<1> QED BY <1>2, <1>3, <1>4, <1>5 DEF QuietInv, QuietBetweenPasses

\* A pass that ends has drained its pool.
LEMMA EndQuiet == ASSUME QuietInv, PassEnds PROVE QuietInv'
<1>1. pc = "pass" /\ pc' = "run" /\ job' = job /\ Unfinished(P) = {}
  BY DEF PassEnds, Moves, Drained
<1>2. \A p \in Pools : Unfinished(p) = {}
  BY <1>1 DEF QuietInv
<1> QED BY <1>1, <1>2 DEF QuietInv, QuietBetweenPasses, Unfinished

\* Every step keeps the invariant.
LEMMA NextQuiet == ASSUME QuietInv, [Next]_vars PROVE QuietInv'
<1>1. CASE Open \/ Toggle \/ Record \/ Zero \/ Verify \/ Close \/ Report
  <2>1. pc = "run" /\ pc' # "pass" /\ job' = job
    BY <1>1 DEF Open, Toggle, Record, Zero, Verify, Close, Report, At, Moves, Raises
  <2> QED BY <2>1 DEF QuietInv, QuietBetweenPasses, Unfinished
<1>2. CASE PassRaises \/ CloseAfterError
  <2>1. pc' \in {"closing", "raised"} /\ job' = job
    BY <1>2 DEF PassRaises, CloseAfterError, Raises
  <2> QED BY <2>1 DEF QuietInv, QuietBetweenPasses
<1>3. CASE ValkeyRestarts \/ UNCHANGED vars
  <2>1. UNCHANGED <<program, job>>
    BY <1>3 DEF ValkeyRestarts, vars
  <2> QED BY <2>1 DEF program, QuietInv, QuietBetweenPasses, Unfinished, P
<1> QED BY <1>1, <1>2, <1>3, WorkerQuiet, PassQuiet, EndQuiet DEF Next, ProgramStep

\* No worker writes a buffer or takes part in a measurement after its pass.
THEOREM PoolsAreQuiet == Spec => []QuietBetweenPasses
<1>1. QuietInv => QuietBetweenPasses
  BY DEF QuietInv
<1> QED BY <1>1, InitQuiet, NextQuiet, PTL DEF Spec

-----------------------------------------------------------------------------
(* Every program stays in its order of passes. *)

\* Where each program can be.  Only what the CASE of its order tells apart.
Places == [do : Steps, phase : Phases, pool : Pools, loop : 0..Loops, rep : 0..(Reps - 1)]

PairedPlace(a) ==
    /\ a.pool \in Arms
    /\ \/ a.do = "open" /\ a.phase = "start"
       \/ a.do = "toggle" /\ a.phase = "start"
       \/ a.do = "set" /\ a.phase = "prime"
       \/ a.do \in {"get", "verify_reads"} /\ a.phase = "warm"
       \/ a.do \in {"get", "set", "record_get", "record_set", "verify_sample"} /\ a.phase = "timed"
       \/ a.do \in {"close", "end"} /\ a.phase = "close"

ConfigPlace(a) ==
    /\ a.pool \in {"w1", "wN", "buf"}
    /\ \/ a.do \in {"open", "toggle"} /\ a.phase = "start"
       \/ a.do = "set" /\ a.phase = "prime"
       \/ a.do \in {"set", "get", "exists"} /\ a.phase = "warm"
       \/ a.do \in {"set", "get", "exists", "record_get", "verify"} /\ a.phase = "timed"
       \/ a.do \in {"close", "end"} /\ a.phase = "close"

BackendPlace(a) ==
    /\ a.pool \in {"glide", "resp"}
    /\ \/ a.do \in {"open", "toggle"} /\ a.phase = "start"
       \/ a.do = "set" /\ a.phase = "prime"
       \/ a.do \in {"get", "exists"} /\ a.phase = "warm"
       \/ a.do \in {"zero", "get", "exists", "verify"} /\ a.phase = "check"
       \/ a.do \in {"set", "get", "exists", "record_get"} /\ a.phase = "timed"
       \/ a.do \in {"close", "end"} /\ a.phase = "close"

PlaceOK(a) ==
    /\ a \in Places
    /\ tool = "bench_baseline" => PairedPlace(a)
    /\ tool = "valkey_microbench" => ConfigPlace(a)
    /\ tool = "connector_compare" => BackendPlace(a)

\* A pass is one of the three kinds, and the table is printed at the end.
FlowInv ==
    /\ PlaceOK(place)
    /\ pc = "pass" => place.do \in Passes
    /\ pc = "done" => place.do = "end"

TypeInv == TypeOK /\ QuietInv /\ FlowInv

\* The steps from one place to the next.
PairedEdge(a, b) ==
    \/ a.phase = "start" /\ b.phase \in {"start", "prime"}
    \/ a.phase = "prime" /\ b.phase = "warm" /\ b.do = "get" /\ b.pool = a.pool
    \/ a.phase = "warm" /\ a.do = "get" /\ b.phase = "warm" /\ b.do = "verify_reads" /\ b.pool = a.pool
    \/ a.do = "verify_reads" /\ a.phase = "warm" /\ a.pool = "base" /\ b.phase = "prime"
    \/ /\ a.do = "verify_reads" /\ a.phase = "warm" /\ a.pool = "opt"
       /\ b.phase = "timed" /\ b.do = "get" /\ b.rep = 0 /\ b.pool = ArmOrder(0)[1]
    \/ /\ a.phase = "timed" /\ b.phase = "timed" /\ b.rep = a.rep /\ b.pool = a.pool
       /\ \/ a.do = "get" /\ b.do \in {"get", "record_get"}
          \/ a.do = "record_get" /\ b.do = "verify_sample"
          \/ a.do = "set" /\ b.do \in {"set", "record_set"}
    \/ /\ a.phase = "timed" /\ b.phase = "timed" /\ b.rep = a.rep
       /\ \/ a.do = "verify_sample" /\ b.do = IF GoesFirst(a) THEN "get" ELSE "set"
          \/ a.do = "record_set" /\ GoesFirst(a) /\ b.do = "set"
       /\ b.pool = IF GoesFirst(a) THEN ArmOrder(a.rep)[2] ELSE ArmOrder(a.rep)[1]
    \/ /\ a.phase = "timed" /\ a.do = "record_set" /\ ~GoesFirst(a)
       /\ \/ b.phase = "timed" /\ b.do = "get" /\ b.rep = a.rep + 1 /\ b.pool = ArmOrder(a.rep + 1)[1]
          \/ b.phase = "close" /\ a.rep + 1 = Reps
    \/ a.phase = "close" /\ b.phase = "close"

ConfigEdge(a, b) ==
    \/ a.phase = "start" /\ b.phase \in {"start", "prime"}
    \/ a.phase = "prime" /\ b.phase = "warm" /\ b.do = "set"
    \/ /\ a.phase \in {"warm", "timed"} /\ b.phase = a.phase /\ b.pool = a.pool
       /\ (a.do = "set" /\ b.do = "get") \/ (a.do = "get" /\ b.do = "exists")
    \/ a.do = "exists" /\ a.phase = "warm" /\ b.phase = "timed" /\ b.do = "set"
    \/ /\ a.phase = "timed" /\ b.phase = "timed" /\ b.pool = a.pool
       /\ (a.do = "exists" /\ b.do = "record_get") \/ (a.do = "record_get" /\ b.do = "verify")
    \/ /\ a.phase = "timed" /\ a.do \in {"record_get", "verify"}
       /\ (b.phase = "timed" /\ b.do = "set") \/ b.phase = "close"
    \/ a.phase = "close" /\ b.phase \in {"close", "start"}

BackendEdge(a, b) ==
    /\ a.pool = "resp" => b.pool = "resp"
    /\ \/ a.phase = "start" /\ b.phase \in {"start", "prime"}
       \/ a.phase = "prime" /\ b.phase = "warm" /\ b.do = "get" /\ b.pool = a.pool
       \/ a.phase = "warm" /\ a.do = "exists" /\ b.phase = "check" /\ b.do = "zero"
       \/ /\ a.phase = "check" /\ b.phase = "check" /\ b.pool = a.pool
          /\ (a.do = "zero" /\ b.do = "get") \/ (a.do = "exists" /\ b.do = "verify")
       \/ a.do = "verify" /\ b.phase = "timed" /\ b.do = "set"
       \/ /\ a.phase \in {"warm", "check", "timed"} /\ b.phase = a.phase /\ b.pool = a.pool
          /\ (a.do = "set" /\ b.do = "get") \/ (a.do = "get" /\ b.do = "exists")
       \/ a.phase = "timed" /\ b.phase = "timed" /\ a.do = "exists" /\ b.do = "record_get" /\ b.pool = a.pool
       \/ a.phase = "timed" /\ a.do = "record_get" /\ ((b.phase = "timed" /\ b.do = "set") \/ b.phase = "close")
       \/ a.phase = "close" /\ b.phase \in {"close", "start"}

\* The two arms of a rep.
LEMMA ArmsOfRep ==
    ASSUME NEW rep \in Nat
    PROVE  \/ ArmOrder(rep)[1] = "base" /\ ArmOrder(rep)[2] = "opt"
           \/ ArmOrder(rep)[1] = "opt" /\ ArmOrder(rep)[2] = "base"
BY DEF ArmOrder

\* The order of bench_baseline.py.
LEMMA AfterPairedPlace ==
    ASSUME NEW a \in Places, PairedPlace(a), a.do # "end"
    PROVE  AfterPaired(a) \in Places /\ PairedPlace(AfterPaired(a)) /\ PairedEdge(a, AfterPaired(a))
<1>0. /\ a.do \in Steps /\ a.phase \in Phases /\ a.pool \in Pools /\ a.rep \in 0..(Reps - 1) /\ a.rep \in Nat
      /\ a.loop \in 0..Loops /\ 0 \in 0..Loops /\ 1 \in 0..Loops /\ 0 \in 0..(Reps - 1)
  BY FlagsAssumption DEF Places
<1>1. CASE a.do = "open"
  <2>1. AfterPaired(a) = IF a.pool = "base" THEN Place("open", "start", "opt") ELSE Place("toggle", "start", "opt")
    BY <1>1 DEF PairedPlace, AfterPaired
  <2>2. PICK c \in Places : c = AfterPaired(a) /\ c.do \in {"open", "toggle"} /\ c.phase = "start" /\ c.pool = "opt"
    BY <1>0, <2>1 DEF Place, Places, Steps, Phases, Pools
  <2> QED BY <1>1, <2>2 DEF PairedPlace, PairedEdge, Arms
<1>2. CASE a.do = "toggle"
  <2>1. AfterPaired(a) = Place("set", "prime", "base")
    BY <1>2 DEF PairedPlace, AfterPaired, PrimeAndWarm
  <2>2. PICK c \in Places : c = AfterPaired(a) /\ c.do = "set" /\ c.phase = "prime" /\ c.pool = "base"
    BY <1>0, <2>1 DEF Place, Places, Steps, Phases, Pools
  <2> QED BY <1>2, <2>2 DEF PairedPlace, PairedEdge, Arms
<1>3. CASE a.phase = "prime"
  <2>1. AfterPaired(a) = Place("get", "warm", a.pool)
    BY <1>3 DEF PairedPlace, AfterPaired
  <2>2. PICK c \in Places : c = AfterPaired(a) /\ c.do = "get" /\ c.phase = "warm" /\ c.pool = a.pool
    BY <1>0, <2>1 DEF Place, Places, Steps, Phases, Pools
  <2> QED BY <1>3, <2>2 DEF PairedPlace, PairedEdge
<1>4. CASE a.phase = "warm" /\ a.do = "get"
  <2>1. AfterPaired(a) = [a EXCEPT !.do = "verify_reads"]
    BY <1>4 DEF PairedPlace, AfterPaired
  <2>2. PICK c \in Places : c = AfterPaired(a) /\ c.do = "verify_reads" /\ c.phase = "warm" /\ c.pool = a.pool
    BY <1>0, <1>4, <2>1 DEF Places, Steps, Phases, Pools
  <2> QED BY <1>4, <2>2 DEF PairedPlace, PairedEdge
<1>5. CASE a.do = "verify_reads" /\ a.pool = "base"
  <2>1. AfterPaired(a) = Place("set", "prime", "opt")
    BY <1>5 DEF PairedPlace, AfterPaired, PrimeAndWarm
  <2>2. PICK c \in Places : c = AfterPaired(a) /\ c.do = "set" /\ c.phase = "prime" /\ c.pool = "opt"
    BY <1>0, <2>1 DEF Place, Places, Steps, Phases, Pools
  <2> QED BY <1>5, <2>2 DEF PairedPlace, PairedEdge, Arms
<1>6. CASE a.do = "verify_reads" /\ a.pool = "opt"
  <2>1. AfterPaired(a) = Timed("get", 0, ArmOrder(0)[1], 1)
    BY <1>6 DEF PairedPlace, AfterPaired
  <2>2. ArmOrder(0)[1] \in Arms /\ ArmOrder(0)[1] \in Pools
    BY ArmsOfRep DEF Arms, Pools
  <2>3. PICK c \in Places : /\ c = AfterPaired(a) /\ c.do = "get" /\ c.phase = "timed" /\ c.rep = 0
                            /\ c.pool = ArmOrder(0)[1]
    BY <1>0, <2>1, <2>2 DEF Timed, Places, Steps, Phases, Pools
  <2> QED BY <1>6, <2>2, <2>3 DEF PairedPlace, PairedEdge
<1>7. CASE a.do = "close"
  <2>1. AfterPaired(a) = IF a.pool = "base" THEN Place("close", "close", "opt") ELSE Place("end", "close", "opt")
    BY <1>7 DEF PairedPlace, AfterPaired, Ended
  <2>2. PICK c \in Places : c = AfterPaired(a) /\ c.do \in {"close", "end"} /\ c.phase = "close" /\ c.pool = "opt"
    BY <1>0, <2>1 DEF Place, Places, Steps, Phases, Pools
  <2> QED BY <1>7, <2>2 DEF PairedPlace, PairedEdge, Arms
<1>8. CASE a.phase = "timed"
  <2>1. \/ ArmOrder(a.rep)[1] = "base" /\ ArmOrder(a.rep)[2] = "opt"
        \/ ArmOrder(a.rep)[1] = "opt" /\ ArmOrder(a.rep)[2] = "base"
    BY <1>0, ArmsOfRep
  <2>2. ArmOrder(a.rep)[1] \in Pools /\ ArmOrder(a.rep)[2] \in Pools
    BY <2>1 DEF Pools
  <2>3. a.loop < Loops => a.loop + 1 \in 0..Loops
    BY <1>0, FlagsAssumption
  <2>4. CASE a.do = "get"
    <3>1. AfterPaired(a) = IF a.loop < Loops THEN Timed("get", a.rep, a.pool, a.loop + 1)
                           ELSE [a EXCEPT !.do = "record_get"]
      BY <1>8, <2>4 DEF PairedPlace, AfterPaired, TimedGet, TimedPass
    <3>2. PICK c \in Places : /\ c = AfterPaired(a) /\ c.do \in {"get", "record_get"}
                              /\ c.phase = "timed" /\ c.rep = a.rep /\ c.pool = a.pool
      BY <1>0, <1>8, <2>3, <3>1 DEF Timed, Places, Steps, Phases, Pools
    <3> QED BY <1>8, <2>4, <3>2 DEF PairedPlace, PairedEdge
  <2>5. CASE a.do = "record_get"
    <3>1. AfterPaired(a) = [a EXCEPT !.do = "verify_sample"]
      BY <1>8, <2>5 DEF PairedPlace, AfterPaired, TimedGet
    <3>2. PICK c \in Places : /\ c = AfterPaired(a) /\ c.do = "verify_sample"
                              /\ c.phase = "timed" /\ c.rep = a.rep /\ c.pool = a.pool
      BY <1>0, <1>8, <3>1 DEF Places, Steps, Phases, Pools
    <3> QED BY <1>8, <2>5, <3>2 DEF PairedPlace, PairedEdge
  <2>6. CASE a.do = "verify_sample"
    <3>1. AfterPaired(a) = IF GoesFirst(a) THEN Timed("get", a.rep, ArmOrder(a.rep)[2], 1)
                           ELSE Timed("set", a.rep, ArmOrder(a.rep)[1], 1)
      BY <1>8, <2>6 DEF PairedPlace, AfterPaired, TimedGet
    <3>2. PICK c \in Places : /\ c = AfterPaired(a) /\ c.do = (IF GoesFirst(a) THEN "get" ELSE "set")
                              /\ c.phase = "timed" /\ c.rep = a.rep
                              /\ c.pool = (IF GoesFirst(a) THEN ArmOrder(a.rep)[2] ELSE ArmOrder(a.rep)[1])
      BY <1>0, <2>2, <3>1 DEF Timed, Places, Steps, Phases, Pools
    <3> QED BY <1>8, <2>1, <2>6, <3>2 DEF PairedPlace, PairedEdge, Arms
  <2>7. CASE a.do = "set"
    <3>1. AfterPaired(a) = IF a.loop < Loops THEN Timed("set", a.rep, a.pool, a.loop + 1)
                           ELSE [a EXCEPT !.do = "record_set"]
      BY <1>8, <2>7 DEF PairedPlace, AfterPaired, TimedSet, TimedPass
    <3>2. PICK c \in Places : /\ c = AfterPaired(a) /\ c.do \in {"set", "record_set"}
                              /\ c.phase = "timed" /\ c.rep = a.rep /\ c.pool = a.pool
      BY <1>0, <1>8, <2>3, <3>1 DEF Timed, Places, Steps, Phases, Pools
    <3> QED BY <1>8, <2>7, <3>2 DEF PairedPlace, PairedEdge
  <2>8. CASE a.do = "record_set" /\ GoesFirst(a)
    <3>1. AfterPaired(a) = Timed("set", a.rep, ArmOrder(a.rep)[2], 1)
      BY <1>8, <2>8 DEF PairedPlace, AfterPaired, TimedSet
    <3>2. PICK c \in Places : /\ c = AfterPaired(a) /\ c.do = "set"
                              /\ c.phase = "timed" /\ c.rep = a.rep /\ c.pool = ArmOrder(a.rep)[2]
      BY <1>0, <2>2, <3>1 DEF Timed, Places, Steps, Phases, Pools
    <3> QED BY <1>8, <2>1, <2>8, <3>2 DEF PairedPlace, PairedEdge, Arms
  <2>9. CASE a.do = "record_set" /\ ~GoesFirst(a) /\ a.rep + 1 < Reps
    <3>1. a.rep + 1 \in Nat /\ a.rep + 1 \in 0..(Reps - 1)
      BY <1>0, <2>9, FlagsAssumption
    <3>2. ArmOrder(a.rep + 1)[1] \in Arms /\ ArmOrder(a.rep + 1)[1] \in Pools
      BY <3>1, ArmsOfRep DEF Arms, Pools
    <3>3. AfterPaired(a) = Timed("get", a.rep + 1, ArmOrder(a.rep + 1)[1], 1)
      BY <1>8, <2>9 DEF PairedPlace, AfterPaired, TimedSet
    <3>4. PICK c \in Places : /\ c = AfterPaired(a) /\ c.do = "get" /\ c.phase = "timed"
                              /\ c.rep = a.rep + 1 /\ c.pool = ArmOrder(a.rep + 1)[1]
      BY <1>0, <3>1, <3>2, <3>3 DEF Timed, Places, Steps, Phases, Pools
    <3> QED BY <1>8, <2>9, <3>2, <3>4 DEF PairedPlace, PairedEdge
  <2>10. CASE a.do = "record_set" /\ ~GoesFirst(a) /\ ~(a.rep + 1 < Reps)
    <3>1. a.rep + 1 = Reps
      BY <1>0, <2>10, FlagsAssumption
    <3>2. AfterPaired(a) = Place("close", "close", "base")
      BY <1>8, <2>10 DEF PairedPlace, AfterPaired, TimedSet
    <3>3. PICK c \in Places : c = AfterPaired(a) /\ c.do = "close" /\ c.phase = "close" /\ c.pool = "base"
      BY <1>0, <3>2 DEF Place, Places, Steps, Phases, Pools
    <3> QED BY <1>8, <2>10, <3>1, <3>3 DEF PairedPlace, PairedEdge, Arms
  <2> QED BY <1>8, <2>4, <2>5, <2>6, <2>7, <2>8, <2>9, <2>10 DEF PairedPlace
<1> QED BY <1>1, <1>2, <1>3, <1>4, <1>5, <1>6, <1>7, <1>8 DEF PairedPlace, Arms

\* The order of valkey_microbench.py.
LEMMA AfterConfigPlace ==
    ASSUME NEW a \in Places, ConfigPlace(a), a.do # "end"
    PROVE  AfterConfig(a) \in Places /\ ConfigPlace(AfterConfig(a)) /\ ConfigEdge(a, AfterConfig(a))
<1>0. /\ 0 \in 0..Loops /\ 1 \in 0..Loops /\ 0 \in 0..(Reps - 1)
      /\ a.loop < Loops => a.loop + 1 \in 0..Loops
  BY FlagsAssumption DEF Places
<1>1. CASE a.do = "open"
  <2>1. AfterConfig(a) = Place("toggle", "start", a.pool)
    BY <1>1 DEF ConfigPlace, AfterConfig
  <2>2. PICK c \in Places : c = AfterConfig(a) /\ c.do = "toggle" /\ c.phase = "start" /\ c.pool = a.pool
    BY <1>0, <1>1, <2>1 DEF Place, Places, Steps, Phases, Pools
  <2> QED BY <1>1, <2>2 DEF ConfigPlace, ConfigEdge
<1>2. CASE a.do = "toggle"
  <2>1. AfterConfig(a) = Place("set", "prime", a.pool)
    BY <1>2 DEF ConfigPlace, AfterConfig
  <2>2. PICK c \in Places : c = AfterConfig(a) /\ c.do = "set" /\ c.phase = "prime" /\ c.pool = a.pool
    BY <1>0, <1>2, <2>1 DEF Place, Places, Steps, Phases, Pools
  <2> QED BY <1>2, <2>2 DEF ConfigPlace, ConfigEdge
<1>3. CASE a.phase = "prime"
  <2>1. AfterConfig(a) = Place("set", "warm", a.pool)
    BY <1>3 DEF ConfigPlace, AfterConfig
  <2>2. PICK c \in Places : c = AfterConfig(a) /\ c.do = "set" /\ c.phase = "warm" /\ c.pool = a.pool
    BY <1>0, <1>3, <2>1 DEF Place, Places, Steps, Phases, Pools
  <2> QED BY <1>3, <2>2 DEF ConfigPlace, ConfigEdge
<1>4. CASE a.phase \in {"warm", "timed"} /\ a.do = "set"
  <2>1. AfterConfig(a) = [a EXCEPT !.do = "get"]
    BY <1>4 DEF ConfigPlace, AfterConfig, AllPasses
  <2>2. PICK c \in Places : c = AfterConfig(a) /\ c.do = "get" /\ c.phase = a.phase /\ c.pool = a.pool
    BY <1>0, <1>4, <2>1 DEF Places, Steps, Phases, Pools
  <2> QED BY <1>4, <2>2 DEF ConfigPlace, ConfigEdge
<1>5. CASE a.phase \in {"warm", "timed"} /\ a.do = "get"
  <2>1. AfterConfig(a) = [a EXCEPT !.do = "exists"]
    BY <1>5 DEF ConfigPlace, AfterConfig, AllPasses
  <2>2. PICK c \in Places : c = AfterConfig(a) /\ c.do = "exists" /\ c.phase = a.phase /\ c.pool = a.pool
    BY <1>0, <1>5, <2>1 DEF Places, Steps, Phases, Pools
  <2> QED BY <1>5, <2>2 DEF ConfigPlace, ConfigEdge
<1>6. CASE a.phase = "warm" /\ a.do = "exists"
  <2>1. AfterConfig(a) = Timed("set", 0, a.pool, 1)
    BY <1>6 DEF ConfigPlace, AfterConfig
  <2>2. PICK c \in Places : c = AfterConfig(a) /\ c.do = "set" /\ c.phase = "timed" /\ c.pool = a.pool
    BY <1>0, <1>6, <2>1 DEF Timed, Places, Steps, Phases, Pools
  <2> QED BY <1>6, <2>2 DEF ConfigPlace, ConfigEdge
<1>7. CASE a.phase = "timed" /\ a.do = "exists"
  <2>1. AfterConfig(a) = [a EXCEPT !.do = "record_get"]
    BY <1>7 DEF ConfigPlace, AfterConfig
  <2>2. PICK c \in Places : c = AfterConfig(a) /\ c.do = "record_get" /\ c.phase = a.phase /\ c.pool = a.pool
    BY <1>0, <1>7, <2>1 DEF Places, Steps, Phases, Pools
  <2> QED BY <1>7, <2>2 DEF ConfigPlace, ConfigEdge
<1>8. CASE a.do = "record_get" /\ a.loop = 1
  <2>1. AfterConfig(a) = [a EXCEPT !.do = "verify"]
    BY <1>8 DEF ConfigPlace, AfterConfig
  <2>2. PICK c \in Places : c = AfterConfig(a) /\ c.do = "verify" /\ c.phase = a.phase /\ c.pool = a.pool
    BY <1>0, <1>8, <2>1 DEF Places, Steps, Phases, Pools
  <2> QED BY <1>8, <2>2 DEF ConfigPlace, ConfigEdge
<1>9. CASE (a.do = "record_get" /\ a.loop # 1) \/ a.do = "verify"
  <2>1. AfterConfig(a) = IF a.loop < Loops THEN Timed("set", a.rep, a.pool, a.loop + 1)
                           ELSE Place("close", "close", a.pool)
    BY <1>9 DEF ConfigPlace, AfterConfig, TimedLoop
  <2>2. PICK c \in Places : /\ c = AfterConfig(a) /\ c.pool = a.pool
                            /\ ((c.phase = "timed" /\ c.do = "set") \/ (c.phase = "close" /\ c.do = "close"))
    BY <1>0, <1>9, <2>1 DEF Place, Timed, Places, Steps, Phases, Pools
  <2> QED BY <1>9, <2>2 DEF ConfigPlace, ConfigEdge
<1>10. CASE a.do = "close"
  <2>1. AfterConfig(a) = CASE a.pool = "w1" -> Place("open", "start", "wN") [] a.pool = "wN" -> Place("open", "start", "buf")
                           [] a.pool = "buf" -> Place("end", "close", "buf")
    BY <1>10 DEF ConfigPlace, AfterConfig, Ended
  <2>2. PICK c \in Places : /\ c = AfterConfig(a) /\ c.pool \in {"wN", "buf"}
                            /\ ((c.phase = "start" /\ c.do = "open") \/ (c.phase = "close" /\ c.do = "end"))
    BY <1>0, <1>10, <2>1 DEF ConfigPlace, Place, Places, Steps, Phases, Pools
  <2> QED BY <1>10, <2>2 DEF ConfigPlace, ConfigEdge
<1> QED BY <1>1, <1>2, <1>3, <1>4, <1>5, <1>6, <1>7, <1>8, <1>9, <1>10 DEF ConfigPlace

\* The order of connector_compare.py.
LEMMA AfterBackendPlace ==
    ASSUME NEW a \in Places, BackendPlace(a), a.do # "end"
    PROVE  AfterBackend(a) \in Places /\ BackendPlace(AfterBackend(a)) /\ BackendEdge(a, AfterBackend(a))
<1>0. /\ 0 \in 0..Loops /\ 1 \in 0..Loops /\ 0 \in 0..(Reps - 1)
      /\ a.loop < Loops => a.loop + 1 \in 0..Loops
  BY FlagsAssumption DEF Places
<1>1. CASE a.do = "open"
  <2>1. AfterBackend(a) = Place("toggle", "start", a.pool)
    BY <1>1 DEF BackendPlace, AfterBackend
  <2>2. PICK c \in Places : c = AfterBackend(a) /\ c.do = "toggle" /\ c.phase = "start" /\ c.pool = a.pool
    BY <1>0, <1>1, <2>1 DEF Place, Places, Steps, Phases, Pools
  <2> QED BY <1>1, <2>2 DEF BackendPlace, BackendEdge
<1>2. CASE a.do = "toggle"
  <2>1. AfterBackend(a) = Place("set", "prime", a.pool)
    BY <1>2 DEF BackendPlace, AfterBackend
  <2>2. PICK c \in Places : c = AfterBackend(a) /\ c.do = "set" /\ c.phase = "prime" /\ c.pool = a.pool
    BY <1>0, <1>2, <2>1 DEF Place, Places, Steps, Phases, Pools
  <2> QED BY <1>2, <2>2 DEF BackendPlace, BackendEdge
<1>3. CASE a.phase = "prime"
  <2>1. AfterBackend(a) = Place("get", "warm", a.pool)
    BY <1>3 DEF BackendPlace, AfterBackend
  <2>2. PICK c \in Places : c = AfterBackend(a) /\ c.do = "get" /\ c.phase = "warm" /\ c.pool = a.pool
    BY <1>0, <1>3, <2>1 DEF Place, Places, Steps, Phases, Pools
  <2> QED BY <1>3, <2>2 DEF BackendPlace, BackendEdge
<1>4. CASE a.phase = "warm" /\ a.do = "exists"
  <2>1. AfterBackend(a) = Place("zero", "check", a.pool)
    BY <1>4 DEF BackendPlace, AfterBackend, VerifyPass
  <2>2. PICK c \in Places : c = AfterBackend(a) /\ c.do = "zero" /\ c.phase = "check" /\ c.pool = a.pool
    BY <1>0, <1>4, <2>1 DEF Place, Places, Steps, Phases, Pools
  <2> QED BY <1>4, <2>2 DEF BackendPlace, BackendEdge
<1>5. CASE a.do = "zero"
  <2>1. AfterBackend(a) = [a EXCEPT !.do = "get"]
    BY <1>5 DEF BackendPlace, AfterBackend
  <2>2. PICK c \in Places : c = AfterBackend(a) /\ c.do = "get" /\ c.phase = a.phase /\ c.pool = a.pool
    BY <1>0, <1>5, <2>1 DEF Places, Steps, Phases, Pools
  <2> QED BY <1>5, <2>2 DEF BackendPlace, BackendEdge
<1>6. CASE a.phase = "check" /\ a.do = "exists"
  <2>1. AfterBackend(a) = [a EXCEPT !.do = "verify"]
    BY <1>6 DEF BackendPlace, AfterBackend
  <2>2. PICK c \in Places : c = AfterBackend(a) /\ c.do = "verify" /\ c.phase = a.phase /\ c.pool = a.pool
    BY <1>0, <1>6, <2>1 DEF Places, Steps, Phases, Pools
  <2> QED BY <1>6, <2>2 DEF BackendPlace, BackendEdge
<1>7. CASE a.do = "verify"
  <2>1. AfterBackend(a) = Timed("set", 0, a.pool, 1)
    BY <1>7 DEF BackendPlace, AfterBackend
  <2>2. PICK c \in Places : c = AfterBackend(a) /\ c.do = "set" /\ c.phase = "timed" /\ c.pool = a.pool
    BY <1>0, <1>7, <2>1 DEF Timed, Places, Steps, Phases, Pools
  <2> QED BY <1>7, <2>2 DEF BackendPlace, BackendEdge
<1>8. CASE a.phase = "timed" /\ a.do = "set"
  <2>1. AfterBackend(a) = [a EXCEPT !.do = "get"]
    BY <1>8 DEF BackendPlace, AfterBackend, AllPasses
  <2>2. PICK c \in Places : c = AfterBackend(a) /\ c.do = "get" /\ c.phase = a.phase /\ c.pool = a.pool
    BY <1>0, <1>8, <2>1 DEF Places, Steps, Phases, Pools
  <2> QED BY <1>8, <2>2 DEF BackendPlace, BackendEdge
<1>9. CASE a.do = "get"
  <2>1. AfterBackend(a) = [a EXCEPT !.do = "exists"]
    BY <1>9 DEF BackendPlace, AfterBackend, AllPasses
  <2>2. PICK c \in Places : c = AfterBackend(a) /\ c.do = "exists" /\ c.phase = a.phase /\ c.pool = a.pool
    BY <1>0, <1>9, <2>1 DEF Places, Steps, Phases, Pools
  <2> QED BY <1>9, <2>2 DEF BackendPlace, BackendEdge
<1>10. CASE a.phase = "timed" /\ a.do = "exists"
  <2>1. AfterBackend(a) = [a EXCEPT !.do = "record_get"]
    BY <1>10 DEF BackendPlace, AfterBackend
  <2>2. PICK c \in Places : c = AfterBackend(a) /\ c.do = "record_get" /\ c.phase = a.phase /\ c.pool = a.pool
    BY <1>0, <1>10, <2>1 DEF Places, Steps, Phases, Pools
  <2> QED BY <1>10, <2>2 DEF BackendPlace, BackendEdge
<1>11. CASE a.do = "record_get"
  <2>1. AfterBackend(a) = IF a.loop < Loops THEN Timed("set", a.rep, a.pool, a.loop + 1)
                           ELSE Place("close", "close", a.pool)
    BY <1>11 DEF BackendPlace, AfterBackend, TimedLoop
  <2>2. PICK c \in Places : /\ c = AfterBackend(a) /\ c.pool = a.pool
                            /\ ((c.phase = "timed" /\ c.do = "set") \/ (c.phase = "close" /\ c.do = "close"))
    BY <1>0, <1>11, <2>1 DEF Place, Timed, Places, Steps, Phases, Pools
  <2> QED BY <1>11, <2>2 DEF BackendPlace, BackendEdge
<1>12. CASE a.do = "close"
  <2>1. AfterBackend(a) = IF a.pool = "glide" THEN Place("open", "start", "resp") ELSE Place("end", "close", "resp")
    BY <1>12 DEF BackendPlace, AfterBackend, Ended
  <2>2. PICK c \in Places : /\ c = AfterBackend(a) /\ c.pool = "resp"
                            /\ ((c.phase = "start" /\ c.do = "open") \/ (c.phase = "close" /\ c.do = "end"))
    BY <1>0, <1>12, <2>1 DEF Place, Places, Steps, Phases, Pools
  <2> QED BY <1>12, <2>2 DEF BackendPlace, BackendEdge
<1> QED BY <1>1, <1>2, <1>3, <1>4, <1>5, <1>6, <1>7, <1>8, <1>9, <1>10, <1>11, <1>12 DEF BackendPlace

\* What the program does next is in its order.
Edge(a, b) ==
    /\ tool = "bench_baseline" => PairedEdge(a, b)
    /\ tool = "valkey_microbench" => ConfigEdge(a, b)
    /\ tool = "connector_compare" => BackendEdge(a, b)

\* A step of the program goes to the next place, and is one of its order.
LEMMA MovesOn ==
    ASSUME TypeInv, Moves, place.do # "end", UNCHANGED tool
    PROVE  PlaceOK(place)' /\ Edge(place, place') /\ pc' = "run"
<1>1. place \in Places /\ place' = After(place) /\ pc' = "run" /\ tool \in Tools
  BY DEF TypeInv, FlowInv, PlaceOK, Moves, TypeOK
<1>2. CASE tool = "bench_baseline"
  <2>1. After(place) = AfterPaired(place) /\ PairedPlace(place)
    BY <1>2 DEF After, TypeInv, FlowInv, PlaceOK
  <2> QED BY <1>1, <1>2, <2>1, AfterPairedPlace DEF PlaceOK, Edge
<1>3. CASE tool = "valkey_microbench"
  <2>1. After(place) = AfterConfig(place) /\ ConfigPlace(place)
    BY <1>3 DEF After, TypeInv, FlowInv, PlaceOK
  <2> QED BY <1>1, <1>3, <2>1, AfterConfigPlace DEF PlaceOK, Edge
<1>4. CASE tool = "connector_compare"
  <2>1. After(place) = AfterBackend(place) /\ BackendPlace(place)
    BY <1>4 DEF After, TypeInv, FlowInv, PlaceOK
  <2> QED BY <1>1, <1>4, <2>1, AfterBackendPlace DEF PlaceOK, Edge
<1> QED BY <1>1, <1>2, <1>3, <1>4, ToolsAssumption

\* The pool of a place is one of the pools.
LEMMA PoolType == ASSUME TypeInv PROVE P \in Pools /\ BufferOf(P) \in Buffers /\ tool \in Tools
BY DEF TypeInv, TypeOK, FlowInv, PlaceOK, Places, P, BufferOf, Buffers, Pools

Views == {"zero", "old", "mine", "torn"}

\* The places and the outcome of a worker's step.
LEMMA WorkerType ==
    ASSUME TypeInv, NEW q \in Pools, NEW k \in Keys, WorkerStep(q, k)
    PROVE  TypeOK'
<1>1. BufferOf(q) \in Buffers
  BY DEF BufferOf, Buffers, Pools
<1>2. UNCHANGED program
  BY DEF WorkerStep
<1>3. /\ store \in [Keys -> Contents] /\ views \in [Buffers -> [Keys -> Views]]
      /\ delivered \in SUBSET Keys /\ failures \in Nat
  BY DEF TypeInv, TypeOK, Views
<1>4. /\ store' \in [Keys -> Contents] /\ views' \in [Buffers -> [Keys -> Views]]
      /\ delivered' \in SUBSET Keys /\ failures' \in Nat
  <2>1. CASE WorkerGets(q, k) /\ UNCHANGED store
    <3>1. Received(k, BufferOf(q)) \in Views
      BY <1>1, <1>3 DEF Received, Contents, Views
    <3>2. failures' \in Nat /\ delivered' \in SUBSET Keys
      BY <1>3, <2>1 DEF WorkerGets, Fails
    <3>3. \E v \in Views : views' \in {views, [views EXCEPT ![BufferOf(q)][k] = v]}
      BY <2>1, <3>1 DEF WorkerGets, Views
    <3> QED BY <1>1, <1>3, <2>1, <3>2, <3>3
  <2>2. CASE WorkerSets(q, k)
    BY <1>3, <2>2 DEF WorkerSets, Fails, Contents
  <2>3. CASE WorkerAsks(q, k) /\ UNCHANGED store
    BY <1>3, <2>3 DEF WorkerAsks, Fails
  <2> QED BY <2>1, <2>2, <2>3 DEF WorkerStep
<1>5. job' \in [Pools -> Futures]
  BY WorkerQuiet DEF TypeInv, QuietInv
<1> QED BY <1>2, <1>4, <1>5 DEF TypeInv, TypeOK, program, Futures, Views, Places

\* What was appended is a measurement, and it is the only change.
LEMMA RecordType ==
    ASSUME TypeInv, NEW op \in Ops, P \in Arms
    PROVE  /\ Appended(op) \in [Arms -> [Ops -> Seq(Measurements)]] /\ Measured \in Nat
           /\ Appended(op)[P][op] = Append(out[P][op], [rep |-> place.rep, nth |-> Measured + 1])
           /\ out[P][op] \in Seq(Measurements) /\ [rep |-> place.rep, nth |-> Measured + 1] \in Measurements
           /\ \A p \in Arms, o \in Ops : p # P \/ o # op => Appended(op)[p][o] = out[p][o]
<1>1. out \in [Arms -> [Ops -> Seq(Measurements)]] /\ place \in Places
  BY DEF TypeInv, TypeOK, FlowInv, PlaceOK
<1>2. Measured \in Nat
  <2>1. \A p \in Arms, o \in Ops : Len(out[p][o]) \in Nat
    BY <1>1
  <2>2. /\ Len(out["base"]["get"]) \in Nat /\ Len(out["base"]["set"]) \in Nat
        /\ Len(out["opt"]["get"]) \in Nat /\ Len(out["opt"]["set"]) \in Nat
    BY <2>1 DEF Arms, Ops
  <2>3. \A a, b, c, d \in Nat : a + b + c + d \in Nat
    OBVIOUS
  <2> QED BY <2>2, <2>3 DEF Measured
<1>3. PICK m \in Measurements : m = [rep |-> place.rep, nth |-> Measured + 1]
  <2>1. place.rep \in Nat /\ Measured + 1 \in Nat
    BY <1>1, <1>2, FlagsAssumption DEF Places
  <2> QED BY <2>1 DEF Measurements
<1>4. PICK s \in Seq(Measurements) : s = Append(out[P][op], m)
  <2>1. out[P][op] \in Seq(Measurements)
    BY <1>1
  <2>2. Append(out[P][op], m) \in Seq(Measurements)
    BY <2>1
  <2> QED BY <2>2
<1>5. Appended(op) = [out EXCEPT ![P][op] = s]
  BY <1>3, <1>4 DEF Appended
<1> QED BY <1>1, <1>2, <1>3, <1>4, <1>5

\* The program's own steps keep the types.
LEMMA ProgramType ==
    ASSUME TypeInv, ProgramStep PROVE TypeOK' /\ FlowInv'
<1>1. place \in Places /\ PlaceOK(place) /\ P \in Pools /\ BufferOf(P) \in Buffers
  BY PoolType DEF TypeInv, FlowInv, PlaceOK
<1>2. job' \in [Pools -> Futures]
  BY NextQuiet DEF TypeInv, QuietInv, Next
<1>3. TypeOK
  BY DEF TypeInv
<1>4. ASSUME Moves, place.do # "end", UNCHANGED tool PROVE pc' = "run" /\ place' \in Places /\ FlowInv'
  BY <1>4, MovesOn DEF TypeInv, FlowInv, PlaceOK
<1>5. ASSUME NEW to \in {"closing", "raised"}, Raises(to), UNCHANGED tool
      PROVE  pc' = to /\ place' \in Places /\ FlowInv'
  BY <1>1, <1>5 DEF Raises, FlowInv, PlaceOK
<1>6. CASE Open
  <2>1. pools' \in SUBSET Pools /\ failures' \in Nat
    BY <1>1, <1>3, <1>6 DEF Open, Fails, TypeOK
  <2>2. (pc' = "run" \/ pc' = "raised") /\ place' \in Places /\ FlowInv'
    BY <1>4, <1>5, <1>6 DEF Open, At
  <2> QED BY <1>2, <1>3, <1>6, <2>1, <2>2 DEF Open, TypeOK, Futures, Places
<1>7. CASE Toggle
  <2>1. pc' \in {"run", "closing", "raised"} /\ place' \in Places /\ FlowInv'
    BY <1>4, <1>5, <1>7 DEF Toggle, At
  <2> QED BY <1>2, <1>3, <1>7, <2>1 DEF Toggle, TypeOK, Futures, Places
<1>8. CASE BeginPass
  <2>1. delivered' \in SUBSET Keys
    BY <1>3, <1>8 DEF BeginPass, TypeOK
  <2>2. pc' = "pass" /\ place' = place /\ FlowInv'
    BY <1>1, <1>8 DEF BeginPass, FlowInv, PlaceOK
  <2> QED BY <1>1, <1>2, <1>3, <1>8, <2>1, <2>2 DEF BeginPass, TypeOK, Futures, Places
<1>9. CASE Submit
  <2>1. FlowInv'
    BY <1>9 DEF Submit, program, TypeInv, FlowInv, PlaceOK
  <2> QED BY <1>2, <1>3, <1>9, <2>1 DEF Submit, program, TypeOK, Futures
<1>10. CASE PassRaises
  <2>1. pc' = "closing" /\ place' \in Places /\ FlowInv'
    BY <1>5, <1>10 DEF PassRaises
  <2> QED BY <1>2, <1>3, <1>10, <2>1 DEF PassRaises, TypeOK, Futures, Places
<1>11. CASE PassEnds
  <2>1. got' \in SUBSET Keys /\ found' \in SUBSET Keys
    BY <1>3, <1>11 DEF PassEnds, Hits, TypeOK
  <2>2. pc' = "run" /\ place' \in Places /\ FlowInv'
    BY <1>4, <1>11 DEF PassEnds, TypeInv, FlowInv, Passes
  <2> QED BY <1>2, <1>3, <1>11, <2>1, <2>2 DEF PassEnds, TypeOK, Futures, Places
<1>12. CASE Record
  <2>1. PICK op \in Ops : /\ At(IF op = "get" THEN "record_get" ELSE "record_set")
                          /\ out' = IF tool = "bench_baseline" THEN Appended(op) ELSE out
    BY <1>12 DEF Record
  <2>2. tool = "bench_baseline" => P \in Arms
    BY <1>1 DEF PlaceOK, PairedPlace, P
  <2>3. out' \in [Arms -> [Ops -> Seq(Measurements)]]
    BY <1>3, <2>1, <2>2, RecordType DEF TypeOK
  <2>4. pc' = "run" /\ place' \in Places /\ FlowInv'
    BY <1>4, <1>12, <2>1 DEF Record, At
  <2> QED BY <1>2, <1>3, <1>12, <2>3, <2>4 DEF Record, TypeOK, Futures, Places
<1>13. CASE Zero
  <2>1. views' \in [Buffers -> [Keys -> Views]]
    BY <1>3, <1>13 DEF Zero, TypeOK, Views
  <2>2. pc' = "run" /\ place' \in Places /\ FlowInv'
    BY <1>4, <1>13 DEF Zero, At
  <2> QED BY <1>2, <1>3, <1>13, <2>1, <2>2 DEF Zero, TypeOK, Futures, Places, Views
<1>14. CASE Verify
  <2>1. (pc' = "run" \/ pc' = "closing") /\ place' \in Places /\ FlowInv'
    BY <1>4, <1>5, <1>14 DEF Verify, At
  <2> QED BY <1>2, <1>3, <1>14, <2>1 DEF Verify, TypeOK, Futures, Places
<1>15. CASE Close
  <2>1. pc' = "run" /\ place' \in Places /\ FlowInv'
    BY <1>4, <1>15 DEF Close, At
  <2>2. pools' \in SUBSET Pools
    BY <1>3, <1>15 DEF Close, TypeOK
  <2> QED BY <1>2, <1>3, <1>15, <2>1, <2>2 DEF Close, TypeOK, Futures, Places
<1>16. CASE CloseAfterError
  <2>1. pc' = "raised" /\ place' \in Places /\ FlowInv'
    BY <1>5, <1>16 DEF CloseAfterError
  <2> QED BY <1>2, <1>3, <1>16, <2>1 DEF CloseAfterError, TypeOK, Futures, Places
<1>17. CASE Report
  <2>1. pc' = "done" /\ place' = place /\ place.do = "end"
    BY <1>17 DEF Report, Raises, At
  <2>2. FlowInv'
    BY <1>1, <1>17, <2>1 DEF Report, FlowInv, PlaceOK
  <2> QED BY <1>1, <1>2, <1>3, <1>17, <2>1, <2>2 DEF Report, TypeOK, Futures, Places
<1> QED BY <1>6, <1>7, <1>8, <1>9, <1>10, <1>11, <1>12, <1>13, <1>14, <1>15, <1>16, <1>17 DEF ProgramStep

\* The types hold initially.
LEMMA InitType == Init => TypeInv
<1> SUFFICES ASSUME Init PROVE TypeInv
  OBVIOUS
<1>1. place \in Places /\ PlaceOK(place) /\ place.do = "open"
  <2>1. 0 \in 0..Loops /\ 0 \in 0..(Reps - 1)
    BY FlagsAssumption
  <2> QED BY <2>1, ToolsAssumption
          DEF Init, Place, Places, PlaceOK, PairedPlace, ConfigPlace, BackendPlace, FirstPool, Steps, Phases, Pools, Arms
<1>2. out \in [Arms -> [Ops -> Seq(Measurements)]]
  BY DEF Init
<1>3. TypeOK
  BY <1>1, <1>2, MaxFailuresAssumption DEF Init, TypeOK, Places, Contents
<1>4. FlowInv
  BY <1>1 DEF Init, FlowInv
<1> QED BY <1>3, <1>4, InitQuiet DEF TypeInv

\* Every step keeps the types.
LEMMA NextType == ASSUME TypeInv, [Next]_vars PROVE TypeInv'
<1>1. QuietInv'
  BY NextQuiet DEF TypeInv
<1>2. CASE ProgramStep
  BY <1>1, <1>2, ProgramType DEF TypeInv
<1>3. CASE \E q \in Pools, k \in Keys : WorkerStep(q, k)
  <2>1. PICK q \in Pools, k \in Keys : WorkerStep(q, k)
    BY <1>3
  <2>2. FlowInv'
    BY <2>1 DEF WorkerStep, program, TypeInv, FlowInv, PlaceOK
  <2> QED BY <1>1, <2>1, <2>2, WorkerType DEF TypeInv
<1>4. CASE ValkeyRestarts \/ UNCHANGED vars
  <2>1. FlowInv'
    BY <1>4 DEF ValkeyRestarts, vars, program, TypeInv, FlowInv, PlaceOK
  <2>2. TypeOK'
    BY <1>4 DEF ValkeyRestarts, vars, program, TypeInv, TypeOK, Fails, Contents
  <2> QED BY <1>1, <2>1, <2>2 DEF TypeInv
<1> QED BY <1>2, <1>3, <1>4 DEF Next

\* Every variable stays in its type, and each program in its order of passes.
THEOREM TypeCorrect == Spec => []TypeOK
<1>1. TypeInv => TypeOK
  BY DEF TypeInv
<1> QED BY <1>1, InitType, NextType, PTL DEF Spec

-----------------------------------------------------------------------------
(* A miss is not throughput. *)

\* A payload that was read from the server is never older than what the server
\* holds, so a warm-up that was verified leaves no old key, and a hit in a timed pass
\* brings the payload.
MissInv ==
    /\ \A b \in Buffers, k \in Keys : views[b][k] = "mine" => store[k] # "old"
    /\ tool = "bench_baseline" /\ place.phase = "timed" => \A k \in Keys : store[k] # "old"
    /\ tool = "bench_baseline" /\ pc = "pass" /\ place.do = "get" /\ place.phase = "timed" =>
          \A k \in Keys : job[P][k] = "ok" => k \in delivered

\* A worker is at work in a pass, of the pool of the pass, or after an error.
LEMMA WorkerAtWork ==
    ASSUME TypeInv, NEW q \in Pools, NEW k \in Keys, WorkerStep(q, k)
    PROVE  /\ job[q][k] = "submitted" /\ pc \in {"pass", "closing", "raised"}
           /\ pc = "pass" => q = P
           /\ UNCHANGED program
<1>1. k \in Unfinished(q)
  BY DEF WorkerStep, InFlight
<1>2. pc # "run" /\ (pc = "pass" => q = P)
  BY <1>1 DEF TypeInv, QuietInv, QuietBetweenPasses
<1>3. pc # "done"
  BY DEF WorkerStep, TypeInv, FlowInv
<1> QED BY <1>1, <1>2, <1>3 DEF Unfinished, WorkerStep, TypeInv, TypeOK

\* What a worker's GET does to the future, the buffer and what was delivered.
LEMMA GetEffect ==
    ASSUME TypeInv, NEW q \in Pools, NEW k \in Keys, WorkerGets(q, k)
    PROVE  /\ \A p \in Pools, i \in Keys : p # q \/ i # k => job'[p][i] = job[p][i]
           /\ \A b \in Buffers, i \in Keys : b # BufferOf(q) \/ i # k => views'[b][i] = views[b][i]
           /\ \/ /\ store[k] # "absent" /\ job'[q][k] = "ok" /\ views'[BufferOf(q)][k] = store[k]
                 /\ UNCHANGED failures
                 /\ delivered' = IF store[k] = "mine" THEN delivered \cup {k} ELSE delivered
              \/ /\ store[k] = "absent" /\ job'[q][k] = "miss" /\ UNCHANGED <<views, failures, delivered>>
              \/ /\ failures' = failures + 1 /\ job'[q][k] \in {"miss", "raised"} /\ UNCHANGED delivered
                 /\ views'[BufferOf(q)][k] \in {"torn", views[BufferOf(q)][k]}
<1>1. /\ job \in [Pools -> Futures] /\ views \in [Buffers -> [Keys -> Views]] /\ BufferOf(q) \in Buffers
  BY DEF TypeInv, TypeOK, QuietInv, BufferOf, Buffers, Pools, Views
<1>2. PICK r \in {"ok", "miss", "raised"} : job' = [job EXCEPT ![q][k] = r]
  BY DEF WorkerGets, Resolves
<1>3. job'[q][k] = r /\ \A p \in Pools, i \in Keys : p # q \/ i # k => job'[p][i] = job[p][i]
  BY <1>1, <1>2 DEF Futures
<1>4. CASE /\ Resolves(q, k, IF store[k] = "absent" THEN "miss" ELSE "ok")
           /\ views' = [views EXCEPT ![BufferOf(q)][k] = Received(k, BufferOf(q))]
           /\ delivered' = IF store[k] = "mine" THEN delivered \cup {k} ELSE delivered
           /\ UNCHANGED failures
  <2>1. /\ views'[BufferOf(q)][k] = Received(k, BufferOf(q))
        /\ \A b \in Buffers, i \in Keys : b # BufferOf(q) \/ i # k => views'[b][i] = views[b][i]
    BY <1>1, <1>4
  <2>2. job'[q][k] = IF store[k] = "absent" THEN "miss" ELSE "ok"
    BY <1>1, <1>4 DEF Resolves, Futures
  <2>3. CASE store[k] = "absent"
    <3>1. views' = views
      BY <1>1, <1>4, <2>3 DEF Received
    <3> QED BY <1>3, <1>4, <2>1, <2>2, <2>3, <3>1
  <2> QED BY <1>3, <1>4, <2>1, <2>2, <2>3 DEF Received
<1>5. CASE /\ Fails
           /\ Resolves(q, k, "miss") \/ (q = "resp" /\ Resolves(q, k, "raised"))
           /\ views' \in {views, [views EXCEPT ![BufferOf(q)][k] = "torn"]}
           /\ UNCHANGED delivered
  <2>1. job'[q][k] \in {"miss", "raised"}
    BY <1>1, <1>5 DEF Resolves, Futures
  <2>2. /\ views'[BufferOf(q)][k] \in {"torn", views[BufferOf(q)][k]}
        /\ \A b \in Buffers, i \in Keys : b # BufferOf(q) \/ i # k => views'[b][i] = views[b][i]
    BY <1>1, <1>5
  <2> QED BY <1>3, <1>5, <2>1, <2>2 DEF Fails
<1> QED BY <1>4, <1>5 DEF WorkerGets

\* What was received was held.
LEMMA WorkerMiss ==
    ASSUME TypeInv, MissInv, NEW q \in Pools, NEW k \in Keys, WorkerStep(q, k) PROVE MissInv'
<1>1. /\ store \in [Keys -> Contents] /\ UNCHANGED program /\ (pc = "pass" => q = P)
      /\ P \in Pools /\ P' = P /\ BufferOf(q) \in Buffers
  BY WorkerAtWork, PoolType DEF TypeInv, TypeOK, program, P, BufferOf, Buffers, Pools
<1>2. UNCHANGED <<tool, pc, place>>
  BY <1>1 DEF program
<1>3. CASE place.do = "get" /\ WorkerGets(q, k) /\ UNCHANGED store
  <2>1. \A b \in Buffers, i \in Keys : views'[b][i] = "mine" => views[b][i] = "mine" \/ store[i] = "mine"
    BY <1>1, <1>3, GetEffect
  <2>2. delivered \subseteq delivered' /\ (job'[q][k] = "ok" /\ store[k] = "mine" => k \in delivered')
    BY <1>3, GetEffect
  <2>3. job'[q][k] = "ok" => store[k] # "absent"
    BY <1>3, GetEffect
  <2>4. \A i \in Keys : i # k => job'[P][i] = job[P][i]
    BY <1>1, <1>3, GetEffect
  <2> QED BY <1>1, <1>2, <1>3, <2>1, <2>2, <2>3, <2>4 DEF MissInv, Contents
<1>4. CASE place.do = "set" /\ WorkerSets(q, k)
  <2>1. UNCHANGED views /\ \A i \in Keys : store'[i] \in {"mine", store[i]}
    BY <1>1, <1>4 DEF WorkerSets
  <2> QED BY <1>2, <1>4, <2>1 DEF MissInv
<1>5. CASE place.do = "exists" /\ WorkerAsks(q, k) /\ UNCHANGED store
  <2>1. UNCHANGED views
    BY <1>5 DEF WorkerAsks
  <2> QED BY <1>2, <1>5, <2>1 DEF MissInv
<1> QED BY <1>3, <1>4, <1>5 DEF WorkerStep

\* Between the steps of a pass nothing is received.
LEMMA PassMiss ==
    ASSUME TypeInv, MissInv, BeginPass \/ Submit PROVE MissInv'
<1>1. /\ UNCHANGED <<tool, place, store, views>> /\ P' = P /\ P \in Pools /\ job \in [Pools -> Futures]
  BY PoolType DEF BeginPass, Submit, program, P, TypeInv, QuietInv
<1>2. CASE BeginPass
  <2>1. \A i \in Keys : job'[P][i] # "ok"
    BY <1>1, <1>2 DEF BeginPass
  <2> QED BY <1>1, <2>1 DEF MissInv
<1>3. CASE Submit
  <2>1. PICK k : job' = [job EXCEPT ![P][k] = "submitted"]
    BY <1>3 DEF Submit
  <2>2. \A i \in Keys : job'[P][i] = "ok" => job[P][i] = "ok"
    BY <1>1, <2>1 DEF Futures
  <2> QED BY <1>1, <1>3, <2>2 DEF MissInv, Submit, program
<1> QED BY <1>2, <1>3

\* What goes on to the timed passes was verified, or was timed before.
LEMMA MoveMiss ==
    ASSUME TypeInv, MissInv, Moves, place.do # "end", UNCHANGED <<tool, store>>,
           \A b \in Buffers, k \in Keys : views'[b][k] = "mine" => views[b][k] = "mine",
           place.do = "verify_reads" => Holds(P, Keys)
    PROVE  MissInv'
<1>1. PlaceOK(place)' /\ Edge(place, place') /\ pc' = "run"
  BY MovesOn
<1>2. ASSUME tool = "bench_baseline", place'.phase = "timed" PROVE \A k \in Keys : store[k] # "old"
  <2>1. PairedEdge(place, place')
    BY <1>1, <1>2 DEF Edge
  <2>2. place.phase = "timed" \/ place.do = "verify_reads"
    BY <1>2, <2>1 DEF PairedEdge
  <2>3. CASE place.do = "verify_reads"
    BY <2>3, PoolType DEF Holds, MissInv
  <2> QED BY <1>2, <2>2, <2>3 DEF MissInv
<1> QED BY <1>1, <1>2 DEF MissInv

\* Every step keeps the invariant.
LEMMA NextMiss == ASSUME TypeInv, MissInv, [Next]_vars PROVE MissInv'
<1>1. CASE \E q \in Pools, k \in Keys : WorkerStep(q, k)
  BY <1>1, WorkerMiss
<1>2. CASE ValkeyRestarts
  BY <1>2 DEF ValkeyRestarts, program, P, MissInv
<1>3. CASE UNCHANGED vars
  BY <1>3 DEF vars, program, P, MissInv
<1>4. CASE BeginPass \/ Submit
  BY <1>4, PassMiss
<1>5. ASSUME pc' # "pass", UNCHANGED <<tool, place, store, views>> PROVE MissInv'
  BY <1>5 DEF MissInv
<1>6. CASE PassRaises \/ CloseAfterError \/ Report
  BY <1>5, <1>6 DEF PassRaises, CloseAfterError, Report, Raises
<1>7. CASE Open \/ Toggle
  BY <1>5, <1>7, MoveMiss DEF Open, Toggle, Raises, At
<1>8. CASE PassEnds
  BY <1>8, MoveMiss DEF PassEnds, TypeInv, FlowInv, Passes
<1>9. CASE Record
  BY <1>9, MoveMiss DEF Record, At
<1>10. CASE Zero
  <2>1. \A b \in Buffers, k \in Keys : views'[b][k] = "mine" => views[b][k] = "mine"
    BY <1>10 DEF Zero, TypeInv, TypeOK
  <2> QED BY <1>10, <2>1, MoveMiss DEF Zero, At
<1>11. CASE Verify
  BY <1>5, <1>11, MoveMiss DEF Verify, At, Raises
<1>12. CASE Close
  BY <1>12, MoveMiss DEF Close, At
<1> QED BY <1>1, <1>2, <1>3, <1>4, <1>6, <1>7, <1>8, <1>9, <1>10, <1>11, <1>12 DEF Next, ProgramStep

\* The buffers are empty initially.
LEMMA InitMiss == Init => MissInv
BY DEF Init, MissInv, Place

\* Only PassEnds leaves a pass for the next place.
LEMMA OnlyPassEnds == ASSUME [Next]_vars, pc = "pass", pc' = "run" PROVE PassEnds
<1>1. ASSUME \E q \in Pools, k \in Keys : WorkerStep(q, k) PROVE FALSE
  BY <1>1 DEF WorkerStep, program
<1>2. ~ValkeyRestarts /\ ~UNCHANGED vars
  BY DEF ValkeyRestarts, vars, program
<1>3. ~Open /\ ~Toggle /\ ~BeginPass /\ ~Record /\ ~Zero /\ ~Verify /\ ~Close /\ ~Report
  BY DEF Open, Toggle, BeginPass, Record, Zero, Verify, Close, Report, At
<1>4. ~Submit /\ ~PassRaises /\ ~CloseAfterError
  BY DEF Submit, program, PassRaises, CloseAfterError, Raises
<1> QED BY <1>1, <1>2, <1>3, <1>4 DEF Next, ProgramStep

\* A pass that ends has a good future for every key.
LEMMA AllGood ==
    ASSUME TypeInv, PassEnds, NEW k \in Keys PROVE job[P][k] \in {"ok", "miss", "raised"} \ Bad
<1>1. job[P][k] \in {"-", "submitted", "ok", "miss", "raised"}
  BY PoolType DEF TypeInv, QuietInv, Futures
<1> QED BY <1>1 DEF PassEnds, Submitted, Drained, Unfinished

\* A timed GET pass of bench_baseline.py that ends brought every key's payload.
THEOREM NoMissIsCounted == Spec => MissIsNotThroughput
<1>1. ASSUME TypeInv, MissInv, [Next]_vars
      PROVE  [tool = "bench_baseline" /\ pc = "pass" /\ pc' = "run" /\ place.do = "get" /\ place.phase = "timed"
                => delivered = Keys]_vars
  <2> SUFFICES ASSUME tool = "bench_baseline", pc = "pass", pc' = "run", place.do = "get", place.phase = "timed"
               PROVE  delivered = Keys
    OBVIOUS
  <2>1. PassEnds
    BY <1>1, OnlyPassEnds
  <2>2. \A k \in Keys : job[P][k] = "ok"
    BY <1>1, <2>1, AllGood DEF Bad
  <2> QED BY <1>1, <2>2 DEF MissInv, TypeInv, TypeOK
<1>2. TypeInv /\ MissInv /\ [Next]_vars => TypeInv' /\ MissInv'
  BY NextType, NextMiss
<1> QED BY <1>1, <1>2, InitType, InitMiss, PTL DEF Spec, MissIsNotThroughput

-----------------------------------------------------------------------------
(* What is verified was fetched. *)

\* In the other two programs a buffer that holds the payload was filled by the
\* latest GET pass: when the pass says so, and for RESP, which says nothing, from the
\* zeroing to the verification.
FetchInv ==
    tool # "bench_baseline" =>
        /\ pc = "pass" /\ place.do = "get" =>
              \A k \in Keys : job[P][k] = "ok" /\ views["shared"][k] = "mine" => k \in delivered
        /\ P # "resp" /\ (pc = "run" \/ (pc = "pass" /\ place.do # "get")) =>
              \A k \in got : views["shared"][k] = "mine" => k \in delivered
        /\ place.phase = "check" /\ place.do = "get" /\ pc = "run" =>
              \A k \in Keys : views["shared"][k] = "zero"
        /\ pc \in {"run", "pass"} /\ place.phase = "check" /\ place.do # "zero" =>
              \A k \in Keys : views["shared"][k] = "mine" => k \in delivered

\* The pool of the other two programs reads into the shared buffers.
LEMMA SharedBuffer == ASSUME TypeInv, tool # "bench_baseline" PROVE BufferOf(P) = "shared"
BY ToolsAssumption DEF TypeInv, TypeOK, FlowInv, PlaceOK, ConfigPlace, BackendPlace, BufferOf, P

\* What fills a buffer in a pass is delivered.
LEMMA WorkerFetch ==
    ASSUME TypeInv, FetchInv, NEW q \in Pools, NEW k \in Keys, WorkerStep(q, k) PROVE FetchInv'
<1> SUFFICES ASSUME tool # "bench_baseline", pc = "pass" PROVE FetchInv'
  BY WorkerAtWork DEF FetchInv, program
<1>1. /\ UNCHANGED program /\ q = P /\ P' = P /\ BufferOf(P) = "shared" /\ "shared" \in Buffers
  BY WorkerAtWork, SharedBuffer DEF program, P, Buffers
<1>2. UNCHANGED <<tool, pc, place, got>>
  BY <1>1 DEF program
<1>3. CASE place.do = "get" /\ WorkerGets(q, k) /\ UNCHANGED store
  <2>1. delivered \subseteq delivered' /\ \A i \in Keys : i # k => /\ job'[P][i] = job[P][i]
                                                                   /\ views'["shared"][i] = views["shared"][i]
    BY <1>1, <1>3, GetEffect
  <2>2. \/ views'["shared"][k] = "mine" => k \in delivered'
        \/ job'[P][k] # "ok" /\ (views'["shared"][k] = "mine" => views["shared"][k] = "mine")
    BY <1>1, <1>3, GetEffect
  <2> QED BY <1>2, <1>1, <1>3, <2>1, <2>2 DEF FetchInv
<1>4. CASE place.do # "get"
  <2>1. UNCHANGED <<views, delivered>>
    BY <1>4 DEF WorkerStep, WorkerSets, WorkerAsks
  <2> QED BY <1>1, <1>2, <1>4, <2>1 DEF FetchInv
<1> QED BY <1>3, <1>4 DEF WorkerStep

\* A GET pass starts with nothing delivered, in a verification from zeroed buffers.
LEMMA PassFetch ==
    ASSUME TypeInv, FetchInv, BeginPass \/ Submit PROVE FetchInv'
<1>1. /\ UNCHANGED <<tool, place, views, got>> /\ P' = P /\ P \in Pools /\ job \in [Pools -> Futures]
  BY PoolType DEF BeginPass, Submit, program, P, TypeInv, QuietInv
<1>2. CASE BeginPass
  <2>1. \A i \in Keys : job'[P][i] # "ok"
    BY <1>1, <1>2 DEF BeginPass
  <2>2. pc = "run" /\ pc' = "pass" /\ delivered' = IF place.do = "get" THEN {} ELSE delivered
    BY <1>2 DEF BeginPass
  <2>3. CASE place.do = "get"
    BY <1>1, <2>1, <2>2, <2>3 DEF FetchInv
  <2>4. CASE place.do # "get"
    BY <1>1, <2>2, <2>4 DEF FetchInv
  <2> QED BY <2>3, <2>4
<1>3. CASE Submit
  <2>1. PICK k : job' = [job EXCEPT ![P][k] = "submitted"]
    BY <1>3 DEF Submit
  <2>2. \A i \in Keys : job'[P][i] = "ok" => job[P][i] = "ok"
    BY <1>1, <2>1 DEF Futures
  <2>3. UNCHANGED <<pc, delivered>>
    BY <1>3 DEF Submit, program
  <2> QED BY <1>1, <2>2, <2>3 DEF FetchInv
<1> QED BY <1>2, <1>3

\* The places after which a verification needs what was read before it.
LEMMA FetchMoves ==
    ASSUME TypeInv, Moves, place.do # "end", UNCHANGED tool, tool # "bench_baseline"
    PROVE  /\ pc' = "run"
           /\ P = "resp" => P' = "resp"
           /\ place'.phase = "check" /\ place'.do = "get" => place.do = "zero"
           /\ place'.phase = "check" /\ place'.do # "zero" => place.phase = "check"
           /\ place.do = "get" => place'.do = "exists" /\ P' = P
<1>1. PlaceOK(place)' /\ Edge(place, place') /\ pc' = "run" /\ PlaceOK(place) /\ tool \in Tools
  BY MovesOn DEF TypeInv, TypeOK, FlowInv
<1>2. CASE tool = "valkey_microbench"
  BY <1>1, <1>2 DEF Edge, ConfigEdge, PlaceOK, ConfigPlace, P
<1>3. CASE tool = "connector_compare"
  BY <1>1, <1>3 DEF Edge, BackendEdge, PlaceOK, BackendPlace, P
<1> QED BY <1>1, <1>2, <1>3, ToolsAssumption

\* A step between the passes reads nothing.
LEMMA MoveFetch ==
    ASSUME TypeInv, FetchInv, Moves, pc = "run", place.do \notin {"end", "zero"},
           UNCHANGED <<tool, got, views, delivered>>
    PROVE  FetchInv'
<1> SUFFICES ASSUME tool # "bench_baseline" PROVE FetchInv'
  BY DEF FetchInv
<1> QED BY FetchMoves DEF FetchInv

\* A GET pass that ends reports what was delivered.
LEMMA EndFetch == ASSUME TypeInv, FetchInv, PassEnds PROVE FetchInv'
<1> SUFFICES ASSUME tool # "bench_baseline" PROVE FetchInv'
  BY DEF FetchInv, PassEnds
<1>1. place.do # "end" /\ place.do # "zero" /\ UNCHANGED <<tool, views, delivered>> /\ pc = "pass" /\ Moves
  BY DEF PassEnds, TypeInv, FlowInv, Passes
<1>2. CASE place.do = "get"
  <2>1. P # "resp" => \A k \in got' : k \in Keys /\ job[P][k] = "ok"
    BY <1>2 DEF PassEnds, Hits
  <2>2. P' = P /\ place'.do = "exists" /\ pc' = "run"
    BY <1>1, <1>2, FetchMoves
  <2>3. place'.phase = "check" => place.phase = "check"
    BY <1>1, <2>2, FetchMoves
  <2> QED BY <1>1, <1>2, <2>1, <2>2, <2>3 DEF FetchInv
<1>3. CASE place.do # "get"
  <2>1. UNCHANGED got
    BY <1>3 DEF PassEnds
  <2> QED BY <1>1, <1>3, <2>1, FetchMoves DEF FetchInv
<1> QED BY <1>2, <1>3

\* Every step keeps the invariant.
LEMMA NextFetch == ASSUME TypeInv, FetchInv, [Next]_vars PROVE FetchInv'
<1>1. CASE \E q \in Pools, k \in Keys : WorkerStep(q, k)
  BY <1>1, WorkerFetch
<1>2. CASE ValkeyRestarts
  BY <1>2 DEF ValkeyRestarts, program, P, FetchInv
<1>3. CASE UNCHANGED vars
  BY <1>3 DEF vars, program, P, FetchInv
<1>4. CASE BeginPass \/ Submit
  BY <1>4, PassFetch
<1>5. ASSUME pc' \notin {"run", "pass"} PROVE FetchInv'
  BY <1>5 DEF FetchInv
<1>6. CASE PassRaises \/ CloseAfterError \/ Report
  BY <1>5, <1>6 DEF PassRaises, CloseAfterError, Report, Raises
<1>7. CASE Open \/ Toggle
  BY <1>5, <1>7, MoveFetch DEF Open, Toggle, Raises, At
<1>8. CASE PassEnds
  BY <1>8, EndFetch
<1>9. CASE Record
  BY <1>9, MoveFetch DEF Record, At
<1>10. CASE Zero
  <2>1. \A k \in Keys : views'["shared"][k] = "zero"
    BY <1>10 DEF Zero, TypeInv, TypeOK, Buffers
  <2>2. pc' = "run"
    BY <1>10 DEF Zero, Moves
  <2>3. got' \subseteq Keys
    BY <1>10 DEF Zero, TypeInv, TypeOK
  <2> QED BY <2>1, <2>2, <2>3 DEF FetchInv
<1>11. CASE Verify
  BY <1>5, <1>11, MoveFetch DEF Verify, At, Raises
<1>12. CASE Close
  BY <1>12, MoveFetch DEF Close, At
<1> QED BY <1>1, <1>2, <1>3, <1>4, <1>6, <1>7, <1>8, <1>9, <1>10, <1>11, <1>12 DEF Next, ProgramStep

\* Nothing is read initially.
LEMMA InitFetch == Init => FetchInv
BY DEF Init, FetchInv, Place

\* Only a verification that accepts leaves the place of one.
LEMMA OnlyVerify ==
    ASSUME [Next]_vars, At("verify"), place' # place PROVE Verify /\ AllHit
<1>1. ASSUME \E q \in Pools, k \in Keys : WorkerStep(q, k) PROVE FALSE
  BY <1>1 DEF WorkerStep, program
<1>2. ~ValkeyRestarts /\ ~UNCHANGED vars
  BY DEF ValkeyRestarts, vars, program
<1>3. ~Open /\ ~Toggle /\ ~BeginPass /\ ~Zero /\ ~Close /\ ~Report
  BY DEF Open, Toggle, BeginPass, Zero, Close, Report, At, Passes
<1>4. ~Submit /\ ~PassRaises /\ ~PassEnds /\ ~CloseAfterError /\ ~Record
  BY DEF Submit, program, PassRaises, PassEnds, CloseAfterError, Raises, Record, At
<1>5. Verify
  BY <1>1, <1>2, <1>3, <1>4 DEF Next, ProgramStep
<1> QED BY <1>5 DEF Verify, At, Raises

\* What a verification accepts was fetched by the pass it verifies.
THEOREM AcceptedIsFetched == Spec => VerifiedIsFetched
<1>1. ASSUME TypeInv, FetchInv, [Next]_vars
      PROVE  [At("verify") /\ place' # place => delivered = Keys]_vars
  <2> SUFFICES ASSUME At("verify"), place' # place PROVE delivered = Keys
    OBVIOUS
  <2>1. pc = "run" /\ place.do = "verify" /\ got = Keys /\ Holds(P, Keys)
    BY <1>1, OnlyVerify DEF At, AllHit
  <2>2. tool # "bench_baseline" /\ (P = "resp" => place.phase = "check")
    BY <1>1, <2>1, ToolsAssumption DEF TypeInv, TypeOK, FlowInv, PlaceOK, PairedPlace, ConfigPlace, BackendPlace, P
  <2>3. \A k \in Keys : views["shared"][k] = "mine"
    BY <1>1, <2>1, <2>2, SharedBuffer DEF Holds
  <2>4. \A k \in Keys : k \in delivered
    BY <1>1, <2>1, <2>2, <2>3 DEF FetchInv
  <2> QED BY <1>1, <2>4 DEF TypeInv, TypeOK
<1>2. TypeInv /\ FetchInv /\ [Next]_vars => TypeInv' /\ FetchInv'
  BY NextType, NextFetch
<1> QED BY <1>1, <1>2, InitType, InitFetch, PTL DEF Spec, VerifiedIsFetched

-----------------------------------------------------------------------------
(* No program raises without a reason. *)

\* While nothing goes wrong outside the program: once the first SET pass is over the
\* server holds every key, every future is good, and what a verification reads was
\* filled in before it.
Fine == failures = 0 /\ client.buffer_get /\ client.flag
CalmInv ==
    Fine =>
        /\ pc \in {"run", "pass", "done"}
        /\ place.phase \notin {"start", "prime"} => \A k \in Keys : store[k] = "mine"
        /\ pc = "pass" => \A k \in Keys :
              /\ job[P][k] \notin {"miss", "raised"}
              /\ job[P][k] = "ok" /\ place.do = "set" => store[k] = "mine"
              /\ job[P][k] = "ok" /\ place.do = "get" => views[BufferOf(P)][k] = "mine"
        /\ place.do \in {"exists", "record_get", "verify", "verify_reads", "verify_sample"} =>
              Holds(P, Keys) /\ (tool # "bench_baseline" => got = Keys)
        /\ place.do \in {"record_get", "verify"} /\ tool # "bench_baseline" => found = Keys

\* What went wrong stays so.
LEMMA FineBefore == ASSUME TypeInv, [Next]_vars, Fine' PROVE Fine /\ ~Fails
<1>1. failures \in Nat
  BY DEF TypeInv, TypeOK
<1>2. UNCHANGED client
  BY DEF Next, ProgramStep, Open, Toggle, BeginPass, Submit, PassRaises, PassEnds, Record, Zero, Verify, Close,
         CloseAfterError, Report, WorkerStep, ValkeyRestarts, vars, program
<1>3. failures' \in {failures, failures + 1}
  BY DEF Next, ProgramStep, Open, Toggle, BeginPass, Submit, PassRaises, PassEnds, Record, Zero, Verify, Close,
         CloseAfterError, Report, WorkerStep, WorkerGets, WorkerSets, WorkerAsks, ValkeyRestarts, Fails, vars, program
<1> QED BY <1>1, <1>2, <1>3 DEF Fine, Fails

\* A GET or an EXISTS comes after the first SET pass.
LEMMA ReadsLater ==
    ASSUME TypeInv, place.do \in {"get", "exists"} PROVE place.phase \notin {"start", "prime"}
BY ToolsAssumption DEF TypeInv, TypeOK, FlowInv, PlaceOK, PairedPlace, ConfigPlace, BackendPlace

\* A worker that nothing disturbs brings what the program asks for.
LEMMA WorkerCalm ==
    ASSUME TypeInv, CalmInv, NEW q \in Pools, NEW k \in Keys, WorkerStep(q, k) PROVE CalmInv'
<1> SUFFICES ASSUME Fine' PROVE CalmInv'
  BY DEF CalmInv
<1>1. Fine /\ ~Fails
  BY FineBefore DEF Next
<1>2. pc = "pass" /\ q = P /\ UNCHANGED program /\ P \in Pools /\ BufferOf(P) \in Buffers
  BY <1>1, WorkerAtWork, PoolType DEF CalmInv
<1>3. UNCHANGED <<tool, pc, place, got, found>> /\ P' = P
  BY <1>2 DEF program, P
<1>4. /\ job \in [Pools -> Futures] /\ store \in [Keys -> Contents]
      /\ failures \in Nat
  BY DEF TypeInv, TypeOK, QuietInv
<1>5. CASE place.do = "get" /\ WorkerGets(q, k) /\ UNCHANGED store
  <2>1. \A i \in Keys : store[i] = "mine"
    BY <1>1, <1>5, ReadsLater DEF CalmInv
  <2>2. failures' # failures + 1
    BY <1>1, <1>4 DEF Fine
  <2>3. job'[P][k] = "ok" /\ views'[BufferOf(P)][k] = "mine"
    BY <1>2, <1>5, <2>1, <2>2, GetEffect
  <2>4. \A i \in Keys : i # k => job'[P][i] = job[P][i] /\ views'[BufferOf(P)][i] = views[BufferOf(P)][i]
    BY <1>2, <1>5, GetEffect
  <2>5. place'.do = "get" /\ (pc' = "pass")
    BY <1>2, <1>3, <1>5
  <2> QED BY <1>1, <1>2, <1>3, <1>5, <2>1, <2>3, <2>4, <2>5 DEF CalmInv
<1>6. CASE place.do = "set" /\ WorkerSets(q, k)
  <2>1. Resolves(q, k, "ok") /\ store' = [store EXCEPT ![k] = "mine"] /\ UNCHANGED views
    BY <1>1, <1>6 DEF WorkerSets
  <2>2. job'[P][k] = "ok" /\ \A i \in Keys : i # k => job'[P][i] = job[P][i]
    BY <1>2, <1>4, <2>1 DEF Resolves, Futures
  <2>3. store'[k] = "mine" /\ \A i \in Keys : i # k => store'[i] = store[i]
    BY <1>4, <2>1
  <2> QED BY <1>1, <1>2, <1>3, <1>6, <2>1, <2>2, <2>3 DEF CalmInv
<1>7. CASE place.do = "exists" /\ WorkerAsks(q, k) /\ UNCHANGED store
  <2>1. store[k] = "mine"
    BY <1>1, <1>7, ReadsLater DEF CalmInv
  <2>2. Resolves(q, k, "ok") /\ UNCHANGED views
    BY <1>1, <1>7, <2>1 DEF WorkerAsks
  <2>3. job'[P][k] = "ok" /\ \A i \in Keys : i # k => job'[P][i] = job[P][i]
    BY <1>2, <1>4, <2>2 DEF Resolves, Futures
  <2> QED BY <1>1, <1>2, <1>3, <1>7, <2>2, <2>3 DEF CalmInv, Holds
<1> QED BY <1>5, <1>6, <1>7 DEF WorkerStep

\* A pass starts from what the passes before it left.
LEMMA PassCalm == ASSUME TypeInv, CalmInv, BeginPass \/ Submit PROVE CalmInv'
<1> SUFFICES ASSUME Fine' PROVE CalmInv'
  BY DEF CalmInv
<1>1. /\ UNCHANGED <<tool, place, store, views, got, found>> /\ P' = P /\ P \in Pools /\ job \in [Pools -> Futures]
      /\ pc' = "pass"
  BY PoolType DEF BeginPass, Submit, program, P, TypeInv, QuietInv
<1>2. Fine
  BY FineBefore DEF Next, ProgramStep
<1>3. \A i \in Keys : job'[P][i] \in {"-", "submitted"} \/ (pc = "pass" /\ job'[P][i] = job[P][i])
  <2>1. CASE BeginPass
    BY <1>1, <2>1 DEF BeginPass
  <2>2. CASE Submit
    <3>1. PICK k : job' = [job EXCEPT ![P][k] = "submitted"]
      BY <2>2 DEF Submit
    <3> QED BY <1>1, <2>2, <3>1 DEF Submit, Futures
  <2> QED BY <2>1, <2>2
<1> QED BY <1>1, <1>2, <1>3 DEF CalmInv, Holds

\* Where a program goes when it is about to look at what was read.
LEMMA CalmMoves ==
    ASSUME TypeInv, Moves, place.do # "end", UNCHANGED tool
    PROVE  /\ pc' = "run"
           /\ place'.phase \notin {"start", "prime"} =>
                 \/ place.phase \notin {"start", "prime"}
                 \/ place.do = "set"
           /\ place'.do \in {"exists", "record_get", "verify", "verify_reads", "verify_sample"} =>
                 place.do \in {"get", "exists", "record_get"} /\ P' = P
           /\ tool # "bench_baseline" /\ place'.do \in {"record_get", "verify"} =>
                 place.do \in {"exists", "record_get"}
<1>1. PlaceOK(place)' /\ Edge(place, place') /\ pc' = "run" /\ PlaceOK(place) /\ tool \in Tools
  BY MovesOn DEF TypeInv, TypeOK, FlowInv
<1>2. CASE tool = "bench_baseline"
  BY <1>1, <1>2 DEF Edge, PairedEdge, PlaceOK, PairedPlace, P
<1>3. CASE tool = "valkey_microbench"
  BY <1>1, <1>3 DEF Edge, ConfigEdge, PlaceOK, ConfigPlace, P
<1>4. CASE tool = "connector_compare"
  BY <1>1, <1>4 DEF Edge, BackendEdge, PlaceOK, BackendPlace, P
<1> QED BY <1>1, <1>2, <1>3, <1>4, ToolsAssumption

\* A step between the passes keeps what they left.
LEMMA MoveCalm ==
    ASSUME TypeInv, CalmInv, Moves, pc = "run", place.do \notin Passes \cup {"end"},
           UNCHANGED <<tool, store, got, found, failures, client>>,
           place.do # "zero" => UNCHANGED views
    PROVE  CalmInv'
<1> SUFFICES ASSUME Fine' PROVE CalmInv'
  BY DEF CalmInv
<1>1. Fine /\ pc' = "run"
  BY CalmMoves DEF Fine
<1>2. place'.phase \notin {"start", "prime"} => \A k \in Keys : store'[k] = "mine"
  BY <1>1, CalmMoves DEF CalmInv, Passes
<1>3. ASSUME place'.do \in {"exists", "record_get", "verify", "verify_reads", "verify_sample"}
      PROVE  (Holds(P, Keys) /\ (tool # "bench_baseline" => got = Keys))'
  <2>1. place.do = "record_get" /\ P' = P
    BY <1>3, CalmMoves DEF Passes
  <2>2. Holds(P, Keys) /\ (tool # "bench_baseline" => got = Keys) /\ UNCHANGED views
    BY <1>1, <2>1 DEF CalmInv
  <2> QED BY <2>1, <2>2 DEF Holds
<1>4. place'.do \in {"record_get", "verify"} /\ tool # "bench_baseline" => found' = Keys
  BY <1>1, CalmMoves DEF CalmInv, Passes
<1> QED BY <1>1, <1>2, <1>3, <1>4 DEF CalmInv

\* A pass that ends has set, read or found every key.
LEMMA EndCalm == ASSUME TypeInv, CalmInv, PassEnds PROVE CalmInv'
<1> SUFFICES ASSUME Fine' PROVE CalmInv'
  BY DEF CalmInv
<1>1. /\ Fine /\ Moves /\ pc = "pass" /\ UNCHANGED <<tool, store, views, failures, client>>
      /\ place.do \in Passes /\ place.do # "end" /\ pc' = "run"
  BY FineBefore, CalmMoves DEF PassEnds, Next, ProgramStep, TypeInv, FlowInv, Passes
<1>2. \A k \in Keys : job[P][k] = "ok"
  BY <1>1, AllGood DEF CalmInv
<1>3. CASE place.do = "set"
  <2>1. \A k \in Keys : store'[k] = "mine"
    BY <1>1, <1>2, <1>3 DEF CalmInv
  <2>2. place'.do \notin {"exists", "record_get", "verify", "verify_reads", "verify_sample"}
    BY <1>1, <1>3, CalmMoves
  <2> QED BY <1>1, <2>1, <2>2 DEF CalmInv
<1>4. CASE place.do = "get"
  <2>1. \A k \in Keys : store'[k] = "mine"
    BY <1>1, <1>4, ReadsLater DEF CalmInv
  <2>2. Holds(P, Keys) /\ UNCHANGED views
    BY <1>1, <1>2, <1>4 DEF CalmInv, Holds
  <2>3. got' = Keys
    BY <1>2, <1>4 DEF PassEnds, Hits
  <2>4. ASSUME place'.do \in {"exists", "record_get", "verify", "verify_reads", "verify_sample"}
        PROVE  Holds(P, Keys)'
    <3>1. P' = P
      BY <1>1, <2>4, CalmMoves
    <3> QED BY <2>2, <3>1 DEF Holds
  <2>5. ~(tool # "bench_baseline" /\ place'.do \in {"record_get", "verify"})
    BY <1>1, <1>4, CalmMoves
  <2> QED BY <1>1, <2>1, <2>3, <2>4, <2>5 DEF CalmInv
<1>5. CASE place.do = "exists"
  <2>1. \A k \in Keys : store'[k] = "mine"
    BY <1>1, <1>5, ReadsLater DEF CalmInv
  <2>2. Holds(P, Keys) /\ UNCHANGED <<views, got>> /\ (tool # "bench_baseline" => got = Keys)
    BY <1>1, <1>5 DEF CalmInv, PassEnds
  <2>3. found' = Keys
    BY <1>2, <1>5 DEF PassEnds, Hits
  <2>4. ASSUME place'.do \in {"exists", "record_get", "verify", "verify_reads", "verify_sample"}
        PROVE  Holds(P, Keys)'
    <3>1. P' = P
      BY <1>1, <2>4, CalmMoves
    <3> QED BY <2>2, <3>1 DEF Holds
  <2> QED BY <1>1, <2>1, <2>2, <2>3, <2>4 DEF CalmInv
<1> QED BY <1>1, <1>3, <1>4, <1>5 DEF Passes

\* Every step keeps the invariant.
LEMMA NextCalm == ASSUME TypeInv, CalmInv, [Next]_vars PROVE CalmInv'
<1> SUFFICES ASSUME Fine' PROVE CalmInv'
  BY DEF CalmInv
<1>0. Fine /\ ~Fails /\ pc \in {"run", "pass", "done"}
  BY FineBefore DEF CalmInv
<1>1. CASE \E q \in Pools, k \in Keys : WorkerStep(q, k)
  BY <1>1, WorkerCalm
<1>2. CASE ValkeyRestarts
  BY <1>0, <1>2 DEF ValkeyRestarts
<1>3. CASE UNCHANGED vars
  BY <1>3 DEF vars, program, P, CalmInv, Fine, Holds
<1>4. CASE BeginPass \/ Submit
  BY <1>4, PassCalm
<1>5. CASE PassRaises
  <2>1. \E k \in Keys : job[P][k] \in {"miss", "raised"}
    BY <1>5 DEF PassRaises, Gathered, Bad
  <2> QED BY <1>0, <1>5, <2>1 DEF CalmInv, PassRaises
<1>6. CASE CloseAfterError
  BY <1>0, <1>6 DEF CloseAfterError
<1>7. CASE Report
  BY <1>0, <1>7 DEF Report, Raises, CalmInv, Fine, P, Holds
<1>8. CASE Open
  BY <1>0, <1>8, MoveCalm DEF Open, At, Passes
<1>9. CASE Toggle
  BY <1>0, <1>9, MoveCalm DEF Toggle, ForcesCopy, At, Passes, Fine
<1>10. CASE PassEnds
  BY <1>10, EndCalm
<1>11. CASE Record
  BY <1>11, MoveCalm DEF Record, At, Passes
<1>12. CASE Zero
  BY <1>12, MoveCalm DEF Zero, At, Passes
<1>13. CASE Verify
  <2>1. pc = "run" /\ place.do \in {"verify_reads", "verify_sample", "verify"}
    BY <1>13 DEF Verify, At
  <2>2. Holds(P, Keys) /\ (tool # "bench_baseline" => got = Keys)
    BY <1>0, <2>1 DEF CalmInv
  <2>3. 1 \in Keys
    BY FlagsAssumption DEF Keys
  <2>4. place.do = "verify" => AllHit
    <3>1. place.do = "verify" => tool # "bench_baseline"
      BY DEF TypeInv, FlowInv, PlaceOK, PairedPlace
    <3> QED BY <1>0, <2>2, <3>1 DEF CalmInv, AllHit
  <2>5. Moves
    BY <1>13, <2>1, <2>2, <2>3, <2>4 DEF Verify, At, Holds
  <2> QED BY <1>13, <2>1, <2>5, MoveCalm DEF Verify, Passes
<1>14. CASE Close
  BY <1>14, MoveCalm DEF Close, At, Passes
<1> QED BY <1>1, <1>2, <1>3, <1>4, <1>5, <1>6, <1>7, <1>8, <1>9, <1>10, <1>11, <1>12, <1>13, <1>14
        DEF Next, ProgramStep

\* Nothing has gone wrong initially.
LEMMA InitCalm == Init => CalmInv
BY DEF Init, CalmInv, Place

\* A program that raises has something outside it to blame.
THEOREM RaisesForAReason == Spec => []NoFalseAlarm
<1>1. TypeInv /\ CalmInv => NoFalseAlarm
  BY DEF TypeInv, TypeOK, CalmInv, NoFalseAlarm, Fine
<1>2. TypeInv /\ CalmInv /\ [Next]_vars => TypeInv' /\ CalmInv'
  BY NextType, NextCalm
<1> QED BY <1>1, <1>2, InitType, InitCalm, PTL DEF Spec

-----------------------------------------------------------------------------
(* The measurements are paired and counterbalanced. *)

\* The measurements of one rep are numbered by the order they are taken in.
Turn(rep, op, p) == (IF op = "get" THEN 0 ELSE 2) + (IF p = ArmOrder(rep)[1] THEN 1 ELSE 2)

\* How many were taken in the rep of a place, and of one arm and operation altogether.
InRep(a) ==
    CASE a.do = "verify_sample" -> Turn(a.rep, "get", a.pool)
      [] a.do \in {"get", "record_get"} -> Turn(a.rep, "get", a.pool) - 1
      [] OTHER -> Turn(a.rep, "set", a.pool) - 1
Taken(a, op, p) ==
    CASE a.phase = "close" -> Reps
      [] a.phase = "timed" -> a.rep + IF Turn(a.rep, op, p) <= InRep(a) THEN 1 ELSE 0
      [] OTHER -> 0

\* Each list holds the measurements of the reps so far, at their places in the order.
InOrder(list, op, p) ==
    \A k \in DOMAIN list : list[k].rep = k - 1 /\ list[k].nth = 4 * (k - 1) + Turn(k - 1, op, p)
PairInv ==
    \A p \in Arms, op \in Ops :
        /\ Len(out[p][op]) = IF tool = "bench_baseline" THEN Taken(place, op, p) ELSE 0
        /\ InOrder(out[p][op], op, p)

\* The four turns of a rep.
LEMMA Turns ==
    ASSUME NEW rep \in Nat
    PROVE  /\ \/ ArmOrder(rep)[1] = "base" /\ ArmOrder(rep)[2] = "opt"
              \/ ArmOrder(rep)[1] = "opt" /\ ArmOrder(rep)[2] = "base"
           /\ Turn(rep, "get", ArmOrder(rep)[1]) = 1 /\ Turn(rep, "get", ArmOrder(rep)[2]) = 2
           /\ Turn(rep, "set", ArmOrder(rep)[1]) = 3 /\ Turn(rep, "set", ArmOrder(rep)[2]) = 4
           /\ \A op \in Ops, p \in Arms : Turn(rep, op, p) \in 1..4
BY ArmsOfRep DEF Turn, Ops

\* The arm that goes first changes from rep to rep.
LEMMA Alternates == ASSUME NEW rep \in Nat PROVE ArmOrder(rep + 1)[1] # ArmOrder(rep)[1]
<1>1. (rep + 1) % 2 = 0 <=> rep % 2 # 0
  OBVIOUS
<1> QED BY <1>1 DEF ArmOrder

\* A place without an append keeps the counts.
LEMMA KeepsTaken ==
    ASSUME NEW a \in Places, NEW b \in Places, PairedPlace(a), PairedPlace(b), PairedEdge(a, b),
           a.do \notin {"record_get", "record_set"}, NEW op \in Ops, NEW p \in Arms
    PROVE  Taken(b, op, p) = Taken(a, op, p)
<1>1. a.rep \in Nat /\ b.rep \in Nat
  BY FlagsAssumption DEF Places
<1>2. CASE a.phase # "timed" /\ b.phase # "timed"
  BY <1>2 DEF PairedPlace, PairedEdge, Taken
<1>3. CASE a.phase # "timed" /\ b.phase = "timed"
  <2>1. b.rep = 0 /\ b.do = "get" /\ b.pool = ArmOrder(b.rep)[1] /\ a.phase = "warm"
    BY <1>3 DEF PairedEdge
  <2>2. Turn(b.rep, op, p) \in 1..4 /\ Turn(b.rep, "get", b.pool) = 1
    BY <1>1, <2>1, Turns
  <2>3. InRep(b) = 0
    BY <2>1, <2>2 DEF InRep
  <2> QED BY <1>3, <2>1, <2>2, <2>3 DEF Taken
<1>4. CASE a.phase = "timed"
  <2>1. b.phase = "timed" /\ b.rep = a.rep
    BY <1>4 DEF PairedEdge
  <2>2. InRep(b) = InRep(a)
    <3>1. CASE b.pool = a.pool /\ ((a.do = "get" /\ b.do \in {"get", "record_get"}) \/ (a.do = "set" /\ b.do \in {"set", "record_set"}))
      BY <2>1, <3>1 DEF InRep
    <3>2. CASE a.do = "verify_sample"
      <4>1. b.do = (IF GoesFirst(a) THEN "get" ELSE "set")
            /\ b.pool = (IF GoesFirst(a) THEN ArmOrder(a.rep)[2] ELSE ArmOrder(a.rep)[1])
        BY <1>4, <3>2 DEF PairedEdge
      <4>2. ~GoesFirst(a) => a.pool = ArmOrder(a.rep)[2]
        BY <1>1, Turns DEF GoesFirst, PairedPlace, Arms
      <4> QED BY <1>1, <2>1, <3>2, <4>1, <4>2, Turns DEF InRep, GoesFirst
    <3> QED BY <1>4, <3>1, <3>2 DEF PairedEdge, PairedPlace
  <2> QED BY <1>4, <2>1, <2>2 DEF Taken
<1> QED BY <1>2, <1>3, <1>4

\* An append counts one, at its turn.
LEMMA CountsTaken ==
    ASSUME NEW a \in Places, NEW b \in Places, PairedPlace(a), PairedPlace(b), PairedEdge(a, b),
           NEW o \in Ops, a.do = IF o = "get" THEN "record_get" ELSE "record_set"
    PROVE  /\ \A op \in Ops, p \in Arms :
                 Taken(b, op, p) = Taken(a, op, p) + IF op = o /\ p = a.pool THEN 1 ELSE 0
           /\ Taken(a, o, a.pool) = a.rep
           /\ Taken(a, "get", "base") + Taken(a, "set", "base") + Taken(a, "get", "opt") + Taken(a, "set", "opt") + 1
                 = 4 * a.rep + Turn(a.rep, o, a.pool)
<1>1. a.rep \in Nat /\ b.rep \in Nat /\ a.phase = "timed" /\ a.pool \in Arms
  BY FlagsAssumption DEF Places, PairedPlace
<1>2. InRep(a) = Turn(a.rep, o, a.pool) - 1
  BY DEF InRep, Ops
<1>3. \A op \in Ops, p \in Arms : /\ Turn(a.rep, op, p) \in 1..4
                                  /\ Turn(a.rep, op, p) = Turn(a.rep, o, a.pool) => op = o /\ p = a.pool
  BY <1>1, ArmsOfRep DEF Turn, Ops, Arms
<1>4. \A op \in Ops, p \in Arms : Taken(a, op, p) = a.rep + IF Turn(a.rep, op, p) < Turn(a.rep, o, a.pool) THEN 1 ELSE 0
  BY <1>1, <1>2, <1>3 DEF Taken
<1>5. Taken(a, o, a.pool) = a.rep
  BY <1>1, <1>3, <1>4
<1>6. Taken(a, "get", "base") + Taken(a, "set", "base") + Taken(a, "get", "opt") + Taken(a, "set", "opt") + 1
         = 4 * a.rep + Turn(a.rep, o, a.pool)
  BY <1>1, <1>4, ArmsOfRep DEF Turn, Ops, Arms
<1>7. ASSUME NEW op \in Ops, NEW p \in Arms
      PROVE  Taken(b, op, p) = Taken(a, op, p) + IF op = o /\ p = a.pool THEN 1 ELSE 0
  <2>1. CASE b.phase = "timed" /\ b.rep = a.rep
    <3>1. InRep(b) = Turn(a.rep, o, a.pool)
      <4>1. CASE o = "get"
        <5>1. b.do = "verify_sample" /\ b.pool = a.pool
          BY <1>1, <2>1, <4>1 DEF PairedEdge
        <5> QED BY <2>1, <4>1, <5>1 DEF InRep
      <4>2. CASE o = "set"
        <5>1. GoesFirst(a) /\ b.do = "set" /\ b.pool = ArmOrder(a.rep)[2]
          BY <1>1, <2>1, <4>2 DEF PairedEdge
        <5> QED BY <1>1, <2>1, <4>2, <5>1, Turns DEF InRep, GoesFirst
      <4> QED BY <4>1, <4>2 DEF Ops
    <3> QED BY <1>1, <1>3, <1>4, <2>1, <3>1 DEF Taken
  <2>2. CASE ~(b.phase = "timed" /\ b.rep = a.rep)
    <3>1. /\ o = "set" /\ ~GoesFirst(a)
          /\ \/ b.phase = "timed" /\ b.do = "get" /\ b.rep = a.rep + 1 /\ b.pool = ArmOrder(b.rep)[1]
             \/ b.phase = "close" /\ a.rep + 1 = Reps
      BY <1>1, <2>2 DEF PairedEdge, Ops
    <3>2. a.pool = ArmOrder(a.rep)[2] /\ Turn(a.rep, o, a.pool) = 4
      BY <1>1, <3>1, Turns DEF GoesFirst, Arms
    <3>3. Taken(b, op, p) = a.rep + 1
      <4>1. CASE b.phase = "timed"
        <5>1. InRep(b) = 0 /\ Turn(b.rep, op, p) \in 1..4
          BY <1>1, <3>1, <4>1, Turns DEF InRep
        <5> QED BY <1>1, <3>1, <4>1, <5>1 DEF Taken
      <4>2. CASE b.phase # "timed"
        BY <3>1, <4>2 DEF Taken
      <4> QED BY <4>1, <4>2
    <3>4. Turn(a.rep, op, p) < 4 <=> ~(op = o /\ p = a.pool)
      BY <1>3, <3>2
    <3> QED BY <1>1, <1>4, <3>2, <3>3, <3>4
  <2> QED BY <2>1, <2>2
<1> QED BY <1>5, <1>6, <1>7

\* A list in order stays so when the next one is appended.
LEMMA AppendsInOrder ==
    ASSUME NEW list \in Seq(Measurements), NEW op, NEW p, InOrder(list, op, p), NEW rep \in Nat, Len(list) = rep,
           NEW m \in Measurements, m.rep = rep, m.nth = 4 * rep + Turn(rep, op, p)
    PROVE  InOrder(Append(list, m), op, p) /\ Len(Append(list, m)) = rep + 1
<1>1. /\ DOMAIN list = 1..rep /\ DOMAIN Append(list, m) = 1..(rep + 1) /\ Len(Append(list, m)) = rep + 1
      /\ Append(list, m)[rep + 1] = m /\ \A k \in 1..rep : Append(list, m)[k] = list[k]
  OBVIOUS
<1>2. ASSUME NEW k \in 1..(rep + 1)
      PROVE  /\ Append(list, m)[k].rep = k - 1
             /\ Append(list, m)[k].nth = 4 * (k - 1) + Turn(k - 1, op, p)
  <2>1. CASE k = rep + 1
    <3>1. k - 1 = rep
      BY <2>1
    <3> QED BY <1>1, <2>1, <3>1
  <2>2. CASE k # rep + 1
    <3>1. k \in 1..rep
      BY <2>2
    <3> QED BY <1>1, <3>1 DEF InOrder
  <2> QED BY <2>1, <2>2
<1> QED BY <1>1, <1>2 DEF InOrder

\* A step without an append keeps the lists and the counts.
LEMMA MovePair ==
    ASSUME TypeInv, PairInv, Moves, place.do \notin {"end", "record_get", "record_set"}, UNCHANGED <<tool, out>>
    PROVE  PairInv'
<1>1. ASSUME tool = "bench_baseline", NEW p \in Arms, NEW op \in Ops
      PROVE  Taken(place', op, p) = Taken(place, op, p)
  <2>1. PairedEdge(place, place') /\ PairedPlace(place) /\ PairedPlace(place') /\ place \in Places /\ place' \in Places
    BY <1>1, MovesOn DEF Edge, PlaceOK, TypeInv, FlowInv
  <2> QED BY <2>1, KeepsTaken
<1> QED BY <1>1 DEF PairInv

\* An append is the next of its arm and operation, and the next of all.
LEMMA RecordPair == ASSUME TypeInv, PairInv, Record PROVE PairInv'
<1>1. PICK o \in Ops : /\ At(IF o = "get" THEN "record_get" ELSE "record_set")
                       /\ out' = IF tool = "bench_baseline" THEN Appended(o) ELSE out
  BY DEF Record
<1>2. CASE tool # "bench_baseline"
  BY <1>1, <1>2 DEF Record, PairInv
<1>3. CASE tool = "bench_baseline"
  <2> DEFINE m == [rep |-> place.rep, nth |-> Measured + 1]
  <2>1. /\ PairedEdge(place, place') /\ PairedPlace(place) /\ PairedPlace(place') /\ place \in Places
        /\ place' \in Places /\ place.do = IF o = "get" THEN "record_get" ELSE "record_set"
    <3>1. place.do # "end" /\ Moves /\ UNCHANGED tool
      BY <1>1 DEF Record, At
    <3> QED BY <1>1, <1>3, <3>1, MovesOn DEF Edge, PlaceOK, TypeInv, FlowInv, At
  <2>2. /\ \A op \in Ops, p \in Arms :
              Taken(place', op, p) = Taken(place, op, p) + IF op = o /\ p = P THEN 1 ELSE 0
        /\ Taken(place, o, P) = place.rep
        /\ Taken(place, "get", "base") + Taken(place, "set", "base") + Taken(place, "get", "opt")
              + Taken(place, "set", "opt") + 1 = 4 * place.rep + Turn(place.rep, o, P)
    BY <2>1, CountsTaken DEF P
  <2>3. P \in Arms /\ place.rep \in Nat
    BY <2>1, FlagsAssumption DEF PairedPlace, P, Places
  <2>4. Measured + 1 = 4 * place.rep + Turn(place.rep, o, P)
    <3>1. /\ Len(out["base"]["get"]) = Taken(place, "get", "base") /\ Len(out["base"]["set"]) = Taken(place, "set", "base")
          /\ Len(out["opt"]["get"]) = Taken(place, "get", "opt") /\ Len(out["opt"]["set"]) = Taken(place, "set", "opt")
      BY <1>3 DEF PairInv, Arms, Ops
    <3>2. \A p \in Arms, op \in Ops : Taken(place, op, p) \in Nat
      BY <1>3 DEF PairInv, TypeInv, TypeOK
    <3>3. \A a, b, c, d \in Nat : a + b + c + d = a + c + b + d
      OBVIOUS
    <3> QED BY <2>2, <3>1, <3>2, <3>3 DEF Measured, Arms, Ops
  <2>5. /\ out'[P][o] = Append(out[P][o], m) /\ out[P][o] \in Seq(Measurements) /\ m \in Measurements
        /\ \A p \in Arms, op \in Ops : p # P \/ op # o => out'[p][op] = out[p][op]
    BY <1>1, <1>3, <2>3, RecordType
  <2>6. Len(out[P][o]) = place.rep /\ InOrder(out[P][o], o, P)
    BY <1>3, <2>2, <2>3 DEF PairInv
  <2>7. m.rep = place.rep /\ m.nth = 4 * place.rep + Turn(place.rep, o, P)
    BY <2>4
  <2> HIDE DEF m
  <2>8. InOrder(out'[P][o], o, P) /\ Len(out'[P][o]) = place.rep + 1
    BY <2>3, <2>5, <2>6, <2>7, AppendsInOrder
  <2>9. ASSUME NEW p \in Arms, NEW op \in Ops
        PROVE  Len(out'[p][op]) = Taken(place', op, p) /\ InOrder(out'[p][op], op, p)
    <3>1. CASE p = P /\ op = o
      BY <2>2, <2>8, <3>1
    <3>2. CASE p # P \/ op # o
      <4>1. Len(out[p][op]) = Taken(place, op, p) /\ Len(out[p][op]) \in Nat
        BY <1>3 DEF PairInv, TypeInv, TypeOK
      <4>2. Taken(place', op, p) = Taken(place, op, p)
        BY <2>2, <3>2, <4>1
      <4> QED BY <2>5, <3>2, <4>1, <4>2 DEF PairInv
    <3> QED BY <3>1, <3>2
  <2>10. UNCHANGED tool
    BY DEF Record
  <2> QED BY <1>3, <2>9, <2>10 DEF PairInv
<1> QED BY <1>2, <1>3

\* Every step keeps the invariant.
LEMMA NextPair == ASSUME TypeInv, PairInv, [Next]_vars PROVE PairInv'
<1>1. ASSUME UNCHANGED <<tool, place, out>> PROVE PairInv'
  BY <1>1 DEF PairInv
<1>2. CASE (\E q \in Pools, k \in Keys : WorkerStep(q, k)) \/ ValkeyRestarts \/ UNCHANGED vars
  BY <1>1, <1>2 DEF WorkerStep, ValkeyRestarts, vars, program
<1>3. CASE BeginPass \/ Submit \/ PassRaises \/ CloseAfterError \/ Report
  BY <1>1, <1>3 DEF BeginPass, Submit, PassRaises, CloseAfterError, Report, Raises, program
<1>4. CASE Open \/ Toggle \/ Verify
  BY <1>1, <1>4, MovePair DEF Open, Toggle, Verify, Raises, At
<1>5. CASE Zero \/ Close
  BY <1>5, MovePair DEF Zero, Close, At
<1>6. CASE PassEnds
  BY <1>6, MovePair DEF PassEnds, TypeInv, FlowInv, Passes
<1> QED BY <1>2, <1>3, <1>4, <1>5, <1>6, RecordPair DEF Next, ProgramStep

\* Nothing is measured initially.
LEMMA InitPair == Init => PairInv
BY DEF Init, PairInv, InOrder, Taken, Place

\* The k-th measurements of the two arms are of one rep and adjacent, the arm that
\* goes first alternates, and a table has a pair of every rep.
THEOREM PairsAreCounterbalanced == Spec => []PairedAndCounterbalanced
<1>1. ASSUME TypeInv, PairInv PROVE PairedAndCounterbalanced
  <2> SUFFICES ASSUME NEW op \in Ops
               PROVE  /\ \A k \in DOMAIN out["base"][op] \cap DOMAIN out["opt"][op] :
                            /\ out["base"][op][k].rep = out["opt"][op][k].rep
                            /\ out["base"][op][k].nth - out["opt"][op][k].nth \in {1, -1}
                            /\ k > 1 => (out["base"][op][k].nth < out["opt"][op][k].nth
                                           <=> out["opt"][op][k - 1].nth < out["base"][op][k - 1].nth)
                      /\ tool = "bench_baseline" /\ pc = "done" =>
                            Len(out["base"][op]) = Reps /\ Len(out["opt"][op]) = Reps
    BY DEF PairedAndCounterbalanced
  <2>1. "base" \in Arms /\ "opt" \in Arms
    BY DEF Arms
  <2>2. InOrder(out["base"][op], op, "base") /\ InOrder(out["opt"][op], op, "opt")
    BY <1>1, <2>1 DEF PairInv
  <2>3. /\ DOMAIN out["base"][op] = 1..Len(out["base"][op]) /\ DOMAIN out["opt"][op] = 1..Len(out["opt"][op])
        /\ Len(out["base"][op]) \in Nat /\ Len(out["opt"][op]) \in Nat
    BY <1>1, <2>1 DEF TypeInv, TypeOK
  <2>4. ASSUME NEW k \in DOMAIN out["base"][op] \cap DOMAIN out["opt"][op]
        PROVE  /\ out["base"][op][k].rep = out["opt"][op][k].rep
               /\ out["base"][op][k].nth - out["opt"][op][k].nth \in {1, -1}
               /\ out["base"][op][k].nth < out["opt"][op][k].nth <=> ArmOrder(k - 1)[1] = "base"
    <3>1. k - 1 \in Nat /\ k \in Int
      BY <2>3, <2>4
    <3>2. PICK b \in 1..4, o \in 1..4 : /\ b = Turn(k - 1, op, "base") /\ o = Turn(k - 1, op, "opt")
                                        /\ b - o \in {1, -1} /\ (b < o <=> ArmOrder(k - 1)[1] = "base")
      <4>1. Turn(k - 1, op, "base") \in 1..4 /\ Turn(k - 1, op, "opt") \in 1..4
        BY <2>1, <3>1, Turns
      <4>2. CASE ArmOrder(k - 1)[1] = "base"
        BY <4>1, <4>2 DEF Turn, Ops
      <4>3. CASE ArmOrder(k - 1)[1] = "opt"
        BY <4>1, <4>3 DEF Turn, Ops
      <4> QED BY <3>1, <4>2, <4>3, ArmsOfRep
    <3>3. out["base"][op][k].nth = 4 * (k - 1) + b /\ out["opt"][op][k].nth = 4 * (k - 1) + o
          /\ out["base"][op][k].rep = out["opt"][op][k].rep
      BY <2>2, <2>4, <3>2 DEF InOrder
    <3>4. PICK n \in Int : n = 4 * (k - 1)
      BY <3>1
    <3> QED BY <3>2, <3>3, <3>4
  <2>5. ASSUME NEW k \in DOMAIN out["base"][op] \cap DOMAIN out["opt"][op], k > 1
        PROVE  out["base"][op][k].nth < out["opt"][op][k].nth
                  <=> out["opt"][op][k - 1].nth < out["base"][op][k - 1].nth
    <3>1. k - 1 \in DOMAIN out["base"][op] \cap DOMAIN out["opt"][op] /\ k - 2 \in Nat /\ (k - 1) - 1 = k - 2
          /\ (k - 2) + 1 = k - 1
      BY <2>3, <2>5
    <3>2. out["base"][op][k - 1].nth - out["opt"][op][k - 1].nth \in {1, -1}
          /\ (out["base"][op][k - 1].nth < out["opt"][op][k - 1].nth <=> ArmOrder(k - 2)[1] = "base")
      BY <2>4, <3>1
    <3>3. out["opt"][op][k - 1].nth < out["base"][op][k - 1].nth <=> ArmOrder(k - 2)[1] # "base"
      <4>1. out["base"][op] \in Seq(Measurements) /\ out["opt"][op] \in Seq(Measurements)
        BY <1>1, <2>1 DEF TypeInv, TypeOK
      <4>2. out["base"][op][k - 1] \in Measurements /\ out["opt"][op][k - 1] \in Measurements
        BY <3>1, <4>1
      <4>3. out["base"][op][k - 1].nth \in Nat /\ out["opt"][op][k - 1].nth \in Nat
        BY <4>2 DEF Measurements
      <4>4. \A a, b \in Nat : a - b \in {1, -1} => (b < a <=> ~(a < b))
        OBVIOUS
      <4> QED BY <3>2, <4>3, <4>4
    <3>4. ArmOrder(k - 1)[1] # ArmOrder(k - 2)[1] /\ ArmOrder(k - 1)[1] \in {"base", "opt"}
          /\ ArmOrder(k - 2)[1] \in {"base", "opt"}
      BY <3>1, Alternates, ArmsOfRep
    <3> QED BY <2>4, <2>5, <3>3, <3>4
  <2>6. tool = "bench_baseline" /\ pc = "done" => Len(out["base"][op]) = Reps /\ Len(out["opt"][op]) = Reps
    <3>1. tool = "bench_baseline" /\ pc = "done" => place.phase = "close"
      BY <1>1 DEF TypeInv, FlowInv, PlaceOK, PairedPlace
    <3> QED BY <1>1, <2>1, <3>1 DEF PairInv, Taken
  <2> QED BY <2>4, <2>5, <2>6
<1>2. TypeInv /\ PairInv /\ [Next]_vars => TypeInv' /\ PairInv'
  BY NextType, NextPair
<1> QED BY <1>1, <1>2, InitType, InitPair, PTL DEF Spec
=============================================================================
