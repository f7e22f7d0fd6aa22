--------------------------- MODULE TierMatrixProofs ---------------------------
(***************************************************************************)
(* Theorems about TierMatrix, for every list of tiers, every set of stages *)
(* and any number of sessions.                                             *)
(***************************************************************************)
EXTENDS TierMatrix, TLAPS

-----------------------------------------------------------------------------
(* Types. *)

\* A bench that exists was begun by a session, for one of its calls.
LEMMA MeIsABench ==
    ASSUME TypeOK, pc # "idle"
    PROVE  /\ todo # <<>> /\ todo[1] \in Calls
           /\ Label \in Labels /\ Tier \in AllTiers
           /\ session \in Sessions /\ Me \in Benches
<1>1. todo \in Seq(Calls) /\ todo # <<>> /\ session \in Sessions
  BY SessionsAssumption DEF TypeOK, RunnerOK, Sessions
<1>2. todo[1] \in Calls
  BY <1>1
<1>3. Label \in Labels /\ Tier \in AllTiers
  BY <1>2 DEF Calls, Label, Tier
<1> QED BY <1>1, <1>2, <1>3 DEF Me, Benches

\* Every stage is a sequence of calls.
LEMMA MatrixType ==
    ASSUME NEW stage \in Stages PROVE Matrix(stage) \in Seq(Calls)
<1>1. Tiers \in Seq(AllTiers)
  BY TiersAssumption DEF AllTiers
<1>2. \A label \in Labels : Each(label) \in Seq(Calls)
  <2> SUFFICES ASSUME NEW label \in Labels PROVE Each(label) \in Seq(Calls)
    OBVIOUS
  <2>1. \A k \in DOMAIN Tiers : Tiers[k] \in AllTiers
    BY <1>1
  <2>2. DOMAIN Tiers = 1..Len(Tiers) /\ Len(Tiers) \in Nat
    BY <1>1
  <2>3. Each(label) = [k \in 1..Len(Tiers) |-> <<label, Tiers[k]>>]
    BY <2>2 DEF Each
  <2>4. \A k \in 1..Len(Tiers) : <<label, Tiers[k]>> \in Calls
    BY <2>1, <2>2 DEF Calls
  <2> QED BY <2>2, <2>3, <2>4
<1>3. << <<"sanity", "cpu">> >> \in Seq(Calls)
  BY DEF Calls, Labels, AllTiers
<1>4. Each("single") \in Seq(Calls) /\ Each("fleet") \in Seq(Calls)
  BY <1>2 DEF Labels
<1>5. CASE stage = "sanity"
  BY <1>3, <1>5 DEF Matrix
<1>6. CASE stage = "all"
  BY <1>3, <1>4, <1>6 DEF Matrix
<1>7. CASE stage \notin {"sanity", "all"}
  <2>1. stage \in {"single", "fleet"}
    BY <1>7, StagesAssumption
  <2> QED BY <1>4, <2>1 DEF Matrix
<1> QED BY <1>5, <1>6, <1>7

\* The state is in its type initially.
LEMMA InitType == Init => TypeOK
<1> SUFFICES ASSUME Init PROVE TypeOK
  OBVIOUS
<1>1. RunnerOK
  BY SessionsAssumption DEF Init, RunnerOK, Nodes
<1>2. HostsOK
  BY DEF Init, HostsOK, Off
<1>3. BenchesOK
  <2>1. 0 \in 0..MaxSessions
    BY SessionsAssumption
  <2>2. out \in Files /\ results \in Files
    BY <2>1 DEF Init, NoFile, Files
  <2>3. benches = {} /\ exited = "-" /\ crowded = FALSE /\ unswept = {} /\ failures = 0
    BY DEF Init
  <2>4. 0 \in 0..MaxFailures
    BY FailuresAssumption
  <2> QED BY <2>2, <2>3, <2>4 DEF BenchesOK
<1> QED BY <1>1, <1>2, <1>3 DEF TypeOK

\* The session ends in type.
LEMMA EndsType == ASSUME TypeOK, Ends PROVE RunnerOK' /\ exited' = "-"
BY DEF Ends, TypeOK, RunnerOK, Nodes

\* What a stop or a clearing that fails unnoticed adds to the history.
LEMMA FailsType ==
    ASSUME TypeOK, FailsUnnoticed
    PROVE  /\ unswept' \subseteq Nodes /\ failures' \in 0..MaxFailures
           /\ unswept' = unswept \cup {node}
BY FailuresAssumption DEF FailsUnnoticed, TypeOK, BenchesOK, RunnerOK

\* What the servers and their stores become when a node is stopped.
LEMMA StoppedType ==
    ASSUME TypeOK, Stopped
    PROVE  /\ HostsOK'
           /\ benches' \subseteq benches
           /\ unswept' \subseteq Nodes /\ failures' \in 0..MaxFailures
<1> USE DEF Stopped, Killed, TypeOK, HostsOK
<1>1. srv' \in [Nodes -> [state : {"off", "starting", "up"}, tier : AllTiers \cup {"-"}]]
  BY DEF KillsServer, Off
<1>2. cores' \in [Nodes -> Nat]
  BY DEF KillsEngines
<1>3. kv' \in [Stores -> SUBSET Benches]
  OBVIOUS
<1>4. unswept' \subseteq Nodes /\ failures' \in 0..MaxFailures
  BY FailsType DEF BenchesOK
<1> QED BY <1>1, <1>2, <1>3, <1>4

\* The steps of the runner keep the types.
LEMMA RunnerStepType == ASSUME TypeOK, RunnerStep PROVE TypeOK'
<1>0. RunnerOK /\ HostsOK /\ BenchesOK
  BY DEF TypeOK
<1>1. CASE StopForServe
  <2>1. HostsOK' /\ benches' \subseteq benches
    BY <1>1, StoppedType DEF StopForServe
  <2>2. RunnerOK'
    BY <1>0, <1>1 DEF StopForServe, RunnerOK
  <2>3. BenchesOK'
    BY <1>0, <1>1, <2>1, StoppedType DEF StopForServe, BenchesOK, files
  <2> QED BY <2>1, <2>2, <2>3 DEF TypeOK
<1>2. CASE Launch
  <2>1. Tier \in AllTiers
    BY <1>2, MeIsABench DEF Launch
  <2>2. kv' \in [Stores -> SUBSET Benches]
    BY <1>0, <1>2 DEF Launch, ClearTier, HostsOK
  <2>3. HostsOK'
    <3>1. [state |-> "starting", tier |-> Tier] \in
             [state : {"off", "starting", "up"}, tier : AllTiers \cup {"-"}]
      BY <2>1
    <3>2. srv' \in [Nodes -> [state : {"off", "starting", "up"}, tier : AllTiers \cup {"-"}]]
      BY <1>0, <1>2, <3>1 DEF Launch, HostsOK
    <3>3. cores' \in [Nodes -> Nat]
      BY <1>0, <1>2 DEF Launch, HostsOK
    <3> QED BY <2>2, <3>2, <3>3 DEF HostsOK
  <2>4. unswept' \subseteq Nodes /\ failures' \in 0..MaxFailures
    BY <1>0, <1>2, FailsType DEF Launch, BenchesOK
  <2>5. RunnerOK' /\ BenchesOK'
    BY <1>0, <1>2, <2>4 DEF Launch, RunnerOK, BenchesOK, files
  <2> QED BY <2>3, <2>5 DEF TypeOK
<1>3. CASE Ready
  <2>1. Me \in Benches
    BY <1>3, MeIsABench DEF Ready
  <2>2. [by |-> Me, phase |-> "wait"] \in [by : Benches, phase : {"wait", "flush", "cold", "cached"}]
    BY <2>1
  <2>3. BenchesOK'
    <3>1. benches' = benches \/ benches' = benches \cup {[by |-> Me, phase |-> "wait"]}
      BY <1>3 DEF Ready
    <3> QED BY <1>0, <1>3, <2>2, <3>1 DEF Ready, BenchesOK, files, history
  <2>4. RunnerOK' /\ HostsOK'
    BY <1>0, <1>3 DEF Ready, RunnerOK, HostsOK, hosts, Nodes
  <2> QED BY <2>3, <2>4 DEF TypeOK
<1>4. CASE NotReady \/ BenchThrows \/ Finish
  <2>1. Ends /\ UNCHANGED <<hosts, benches, files, history>>
    BY <1>4 DEF NotReady, BenchThrows, Finish
  <2>2. RunnerOK' /\ exited' = "-"
    BY <2>1, EndsType
  <2>3. HostsOK' /\ BenchesOK'
    BY <1>0, <2>1, <2>2 DEF HostsOK, BenchesOK, hosts, files, history
  <2> QED BY <2>2, <2>3 DEF TypeOK
<1>5. CASE Fetch
  <2>1. todo[1] \in Calls
    BY <1>5, MeIsABench DEF Fetch
  <2>2. BenchesOK'
    BY <1>0, <1>5, <2>1 DEF Fetch, BenchesOK, Files, history
  <2>3. RunnerOK' /\ HostsOK'
    BY <1>0, <1>5 DEF Fetch, RunnerOK, HostsOK, hosts
  <2> QED BY <2>2, <2>3 DEF TypeOK
<1>6. CASE Stop
  <2>1. HostsOK' /\ benches' \subseteq benches
    BY <1>6, StoppedType DEF Stop
  <2>2. BenchesOK'
    BY <1>0, <1>6, <2>1, StoppedType DEF Stop, BenchesOK, files
  <2>3. todo' \in Seq(Calls) /\ todo' # <<>>
    <3>1. todo \in Seq(Calls) /\ todo # <<>>
      BY <1>0, <1>6 DEF Stop, RunnerOK
    <3>2. todo' = todo \/ (Len(todo) # 1 /\ todo' = Tail(todo))
      BY <1>6 DEF Stop, NextCall
    <3>3. Len(todo) \in Nat /\ Len(todo) # 0
      BY <3>1
    <3>4. CASE Len(todo) # 1 /\ todo' = Tail(todo)
      <4>1. Tail(todo) \in Seq(Calls) /\ Len(Tail(todo)) = Len(todo) - 1
        BY <3>1
      <4>2. Len(Tail(todo)) # 0
        BY <3>3, <3>4, <4>1
      <4>3. Len(<<>>) = 0
        OBVIOUS
      <4>4. Tail(todo) # <<>>
        BY <4>2, <4>3
      <4> QED BY <3>4, <4>1, <4>4
    <3> QED BY <3>1, <3>2, <3>4
  <2>4. RunnerOK'
    BY <1>0, <1>6, <2>3 DEF Stop, RunnerOK, Nodes
  <2> QED BY <2>1, <2>2, <2>4 DEF TypeOK
<1>7. CASE CheckSanity
  <2>1. UNCHANGED <<hosts, benches, files, history>>
    BY <1>7 DEF CheckSanity
  <2>2. CASE Ends
    BY <1>0, <2>1, <2>2, EndsType DEF TypeOK, HostsOK, BenchesOK, hosts, files, history
  <2>3. CASE ~Ends
    <3>1. /\ pc' \in {"finished", "stop_for_serve"} /\ pc = "check_sanity"
          /\ UNCHANGED <<session, todo, node, exited>>
      BY <1>7, <2>3 DEF CheckSanity
    <3> QED BY <1>0, <2>1, <3>1 DEF TypeOK, RunnerOK, HostsOK, BenchesOK, hosts, files, history
  <2> QED BY <2>2, <2>3
<1> QED BY <1>1, <1>2, <1>3, <1>4, <1>5, <1>6, <1>7 DEF RunnerStep

\* The servers, the harnesses and a new session keep the types.
LEMMA OtherStepsType ==
    ASSUME TypeOK, Next, ~RunnerStep PROVE TypeOK'
<1>0. RunnerOK /\ HostsOK /\ BenchesOK
  BY DEF TypeOK
<1>1. ASSUME NEW stage \in Stages, Start(stage) PROVE TypeOK'
  <2>1. Matrix(stage) \in Seq(Calls)
    BY MatrixType
  <2>2. RunnerOK'
    <3>1. session' \in 0..MaxSessions /\ session' > 0
      BY <1>0, <1>1, SessionsAssumption DEF Start, RunnerOK
    <3> QED BY <1>1, <2>1, <3>1 DEF Start, RunnerOK, Nodes
  <2>3. HostsOK' /\ BenchesOK'
    BY <1>0, <1>1 DEF Start, HostsOK, BenchesOK, hosts, files, history
  <2> QED BY <2>2, <2>3 DEF TypeOK
<1>2. CASE Interrupted
  <2>1. RunnerOK' /\ exited' = "-"
    BY <1>2, EndsType DEF Interrupted
  <2>2. HostsOK' /\ BenchesOK'
    BY <1>0, <1>2, <2>1 DEF Interrupted, HostsOK, BenchesOK, hosts, files, history
  <2> QED BY <2>1, <2>2 DEF TypeOK
<1>3. ASSUME NEW n \in Nodes, VllmReady(n) \/ VllmDies(n) PROVE TypeOK'
  <2>1. RunnerOK' /\ BenchesOK'
    BY <1>0, <1>3 DEF VllmReady, VllmDies, RunnerOK, BenchesOK, runner, files, history
  <2>2. srv' \in [Nodes -> [state : {"off", "starting", "up"}, tier : AllTiers \cup {"-"}]]
    BY <1>0, <1>3 DEF VllmReady, VllmDies, HostsOK, Off
  <2>3. cores' \in [Nodes -> Nat] /\ kv' \in [Stores -> SUBSET Benches]
    BY <1>0, <1>3 DEF VllmReady, VllmDies, HostsOK
  <2> QED BY <2>1, <2>2, <2>3 DEF TypeOK, HostsOK
<1>4. ASSUME NEW b \in benches, BenchStep(b) PROVE TypeOK'
  <2> DEFINE T == [by : Benches, phase : {"wait", "flush", "cold", "cached"}]
  <2>1. b \in T
    BY <1>0 DEF BenchesOK
  <2>2. RunnerOK' /\ UNCHANGED <<srv, cores>> /\ UNCHANGED <<results, history>>
    BY <1>0, <1>4 DEF BenchStep, BenchWaits, BenchFlushes, BenchSends, BenchColdEnds,
       BenchEnds, BenchFails, RunnerOK, runner, hosts, files
  <2>3. benches' \in SUBSET T
    <3>1. \A phase \in {"wait", "flush", "cold", "cached"} : [b EXCEPT !.phase = phase] \in T
      BY <2>1
    <3>2. ASSUME NEW phase \in {"wait", "flush", "cold", "cached"}, Becomes(b, phase)
          PROVE  benches' \in SUBSET T
      BY <1>0, <3>1, <3>2 DEF Becomes, BenchesOK
    <3>3. \/ \E phase \in {"wait", "flush", "cold", "cached"} : Becomes(b, phase)
          \/ benches' = benches
          \/ benches' = benches \ {b}
      BY <1>4 DEF BenchStep, BenchWaits, BenchFlushes, BenchSends, BenchColdEnds,
         BenchEnds, BenchFails, Exits
    <3> QED BY <1>0, <3>2, <3>3 DEF BenchesOK
  <2>4. exited' \in {"-", "ok", "failed"}
    BY <1>0, <1>4 DEF BenchStep, BenchWaits, BenchFlushes, BenchSends, BenchColdEnds,
       BenchEnds, BenchFails, Exits, BenchesOK
  <2>5. out' \in Files
    <3> DEFINE F == [by |-> b.by.session, during |-> session]
    <3>1. F \in [by : 0..MaxSessions, during : 0..MaxSessions]
      BY <1>0, <2>1, SessionsAssumption DEF Benches, Sessions, RunnerOK
    <3>2. \/ out' = out
          \/ out' = [out EXCEPT ![<<b.by.label, b.by.tier>>] = F]
      BY <1>4 DEF BenchStep, BenchWaits, BenchFlushes, BenchSends, BenchColdEnds,
         BenchEnds, BenchFails, files
    <3> QED BY <1>0, <3>1, <3>2 DEF BenchesOK, Files
  <2>6. kv' \in [Stores -> SUBSET Benches]
    <3>1. b.by \in Benches
      BY <2>1
    <3>2. \/ kv' = kv
          \/ kv' = [kv EXCEPT ![<<"valkey", "L2">>] = {}]
          \/ \E s : kv' = [kv EXCEPT ![s] = @ \cup {b.by}]
      BY <1>4 DEF BenchStep, BenchWaits, BenchFlushes, BenchSends, BenchColdEnds,
         BenchEnds, BenchFails, FlushedL2, hosts
    <3> QED BY <1>0, <3>1, <3>2 DEF HostsOK
  <2> QED BY <1>0, <2>2, <2>3, <2>4, <2>5, <2>6 DEF TypeOK, HostsOK, BenchesOK, history
<1> QED BY <1>1, <1>2, <1>3, <1>4 DEF Next

\* Every step keeps the types.
LEMMA NextType == ASSUME TypeOK, [Next]_vars PROVE TypeOK'
<1>1. CASE UNCHANGED vars
  BY <1>1 DEF vars, runner, hosts, files, history, TypeOK, RunnerOK, HostsOK, BenchesOK
<1> QED BY <1>1, RunnerStepType, OtherStepsType

\* The type invariant, whatever the list of tiers and the number of sessions.
THEOREM TypeCorrect == Spec => []TypeOK
<1> QED BY InitType, NextType, PTL DEF Spec

-----------------------------------------------------------------------------
(* The invariant.                                                           *)

\* The nodes that the RunTier under way has started a server on.
Launched ==
    {n \in Nodes :
        \/ n = "A" /\ node = "B" /\ pc \in {"stop_for_serve", "launch", "wait_ready"}
        \/ n = node /\ pc = "wait_ready"
        \/ pc = "bench" /\ (n = "A" \/ Fleet)}

\* The second node is served in fleet mode only.
FleetNode ==
    /\ pc \in {"stop_for_serve", "launch", "wait_ready"} /\ node = "B" => Fleet
    /\ pc = "check_sanity" => node = "A"

\* A stop that did not fail leaves nothing on the card, and nothing takes it before
\* the launch.
CardIsFree ==
    pc = "launch" /\ node \notin unswept => cores[node] = 0 /\ srv[node].state = "off"

RightTier == \A n \in Launched \ unswept : srv[n].state = "off" \/ srv[n].tier = Tier

\* A stop that no harness survives leaves none; the only one after it is this call's.
Alone ==
    /\ \/ pc \in {"launch", "wait_ready"}
       \/ pc = "stop_for_serve" /\ node = "B"
       => benches = {}
    /\ pc = "bench" => \A b \in benches : b.by = Me

\* So the tier of a launched node holds this call's KV only: a local one from its
\* launch on, the shared one from the flush on.
FreshStore ==
    /\ pc = "launch" /\ node \notin unswept => kv[<<"cpu", node>>] = {}
    /\ \A n \in Launched \ unswept : Tier # "valkey" => kv[<<Tier, n>>] \subseteq {Me}
    /\ pc = "bench" /\ Tier = "valkey" =>
          \A b \in benches : b.phase \in {"cold", "cached"} =>
              kv[<<"valkey", "L2">>] \subseteq {Me}

\* The harness of this call has exited with 0 only after it wrote its file.
OwnResult ==
    /\ pc # "bench" => exited = "-"
    /\ pc = "bench" /\ exited = "ok" =>
          /\ out[todo[1]].during = session
          /\ crowded \/ out[todo[1]].by = session

MatrixInv ==
    /\ FleetNode /\ CardIsFree /\ RightTier /\ OneEngine
    /\ ~crowded => Alone /\ FreshStore
    /\ OwnResult /\ FetchedIsThisRun

\* Nothing runs initially.
LEMMA InitMatrix == Init => MatrixInv
BY DEF Init, MatrixInv, FleetNode, CardIsFree, RightTier, OneEngine, Alone, FreshStore,
   OwnResult, FetchedIsThisRun, Launched, Off

\* Where no call is under way, or its first node is still to be stopped, there is
\* nothing to say but that the card holds one engine at most.
LEMMA Between ==
    ASSUME OneEngine', exited' = "-",
           \/ pc' \in {"idle", "finished"}
           \/ pc' \in {"check_sanity", "stop_for_serve"} /\ node' = "A"
    PROVE  MatrixInv'
BY DEF MatrixInv, FleetNode, CardIsFree, RightTier, Alone, FreshStore, OwnResult,
   FetchedIsThisRun, Launched

\* What a stop does to the node it is for, and that it leaves the other alone.
LEMMA StoppedFrame ==
    ASSUME TypeOK, Stopped
    PROVE  /\ node \in Nodes
           /\ \A n \in Nodes \ {node} :
                 srv'[n] = srv[n] /\ cores'[n] = cores[n] /\ (n \in unswept' <=> n \in unswept)
           /\ \/ node \in unswept'
              \/ srv'[node].state = "off" /\ cores'[node] = 0 /\ kv'[<<"cpu", node>>] = {}
           /\ \A s \in Stores : kv'[s] \subseteq kv[s]
<1>1. node \in Nodes /\ <<"cpu", node>> \in Stores
  BY DEF TypeOK, RunnerOK, Stores
<1>2. \A n \in Nodes \ {node} : srv'[n] = srv[n]
  BY DEF Stopped, Killed, KillsServer, TypeOK, HostsOK
<1>3. \A n \in Nodes \ {node} : cores'[n] = cores[n]
  BY DEF Stopped, KillsEngines, TypeOK, HostsOK
<1>4. \A n \in Nodes \ {node} : n \in unswept' <=> n \in unswept
  BY DEF Stopped, FailsUnnoticed
<1>5. \A s \in Stores : kv'[s] \subseteq kv[s]
  BY DEF Stopped, Killed, TypeOK, HostsOK
<1>6. CASE Killed /\ cores' = KillsEngines
  <2>1. srv'[node] = Off /\ kv'[<<"cpu", node>>] = {}
    BY <1>1, <1>6 DEF Killed, KillsServer, TypeOK, HostsOK
  <2>2. cores'[node] = 0
    BY <1>1, <1>6 DEF KillsEngines, TypeOK, HostsOK
  <2> QED BY <1>1, <1>2, <1>3, <1>4, <1>5, <2>1, <2>2 DEF Off
<1>7. CASE FailsUnnoticed
  <2>1. node \in unswept'
    BY <1>7 DEF FailsUnnoticed
  <2> QED BY <1>1, <1>2, <1>3, <1>4, <1>5, <2>1
<1> QED BY <1>6, <1>7 DEF Stopped

\* stop_vllm adds no engine.
LEMMA StoppedEngines == ASSUME TypeOK, OneEngine, Stopped PROVE OneEngine'
BY StoppedFrame DEF OneEngine

\* After the stop of serve the card is free.
LEMMA StopForServeMatrix == ASSUME TypeOK, MatrixInv, StopForServe PROVE MatrixInv'
<1>1. /\ pc = "stop_for_serve" /\ pc' = "launch" /\ Stopped
      /\ crowded' = (crowded \/ benches' # {})
      /\ UNCHANGED <<session, todo, node, exited, files>>
  BY DEF StopForServe
<1>2. OneEngine' /\ FleetNode'
  BY <1>1, StoppedEngines DEF MatrixInv, FleetNode, Fleet, Label
<1>3. CardIsFree'
  BY <1>1, StoppedFrame DEF CardIsFree
<1>4. Launched' = Launched /\ node \notin Launched
  BY <1>1 DEF Launched
<1>5. \A n \in Nodes \ {node} : srv'[n] = srv[n] /\ (n \in unswept' <=> n \in unswept)
  BY <1>1, StoppedFrame
<1>6. RightTier'
  BY <1>1, <1>4, <1>5 DEF MatrixInv, RightTier, Launched, Tier
<1>7. ASSUME ~crowded' PROVE Alone' /\ FreshStore'
  <2>1. ~crowded /\ benches' = {} /\ (crowded \in BOOLEAN)
    BY <1>1, <1>7 DEF TypeOK, BenchesOK
  <2>2. Alone'
    BY <1>1, <2>1 DEF Alone
  <2>3. /\ node \in unswept' \/ kv'[<<"cpu", node>>] = {}
        /\ \A s \in Stores : kv'[s] \subseteq kv[s]
    BY <1>1, StoppedFrame
  <2>4. \A n \in Launched \ unswept' : Tier # "valkey" => kv'[<<Tier, n>>] \subseteq {Me}
    <3>1. \A n \in Launched : Tier # "valkey" => <<Tier, n>> \in Stores
      BY <1>1, MeIsABench DEF AllTiers, Stores, Launched
    <3>2. \A n \in Launched \ unswept' : n \in Launched \ unswept
      BY <1>4, <1>5 DEF Launched
    <3> QED BY <2>1, <2>3, <3>1, <3>2 DEF MatrixInv, FreshStore
  <2>5. Me' = Me /\ Tier' = Tier
    BY <1>1 DEF Me, Tier, Label
  <2> QED BY <1>1, <1>4, <2>2, <2>3, <2>4, <2>5 DEF FreshStore
<1>8. OwnResult' /\ FetchedIsThisRun'
  BY <1>1 DEF MatrixInv, OwnResult, FetchedIsThisRun
<1> QED BY <1>2, <1>3, <1>6, <1>7, <1>8 DEF MatrixInv

\* A launch finds the card free and the store cleared.
LEMMA LaunchMatrix == ASSUME TypeOK, MatrixInv, Launch PROVE MatrixInv'
<1>1. /\ pc = "launch" /\ pc' = "wait_ready" /\ node \in Nodes
      /\ UNCHANGED <<session, todo, node, benches, exited, files, crowded>>
  BY DEF Launch, TypeOK, RunnerOK
<1>2. /\ \A n \in Nodes \ {node} :
            srv'[n] = srv[n] /\ cores'[n] = cores[n] /\ (n \in unswept' <=> n \in unswept)
      /\ unswept \subseteq unswept'
  BY <1>1, FailsType DEF Launch, TypeOK, HostsOK
<1>3. ASSUME node \notin unswept'
      PROVE  srv'[node].tier = Tier /\ cores'[node] = 1 /\ kv' = ClearTier
  <2>1. node \notin unswept /\ kv' = ClearTier
    BY <1>2, <1>3, FailsType DEF Launch
  <2>2. srv[node].state = "off" /\ cores[node] = 0
    BY <1>1, <2>1 DEF MatrixInv, CardIsFree
  <2>3. srv'[node].tier = Tier /\ cores'[node] = 1
    BY <1>1, <2>2 DEF Launch, TypeOK, HostsOK
  <2> QED BY <2>1, <2>3
<1>4. OneEngine'
  BY <1>2, <1>3 DEF MatrixInv, OneEngine
<1>5. FleetNode' /\ CardIsFree'
  BY <1>1 DEF MatrixInv, FleetNode, CardIsFree, Fleet, Label
<1>6. Launched' = Launched \cup {node}
  BY <1>1 DEF Launched
<1>7. Me' = Me /\ Tier' = Tier
  BY <1>1 DEF Me, Tier, Label
<1>8. RightTier'
  BY <1>2, <1>3, <1>6, <1>7 DEF MatrixInv, RightTier, Launched
<1>9. ASSUME ~crowded' PROVE Alone' /\ FreshStore'
  <2>1. Alone'
    BY <1>1, <1>9 DEF MatrixInv, Alone
  <2>2. Tier \in AllTiers
    BY <1>1, MeIsABench
  <2>3. \A n \in Nodes : Tier # "valkey" => <<Tier, n>> \in Stores
    BY <2>2 DEF AllTiers, Stores
  <2>4. \A s \in Stores : kv'[s] \subseteq kv[s]
    BY DEF Launch, ClearTier, TypeOK, HostsOK
  <2>5. Tier # "valkey" /\ node \notin unswept' => kv'[<<Tier, node>>] = {}
    <3>1. CASE Tier = "disk"
      <4>1. <<"disk", node>> \in Stores
        BY <1>1, <2>3, <3>1
      <4> QED BY <1>3, <3>1, <4>1 DEF ClearTier, TypeOK, HostsOK
    <3>2. CASE Tier = "cpu"
      <4>1. node \notin unswept => kv[<<"cpu", node>>] = {}
        BY <1>1, <1>9 DEF MatrixInv, FreshStore
      <4> QED BY <1>1, <1>2, <2>3, <2>4, <3>2, <4>1
    <3> QED BY <2>2, <3>1, <3>2 DEF AllTiers
  <2>6. \A n \in (Launched \cup {node}) \ unswept' :
            Tier # "valkey" => kv'[<<Tier, n>>] \subseteq {Me}
    <3>1. \A n \in Launched \ unswept : Tier # "valkey" => kv[<<Tier, n>>] \subseteq {Me}
      BY <1>1, <1>9 DEF MatrixInv, FreshStore
    <3>2. \A n \in Launched \ unswept' : n \in Launched \ unswept /\ n \in Nodes
      BY <1>2 DEF Launched
    <3> QED BY <2>3, <2>4, <2>5, <3>1, <3>2
  <2> QED BY <1>1, <1>6, <1>7, <2>1, <2>6 DEF FreshStore
<1>10. OwnResult' /\ FetchedIsThisRun'
  BY <1>1 DEF MatrixInv, OwnResult, FetchedIsThisRun
<1> QED BY <1>4, <1>5, <1>8, <1>9, <1>10 DEF MatrixInv

\* With the last node ready the harness starts, alone unless crowded.
LEMMA ReadyMatrix == ASSUME TypeOK, MatrixInv, Ready PROVE MatrixInv'
<1>1. /\ pc = "wait_ready"
      /\ UNCHANGED <<session, todo, hosts, exited, files, history>>
      /\ node \in Nodes /\ UNCHANGED <<unswept, crowded>>
  BY DEF Ready, TypeOK, RunnerOK, history
<1>2. Me' = Me /\ Tier' = Tier /\ Fleet' = Fleet
  BY <1>1 DEF Me, Tier, Label, Fleet
<1>3. OneEngine'
  BY <1>1 DEF MatrixInv, OneEngine, hosts
<1>4. CASE ServesNextNode
  <2>1. node = "A" /\ Fleet /\ node' = "B" /\ pc' = "stop_for_serve" /\ benches' = benches
    BY <1>4 DEF Ready, ServesNextNode
  <2>2. Launched' = Launched
    BY <1>1, <2>1 DEF Launched, Nodes
  <2>3. RightTier'
    BY <1>1, <1>2, <2>2 DEF MatrixInv, RightTier, hosts
  <2>4. ~crowded' => Alone' /\ FreshStore'
    BY <1>1, <1>2, <2>1, <2>2 DEF MatrixInv, Alone, FreshStore, hosts
  <2> QED BY <1>1, <1>2, <1>3, <2>1, <2>3, <2>4
       DEF MatrixInv, FleetNode, CardIsFree, OwnResult, FetchedIsThisRun
<1>5. CASE ~ServesNextNode
  <2>1. /\ node' = "A" /\ pc' = "bench"
        /\ benches' = benches \cup {[by |-> Me, phase |-> "wait"]}
    BY <1>5 DEF Ready
  <2>2. Launched' = Launched
    <3>1. Fleet <=> node = "B"
      BY <1>1, <1>5 DEF MatrixInv, FleetNode, ServesNextNode, Nodes
    <3> QED BY <1>1, <1>2, <2>1, <3>1 DEF Launched, Nodes
  <2>3. RightTier'
    BY <1>1, <1>2, <2>2 DEF MatrixInv, RightTier, hosts
  <2>4. ASSUME ~crowded' PROVE Alone' /\ FreshStore'
    <3>1. benches' = {[by |-> Me, phase |-> "wait"]}
      BY <1>1, <2>1, <2>4 DEF MatrixInv, Alone
    <3>2. \A b \in benches' : b.by = Me /\ b.phase = "wait"
      BY <3>1
    <3>3. Alone'
      BY <1>2, <2>1, <3>2 DEF Alone
    <3>4. FreshStore'
      BY <1>1, <1>2, <2>1, <2>2, <2>4, <3>2 DEF MatrixInv, FreshStore, hosts
    <3> QED BY <3>3, <3>4
  <2> QED BY <1>1, <1>3, <2>1, <2>3, <2>4
       DEF MatrixInv, FleetNode, CardIsFree, OwnResult, FetchedIsThisRun
<1> QED BY <1>4, <1>5

\* The file fetched is the one this harness wrote.
LEMMA FetchMatrix == ASSUME TypeOK, MatrixInv, Fetch PROVE MatrixInv'
<1>1. /\ pc = "bench" /\ exited = "ok" /\ pc' = "stop" /\ exited' = "-"
      /\ results' = [results EXCEPT ![todo[1]] = out[todo[1]]]
      /\ UNCHANGED <<session, todo, node, hosts, benches, out, history>>
  BY DEF Fetch, BenchSucceeded
<1>2. FetchedIsThisRun'
  <2>1. todo[1] \in Calls
    BY <1>1, MeIsABench
  <2> QED BY <1>1, <2>1 DEF MatrixInv, OwnResult, FetchedIsThisRun, TypeOK, BenchesOK, Files, history
<1>3. Launched' = {}
  BY <1>1 DEF Launched
<1> QED BY <1>1, <1>2, <1>3 DEF MatrixInv, FleetNode, CardIsFree, RightTier, OneEngine, Alone,
     FreshStore, OwnResult, hosts, history

\* The stop at the end leaves the card free.
LEMMA StopMatrix == ASSUME TypeOK, MatrixInv, Stop PROVE MatrixInv'
<1>1. /\ pc = "stop" /\ Stopped /\ exited = "-"
      /\ UNCHANGED <<session, exited, files, crowded>>
  BY DEF Stop, MatrixInv, OwnResult
<1>2. OneEngine'
  BY <1>1, StoppedEngines DEF MatrixInv
<1>3. CASE ServesNextNode
  <2>1. pc' = "stop" /\ todo' = todo
    BY <1>1, <1>3 DEF Stop
  <2>2. Launched' = {}
    BY <2>1 DEF Launched
  <2> QED BY <1>1, <1>2, <2>1, <2>2 DEF MatrixInv, FleetNode, CardIsFree, RightTier, Alone,
       FreshStore, OwnResult, FetchedIsThisRun, files
<1>4. CASE ~ServesNextNode
  <2>1. node' = "A" /\ pc' \in {"check_sanity", "finished", "stop_for_serve"}
    BY <1>4 DEF Stop
  <2> QED BY <1>1, <1>2, <2>1, Between
<1> QED BY <1>3, <1>4

\* The actions after which no call is under way.
LEMMA EndsMatrix ==
    ASSUME TypeOK, MatrixInv,
           Interrupted \/ NotReady \/ BenchThrows \/ CheckSanity \/ Finish
           \/ \E stage \in Stages : Start(stage)
    PROVE  MatrixInv'
<1>1. UNCHANGED hosts /\ UNCHANGED unswept
  BY DEF history, Interrupted, NotReady, BenchThrows, CheckSanity, Finish, Start
<1>2. OneEngine'
  BY <1>1 DEF MatrixInv, OneEngine, hosts
<1>3. CASE Ends
  BY <1>2, <1>3, Between DEF Ends
<1>4. CASE CheckSanity /\ ~Ends
  <2>1. /\ pc = "check_sanity" /\ pc' \in {"finished", "stop_for_serve"} /\ node' = node
        /\ exited' = exited /\ exited = "-"
    BY <1>4 DEF CheckSanity, MatrixInv, OwnResult
  <2>2. node = "A"
    BY <2>1 DEF MatrixInv, FleetNode
  <2> QED BY <1>2, <2>1, <2>2, Between
<1>5. CASE \E stage \in Stages : Start(stage)
  <2>1. node' = "A" /\ pc' \in {"idle", "stop_for_serve"} /\ exited' = exited /\ exited = "-"
    BY <1>5 DEF Start, MatrixInv, OwnResult
  <2> QED BY <1>2, <2>1, Between
<1> QED BY <1>3, <1>4, <1>5 DEF Interrupted, NotReady, BenchThrows, Finish

-----------------------------------------------------------------------------
(* The steps of the servers and of the harnesses beside it.                 *)

\* A server that comes up, dies or leaves its engine behind measures nothing.
LEMMA ServerMatrix ==
    ASSUME TypeOK, MatrixInv, NEW n \in Nodes, VllmReady(n) \/ VllmDies(n)
    PROVE  MatrixInv'
<1>1. /\ UNCHANGED <<runner, benches, exited, files, history>>
      /\ \A m \in Nodes : srv'[m].state = "off" \/ (srv[m].state # "off" /\ srv'[m].tier = srv[m].tier)
      /\ \A m \in Nodes : cores'[m] = cores[m] \/ cores'[m] = 0
      /\ \A s \in Stores : kv'[s] \subseteq kv[s]
  <2>1. CASE VllmReady(n)
    BY <2>1 DEF VllmReady, TypeOK, HostsOK
  <2>2. CASE VllmDies(n)
    <3>1. \A s \in Stores : kv'[s] \subseteq kv[s]
      BY <2>2 DEF VllmDies, TypeOK, HostsOK
    <3>2. \A m \in Nodes : cores'[m] = cores[m] \/ cores'[m] = 0
      BY <2>2 DEF VllmDies, TypeOK, HostsOK
    <3>3. \A m \in Nodes : srv'[m] = srv[m] \/ srv'[m].state = "off"
      BY <2>2 DEF VllmDies, TypeOK, HostsOK, Off
    <3> QED BY <2>2, <3>1, <3>2, <3>3 DEF VllmDies
  <2> QED BY <2>1, <2>2
<1>2. /\ UNCHANGED <<pc, session, todo, node, out, results, crowded, unswept>>
      /\ Me' = Me /\ Tier' = Tier /\ Fleet' = Fleet /\ Launched' = Launched
      /\ node \in Nodes
  BY <1>1 DEF runner, files, history, Me, Tier, Label, Fleet, Launched, TypeOK, RunnerOK
<1>3. OneEngine' /\ CardIsFree'
  BY <1>1, <1>2 DEF MatrixInv, OneEngine, CardIsFree
<1>4. RightTier'
  BY <1>1, <1>2 DEF MatrixInv, RightTier, Launched
<1>5. ASSUME ~crowded' PROVE Alone' /\ FreshStore'
  <2>1. Alone'
    BY <1>1, <1>2, <1>5 DEF MatrixInv, Alone
  <2>2. pc # "idle" => \A m \in Nodes : Tier # "valkey" => <<Tier, m>> \in Stores
    BY MeIsABench DEF AllTiers, Stores
  <2>3. <<"cpu", node>> \in Stores /\ <<"valkey", "L2">> \in Stores
    BY <1>2 DEF Stores
  <2>4. Launched # {} => pc # "idle"
    BY DEF Launched
  <2>5. \A m \in Launched \ unswept : Tier # "valkey" => kv'[<<Tier, m>>] \subseteq {Me}
    BY <1>1, <1>2, <1>5, <2>2, <2>4 DEF MatrixInv, FreshStore, Launched
  <2>6. FreshStore'
    BY <1>1, <1>2, <1>5, <2>3, <2>5 DEF MatrixInv, FreshStore
  <2> QED BY <2>1, <2>6
<1> QED BY <1>1, <1>2, <1>3, <1>4, <1>5 DEF MatrixInv, FleetNode, OwnResult, FetchedIsThisRun

\* What a step of a harness leaves alone.
LEMMA BenchStepFrame ==
    ASSUME NEW b \in benches, BenchStep(b)
    PROVE  /\ UNCHANGED <<pc, session, todo, node, srv, cores, results, crowded, unswept>>
           /\ Me' = Me /\ Tier' = Tier /\ Fleet' = Fleet /\ Launched' = Launched
           /\ \A c \in benches' : c \in benches \/ c.by = b.by
           /\ exited' = exited \/ Mine(b)
<1>1. UNCHANGED <<pc, session, todo, node, srv, cores, results, crowded, unswept>>
  BY DEF BenchStep, BenchWaits, BenchFlushes, BenchSends, BenchColdEnds, BenchEnds,
     BenchFails, runner, hosts, files, history
<1>2. Me' = Me /\ Tier' = Tier /\ Fleet' = Fleet /\ Launched' = Launched
  BY <1>1 DEF Me, Tier, Label, Fleet, Launched
<1>3. exited' = exited \/ Mine(b)
  BY DEF BenchStep, BenchWaits, BenchFlushes, BenchSends, BenchColdEnds, BenchEnds,
     BenchFails, Exits
<1>4. \A c \in benches' : c \in benches \/ c.by = b.by
  <2>1. \A phase : [b EXCEPT !.phase = phase].by = b.by
    OBVIOUS
  <2>2. benches' \subseteq benches \/ \E phase : Becomes(b, phase)
    BY DEF BenchStep, BenchWaits, BenchFlushes, BenchSends, BenchColdEnds, BenchEnds,
       BenchFails, Exits
  <2> QED BY <2>1, <2>2 DEF Becomes
<1> QED BY <1>1, <1>2, <1>3, <1>4

\* A harness stores its own KV and nothing else.
LEMMA BenchStores ==
    ASSUME TypeOK, NEW b \in benches, BenchStep(b), NEW s \in Stores
    PROVE  kv'[s] \subseteq kv[s] \cup {b.by}
<1>1. \/ kv' = kv
      \/ kv' = [kv EXCEPT ![<<"valkey", "L2">>] = {}]
      \/ \E r : kv' = [kv EXCEPT ![r] = @ \cup {b.by}]
  BY DEF BenchStep, BenchWaits, BenchFlushes, BenchSends, BenchColdEnds, BenchEnds,
     BenchFails, FlushedL2, hosts
<1> QED BY <1>1 DEF TypeOK, HostsOK

\* This call's harness has the shared store to itself from its flush on.
LEMMA FlushedStore ==
    ASSUME TypeOK, NEW b \in benches, BenchStep(b), b.by.tier = "valkey",
           \A c \in benches : c.phase \in {"cold", "cached"} =>
               kv[<<"valkey", "L2">>] \subseteq {b.by}
    PROVE  \A c \in benches' : c.phase \in {"cold", "cached"} =>
               kv'[<<"valkey", "L2">>] \subseteq {b.by}
<1> DEFINE L2 == <<"valkey", "L2">>
<1>0. L2 \in Stores /\ b \in [by : Benches, phase : {"wait", "flush", "cold", "cached"}]
  BY DEF Stores, TypeOK, BenchesOK
<1>1. kv'[L2] \subseteq kv[L2] \cup {b.by}
  BY <1>0, BenchStores
<1> HIDE DEF L2
<1>2. CASE BenchWaits(b)
  <2>1. [b EXCEPT !.phase = "flush"].phase = "flush"
    BY <1>0
  <2> QED BY <1>1, <1>2, <2>1 DEF BenchWaits, Becomes, hosts, L2
<1>3. CASE BenchFlushes(b)
  <2>1. kv'[L2] = {}
    BY <1>0, <1>3 DEF BenchFlushes, FlushedL2, TypeOK, HostsOK, L2
  <2> QED BY <2>1 DEF L2
<1>4. CASE BenchSends(b) \/ BenchColdEnds(b)
  <2>1. kv[L2] \subseteq {b.by}
    BY <1>4 DEF BenchSends, BenchColdEnds, L2
  <2> QED BY <1>1, <2>1 DEF L2
<1>5. CASE BenchEnds(b) \/ BenchFails(b)
  BY <1>1, <1>5 DEF BenchEnds, BenchFails, Exits, L2
<1> QED BY <1>2, <1>3, <1>4, <1>5 DEF BenchStep

\* A harness step keeps the invariant: it fills its own tier and writes its own file.
LEMMA BenchMatrix ==
    ASSUME TypeOK, MatrixInv, NEW b \in benches, BenchStep(b) PROVE MatrixInv'
<1>1. /\ UNCHANGED <<pc, session, todo, node, srv, cores, results, crowded, unswept>>
      /\ Me' = Me /\ Tier' = Tier /\ Fleet' = Fleet /\ Launched' = Launched
      /\ \A c \in benches' : c \in benches \/ c.by = b.by
      /\ exited' = exited \/ Mine(b)
  BY BenchStepFrame
<1>2. FleetNode' /\ CardIsFree' /\ RightTier' /\ OneEngine' /\ FetchedIsThisRun'
  BY <1>1 DEF MatrixInv, FleetNode, CardIsFree, RightTier, OneEngine, FetchedIsThisRun
<1>3. ASSUME ~crowded' PROVE Alone' /\ FreshStore'
  <2>1. Alone /\ FreshStore
    BY <1>1, <1>3 DEF MatrixInv
  <2>2. Launched # {} \/ pc = "launch" => pc = "bench" /\ b.by = Me
    BY <2>1 DEF Alone, Launched
  <2>3. Alone'
    BY <1>1, <2>1 DEF Alone
  <2>4. ASSUME pc = "bench" PROVE FreshStore'
    <3>1. b.by = Me /\ b.by.tier = Tier
      BY <2>1, <2>4 DEF Alone, Me
    <3>2. \A n \in Nodes : Tier # "valkey" => <<Tier, n>> \in Stores
      BY <2>4, MeIsABench DEF AllTiers, Stores
    <3>3. \A n \in Launched \ unswept : Tier # "valkey" => kv'[<<Tier, n>>] \subseteq {Me}
      BY <2>1, <3>1, <3>2, BenchStores DEF FreshStore, Launched
    <3>4. ASSUME Tier = "valkey"
          PROVE  \A c \in benches' : c.phase \in {"cold", "cached"} =>
                    kv'[<<"valkey", "L2">>] \subseteq {Me}
      <4>1. \A c \in benches : c.phase \in {"cold", "cached"} =>
               kv[<<"valkey", "L2">>] \subseteq {b.by}
        BY <2>1, <2>4, <3>1, <3>4 DEF FreshStore
      <4> QED BY <3>1, <3>4, <4>1, FlushedStore
    <3> QED BY <1>1, <2>4, <3>3, <3>4 DEF FreshStore
  <2> QED BY <1>1, <2>2, <2>3, <2>4 DEF FreshStore
<1>4. OwnResult'
  <2>1. pc # "bench" => exited' = "-"
    BY <1>1 DEF MatrixInv, OwnResult, Mine
  <2>2. ASSUME pc = "bench", exited' = "ok"
        PROVE  out'[todo[1]].during = session /\ (crowded \/ out'[todo[1]].by = session)
    <3>1. todo[1] \in Calls /\ Me \in Benches
      BY <2>2, MeIsABench
    <3>2. b.by = Me => <<b.by.label, b.by.tier>> = todo[1] /\ b.by.session = session
      <4>1. b.by = Me => b.by.label = todo[1][1] /\ b.by.tier = todo[1][2]
        BY DEF Me, Label, Tier
      <4> QED BY <3>1, <4>1 DEF Calls, Me
    <3>3. CASE BenchEnds(b) /\ <<b.by.label, b.by.tier>> = todo[1]
      <4>1. out'[todo[1]] = [by |-> b.by.session, during |-> session]
        BY <3>1, <3>3 DEF BenchEnds, TypeOK, BenchesOK, Files
      <4>2. crowded \/ b.by = Me
        BY <2>2 DEF MatrixInv, Alone
      <4> QED BY <3>2, <4>1, <4>2
    <3>4. CASE ~(BenchEnds(b) /\ <<b.by.label, b.by.tier>> = todo[1])
      <4>1. out'[todo[1]] = out[todo[1]]
        BY <3>1, <3>4 DEF BenchStep, BenchWaits, BenchFlushes, BenchSends, BenchColdEnds,
           BenchEnds, BenchFails, files, TypeOK, BenchesOK, Files
      <4>2. exited = "ok"
        <5>1. BenchEnds(b) => ~Mine(b)
          BY <3>2, <3>4 DEF Mine
        <5> QED BY <2>2, <5>1 DEF BenchStep, BenchWaits, BenchFlushes, BenchSends,
              BenchColdEnds, BenchEnds, BenchFails, Exits
      <4> QED BY <2>2, <4>1, <4>2 DEF MatrixInv, OwnResult
    <3> QED BY <3>3, <3>4
  <2> QED BY <1>1, <2>1, <2>2 DEF OwnResult
<1> QED BY <1>2, <1>3, <1>4 DEF MatrixInv

\* Every step keeps the invariant.
LEMMA NextMatrix == ASSUME TypeOK, MatrixInv, [Next]_vars PROVE MatrixInv'
<1>1. CASE UNCHANGED vars
  BY <1>1 DEF vars, runner, hosts, files, history, MatrixInv, FleetNode, CardIsFree, RightTier, OneEngine,
     Alone, FreshStore, OwnResult, FetchedIsThisRun, Launched, Fleet, Me, Tier, Label
<1>2. CASE RunnerStep
  BY <1>2, StopForServeMatrix, LaunchMatrix, ReadyMatrix, FetchMatrix, StopMatrix, EndsMatrix
     DEF RunnerStep
<1> QED BY <1>1, <1>2, EndsMatrix, BenchMatrix, ServerMatrix DEF Next

-----------------------------------------------------------------------------
(* What the invariant says of a measurement. *)

\* The node a harness asks is one this call launched.
LEMMA TargetIsLaunched ==
    ASSUME MatrixInv, NEW b \in benches, Mine(b)
    PROVE  Target(b) \in Launched /\ b.by.tier = Tier
<1>1. pc = "bench" /\ b.by.label = Label /\ b.by.tier = Tier
  BY DEF Mine, Me
<1> QED BY <1>1 DEF Target, Launched, Fleet, Nodes

\* What is measured serves the tier of the call.
LEMMA MeasuresItsTierHolds == MatrixInv => MeasuresItsTier
BY TargetIsLaunched DEF MatrixInv, RightTier, MeasuresItsTier

\* Either pass asks a store with this call's KV only.
LEMMA StoreIsMine ==
    ASSUME TypeOK, MatrixInv, ~crowded, NEW b \in benches, Mine(b),
           b.phase \in {"cold", "cached"}, srv[Target(b)].state = "up",
           Target(b) \notin unswept
    PROVE  kv[StoreOf(srv[Target(b)].tier, Target(b))] \subseteq {b.by}
<1>1. Target(b) \in Launched /\ srv[Target(b)].tier = Tier
  BY TargetIsLaunched DEF MatrixInv, RightTier
<1>2. FreshStore /\ pc = "bench" /\ b.by = Me
  BY DEF MatrixInv, Mine
<1> QED BY <1>1, <1>2 DEF FreshStore, StoreOf

\* Alone on fresh stores, a pass finds only KV of its own run.
LEMMA PassesAreClean == TypeOK /\ MatrixInv => ColdPassIsCold /\ FleetReusesThisRun
<1> SUFFICES ASSUME TypeOK, MatrixInv PROVE ColdPassIsCold /\ FleetReusesThisRun
  OBVIOUS
<1>1. ColdPassIsCold
  <2>1. \A b : b.phase = "cold" => Target(b) = "A"
    BY DEF Target
  <2> QED BY <2>1, StoreIsMine DEF ColdPassIsCold, ColdIsCold
<1>2. FleetReusesThisRun
  BY StoreIsMine DEF FleetReusesThisRun
<1> QED BY <1>1, <1>2

\* Both hold in every reachable state.
LEMMA MatrixAlways == Spec => [](TypeOK /\ MatrixInv)
<1>1. TypeOK /\ MatrixInv /\ [Next]_vars => TypeOK' /\ MatrixInv'
  BY NextType, NextMatrix
<1> QED BY <1>1, InitType, InitMatrix, PTL DEF Spec

\* One vLLM at a time on each card, whatever died, timed out or was interrupted, but
\* where a stop could not kill the one before.
THEOREM OneEngineAlways == Spec => []OneEngine
<1>1. MatrixInv => OneEngine
  BY DEF MatrixInv
<1> QED BY <1>1, MatrixAlways, PTL

\* A measurement is of the tier that it names, on both nodes, but where a stop could
\* not kill the server before.
THEOREM TierIsMeasured == Spec => []MeasuresItsTier
BY MatrixAlways, MeasuresItsTierHolds, PTL

\* The file fetched is never a leftover: it was written in this session, and by this
\* call's harness unless one of an earlier session was still running.
THEOREM ResultIsThisRun == Spec => []FetchedIsThisRun
<1>1. MatrixInv => FetchedIsThisRun
  BY DEF MatrixInv
<1> QED BY <1>1, MatrixAlways, PTL

\* A cold pass is cold, unless an old harness was still running, or the stop or the
\* clearing failed unnoticed.
THEOREM ColdPass == Spec => []ColdPassIsCold
<1>1. TypeOK /\ MatrixInv => ColdPassIsCold
  BY PassesAreClean
<1> QED BY <1>1, MatrixAlways, PTL

\* The cached pass of a fleet run reuses that run's KV, with the same exceptions.
THEOREM FleetReuse == Spec => []FleetReusesThisRun
<1>1. TypeOK /\ MatrixInv => FleetReusesThisRun
  BY PassesAreClean
<1> QED BY <1>1, MatrixAlways, PTL
=============================================================================
