----------------------------- MODULE TierMatrix -----------------------------
(***************************************************************************)
(* The tier matrix: run_tiers.ps1 on the operator's laptop drives, over    *)
(* ssh, infra/run_tier.sh on two GPU nodes, which stops, clears and starts *)
(* vLLM and runs bench_corpus_e2e.py on node A; the result is copied back. *)
(* The session can be interrupted anywhere (the laptop sleeps, ssh drops)  *)
(* and started again.  The remote harness then goes on: run_tier.sh has no *)
(* terminal, and neither kills a harness that is already running.          *)
(*                                                                         *)
(* A serve or stop that survives an interruption and ends before the next  *)
(* session leaves what an interruption one step later leaves; one that     *)
(* goes on beside the next session's is not modelled.                      *)
(*                                                                         *)
(* A store is abstracted to the benches whose KV it holds; the harness     *)
(* itself, per document, is module CorpusE2E.                              *)
(***************************************************************************)
EXTENDS Integers, Sequences, FiniteSets

CONSTANTS
    Tiers,        \* run_tiers.ps1 -Tiers, in order
    Stages,       \* the -Stage values it is started with
    MaxSessions,  \* bound: starts of run_tiers.ps1
    MaxFailures   \* bound: stops and clearings that fail and nothing notices

ASSUME TiersAssumption == Tiers \in Seq({"cpu", "disk", "valkey"})
ASSUME StagesAssumption == Stages \subseteq {"sanity", "single", "fleet", "all"}
ASSUME SessionsAssumption == MaxSessions \in Nat
ASSUME FailuresAssumption == MaxFailures \in Nat

VARIABLES
    pc,       \* the statement run_tiers.ps1 is at
    session,  \* how many times it has been started
    todo,     \* its RunTier calls, the current one first
    node,     \* the node the serve or stop in progress is on
    srv,      \* each node's vLLM API server and the tier it was started with
    cores,    \* live EngineCore processes on each node
    kv,       \* each store: the benches whose KV it holds
    benches,  \* the running harness processes, on node A
    exited,   \* how the harness of the current RunTier ended
    out,      \* result files on node A: the session of the bench that wrote
              \* each, and (history) the session in which it did
    results,  \* result files on the laptop
    crowded,  \* history: a harness of an earlier session outlived a stop
    unswept,  \* history: the nodes where the last stop or clearing failed unnoticed
    failures  \* history: how many did

runner == <<pc, session, todo, node>>
hosts == <<srv, cores, kv>>
files == <<out, results>>
history == <<crowded, unswept, failures>>
vars == <<runner, hosts, benches, exited, files, history>>

-----------------------------------------------------------------------------
\* Beside the definitions there are mutants, operators that nothing uses: each is
\* the definition it stands before with a bug the program does not have.

Nodes == {"A", "B"}
Labels == {"sanity", "single", "fleet"}
AllTiers == {"cpu", "disk", "valkey"}
Calls == Labels \X AllTiers
Sessions == 1..MaxSessions
Stores == {<<"valkey", "L2">>} \cup ({"cpu", "disk"} \X Nodes)

\* The RunTier calls of a stage.
Each(label) == [k \in DOMAIN Tiers |-> <<label, Tiers[k]>>]
Matrix(stage) ==
    CASE stage = "sanity" -> << <<"sanity", "cpu">> >>
      [] stage = "all" -> << <<"sanity", "cpu">> >> \o Each("single") \o Each("fleet")
      [] OTHER -> Each(stage)

Label == todo[1][1]
Tier == todo[1][2]
Fleet == Label = "fleet"
Me == [session |-> session, label |-> Label, tier |-> Tier]

StoreOf(tier, n) == IF tier = "valkey" THEN <<"valkey", "L2">> ELSE <<tier, n>>
NoFile == [by |-> 0, during |-> 0]
Off == [state |-> "off", tier |-> "-"]

\* The node a harness sends its requests to, --vllm-url and then --cached-vllm-url;
\* the nodes it waits for; the harness run_tiers.ps1 is waiting for.
Target(b) == IF b.phase = "cached" /\ b.by.label = "fleet" THEN "B" ELSE "A"
Used(b) == IF b.by.label = "fleet" THEN Nodes ELSE {"A"}
Mine(b) == pc = "bench" /\ b.by = Me

Ends ==
    /\ pc' = "idle" /\ todo' = <<>> /\ node' = "A" /\ exited' = "-"
    /\ UNCHANGED session

-----------------------------------------------------------------------------
(* The servers. *)

VllmReady(n) ==
    /\ srv[n].state = "starting"
    /\ srv' = [srv EXCEPT ![n].state = "up"]
    /\ UNCHANGED <<runner, cores, kv, benches, exited, files, history>>

\* The API server exits (no memory on the card, a bad config, a crash); its
\* EngineCore may stay behind.  The cpu tier lives in the process.
VllmDies(n) ==
    /\ srv[n].state # "off"
    /\ srv' = [srv EXCEPT ![n] = Off]
    /\ cores' \in {cores, [cores EXCEPT ![n] = 0]}
    /\ kv' = [kv EXCEPT ![<<"cpu", n>>] = {}]
    /\ UNCHANGED <<runner, benches, exited, files, history>>

-----------------------------------------------------------------------------
(* run_tiers.ps1 and run_tier.sh *)

Start(stage) ==
    /\ pc = "idle"
    /\ session < MaxSessions
    /\ session' = session + 1
    /\ todo' = Matrix(stage)
    /\ pc' = IF Matrix(stage) = <<>> THEN "idle" ELSE "stop_for_serve"
    /\ node' = "A"
    /\ crowded' = FALSE
    /\ UNCHANGED <<hosts, benches, exited, files, unswept, failures>>

\* ssh fails, or the operator interrupts the script: nothing is stopped or
\* cleared, and a harness that runs goes on.
Interrupted ==
    /\ pc # "idle"
    /\ Ends
    /\ UNCHANGED <<hosts, benches, files, history>>

MissesServer == srv
KillsServer == [srv EXCEPT ![node] = Off]
KillsServerOnly == cores
KillsEngines == [cores EXCEPT ![node] = 0]

\* A harness that polls for a server which is down does so for ten minutes more.
Polls(b) == b.phase = "wait" /\ \E n \in Used(b) : srv[n].state # "up"

FailsUnnoticed ==
    /\ unswept' = unswept \cup {node}
    /\ failures < MaxFailures
    /\ failures' = failures + 1

\* stop_vllm: the API server, the EngineCore and whatever else holds the card.
\* A harness that sends its requests to the node fails with it.
Killed ==
    /\ srv' = KillsServer
    /\ benches' = {b \in benches : Target(b) # node \/ Polls(b)}
    /\ kv' = [kv EXCEPT ![<<"cpu", node>>] = {}]

\* It asks nobody whether it did: each kill is "|| true", and after a minute's
\* polling it goes on, whatever process is left.
Stopped ==
    \/ Killed /\ cores' = KillsEngines /\ unswept' = unswept \ {node} /\ UNCHANGED failures
    \/ /\ Killed \/ UNCHANGED <<srv, benches, kv>>
       /\ UNCHANGED cores
       /\ srv'[node] # Off \/ cores[node] > 0
       /\ FailsUnnoticed

StopForServe ==
    /\ pc = "stop_for_serve"
    /\ Stopped
    /\ crowded' = (crowded \/ benches' # {})
    /\ pc' = "launch"
    /\ UNCHANGED <<session, todo, node, exited, files>>

ClearsNothing == kv
ClearTier == IF Tier = "disk" THEN [kv EXCEPT ![<<"disk", node>>] = {}] ELSE kv

\* clear_tier (its rm is "|| true"), tier_config and the start of vLLM; wait_ready
\* follows.  Where an old server is still on the port, the new one exits and the old
\* one answers.
Launch ==
    /\ pc = "launch"
    /\ \/ kv' = ClearTier /\ UNCHANGED <<unswept, failures>>
       \/ kv # ClearTier /\ UNCHANGED kv /\ FailsUnnoticed
    /\ IF srv[node].state = "off"
       THEN /\ srv' = [srv EXCEPT ![node] = [state |-> "starting", tier |-> Tier]]
            /\ cores' = [cores EXCEPT ![node] = @ + 1]
       ELSE UNCHANGED <<srv, cores>>
    /\ pc' = "wait_ready"
    /\ UNCHANGED <<session, todo, node, benches, exited, files, crowded>>

ServesNextNode == Fleet /\ node = "A"

\* The endpoint answers: the second node is served in fleet mode, then the
\* harness starts.
Ready ==
    /\ pc = "wait_ready"
    /\ srv[node].state = "up"
    /\ IF ServesNextNode
       THEN node' = "B" /\ pc' = "stop_for_serve" /\ UNCHANGED benches
       ELSE /\ node' = "A" /\ pc' = "bench"
            /\ benches' = benches \cup {[by |-> Me, phase |-> "wait"]}
    /\ UNCHANGED <<session, todo, hosts, exited, files, history>>

NeverGivesUp == FALSE
GivesUp == srv[node].state # "up"

\* vLLM has exited, or 900 s are over; or tier_config or the launch failed.
NotReady ==
    /\ pc = "wait_ready"
    /\ GivesUp
    /\ Ends
    /\ UNCHANGED <<hosts, benches, files, history>>

\* The result is fetched when the harness exits with 0; Remote throws otherwise.
FetchesAnyway == exited \in {"ok", "failed"}
BenchSucceeded == exited = "ok"

Fetch ==
    /\ pc = "bench"
    /\ BenchSucceeded
    /\ results' = [results EXCEPT ![todo[1]] = out[todo[1]]]
    /\ pc' = "stop"
    /\ exited' = "-"
    /\ UNCHANGED <<session, todo, node, hosts, benches, out, history>>

BenchThrows ==
    /\ pc = "bench"
    /\ exited = "failed"
    /\ Ends
    /\ UNCHANGED <<hosts, benches, files, history>>

PastLastCall == Tail(todo)
NextCall == IF Len(todo) = 1 THEN todo ELSE Tail(todo)

\* "run_tier.sh stop" on the nodes that were served, then the next RunTier.
Stop ==
    /\ pc = "stop"
    /\ Stopped
    /\ IF ServesNextNode
       THEN node' = "B" /\ UNCHANGED <<pc, todo>>
       ELSE /\ node' = "A"
            /\ pc' = IF Label = "sanity" THEN "check_sanity"
                     ELSE IF Len(todo) = 1 THEN "finished" ELSE "stop_for_serve"
            /\ todo' = NextCall
    /\ UNCHANGED <<session, exited, files, crowded>>

\* The sanity stage throws when no document was confirmed.
CheckSanity ==
    /\ pc = "check_sanity"
    /\ \/ Ends
       \/ /\ pc' = IF todo[1][1] = "sanity" THEN "finished" ELSE "stop_for_serve"
          /\ UNCHANGED <<session, todo, node, exited>>
    /\ UNCHANGED <<hosts, benches, files, history>>

\* "results in $OutDir"
Finish ==
    /\ pc = "finished"
    /\ Ends
    /\ UNCHANGED <<hosts, benches, files, history>>

-----------------------------------------------------------------------------
(* bench_corpus_e2e.py, started by run_tier.sh bench *)

Becomes(b, phase) == benches' = (benches \ {b}) \cup {[b EXCEPT !.phase = phase]}
Exits(b, how) ==
    /\ benches' = benches \ {b}
    /\ exited' = IF Mine(b) THEN how ELSE exited

\* _wait_for_server, for both nodes.
BenchWaits(b) ==
    /\ b.phase = "wait"
    /\ \A n \in Used(b) : srv[n].state = "up"
    /\ Becomes(b, IF b.by.tier = "valkey" THEN "flush" ELSE "cold")
    /\ UNCHANGED <<runner, hosts, exited, files, history>>

KeepsL2 == kv
FlushedL2 == [kv EXCEPT ![<<"valkey", "L2">>] = {}]

BenchFlushes(b) ==
    /\ b.phase = "flush"
    /\ kv' = FlushedL2
    /\ Becomes(b, "cold")
    /\ UNCHANGED <<runner, srv, cores, exited, files, history>>

\* A document is sent in either pass; what the tier does not hold is stored, in
\* the tier the server was started with.
BenchSends(b) ==
    LET n == Target(b)
        s == StoreOf(srv[n].tier, n)
    IN
    /\ b.phase \in {"cold", "cached"}
    /\ srv[n].state = "up"
    /\ b.by \notin kv[s]
    /\ kv' = [kv EXCEPT ![s] = @ \cup {b.by}]
    /\ UNCHANGED <<runner, srv, cores, benches, exited, files, history>>

BenchColdEnds(b) ==
    /\ b.phase = "cold"
    /\ srv["A"].state = "up"
    /\ Becomes(b, "cached")
    /\ UNCHANGED <<runner, hosts, exited, files, history>>

\* The JSON record is written, over an earlier one, and the harness exits with 0.
BenchEnds(b) ==
    /\ b.phase = "cached"
    /\ srv[Target(b)].state = "up"
    /\ out' = [out EXCEPT ![<<b.by.label, b.by.tier>>] =
                [by |-> b.by.session, during |-> session]]
    /\ Exits(b, "ok")
    /\ UNCHANGED <<runner, hosts, results, history>>

\* A wait that times out, a flush or a request that fails.
BenchFails(b) ==
    /\ Exits(b, "failed")
    /\ UNCHANGED <<runner, hosts, files, history>>

BenchStep(b) ==
    \/ BenchWaits(b) \/ BenchFlushes(b) \/ BenchSends(b) \/ BenchColdEnds(b)
    \/ BenchEnds(b) \/ BenchFails(b)

-----------------------------------------------------------------------------
Init ==
    /\ pc = "idle" /\ session = 0 /\ todo = <<>> /\ node = "A"
    /\ srv = [n \in Nodes |-> Off]
    /\ cores = [n \in Nodes |-> 0]
    /\ kv = [s \in Stores |-> {}]
    /\ benches = {} /\ exited = "-"
    /\ out = [c \in Calls |-> NoFile] /\ results = out
    /\ crowded = FALSE /\ unswept = {} /\ failures = 0

RunnerStep ==
    \/ StopForServe \/ Launch \/ Ready \/ NotReady \/ Fetch \/ BenchThrows
    \/ Stop \/ CheckSanity \/ Finish

Next ==
    \/ \E stage \in Stages : Start(stage)
    \/ RunnerStep
    \/ Interrupted
    \/ \E b \in benches : BenchStep(b)
    \/ \E n \in Nodes : VllmReady(n) \/ VllmDies(n)

\* Every command of run_tier.sh and every wait of the harness is bounded.
Spec ==
    /\ Init /\ [][Next]_vars
    /\ WF_vars(RunnerStep)
    /\ WF_vars(\E b \in benches : Mine(b) /\ BenchStep(b))

-----------------------------------------------------------------------------
Benches == [session : Sessions, label : Labels, tier : AllTiers]
Files == [Calls -> [by : 0..MaxSessions, during : 0..MaxSessions]]

RunnerOK ==
    /\ pc \in {"idle", "stop_for_serve", "launch", "wait_ready", "bench", "stop",
               "check_sanity", "finished"}
    /\ session \in 0..MaxSessions
    /\ todo \in Seq(Calls)
    /\ pc # "idle" => todo # <<>> /\ session > 0
    /\ node \in Nodes
HostsOK ==
    /\ srv \in [Nodes -> [state : {"off", "starting", "up"}, tier : AllTiers \cup {"-"}]]
    /\ cores \in [Nodes -> Nat]
    /\ kv \in [Stores -> SUBSET Benches]
BenchesOK ==
    /\ benches \in SUBSET [by : Benches, phase : {"wait", "flush", "cold", "cached"}]
    /\ exited \in {"-", "ok", "failed"}
    /\ out \in Files /\ results \in Files
    /\ crowded \in BOOLEAN /\ unswept \subseteq Nodes /\ failures \in 0..MaxFailures

\* Every variable stays in its type.
TypeOK == RunnerOK /\ HostsOK /\ BenchesOK

\* run_tier.sh: "A cold pass is only cold if the tier is empty."  In its cold pass
\* the harness asks a tier that holds nobody's KV but its own, whatever an earlier
\* session, RunTier or stage left behind.
ColdIsCold ==
    \A b \in benches :
        Mine(b) /\ b.phase = "cold" /\ srv["A"].state = "up" =>
            kv[StoreOf(srv["A"].tier, "A")] \subseteq {b.by}

\* The cold pass is cold, unless a harness of an earlier session still runs, or the
\* node's last stop or rm failed and nothing noticed.
ColdPassIsCold == ~crowded /\ "A" \notin unswept => ColdIsCold

\* What the harness finds in its cached pass is KV of its own run: a store of the
\* second node of a fleet run holds nothing from an earlier one, with the same
\* exceptions.
FleetReusesThisRun ==
    ~crowded =>
        \A b \in benches :
            /\ Mine(b) /\ b.phase = "cached" /\ srv[Target(b)].state = "up"
            /\ Target(b) \notin unswept
            => kv[StoreOf(srv[Target(b)].tier, Target(b))] \subseteq {b.by}

\* A server left over from another tier is never measured: the harness sends its
\* requests to servers started with the tier it reports, on both nodes.  Only one
\* that the stop could not kill answers in the place of the new one.
MeasuresItsTier ==
    \A b \in benches :
        /\ Mine(b) /\ b.phase # "wait" /\ srv[Target(b)].state = "up"
        /\ Target(b) \notin unswept
        => srv[Target(b)].tier = b.by.tier

\* run_tier.sh: "One vLLM process at a time".  No start finds the card held by the
\* EngineCore of an earlier run, one that outlived its API server included, unless
\* the stop before it could not kill that EngineCore.
OneEngine == \A n \in Nodes : cores[n] <= 1 \/ n \in unswept

\* A result file that was just fetched was written while this session ran, so it is
\* never one that an earlier session left behind.  It was written by the harness of
\* this RunTier, unless a harness of an earlier session is still running: that one
\* may end, and write the same file, between this harness's exit and the scp.
FetchedIsThisRun ==
    pc = "stop" =>
        /\ results[todo[1]].during = session
        /\ crowded \/ results[todo[1]].by = session

\* run_tiers.ps1 ends, with results or with an error, whatever vLLM does.
RunnerReturns == pc # "idle" ~> pc = "idle"
=============================================================================
