------------------------------ MODULE TestBed ------------------------------
(***************************************************************************)
(* The three-host test bed and the scripts that make and unmake it:        *)
(* infra/Run-TierBench.ps1, provision.ps1, the stages of run_tiers.ps1 and *)
(* teardown.ps1, against EC2.  The scripts keep no state but the file      *)
(* bench.env.ps1; every aws, ssh or scp call can fail, and a failure that  *)
(* throws ends the script where it stands.  EC2 is not in the repository:  *)
(* an instance runs until it is terminated or shuts itself down, and a     *)
(* cluster placement group stays pinned to the zone of its first instance. *)
(***************************************************************************)
EXTENDS Integers, FiniteSets, Sequences

CONSTANTS
    Attempts,    \* the (GPU type, zone) pairs of the sweep, as their zones
    DefaultAZ,   \* the zone the script starts with, "${Region}a"
    BenchStages, \* the -Stage values Run-TierBench.ps1 is given
    Stages,      \* and those run_tiers.ps1 is given by hand
    MaxInst      \* bound: instances ever launched

ASSUME AttemptsAssumption ==
    /\ Attempts \in Seq(Nat \ {0}) /\ Len(Attempts) > 0
    /\ DefaultAZ \in Nat \ {0}
ASSUME StagesAssumption ==
    /\ BenchStages \subseteq {"setup", "sanity", "single", "fleet", "all"}
    /\ Stages \subseteq {"setup", "deploy", "sanity", "single", "fleet", "all"}
ASSUME MaxInstAssumption == MaxInst \in Nat

VARIABLES
    inst,       \* every instance: role, zone, whether it is in the placement group, state
    born,       \* instances launched so far; their ids are 1..born
    pg,         \* the placement group: NoGroup, Unpinned, or the zone it is pinned to
    installed,  \* hosts whose setup script has succeeded
    kit,        \* GPU hosts that hold the kit
    env,        \* bench.env.ps1: the ids it names, NoBed when there is no file
    pc,         \* the statement the operator's script is at
    job,        \* its arguments, and what it decided from them
    attempt,    \* the step of the sweep, or of the setup
    got,        \* the ids provision.ps1 holds in its variables
    az,         \* its $AZ
    lost        \* history: a running instance was left out of bench.env.ps1

cloud == <<inst, born, pg>>
hosts == <<installed, kit>>
script == <<job, attempt, got, az>>
vars == <<cloud, hosts, env, pc, script, lost>>

-----------------------------------------------------------------------------
\* Beside the definitions there are mutants, operators that nothing uses: each is
\* the definition it stands before with a bug the program does not have.

Ids == 1..MaxInst
Zones == {Attempts[k] : k \in DOMAIN Attempts} \cup {DefaultAZ}
NoGroup == -1
Unpinned == 0
NoBed == [a |-> 0, b |-> 0, v |-> 0]
Unborn == [role |-> "-", az |-> 0, grouped |-> FALSE, state |-> "none"]
NoJob == [stage |-> "-", teardown |-> FALSE, no_pg |-> FALSE, skip |-> FALSE]

Running == {i \in Ids : inst[i].state = "running"}
Hosts(bed) == {bed.a, bed.b, bed.v}
Held(ids) == \E i \in ids : inst[i].grouped

Instance(role, zone) ==
    [role |-> role, az |-> zone, grouped |-> ~job.no_pg, state |-> "running"]
Gone(ids) ==
    [i \in Ids |-> IF i \in ids \cap Running
                   THEN [inst[i] EXCEPT !.state = "gone"] ELSE inst[i]]

\* A script returns or throws; its variables are gone.
Returns ==
    /\ pc' = "idle"
    /\ job' = NoJob /\ attempt' = 1 /\ got' = NoBed /\ az' = DefaultAZ

-----------------------------------------------------------------------------
(* EC2. *)

\* The dead-man's switch armed by the user data, or any other end of a host.
ShutsDown(i) ==
    /\ i \in Running
    /\ inst' = Gone({i})
    /\ installed' = installed \ {i} /\ kit' = kit \ {i}
    /\ UNCHANGED <<born, pg, env, pc, script, lost>>

-----------------------------------------------------------------------------
(* Run-TierBench.ps1 *)

\* The operator starts it: preflight and the cost gate launch nothing.
Start(stage, teardown, no_pg) ==
    /\ pc = "idle"
    /\ pc' = "check_env"
    /\ job' = [stage |-> stage, teardown |-> teardown, no_pg |-> no_pg, skip |-> FALSE]
    /\ UNCHANGED <<cloud, hosts, env, attempt, got, az, lost>>

\* Where a call can fail.  The mutant asks for an address until there is one.
PollsForAddress == {"placement", "sweep", "valkey", "tiers", "setup", "matrix"}
ThrowPoints == {"placement", "sweep", "valkey", "resolve", "tiers", "setup", "matrix"}

\* A call fails in a way the script does not handle: nothing is undone or
\* written on the way out.
Throws ==
    /\ pc \in ThrowPoints
    /\ lost' = (lost \/ (pc \in {"valkey", "resolve"} /\ Hosts(got) \cap Running # {}))
    /\ Returns
    /\ UNCHANGED <<cloud, hosts, env>>

SkipsAnySetup(reuse) == job.stage # "setup"
SkipSetup(reuse) == reuse /\ job.stage # "setup"

\* The instances of bench.env.ps1 are reused when describe-instances answers and
\* none of the three is gone.  Any other outcome, an API error included, makes
\* a new bed.
CheckEnv ==
    /\ pc = "check_env"
    /\ \E answered \in BOOLEAN :
          LET reuse == env # NoBed /\ answered /\ Hosts(env) \subseteq Running IN
          /\ pc' = IF reuse THEN "tiers" ELSE "placement"
          /\ job' = [job EXCEPT !.skip = SkipSetup(reuse)]
    /\ UNCHANGED <<cloud, hosts, env, attempt, got, az, lost>>

-----------------------------------------------------------------------------
(* provision.ps1 *)

\* delete-placement-group fails while a live instance is in the group, when there is
\* none, or for a reason of its own; create-placement-group makes one that is not
\* pinned, where there is none.  The script throws only when it has deleted the old
\* group and cannot make a new one: a group that it could not delete is reused with
\* its pin, and one that it could not make is missed at the launch.
Placement ==
    /\ pc = "placement"
    /\ IF job.no_pg
       THEN pg' = pg /\ pc' = "sweep" /\ UNCHANGED script
       ELSE \E deleted, created \in BOOLEAN :
              /\ deleted => pg # NoGroup /\ ~Held(Running)
              /\ created => deleted \/ pg = NoGroup
              /\ pg' = IF created THEN Unpinned ELSE IF deleted THEN NoGroup ELSE pg
              /\ IF deleted /\ ~created
                 THEN Returns
                 ELSE pc' = "sweep" /\ UNCHANGED script
    /\ UNCHANGED <<inst, born, hosts, env, lost>>

\* The group refuses a zone other than the one it is pinned to.
Refused(zone) == ~job.no_pg /\ pg \notin {Unpinned, zone}
Pinned(zone) == IF job.no_pg THEN pg ELSE zone

\* One GPU after the other: the first is launched, and there is no capacity for
\* the second.
LaunchGpuAlone ==
    /\ pc = "sweep" /\ attempt < Len(Attempts) /\ born < MaxInst
    /\ inst' = [inst EXCEPT ![born + 1] = Instance("gpu", Attempts[attempt])]
    /\ born' = born + 1
    /\ attempt' = attempt + 1
    /\ UNCHANGED <<pg, hosts, env, pc, job, got, az, lost>>

\* Both GPUs in one request, all or nothing.  A request that EC2 granted but whose
\* call fails, or answers anything but two ids, throws with the pair running.
LaunchGpuPair ==
    /\ pc = "sweep"
    /\ born + 2 <= MaxInst
    /\ ~Refused(Attempts[attempt])
    /\ inst' = [inst EXCEPT ![born + 1] = Instance("gpu", Attempts[attempt]),
                            ![born + 2] = Instance("gpu", Attempts[attempt])]
    /\ born' = born + 2
    /\ pg' = Pinned(Attempts[attempt])
    /\ \/ /\ got' = [got EXCEPT !.a = born + 1, !.b = born + 2]
          /\ az' = Attempts[attempt]
          /\ pc' = "valkey"
          /\ lost' = (lost \/ Hosts(env) \cap Running # {})
          /\ UNCHANGED <<job, attempt>>
       \/ Returns /\ lost' = TRUE
    /\ UNCHANGED <<hosts, env>>

PastLastAttempt == attempt <= Len(Attempts)
MoreAttempts == attempt < Len(Attempts)

\* No capacity for a pair, or a type the zone does not offer: the next attempt.
NoCapacity ==
    /\ pc = "sweep"
    /\ MoreAttempts
    /\ ~Refused(Attempts[attempt])
    /\ attempt' = attempt + 1
    /\ UNCHANGED <<cloud, hosts, env, pc, job, got, az, lost>>

ValkeyInDefaultAZ == DefaultAZ
ValkeyAZ == az

\* The Valkey host, with the same two outcomes.
LaunchValkey ==
    /\ pc = "valkey"
    /\ born < MaxInst
    /\ ~Refused(ValkeyAZ)
    /\ inst' = [inst EXCEPT ![born + 1] = Instance("valkey", ValkeyAZ)]
    /\ born' = born + 1
    /\ pg' = Pinned(ValkeyAZ)
    /\ \/ /\ got' = [got EXCEPT !.v = born + 1]
          /\ pc' = "resolve"
          /\ UNCHANGED <<job, attempt, az, lost>>
       \/ Returns /\ lost' = TRUE
    /\ UNCHANGED <<hosts, env>>

\* The script waits for the three, looks up their addresses (an instance that is
\* gone has none, and the script throws) and writes the file.
WriteEnv ==
    /\ pc = "resolve"
    /\ Hosts(got) \subseteq Running
    /\ env' = got
    /\ pc' = "tiers"
    /\ UNCHANGED <<cloud, hosts, script, lost>>

-----------------------------------------------------------------------------
(* run_tiers.ps1 *)

\* Run by hand, as the runbook does after the first campaign.
StartTiersByHand(stage, skip) ==
    /\ pc = "idle" /\ env # NoBed
    /\ pc' = "tiers"
    /\ job' = [NoJob EXCEPT !.stage = stage, !.skip = skip]
    /\ UNCHANGED <<cloud, hosts, env, attempt, got, az, lost>>

StartTiers ==
    /\ pc = "tiers"
    /\ pc' = IF job.stage \in {"setup", "deploy"} \/ ~job.skip THEN "upload" ELSE "matrix"
    /\ attempt' = 1
    /\ UNCHANGED <<cloud, hosts, env, job, got, az, lost>>

GpuOrder == <<env.a, env.b>>
SetupOrder == <<env.v, env.a, env.b>>

\* ssh is awaited on all three, then each GPU host's kit is removed and copied anew.
UploadKit ==
    /\ pc = "upload"
    /\ attempt = 1 => Hosts(env) \subseteq Running
    /\ GpuOrder[attempt] \in Running
    /\ kit' = kit \cup {GpuOrder[attempt]}
    /\ IF attempt = 2 /\ job.stage = "deploy"
       THEN Returns
       ELSE /\ pc' = IF attempt < 2 THEN "upload" ELSE "setup"
            /\ attempt' = IF attempt < 2 THEN attempt + 1 ELSE 1
            /\ UNCHANGED <<job, got, az>>
    /\ UNCHANGED <<cloud, installed, env, lost>>

\* The removal or the copy fails: the kit may be gone.
UploadThrows ==
    /\ pc = "upload"
    /\ kit' \in {kit, kit \ {GpuOrder[attempt]}}
    /\ Returns
    /\ UNCHANGED <<cloud, installed, env, lost>>

\* The setup scripts, host by host.
SetupHost ==
    /\ pc = "setup"
    /\ SetupOrder[attempt] \in Running
    /\ installed' = installed \cup {SetupOrder[attempt]}
    /\ attempt' = IF attempt < 3 THEN attempt + 1 ELSE 1
    /\ pc' = IF attempt < 3 THEN "setup"
             ELSE IF job.stage = "setup" THEN "finish" ELSE "matrix"
    /\ UNCHANGED <<cloud, kit, env, job, got, az, lost>>

\* The hosts a stage works on.
Needs(stage) ==
    CASE stage = "sanity" -> {env.a}
      [] stage = "single" -> {env.a, env.v}
      [] OTHER -> Hosts(env)

\* The stage goes through; a host that is gone or was never set up makes it throw.
MatrixRuns ==
    /\ pc = "matrix"
    /\ Needs(job.stage) \subseteq Running \cap installed
    /\ Needs(job.stage) \ {env.v} \subseteq kit
    /\ pc' = "finish"
    /\ UNCHANGED <<cloud, hosts, env, script, lost>>

\* -Teardown is reached only when run_tiers.ps1 returned.
Finish ==
    /\ pc = "finish"
    /\ IF job.teardown THEN pc' = "teardown" /\ UNCHANGED script ELSE Returns
    /\ UNCHANGED <<cloud, hosts, env, lost>>

-----------------------------------------------------------------------------
(* teardown.ps1 *)

\* Run by hand.
StartTeardown ==
    /\ pc = "idle" /\ env # NoBed
    /\ pc' = "teardown"
    /\ UNCHANGED <<cloud, hosts, env, script, lost>>

Terminated == Hosts(env)

\* The three instances are terminated and awaited, then the placement group is
\* deleted if nothing holds it and the call does not fail; bench.env.ps1 stays.  A
\* refused call goes unnoticed: "Instances are gone" is printed all the same.
Teardown ==
    /\ pc = "teardown"
    /\ \E refused \in BOOLEAN :
          LET ended == IF refused THEN {} ELSE Terminated IN
          /\ inst' = Gone(ended)
          /\ installed' = installed \ ended /\ kit' = kit \ ended
          /\ pg' \in IF Held(Running \ ended) THEN {pg} ELSE {pg, NoGroup}
    /\ Returns
    /\ UNCHANGED <<born, env, lost>>

-----------------------------------------------------------------------------
Init ==
    /\ inst = [i \in Ids |-> Unborn] /\ born = 0
    /\ pg = NoGroup
    /\ installed = {} /\ kit = {}
    /\ env = NoBed
    /\ pc = "idle" /\ job = NoJob /\ attempt = 1 /\ got = NoBed /\ az = DefaultAZ
    /\ lost = FALSE

Operator ==
    \/ \E s \in BenchStages, t, n \in BOOLEAN : Start(s, t, n)
    \/ \E s \in Stages, k \in BOOLEAN : StartTiersByHand(s, k)
    \/ StartTeardown

ScriptStep ==
    \/ CheckEnv \/ Placement \/ LaunchGpuPair \/ NoCapacity \/ LaunchValkey
    \/ WriteEnv \/ StartTiers \/ UploadKit \/ UploadThrows \/ SetupHost
    \/ MatrixRuns \/ Finish \/ Throws \/ Teardown

Next == Operator \/ ScriptStep \/ \E i \in Ids : ShutsDown(i)

\* Every call the scripts make returns: ssh has a timeout, the polls a bound.
Spec == Init /\ [][Next]_vars /\ WF_vars(ScriptStep)

-----------------------------------------------------------------------------
Beds == [a : 0..MaxInst, b : 0..MaxInst, v : 0..MaxInst]

CloudOK ==
    /\ inst \in [Ids -> [role : {"-", "gpu", "valkey"}, az : Zones \cup {0},
                         grouped : BOOLEAN, state : {"none", "running", "gone"}]]
    /\ born \in 0..MaxInst
    /\ pg \in {NoGroup, Unpinned} \cup Zones
    /\ installed \in SUBSET Ids /\ kit \in SUBSET Ids
    /\ lost \in BOOLEAN
ScriptOK ==
    /\ env \in Beds /\ got \in Beds
    /\ pc \in {"idle", "check_env", "placement", "sweep", "valkey", "resolve",
               "tiers", "upload", "setup", "matrix", "finish", "teardown"}
    /\ job \in [stage : BenchStages \cup Stages \cup {"-"}, teardown : BOOLEAN, no_pg : BOOLEAN,
                skip : BOOLEAN]
    /\ attempt \in Nat \ {0}
    /\ pc = "sweep" => attempt \in DOMAIN Attempts
    /\ pc = "upload" => attempt \in 1..2
    /\ pc = "setup" => attempt \in 1..3
    /\ az \in Zones

\* Every variable stays in its type.
TypeOK == CloudOK /\ ScriptOK

\* bench.env.ps1 names three different hosts, two GPU nodes and a Valkey server,
\* launched into one zone, although the zone is only known once the sweep has
\* landed a pair.
EnvIsOneBed ==
    env # NoBed =>
        /\ Cardinality(Hosts(env)) = 3
        /\ inst[env.a].role = "gpu" /\ inst[env.b].role = "gpu"
        /\ inst[env.v].role = "valkey"
        /\ inst[env.a].az = inst[env.b].az /\ inst[env.a].az = inst[env.v].az

\* Every running instance is named by bench.env.ps1, or by the provision that
\* is about to write it, unless one was lost in one of two ways: provision.ps1
\* threw after EC2 had granted a launch and before the file was written, or a second
\* pair was launched while part of the old bed still ran.  In particular a sweep
\* that finds no capacity leaves nothing behind, and neither a stage that fails nor
\* a teardown, refused or not, loses a host.
OnlyKnownLosses ==
    ~lost => Running \subseteq
                Hosts(env) \cup (IF pc \in {"valkey", "resolve"} THEN Hosts(got) ELSE {})

\* A bed that was just provisioned is set up before a stage is run on it, but
\* for hosts that have gone since.
FreshBedIsSetUp ==
    pc = "matrix" /\ got # NoBed =>
        /\ Hosts(env) \cap Running \subseteq installed
        /\ {env.a, env.b} \cap Running \subseteq kit


\* Every script returns: the sweep tries each attempt once.
ScriptsReturn == pc # "idle" ~> pc = "idle"
=============================================================================
