---------------------------- MODULE TestBedProofs ----------------------------
(***************************************************************************)
(* Theorems about TestBed, for every sweep, every set of stages and any    *)
(* number of instances.                                                    *)
(***************************************************************************)
EXTENDS TestBed, FiniteSetTheorems, TLAPS

-----------------------------------------------------------------------------
(* Zones, instances and types. *)

Instances == [role : {"-", "gpu", "valkey"}, az : Zones \cup {0},
              grouped : BOOLEAN, state : {"none", "running", "gone"}]

\* A zone that is tried is one of the zones.
LEMMA ZoneFacts ==
    /\ \A k \in DOMAIN Attempts : Attempts[k] \in Zones
    /\ DefaultAZ \in Zones
    /\ Zones \subseteq Nat \ {0}
    /\ DOMAIN Attempts = 1..Len(Attempts) /\ Len(Attempts) \in Nat \ {0}
<1>1. \A k \in DOMAIN Attempts : Attempts[k] \in Nat \ {0}
  BY AttemptsAssumption
<1> QED BY <1>1, AttemptsAssumption DEF Zones

\* Ending instances changes their state and nothing else.
LEMMA GoneFacts ==
    ASSUME TypeOK, NEW ids, inst' = Gone(ids)
    PROVE  /\ inst' \in [Ids -> Instances]
           /\ Running' = Running \ ids
           /\ \A i \in Ids :
                 /\ inst'[i].role = inst[i].role /\ inst'[i].az = inst[i].az
                 /\ inst'[i].grouped = inst[i].grouped
                 /\ inst'[i].state = inst[i].state \/ inst'[i].state = "gone"
                 /\ inst[i].state # "running" => inst'[i].state = inst[i].state
<1>1. \A i \in Ids : inst[i] \in Instances
  BY DEF TypeOK, CloudOK, Instances
<1>2. \A i \in Ids : inst'[i] = IF i \in ids \cap Running
                               THEN [inst[i] EXCEPT !.state = "gone"] ELSE inst[i]
  BY DEF Gone
<1>3. \A i \in Ids :
         /\ inst'[i] \in Instances
         /\ inst'[i].role = inst[i].role /\ inst'[i].az = inst[i].az
         /\ inst'[i].grouped = inst[i].grouped
         /\ inst'[i].state = IF i \in ids \cap Running THEN "gone" ELSE inst[i].state
  BY <1>1, <1>2 DEF Instances
<1>4. inst' \in [Ids -> Instances]
  BY <1>3 DEF Gone
<1>5. Running' = Running \ ids
  BY <1>3 DEF Running
<1> QED BY <1>3, <1>4, <1>5 DEF Running

\* A launched instance is one.
LEMMA InstanceType ==
    ASSUME TypeOK, NEW zone \in Zones, NEW role \in {"gpu", "valkey"}
    PROVE  /\ Instance(role, zone) \in Instances
           /\ Instance(role, zone).role = role /\ Instance(role, zone).az = zone
           /\ Instance(role, zone).state = "running"
           /\ Instance(role, zone).grouped = ~job.no_pg
BY DEF Instance, Instances, TypeOK, ScriptOK

\* A launched pair.
LEMMA PairFacts ==
    ASSUME TypeOK, LaunchGpuPair
    PROVE  /\ Attempts[attempt] \in Zones
           /\ born \in Nat /\ born + 1 \in Ids /\ born + 2 \in Ids /\ born' = born + 2
           /\ inst' \in [Ids -> Instances]
           /\ \A i \in {born + 1, born + 2} : inst'[i] = Instance("gpu", Attempts[attempt])
           /\ \A i \in Ids \ {born + 1, born + 2} : inst'[i] = inst[i]
           /\ Running' = Running \cup {born + 1, born + 2}
<1>1. Attempts[attempt] \in Zones
  BY ZoneFacts DEF LaunchGpuPair, TypeOK, ScriptOK
<1>2. born \in Nat /\ born + 1 \in Ids /\ born + 2 \in Ids /\ born' = born + 2
  BY MaxInstAssumption DEF LaunchGpuPair, TypeOK, CloudOK, Ids
<1>3. inst \in [Ids -> Instances]
  BY DEF TypeOK, CloudOK, Instances
<1> DEFINE new == Instance("gpu", Attempts[attempt])
<1>4. new \in Instances /\ new.state = "running"
  BY <1>1, InstanceType
<1>5. inst' = [inst EXCEPT ![born + 1] = new, ![born + 2] = new]
  BY DEF LaunchGpuPair
<1> HIDE DEF new
<1>6. /\ inst' \in [Ids -> Instances]
      /\ \A i \in {born + 1, born + 2} : inst'[i] = new
      /\ \A i \in Ids \ {born + 1, born + 2} : inst'[i] = inst[i]
  BY <1>2, <1>3, <1>4, <1>5
<1>7. Running' = Running \cup {born + 1, born + 2}
  BY <1>2, <1>4, <1>6 DEF Running
<1> QED BY <1>1, <1>2, <1>6, <1>7 DEF new

\* The pair with a Valkey server is a bed.
LEMMA ValkeyFacts ==
    ASSUME TypeOK, LaunchValkey
    PROVE  /\ born \in Nat /\ born + 1 \in Ids /\ born' = born + 1
           /\ inst' \in [Ids -> Instances]
           /\ inst'[born + 1] = Instance("valkey", az)
           /\ \A i \in Ids \ {born + 1} : inst'[i] = inst[i]
           /\ Running' = Running \cup {born + 1}
<1>1. born \in Nat /\ born + 1 \in Ids /\ born' = born + 1 /\ az \in Zones
  BY MaxInstAssumption DEF LaunchValkey, TypeOK, CloudOK, ScriptOK, Ids
<1>2. inst \in [Ids -> Instances]
  BY DEF TypeOK, CloudOK, Instances
<1> DEFINE new == Instance("valkey", az)
<1>3. new \in Instances /\ new.state = "running"
  BY <1>1, InstanceType
<1>4. inst' = [inst EXCEPT ![born + 1] = new]
  BY DEF LaunchValkey, ValkeyAZ
<1> HIDE DEF new
<1>5. /\ inst' \in [Ids -> Instances] /\ inst'[born + 1] = new
      /\ \A i \in Ids \ {born + 1} : inst'[i] = inst[i]
  BY <1>1, <1>2, <1>3, <1>4
<1>6. Running' = Running \cup {born + 1}
  BY <1>1, <1>3, <1>5 DEF Running
<1> QED BY <1>1, <1>5, <1>6 DEF new

-----------------------------------------------------------------------------
(* The invariant. *)

\* Instance i has been launched, for this role and into this zone.
Named(i, role, zone) == i \in 1..born /\ inst[i].role = role /\ inst[i].az = zone

IsPair(bed, zone) ==
    bed.a # bed.b /\ Named(bed.a, "gpu", zone) /\ Named(bed.b, "gpu", zone)

IsBed(bed) == \E zone \in Zones : IsPair(bed, zone) /\ Named(bed.v, "valkey", zone)

\* Ids are given in order, and a host that runs is in a zone.
BornInv ==
    \A i \in Ids :
        /\ i > born => inst[i].state = "none"
        /\ inst[i].state = "running" => inst[i].az \in Zones

\* What provision.ps1's variables hold where it stands.
ScriptInv ==
    /\ pc \in {"idle", "check_env", "placement"} => attempt = 1
    /\ pc \in {"idle", "check_env", "placement", "sweep"} => got = NoBed
    /\ pc = "valkey" => IsPair(got, az) /\ got.v = 0
    /\ pc = "resolve" => IsBed(got)

EnvInv == env # NoBed => IsBed(env)

BedInv == BornInv /\ ScriptInv /\ EnvInv

\* Before the new bed is written, none of the old one runs, or one was lost.
LossInv ==
    /\ OnlyKnownLosses
    /\ pc \in {"valkey", "resolve"} /\ ~lost => Hosts(env) \cap Running = {}

\* A provision does not skip the setup, and the setup has got as far as its counter says.
SetupInv ==
    /\ pc \in {"placement", "sweep", "valkey", "resolve"} => ~job.skip
    /\ pc = "tiers" /\ got # NoBed => ~job.skip
    /\ got # NoBed =>
          /\ pc = "upload" /\ attempt = 2 => {env.a} \cap Running \subseteq kit
          /\ pc \in {"setup", "matrix"} => {env.a, env.b} \cap Running \subseteq kit
          /\ pc = "setup" /\ attempt >= 2 => {env.v} \cap Running \subseteq installed
          /\ pc = "setup" /\ attempt >= 3 => {env.a} \cap Running \subseteq installed
          /\ pc = "matrix" => Hosts(env) \cap Running \subseteq installed

-----------------------------------------------------------------------------
(* Types, and the bed.                                                      *)

\* No bed is a value of its type.
LEMMA NoBedIsABed == NoBed \in Beds
BY MaxInstAssumption DEF NoBed, Beds

\* There is no bed initially.
LEMMA InitBed == Init => TypeOK /\ BedInv
<1> SUFFICES ASSUME Init PROVE TypeOK /\ BedInv
  OBVIOUS
<1>1. Unborn \in [role : {"-", "gpu", "valkey"}, az : Zones \cup {0},
                  grouped : BOOLEAN, state : {"none", "running", "gone"}]
  BY DEF Unborn
<1>2. CloudOK
  <2>1. inst \in [Ids -> [role : {"-", "gpu", "valkey"}, az : Zones \cup {0},
                         grouped : BOOLEAN, state : {"none", "running", "gone"}]]
    BY <1>1 DEF Init
  <2>2. born \in 0..MaxInst /\ pg \in {NoGroup}
    BY MaxInstAssumption DEF Init
  <2>3. installed = {} /\ kit = {} /\ lost = FALSE
    BY DEF Init
  <2> QED BY <2>1, <2>2, <2>3 DEF CloudOK
<1>3. ScriptOK
  BY NoBedIsABed, ZoneFacts DEF Init, ScriptOK, NoJob
<1>4. BedInv
  BY DEF Init, BedInv, BornInv, ScriptInv, EnvInv, Unborn
<1> QED BY <1>2, <1>3, <1>4 DEF TypeOK

\* A script that returns keeps the types.
LEMMA ReturnsType ==
    ASSUME TypeOK, Returns, env' = env PROVE ScriptOK' /\ ScriptInv'
BY NoBedIsABed, ZoneFacts DEF Returns, TypeOK, ScriptOK, ScriptInv, NoJob

\* The steps that start a script or one of its stages.
Chooses ==
    \/ Operator \/ CheckEnv \/ Placement \/ NoCapacity \/ StartTiers \/ MatrixRuns

\* The choice of the next script keeps the types.
LEMMA ChoosesType ==
    ASSUME TypeOK, BedInv, Chooses
    PROVE  ScriptOK' /\ ScriptInv' /\ UNCHANGED <<inst, born, env>>
<1> USE ZoneFacts DEF TypeOK, ScriptOK, BedInv, ScriptInv, cloud, hosts, script
<1>1. CASE Operator
  <2>1. ASSUME NEW s \in BenchStages, NEW t \in BOOLEAN, NEW n \in BOOLEAN, Start(s, t, n)
        PROVE  ScriptOK' /\ ScriptInv' /\ UNCHANGED <<inst, born, env>>
    BY <2>1 DEF Start
  <2>2. ASSUME NEW s \in Stages, NEW k \in BOOLEAN, StartTiersByHand(s, k)
        PROVE  ScriptOK' /\ ScriptInv' /\ UNCHANGED <<inst, born, env>>
    BY <2>2 DEF StartTiersByHand, NoJob
  <2>3. CASE StartTeardown
    BY <2>3 DEF StartTeardown
  <2> QED BY <1>1, <2>1, <2>2, <2>3 DEF Operator
<1>2. CASE CheckEnv
  BY <1>2 DEF CheckEnv, SkipSetup
<1>3. CASE Placement
  <2>1. CASE Returns
    BY <1>3, <2>1, ReturnsType DEF Placement
  <2>2. CASE pc' = "sweep" /\ UNCHANGED script
    BY <1>3, <2>2 DEF Placement
  <2> QED BY <1>3, <2>1, <2>2 DEF Placement
<1>4. CASE NoCapacity
  BY <1>4 DEF NoCapacity, MoreAttempts
<1>5. CASE StartTiers
  BY <1>5 DEF StartTiers
<1>6. CASE MatrixRuns
  BY <1>6 DEF MatrixRuns
<1> QED BY <1>1, <1>2, <1>3, <1>4, <1>5, <1>6 DEF Chooses

\* The steps that do something with the hosts there are, or give up.
Works ==
    \/ Throws \/ WriteEnv \/ UploadKit \/ UploadThrows \/ SetupHost \/ Finish
    \/ Teardown

\* The steps of setup, deployment and the stages keep the types.
LEMMA WorksType ==
    ASSUME TypeOK, BedInv, Works PROVE ScriptOK' /\ ScriptInv'
<1> USE DEF TypeOK, ScriptOK, BedInv, ScriptInv, cloud, hosts, script
<1>1. CASE Throws \/ UploadThrows
  BY <1>1, ReturnsType DEF Throws, UploadThrows
<1>2. CASE WriteEnv
  BY <1>2 DEF WriteEnv
<1>3. CASE UploadKit
  BY <1>3, ReturnsType DEF UploadKit
<1>4. CASE SetupHost
  BY <1>4 DEF SetupHost
<1>5. CASE Finish
  BY <1>5, ReturnsType DEF Finish
<1>6. CASE Teardown
  BY <1>6, ReturnsType DEF Teardown
<1> QED BY <1>1, <1>2, <1>3, <1>4, <1>5, <1>6 DEF Works

\* The cloud and the hosts stay in type.
LEMMA NextCloudType == ASSUME TypeOK, Next PROVE CloudOK'
<1> USE DEF TypeOK, CloudOK
<1>1. CASE LaunchGpuPair
  <2>1. pg' \in {NoGroup, Unpinned} \cup Zones /\ UNCHANGED hosts
    BY <1>1, PairFacts DEF LaunchGpuPair, Pinned
  <2>2. lost' \in BOOLEAN
    BY <1>1 DEF LaunchGpuPair
  <2> QED BY <1>1, <2>1, <2>2, PairFacts DEF Ids, hosts, Instances
<1>2. CASE LaunchValkey
  <2>1. pg' \in {NoGroup, Unpinned} \cup Zones /\ UNCHANGED hosts
    BY <1>2 DEF LaunchValkey, Pinned, ValkeyAZ, ScriptOK
  <2>2. lost' \in BOOLEAN
    BY <1>2 DEF LaunchValkey
  <2> QED BY <1>2, <2>1, <2>2, ValkeyFacts DEF Ids, hosts, Instances
<1>3. CASE Teardown
  <2>1. PICK ids : inst' = Gone(ids) /\ installed' = installed \ ids /\ kit' = kit \ ids
    BY <1>3 DEF Teardown
  <2>2. inst' \in [Ids -> Instances]
    BY <2>1, GoneFacts
  <2> QED BY <1>3, <2>1, <2>2 DEF Teardown, Instances
<1>4. ASSUME NEW i \in Ids, ShutsDown(i) PROVE CloudOK'
  <2>1. inst' \in [Ids -> Instances]
    BY <1>4, GoneFacts DEF ShutsDown
  <2> QED BY <1>4, <2>1 DEF ShutsDown, Instances
<1>5. CASE Chooses
  BY <1>5 DEF Chooses, Operator, Start, StartTiersByHand, StartTeardown, CheckEnv, Placement,
     NoCapacity, StartTiers, MatrixRuns, cloud, hosts
<1>6. CASE Works /\ ~Teardown
  BY <1>6 DEF Works, Throws, WriteEnv, UploadKit, UploadThrows, SetupHost, Finish,
     Running, cloud, hosts
<1> QED BY <1>1, <1>2, <1>3, <1>4, <1>5, <1>6 DEF Next, ScriptStep, Chooses, Works

\* A bed stays one while instances keep their roles and zones.
LEMMA BedStays ==
    ASSUME NEW bed, IsBed(bed), born \in Nat, born' \in Nat, born <= born',
           \A i \in 1..born : inst'[i].role = inst[i].role /\ inst'[i].az = inst[i].az
    PROVE  IsBed(bed)'
BY DEF IsBed, IsPair, Named

\* Every step keeps types and beds.
LEMMA NextBed == ASSUME TypeOK, BedInv, [Next]_vars PROVE TypeOK' /\ BedInv'
<1>0. born \in Nat /\ 1..born \subseteq Ids
  BY MaxInstAssumption DEF TypeOK, CloudOK, Ids
<1>1. CASE LaunchGpuPair
  <2>1. pc = "sweep" /\ env' = env /\ got = NoBed
    BY <1>1 DEF LaunchGpuPair, BedInv, ScriptInv
  <2>2. /\ Attempts[attempt] \in Zones
        /\ \A i \in {born + 1, born + 2} :
              /\ inst'[i].role = "gpu" /\ inst'[i].az = Attempts[attempt]
              /\ inst'[i].state = "running"
    BY <1>1, PairFacts, InstanceType
  <2>3. ScriptOK' /\ ScriptInv'
    <3>1. CASE Returns
      BY <2>1, <3>1, ReturnsType
    <3>2. CASE ~Returns
      <4>1. /\ pc' = "valkey" /\ UNCHANGED <<job, attempt>> /\ az' = Attempts[attempt]
            /\ got' = [a |-> born + 1, b |-> born + 2, v |-> 0]
        BY <1>1, <2>1, <3>2 DEF LaunchGpuPair, NoBed
      <4>2. got' \in Beds /\ got'.a = born + 1 /\ got'.b = born + 2 /\ got'.v = 0
        BY <1>1, <4>1, PairFacts, MaxInstAssumption DEF Beds, Ids
      <4>3. born' = born + 2 /\ born + 1 \in 1..born' /\ born + 2 \in 1..born'
        BY <1>0, <1>1, PairFacts
      <4>4. IsPair(got, az)'
        BY <1>0, <2>2, <4>1, <4>2, <4>3 DEF IsPair, Named
      <4> QED BY <2>1, <2>2, <4>1, <4>2, <4>4 DEF TypeOK, ScriptOK, ScriptInv
    <3> QED BY <3>1, <3>2
  <2>4. BornInv'
    <3> SUFFICES ASSUME NEW i \in Ids
                 PROVE  /\ i > born' => inst'[i].state = "none"
                        /\ inst'[i].state = "running" => inst'[i].az \in Zones
      BY DEF BornInv
    <3>1. CASE i \in {born + 1, born + 2}
      BY <1>0, <1>1, <2>2, <3>1, PairFacts
    <3>2. CASE i \notin {born + 1, born + 2}
      <4>1. inst'[i] = inst[i] /\ born' = born + 2
        BY <1>1, <3>2, PairFacts
      <4> QED BY <1>0, <4>1 DEF BedInv, BornInv, Ids
    <3> QED BY <3>1, <3>2
  <2>5. EnvInv'
    BY <1>0, <1>1, <2>1, PairFacts, BedStays DEF BedInv, EnvInv
  <2> QED BY <1>1, <2>3, <2>4, <2>5, NextCloudType DEF TypeOK, BedInv, Next, ScriptStep
<1>2. CASE LaunchValkey
  <2>1. pc = "valkey" /\ env' = env /\ az \in Zones /\ IsPair(got, az) /\ got \in Beds
    BY <1>2 DEF LaunchValkey, BedInv, ScriptInv, TypeOK, ScriptOK
  <2>4. ScriptOK' /\ ScriptInv'
    <3>1. CASE Returns
      BY <2>1, <3>1, ReturnsType
    <3>2. CASE ~Returns
      <4>1. pc' = "resolve" /\ UNCHANGED <<job, attempt, az>> /\ got' = [got EXCEPT !.v = born + 1]
        BY <1>2, <3>2 DEF LaunchValkey
      <4>2. got'.a = got.a /\ got'.b = got.b /\ got'.v = born + 1 /\ got' \in Beds
        BY <1>2, <2>1, <4>1, ValkeyFacts DEF Beds, Ids
      <4>3. IsBed(got)'
        BY <1>0, <1>2, <2>1, <4>2, ValkeyFacts, InstanceType DEF IsBed, IsPair, Named
      <4> QED BY <2>1, <4>1, <4>2, <4>3 DEF TypeOK, ScriptOK, ScriptInv
    <3> QED BY <3>1, <3>2
  <2>5. BornInv'
    <3>1. inst'[born + 1].state = "running" /\ inst'[born + 1].az \in Zones
      BY <1>2, <2>1, ValkeyFacts, InstanceType
    <3> SUFFICES ASSUME NEW i \in Ids
                 PROVE  /\ i > born' => inst'[i].state = "none"
                        /\ inst'[i].state = "running" => inst'[i].az \in Zones
      BY DEF BornInv
    <3>2. CASE i = born + 1
      BY <1>0, <1>2, <3>1, <3>2, ValkeyFacts
    <3>3. CASE i # born + 1
      <4>1. inst'[i] = inst[i] /\ born' = born + 1
        BY <1>2, <3>3, ValkeyFacts
      <4> QED BY <1>0, <4>1 DEF BedInv, BornInv, Ids
    <3> QED BY <3>2, <3>3
  <2>6. EnvInv'
    BY <1>0, <1>2, <2>1, ValkeyFacts, BedStays DEF BedInv, EnvInv
  <2> QED BY <1>2, <2>4, <2>5, <2>6, NextCloudType DEF TypeOK, BedInv, Next, ScriptStep
<1>3. CASE Teardown \/ \E i \in Ids : ShutsDown(i)
  <2>1. /\ \E ids : inst' = Gone(ids)
        /\ env' = env /\ born' = born
    BY <1>3 DEF Teardown, ShutsDown
  <2>2. \A i \in Ids :
           /\ inst'[i].role = inst[i].role /\ inst'[i].az = inst[i].az
           /\ inst'[i].state = inst[i].state \/ inst'[i].state = "gone"
           /\ inst[i].state # "running" => inst'[i].state = inst[i].state
    BY <2>1, GoneFacts
  <2>3. BornInv' /\ EnvInv'
    BY <1>0, <2>1, <2>2, BedStays DEF BedInv, BornInv, EnvInv
  <2>4. ScriptOK' /\ ScriptInv'
    <3>1. CASE Teardown
      BY <3>1, WorksType DEF Works
    <3>2. CASE \E i \in Ids : ShutsDown(i)
      <4>1. UNCHANGED <<pc, job, attempt, got, az, env>>
        BY <3>2 DEF ShutsDown, script
      <4>2. IsBed(got) => IsBed(got)'
        BY <1>0, <2>1, <2>2, <4>1, BedStays
      <4>3. IsPair(got, az) => IsPair(got, az)'
        BY <1>0, <2>1, <2>2, <4>1 DEF IsPair, Named
      <4> QED BY <4>1, <4>2, <4>3 DEF TypeOK, ScriptOK, BedInv, ScriptInv
    <3> QED BY <1>3, <3>1, <3>2
  <2> QED BY <1>3, <2>3, <2>4, NextCloudType DEF TypeOK, BedInv, Next, ScriptStep
<1>4. CASE Chooses
  <2>1. BornInv' /\ EnvInv'
    BY <1>4, ChoosesType DEF BedInv, BornInv, EnvInv, IsBed, IsPair, Named
  <2> QED BY <1>4, <2>1, ChoosesType, NextCloudType DEF TypeOK, BedInv, Next, ScriptStep, Chooses
<1>5. CASE Works /\ ~Teardown
  <2>1. UNCHANGED <<inst, born>>
    BY <1>5 DEF Works, Throws, WriteEnv, UploadKit, UploadThrows, SetupHost, Finish, cloud
  <2>2. env' = env \/ (env' = got /\ IsBed(got))
    BY <1>5 DEF Works, Throws, WriteEnv, UploadKit, UploadThrows, SetupHost, Finish,
       BedInv, ScriptInv
  <2>3. BornInv' /\ EnvInv'
    BY <2>1, <2>2 DEF BedInv, BornInv, EnvInv, IsBed, IsPair, Named
  <2> QED BY <1>5, <2>3, WorksType, NextCloudType DEF TypeOK, BedInv, Next, ScriptStep, Works
<1>6. CASE UNCHANGED vars
  BY <1>6 DEF vars, cloud, hosts, script, TypeOK, CloudOK, ScriptOK, BedInv, BornInv, ScriptInv,
     EnvInv, IsBed, IsPair, Named
<1> QED BY <1>1, <1>2, <1>3, <1>4, <1>5, <1>6 DEF Next, ScriptStep, Chooses, Works

\* Both hold in every reachable state.
LEMMA BedAlways == Spec => [](TypeOK /\ BedInv)
BY InitBed, NextBed, PTL DEF Spec

\* The type invariant, for any sweep and any number of instances.
THEOREM TypeCorrect == Spec => []TypeOK
BY BedAlways, PTL

\* The hosts of a bed are three different ones.
LEMMA BedHasThreeHosts ==
    ASSUME NEW bed, IsBed(bed)
    PROVE  /\ Cardinality(Hosts(bed)) = 3
           /\ inst[bed.a].role = "gpu" /\ inst[bed.b].role = "gpu"
           /\ inst[bed.v].role = "valkey"
           /\ inst[bed.a].az = inst[bed.b].az /\ inst[bed.a].az = inst[bed.v].az
<1>1. PICK zone \in Zones : IsPair(bed, zone) /\ Named(bed.v, "valkey", zone)
  BY DEF IsBed
<1>2. bed.a # bed.b /\ bed.a # bed.v /\ bed.b # bed.v
  BY <1>1 DEF IsPair, Named
<1>3. IsFiniteSet({}) /\ Cardinality({}) = 0
  BY FS_EmptySet
<1>4. IsFiniteSet({bed.a}) /\ Cardinality({bed.a}) = 1
  BY FS_Singleton
<1>5. IsFiniteSet({bed.a, bed.b}) /\ Cardinality({bed.a, bed.b}) = 2
  <2>1. {bed.a} \cup {bed.b} = {bed.a, bed.b} /\ bed.b \notin {bed.a}
    BY <1>2
  <2> QED BY <1>4, <2>1, FS_AddElement
<1>6. Cardinality(Hosts(bed)) = 3
  <2> DEFINE gpus == {bed.a, bed.b}
  <2>1. Hosts(bed) = gpus \cup {bed.v} /\ bed.v \notin gpus
    BY <1>2 DEF Hosts
  <2>2. IsFiniteSet(gpus) /\ Cardinality(gpus) = 2
    BY <1>5
  <2> HIDE DEF gpus
  <2>3. Cardinality(gpus \cup {bed.v}) = Cardinality(gpus) + 1
    BY <2>1, <2>2, FS_AddElement
  <2> QED BY <2>1, <2>2, <2>3
<1> QED BY <1>1, <1>6 DEF IsPair, Named

\* The recorded bed is three hosts of one provision, in one zone, whatever the sweep
\* went through and whatever became of the hosts.
THEOREM RecordedBedIsOne == Spec => []EnvIsOneBed
<1>1. BedInv => EnvIsOneBed
  BY BedHasThreeHosts DEF BedInv, EnvInv, EnvIsOneBed
<1> QED BY <1>1, BedAlways, PTL

-----------------------------------------------------------------------------
(* Lost hosts.                                                              *)

\* Ids that are yet to be given are not in the recorded bed.
LEMMA RecordedAreBorn ==
    ASSUME TypeOK, BedInv
    PROVE  \A i \in Hosts(env) : i <= born
<1>1. CASE env = NoBed
  BY <1>1 DEF Hosts, NoBed, TypeOK, CloudOK
<1>2. CASE env # NoBed
  BY <1>2 DEF BedInv, EnvInv, IsBed, IsPair, Named, Hosts
<1> QED BY <1>1, <1>2

\* Every step accounts for the running hosts.
LEMMA NextLoss ==
    ASSUME TypeOK, BedInv, LossInv, [Next]_vars PROVE LossInv'
<1>0. \A i \in Running : i \in Ids /\ i # 0
  BY MaxInstAssumption DEF Running, Ids
<1>1. CASE LaunchGpuPair
  <2>3. SUFFICES ASSUME ~lost' PROVE LossInv'
    BY DEF LossInv, OnlyKnownLosses
  <2>1. /\ pc = "sweep" /\ pc' = "valkey" /\ env' = env
        /\ got' = [got EXCEPT !.a = born + 1, !.b = born + 2] /\ got = NoBed
        /\ lost' = (lost \/ Hosts(env) \cap Running # {})
    BY <1>1, <2>3 DEF LaunchGpuPair, BedInv, ScriptInv
  <2>2. got'.a = born + 1 /\ got'.b = born + 2
    BY <2>1 DEF NoBed
  <2>4. ~lost /\ Running = {}
    BY <2>1, <2>3 DEF LossInv, OnlyKnownLosses
  <2>5. Running' = {born + 1, born + 2}
    BY <1>1, <2>4, PairFacts
  <2>6. Running' \subseteq Hosts(got')
    BY <2>2, <2>5 DEF Hosts
  <2>7. Hosts(env) \cap Running' = {}
    <3>1. born \in Nat /\ Hosts(env) \subseteq Int
      BY MaxInstAssumption DEF TypeOK, CloudOK, ScriptOK, Beds, Hosts
    <3> QED BY <2>5, <3>1, RecordedAreBorn
  <2> QED BY <2>1, <2>6, <2>7 DEF LossInv, OnlyKnownLosses, Hosts
<1>2. CASE LaunchValkey
  <2>0. SUFFICES ASSUME ~lost' PROVE LossInv'
    BY DEF LossInv, OnlyKnownLosses
  <2>1. /\ pc = "valkey" /\ pc' = "resolve" /\ env' = env /\ lost' = lost
        /\ got' = [got EXCEPT !.v = born + 1] /\ got.v = 0 /\ got \in Beds
    BY <1>2, <2>0 DEF LaunchValkey, BedInv, ScriptInv, TypeOK, ScriptOK
  <2>2. got'.a = got.a /\ got'.b = got.b /\ got'.v = born + 1
    BY <2>1 DEF Beds
  <2>3. Running' = Running \cup {born + 1}
    BY <1>2, ValkeyFacts
  <2>4. ~lost => Hosts(env) \cap Running' = {}
    <3>1. born \in Nat /\ Hosts(env) \subseteq Int
      BY MaxInstAssumption DEF TypeOK, CloudOK, ScriptOK, Beds, Hosts
    <3> QED BY <2>1, <2>3, <3>1, RecordedAreBorn DEF LossInv
  <2>5. ~lost => Running' \subseteq Hosts(env) \cup Hosts(got')
    BY <1>0, <2>1, <2>2, <2>3 DEF LossInv, OnlyKnownLosses, Hosts
  <2> QED BY <2>1, <2>4, <2>5 DEF LossInv, OnlyKnownLosses, Hosts
<1>3. CASE Teardown \/ \E i \in Ids : ShutsDown(i)
  <2>1. /\ \E ids : inst' = Gone(ids)
        /\ env' = env /\ lost' = lost
        /\ (pc' = pc /\ got' = got) \/ (pc = "teardown" /\ pc' = "idle")
    BY <1>3 DEF Teardown, Returns, ShutsDown, script
  <2>2. Running' \subseteq Running
    BY <2>1, GoneFacts
  <2> QED BY <2>1, <2>2 DEF LossInv, OnlyKnownLosses, Hosts
<1>4. CASE Throws
  <2>1. /\ Running' = Running /\ env' = env /\ pc' = "idle"
        /\ lost' = (lost \/ (pc \in {"valkey", "resolve"} /\ Hosts(got) \cap Running # {}))
    BY <1>4 DEF Throws, Returns, cloud, Running
  <2> QED BY <2>1 DEF LossInv, OnlyKnownLosses, Hosts
<1>5. CASE WriteEnv
  <2>1. Running' = Running /\ env' = got /\ pc = "resolve" /\ pc' = "tiers" /\ lost' = lost
    BY <1>5 DEF WriteEnv, cloud, Running
  <2> QED BY <2>1 DEF LossInv, OnlyKnownLosses, Hosts
<1>6. CASE Chooses \/ (Works /\ ~Throws /\ ~WriteEnv /\ ~Teardown)
  <2>1. /\ inst' = inst /\ env' = env /\ lost' = lost
        /\ pc \notin {"valkey", "resolve"} /\ pc' \notin {"valkey", "resolve"}
    BY <1>6 DEF Chooses, Operator, Start, StartTiersByHand, StartTeardown, CheckEnv, Placement,
       NoCapacity, StartTiers, MatrixRuns, Works, UploadKit, UploadThrows, SetupHost, Finish,
       Returns, cloud, script, TypeOK, ScriptOK
  <2> QED BY <2>1 DEF LossInv, OnlyKnownLosses, Hosts, Running
<1>7. CASE UNCHANGED vars
  BY <1>7 DEF vars, cloud, script, LossInv, OnlyKnownLosses, Hosts, Running
<1> QED BY <1>1, <1>2, <1>3, <1>4, <1>5, <1>6, <1>7 DEF Next, ScriptStep, Chooses, Works

\* Whatever fails and whenever a host shuts down, a running host is recorded, about to
\* be, or was lost in one of the two known ways.
THEOREM LossesAreKnown == Spec => []OnlyKnownLosses
<1>1. Init => LossInv
  BY DEF Init, LossInv, OnlyKnownLosses, Running, Unborn
<1>2. TypeOK /\ BedInv /\ LossInv /\ [Next]_vars => LossInv'
  BY NextLoss
<1>3. LossInv => OnlyKnownLosses
  BY DEF LossInv
<1> QED BY <1>1, <1>2, <1>3, BedAlways, PTL DEF Spec

-----------------------------------------------------------------------------
(* Setup.                                                                   *)

\* Every step keeps the account of what is set up.
LEMMA NextSetup ==
    ASSUME TypeOK, BedInv, SetupInv, [Next]_vars PROVE SetupInv'
<1>1. CASE LaunchGpuPair \/ LaunchValkey
  BY <1>1 DEF LaunchGpuPair, LaunchValkey, Returns, SetupInv
<1>2. CASE Teardown \/ \E i \in Ids : ShutsDown(i)
  <2>1. PICK ids : inst' = Gone(ids) /\ installed' = installed \ ids /\ kit' = kit \ ids
    BY <1>2 DEF Teardown, ShutsDown
  <2>2. Running' = Running \ ids
    BY <2>1, GoneFacts
  <2>3. /\ env' = env
        /\ (UNCHANGED <<pc, got, job, attempt>>) \/ (pc' = "idle" /\ got' = NoBed)
    BY <1>2 DEF Teardown, Returns, ShutsDown, script
  <2> QED BY <2>1, <2>2, <2>3 DEF SetupInv, Hosts
<1>3. CASE UploadKit
  <2>1. /\ pc = "upload" /\ attempt \in 1..2 /\ Running' = Running /\ env' = env
        /\ kit' = kit \cup {GpuOrder[attempt]}
    BY <1>3 DEF UploadKit, TypeOK, ScriptOK, cloud, Running
  <2>2. CASE attempt = 2 /\ job.stage = "deploy"
    BY <1>3, <2>2 DEF UploadKit, Returns, SetupInv
  <2>3. CASE ~(attempt = 2 /\ job.stage = "deploy")
    <3>1. /\ pc' = IF attempt < 2 THEN "upload" ELSE "setup"
          /\ attempt' = IF attempt < 2 THEN attempt + 1 ELSE 1
          /\ UNCHANGED <<job, got>>
      BY <1>3, <2>3 DEF UploadKit
    <3>2. GpuOrder[1] = env.a /\ GpuOrder[2] = env.b
      BY DEF GpuOrder
    <3>3. CASE attempt = 1
      BY <2>1, <3>1, <3>2, <3>3 DEF SetupInv
    <3>4. CASE attempt = 2
      BY <2>1, <3>1, <3>2, <3>4 DEF SetupInv
    <3> QED BY <2>1, <3>3, <3>4
  <2> QED BY <2>2, <2>3
<1>4. CASE SetupHost
  <2>1. /\ pc = "setup" /\ attempt \in 1..3 /\ Running' = Running
        /\ UNCHANGED <<kit, env, job, got>>
        /\ installed' = installed \cup {SetupOrder[attempt]}
        /\ attempt' = IF attempt < 3 THEN attempt + 1 ELSE 1
        /\ pc' = IF attempt < 3 THEN "setup" ELSE IF job.stage = "setup" THEN "finish" ELSE "matrix"
    BY <1>4 DEF SetupHost, TypeOK, ScriptOK, cloud, Running
  <2>2. SetupOrder[1] = env.v /\ SetupOrder[2] = env.a /\ SetupOrder[3] = env.b
    BY DEF SetupOrder
  <2>3. CASE attempt = 1
    BY <2>1, <2>2, <2>3 DEF SetupInv
  <2>4. CASE attempt = 2
    BY <2>1, <2>2, <2>4 DEF SetupInv
  <2>5. CASE attempt = 3
    BY <2>1, <2>2, <2>5 DEF SetupInv, Hosts
  <2> QED BY <2>1, <2>3, <2>4, <2>5
<1>5. CASE StartTiers
  BY <1>5 DEF StartTiers, SetupInv
<1>6. CASE Chooses /\ ~StartTiers
  BY <1>6 DEF Chooses, Operator, Start, StartTiersByHand, StartTeardown, CheckEnv, SkipSetup,
     Placement, Returns, NoCapacity, MatrixRuns, SetupInv, BedInv, ScriptInv, cloud, hosts, script,
     TypeOK, ScriptOK
<1>7. CASE Throws \/ UploadThrows \/ Finish \/ WriteEnv
  BY <1>7 DEF Throws, UploadThrows, Finish, Returns, WriteEnv, SetupInv, script
<1>8. CASE UNCHANGED vars
  BY <1>8 DEF vars, cloud, hosts, script, SetupInv, Running, Hosts
<1> QED BY <1>1, <1>2, <1>3, <1>4, <1>5, <1>6, <1>7, <1>8 DEF Next, ScriptStep, Chooses

\* A new bed is never measured before it is set up.
THEOREM FreshBedsAreSetUp == Spec => []FreshBedIsSetUp
<1>1. Init => SetupInv
  BY DEF Init, SetupInv
<1>2. TypeOK /\ BedInv /\ SetupInv /\ [Next]_vars => SetupInv'
  BY NextSetup
<1>3. SetupInv => FreshBedIsSetUp
  BY DEF SetupInv, FreshBedIsSetUp
<1> QED BY <1>1, <1>2, <1>3, BedAlways, PTL DEF Spec
=============================================================================
