-------------------------- MODULE Migration_proofs --------------------------
(***************************************************************************)
(* Proofs about Migration, for any networks, deployments, runs and page    *)
(* sizes: its type invariant, that a stopped run has a guarded start in    *)
(* its place, that no run is replaced twice, and that a migration that     *)
(* nothing disturbed leaves out nothing but what others moved over the end *)
(* of the pages it had read.                                               *)
(***************************************************************************)
EXTENDS Migration, TLAPS, FiniteSetTheorems

(* Where a run is worked on.                                               *)
RunSteps == {"add", "start", "save", "rollback", "stop", "mark", "unguard"}
WorksOn(r) == job.pc \in RunSteps /\ job.run = r

(* One that is worked on is a run.                                         *)
RunIsTaken == job.pc \in RunSteps => job.run \in Runs

TypeInv == TypeOK /\ RunIsTaken

-----------------------------------------------------------------------------
(* The invariant behind StoppedAreGuarded and ReplacedOnce.                *)

Here(d) == NetworkOf[d] = job.network

PlaceOf(d) == Place(d, DeploymentList(job.network), DeploymentId)
PlaceOfDefinition(d) == Place(d, DefinitionList(job.network), DefinitionId)
PlaceOfRun(r) == Place(r, InstanceList(job.network), InstanceId)

(* What nothing moved between the pages is met once: what was met is in    *)
(* front of the next page.                                                 *)
DeploymentsOnce ==
    /\ \A d \in Deployments : job.deployments[d] > 0 \/ d \in job.batch => Here(d)
    /\ job.pc = "deployments" => job.batch = {}
    /\ job.pc = "metadata" => job.offset = 0
    /\ \A d \in Deployments \ moved.deployment :
          /\ job.deployments[d] \in {0, 1}
          /\ job.pc = "visit" /\ d \in job.batch => job.deployments[d] = 0
          /\ ReadsDeployments /\ (job.deployments[d] = 1 \/ d \in job.batch) => PlaceOf(d) < job.offset

ReadsDefinitions == {"deployments", "visit", "metadata", "definitions"}

InstancesOnce ==
    /\ \A r \in Runs : job.pc \in ReadsDefinitions => job.instances[r] = 0
    /\ \A r \in Runs : job.instances[r] > 0 => Here(DeploymentOf[r])
    /\ \A r \in Runs \ moved.instance :
          /\ job.instances[r] \in {0, 1} /\ job.runs[r] \in {0, 1}
          /\ WorksOn(r) => job.runs[r] = 0
          /\ At("instances") /\ job.instances[r] = 1 => PlaceOfRun(r) < job.offset

(* Only deployments without a guard wait to be guarded.                    *)
WaitingUnguarded ==
    \A d \in Deployments \ moved.deployment : job.deployments[d] > 0 => info[d] = "none"

(* A user deleted the deployment of the run, or it may be met twice.       *)
Deleted(r) == DeploymentOf[r] \in deleted \cap touched.deployment /\ NewKey(r) \in cleared
Excused(r) == Deleted(r) \/ Moved(r)

(* The runs of a deployment wait from its guard on.                        *)
RunsOfGuarded ==
    \A r \in Runs : job.runs[r] > 0 \/ WorksOn(r) => info[DeploymentOf[r]] # "none" \/ Deleted(r)

(* The old run has neither a start in its place nor been stopped.          *)
Waits(r) ==
    info[DeploymentOf[r]] = "none" \/ job.runs[r] > 0 \/ (job.pc \in {"add", "start"} /\ job.run = r)

WaitingUntouched ==
    \A r \in Runs : Waits(r) => (starts[r] = 0 /\ r \notin stopped) \/ Excused(r)

(* The guard is there before the start, the start before the stop.         *)
StartsAreGuarded ==
    /\ job.pc \in {"start", "save", "stop"} => NewKey(job.run) \in guards \cup cleared
    /\ job.pc \in {"save", "stop"} => starts[job.run] > 0
    /\ job.pc \in {"save", "stop", "rollback"} => job.run \notin stopped \/ Excused(job.run)

StartCore ==
    /\ WaitingUnguarded
    /\ RunsOfGuarded
    /\ WaitingUntouched
    /\ StartsAreGuarded
    /\ StoppedAreGuarded
    /\ ReplacedOnce

GuardCore == DeploymentsOnce /\ InstancesOnce /\ StartCore

GuardInv == TypeInv /\ GuardCore

-----------------------------------------------------------------------------
(* The invariant behind Migrated: what a migration has done so far that    *)
(* nothing has disturbed.                                                  *)

CleanSoFar == clean /\ ~job.failed

(* What has been read of the network: pc by pc.                            *)
AfterDeployments == {"metadata", "definitions", "instances", "guard", "runs"} \cup RunSteps
AfterMetadata == AfterDeployments \ {"metadata"}
AfterDefinitions == AfterMetadata \ {"definitions"}
AfterInstances == AfterDefinitions \ {"instances"}

(* What was not met yet is behind the pages read.                          *)
DeploymentsRead ==
    \A d \in Deployments : Known(d) /\ Here(d) /\ info[d] = "none" =>
        /\ job.pc \in AfterDeployments => job.deployments[d] > 0
        /\ job.pc \in {"deployments", "visit"} =>
              \/ job.deployments[d] > 0
              \/ job.pc = "visit" /\ d \in job.batch
              \/ ReadsDeployments /\ PlaceOf(d) >= job.offset

MetadataRead ==
    \A d \in Deployments : Known(d) =>
        /\ job.pc \in {"deployments", "visit", "metadata"} => job.models[d] \in {"none", metadata[d]}
        /\ job.pc \in AfterMetadata /\ job.deployments[d] > 0 => job.models[d] = metadata[d]

DefinitionsRead ==
    \A d \in defined \ (touched.definition \cup moved.definition) : job.deployments[d] > 0 =>
        /\ job.pc = "definitions" => d \in job.defs \/ PlaceOfDefinition(d) >= job.offset
        /\ job.pc \in AfterDefinitions => d \in job.defs

InstancesRead ==
    \A r \in Runs : Needed(r) /\ job.deployments[DeploymentOf[r]] > 0 =>
        /\ job.pc = "instances" => job.instances[r] > 0 \/ PlaceOfRun(r) >= job.offset
        /\ job.pc \in AfterInstances => job.instances[r] > 0

(* What waits to be replaced is still there, unless others ended it.       *)
FoundExist ==
    \A r \in Runs \ touched.instance :
        job.instances[r] > 0 \/ job.runs[r] > 0 \/ WorksOn(r) => instance[r] \in {"running", "deleting"}

(* The networks that are through have guards.                              *)
Through(n) ==
    \/ job.pc = "done"
    \/ job.pc = "network" /\ n \notin job.todo
    \/ job.pc \in AfterDeployments \cup {"deployments", "visit"} /\ n \notin job.todo \cup {job.network}

ThroughGuarded == \A d \in Deployments : Known(d) /\ Through(NetworkOf[d]) => info[d] # "none"

Guards(d) == info[d] = IF metadata[d] = "none" THEN "empty" ELSE "model"

GuardsAreRight == \A d \in Deployments : Known(d) => info[d] = "none" \/ Guards(d)

(* A run the migration has to replace, and how far it is.                  *)
BeingReplaced(r) ==
    /\ WorksOn(r)
    /\ job.pc \in {"save", "stop", "mark"} => starts[r] = 1
    /\ job.pc = "mark" => r \in stopped

RunsAreReplaced ==
    \A r \in Runs : Needed(r) /\ info[DeploymentOf[r]] # "none" =>
        Replaced(r) \/ job.runs[r] > 0 \/ BeingReplaced(r)

AtRuns == {"runs"} \cup RunSteps

NothingLeft == job.pc \notin AtRuns => \A r \in Runs : job.runs[r] = 0

(* What is through with an error is not "done".                            *)
DoneDidNotFail == At("done") => ~job.failed

ReadSoFar == DeploymentsRead /\ MetadataRead /\ DefinitionsRead /\ InstancesRead

CleanCore == ReadSoFar /\ ThroughGuarded /\ GuardsAreRight /\ RunsAreReplaced /\ NothingLeft

MigratedCore == DoneDidNotFail /\ FoundExist /\ (CleanSoFar => CleanCore)

MigratedInv == GuardInv /\ MigratedCore

-----------------------------------------------------------------------------
(* Pages                                                                   *)

(* What is numbered has a first one.                                       *)
LEMMA First ==
    ASSUME NEW T, NEW id \in [T -> Nat], T # {}
    PROVE  \E x \in T : \A y \in T : id[x] <= id[y]
<1> DEFINE ids == {id[x] : x \in T}
           less == {p \in Nat \X Nat : p[1] < p[2]}
<1>1. IsWellFoundedOn(less, Nat)
  <2>1. less = OpToRel(<, Nat)
    BY DEF OpToRel
  <2> QED BY <2>1, NatLessThanWellFounded
<1>2. ids \subseteq Nat /\ ids # {}
  OBVIOUS
<1>3. PICK m \in ids : \A n \in ids : <<n, m>> \notin less
  <2> HIDE DEF ids, less
  <2> QED BY <1>1, <1>2, WFMin
<1>4. PICK x \in T : m = id[x]
  OBVIOUS
<1>5. \A y \in T : id[x] <= id[y]
  <2> TAKE y \in T
  <2>1. id[y] \in ids /\ id[y] \in Nat /\ m \in Nat
    BY <1>2
  <2>2. <<id[y], m>> \notin less
    BY <1>3, <2>1
  <2> QED BY <1>4, <2>1, <2>2
<1> QED BY <1>5

LEMMA PlaceType ==
    ASSUME NEW S, IsFiniteSet(S), NEW id, NEW x
    PROVE  Place(x, S, id) \in Nat
<1>1. IsFiniteSet({y \in S : id[y] < id[x]})
  BY FS_Subset
<1> QED BY <1>1, FS_CardinalityType DEF Place

(* Places follow the order.                                                *)
LEMMA PlaceGrows ==
    ASSUME NEW S, IsFiniteSet(S), NEW id \in [S -> Nat], NEW x \in S, NEW y \in S, id[x] < id[y]
    PROVE  Place(x, S, id) < Place(y, S, id)
<1> DEFINE A == {z \in S : id[z] < id[x]}
           B == {z \in S : id[z] < id[y]}
<1>1. A \in SUBSET B /\ A # B
  <2>1. x \in B /\ x \notin A
    OBVIOUS
  <2> QED BY <2>1
<1>2. IsFiniteSet(B)
  BY FS_Subset
<1>3. Cardinality(A) <= Cardinality(B) /\ Cardinality(A) # Cardinality(B)
  <2> HIDE DEF A, B
  <2> QED BY <1>1, <1>2, FS_Subset
<1>4. Place(x, S, id) \in Nat /\ Place(y, S, id) \in Nat
  BY PlaceType
<1> QED BY <1>3, <1>4 DEF Place

(* A page that is not full is the last one. If something were behind it,   *)
(* then the first of that would have too few in front of it.               *)
LEMMA PageCovers ==
    ASSUME NEW U, IsFiniteSet(U), NEW S \in SUBSET U, NEW id, IsOrder(id, U), job.offset \in Nat,
           ~IsFull(Page(S, id)), NEW x \in S
    PROVE  Place(x, S, id) < job.offset + BatchSize
<1> DEFINE after == {y \in S : Place(y, S, id) >= job.offset + BatchSize}
           before == {y \in S : Place(y, S, id) < job.offset}
           P(y) == Place(y, S, id)
<1>0. /\ IsFiniteSet(S) /\ id \in [U -> Nat] /\ BatchSize \in Nat \ {0}
      /\ \A y \in S : P(y) \in Nat
      /\ \A y, z \in S : P(y) = P(z) => y = z
  <2>1. IsFiniteSet(S) /\ BatchSize \in Nat \ {0} /\ id \in [U -> Nat] /\ \A y, z \in U : id[y] = id[z] => y = z
    BY FS_Subset, BatchSizeAssumption DEF IsOrder
  <2>2. \A y \in S : P(y) \in Nat
    BY <2>1, PlaceType
  <2>3. ASSUME NEW y \in S, NEW z \in S, P(y) = P(z) PROVE y = z
    <3> DEFINE f == [w \in S |-> id[w]]
    <3>1. f \in [S -> Nat] /\ \A w \in S : f[w] = id[w]
      BY <2>1
    <3>2. \A w \in S : Place(w, S, f) = P(w)
      BY <3>1 DEF Place
    <3>3. f[y] \in Nat /\ f[z] \in Nat /\ P(y) \in Nat /\ P(z) \in Nat
      BY <2>2, <3>1
    <3>4. ~(f[y] < f[z]) /\ ~(f[z] < f[y])
      <4> HIDE DEF f, P
      <4>1. f[y] < f[z] => P(y) < P(z)
        BY <2>1, <3>1, <3>2, PlaceGrows
      <4>2. f[z] < f[y] => P(z) < P(y)
        BY <2>1, <3>1, <3>2, PlaceGrows
      <4> QED BY <2>3, <3>3, <4>1, <4>2
    <3>5. f[y] = f[z]
      <4> HIDE DEF f
      <4> QED BY <3>3, <3>4
    <3> QED BY <2>1, <3>1, <3>5
  <2> QED BY <2>1, <2>2, <2>3
<1>1. SUFFICES ASSUME after # {} PROVE FALSE
  <2>1. x \notin after
    BY <1>1
  <2> QED BY <1>0, <2>1
<1>2. PICK y \in after : \A z \in after : id[y] <= id[z]
  <2> DEFINE f == [w \in after |-> id[w]]
  <2>1. f \in [after -> Nat]
    BY <1>0
  <2>2. \E y \in after : \A z \in after : f[y] <= f[z]
    <3> HIDE DEF f, after
    <3> QED BY <1>1, <2>1, First
  <2> QED BY <2>2
<1>3. {z \in S : id[z] < id[y]} \subseteq before \cup Page(S, id)
  <2> SUFFICES ASSUME NEW z \in S, id[z] < id[y] PROVE z \in before \cup Page(S, id)
    OBVIOUS
  <2>1. id[z] \in Nat /\ id[y] \in Nat /\ P(z) \in Nat
    BY <1>0
  <2>2. z \notin after
    BY <1>2, <2>1
  <2> QED BY <1>0, <2>1, <2>2 DEF Page
<1>4. IsFiniteSet(before) /\ Cardinality(before) <= job.offset
  <2> DEFINE f == [z \in before |-> P(z)]
  <2>1. f \in Injection(before, 0 .. job.offset - 1)
    BY <1>0 DEF Injection, IsInjective
  <2>2. IsFiniteSet(0 .. job.offset - 1) /\ Cardinality(0 .. job.offset - 1) = job.offset
    <3>1. 0 \in Int /\ job.offset - 1 \in Int
      OBVIOUS
    <3>2. /\ IsFiniteSet(0 .. job.offset - 1)
          /\ Cardinality(0 .. job.offset - 1) = IF 0 > job.offset - 1 THEN 0 ELSE job.offset - 1 - 0 + 1
      BY <3>1, FS_Interval, Zenon
    <3> QED BY <3>2
  <2> HIDE DEF f, before
  <2> QED BY <2>1, <2>2, FS_Injection
<1>5. IsFiniteSet(Page(S, id)) /\ Cardinality(Page(S, id)) < BatchSize
  <2>1. IsFiniteSet(Page(S, id))
    BY <1>0, FS_Subset DEF Page
  <2> QED BY <1>0, <2>1, FS_CardinalityType DEF IsFull
<1>6. P(y) < job.offset + BatchSize
  <2> DEFINE C == before \cup Page(S, id)
             A == {z \in S : id[z] < id[y]}
  <2> HIDE DEF before, A
  <2>1. /\ IsFiniteSet(C)
        /\ Cardinality(C) = Cardinality(before) + Cardinality(Page(S, id)) - Cardinality(before \cap Page(S, id))
    BY <1>4, <1>5, FS_Union
  <2>2. Cardinality(before \cap Page(S, id)) \in Nat
    BY <1>4, FS_Subset, FS_CardinalityType
  <2>3. A \in SUBSET C
    BY <1>3 DEF A
  <2>4. Cardinality(A) <= Cardinality(C)
    <3> HIDE DEF C
    <3> QED BY <2>1, <2>3, FS_Subset
  <2>5. /\ Cardinality(A) \in Nat /\ Cardinality(before) \in Nat /\ Cardinality(Page(S, id)) \in Nat
        /\ IsFiniteSet(A)
    <3>1. IsFiniteSet(A)
      BY <2>1, <2>3, FS_Subset
    <3> QED BY <3>1, <1>4, <1>5, FS_CardinalityType
  <2>6. Cardinality(C) \in Nat
    BY <2>1, FS_CardinalityType
  <2>7. Cardinality(A) < job.offset + BatchSize
    <3> HIDE DEF C
    <3> QED BY <1>0, <1>4, <1>5, <2>1, <2>2, <2>4, <2>5, <2>6
  <2> QED BY <2>7 DEF Place, A
<1> QED BY <1>0, <1>2, <1>6
-----------------------------------------------------------------------------
(* Types                                                                   *)

LEMMA KeyTypes ==
    ASSUME NEW r \in Runs
    PROVE  OldKey(r) \in Keys /\ NewKey(r) \in Keys
BY DEF Keys

LEMMA EndedType == Ended \in Jobs /\ [Ended EXCEPT !.pc = "done"] \in Jobs
BY DEF Ended, Jobs

LEMMA InitType == Init => TypeInv
<1> SUFFICES ASSUME Init PROVE TypeInv
  OBVIOUS
<1>1. touched \in Marks /\ moved \in Marks
  BY DEF Init, NoMarks, Marks
<1>2. RunIsTaken
  BY DEF Init, RunIsTaken, RunSteps, Ended
<1> QED BY <1>1, <1>2, EndedType DEF Init, TypeInv, TypeOK

(* What a step keeps of the job.                                           *)
KeepsPlace == job'.todo = job.todo /\ job'.network = job.network /\ job'.failed = job.failed
KeepsPages == job'.offset = job.offset /\ job'.batch = job.batch /\ job'.full = job.full
KeepsDeployments == job'.deployments = job.deployments
KeepsFound ==
    /\ KeepsDeployments
    /\ job'.models = job.models /\ job'.defs = job.defs /\ job'.instances = job.instances
KeepsRuns == job'.runs = job.runs /\ job'.run = job.run
KeepsJob == KeepsPlace /\ KeepsPages /\ KeepsFound /\ KeepsRuns

(* The job goes on at another place.                                       *)
LEMMA GotoType ==
    ASSUME job \in Jobs,
           NEW pc \in {"known", "network", "deployments", "visit", "metadata", "definitions", "instances",
                       "guard", "runs", "add", "start", "save", "rollback", "stop", "mark", "unguard"},
           Goto(pc)
    PROVE  job' \in Jobs /\ job'.pc = pc /\ KeepsJob
BY DEF Goto, Jobs, KeepsJob, KeepsPlace, KeepsPages, KeepsDeployments, KeepsFound, KeepsRuns

LEMMA NetworkFailsType ==
    ASSUME job \in Jobs, NetworkFails
    PROVE  /\ job' \in Jobs /\ job'.pc = "network" /\ job'.failed
           /\ job'.todo = job.todo /\ job'.network = job.network
           /\ KeepsPages /\ KeepsFound /\ KeepsRuns
BY DEF NetworkFails, Jobs, KeepsPages, KeepsDeployments, KeepsFound, KeepsRuns

(* What the steps make of the job.                                         *)
LEMMA NextNetworkType ==
    ASSUME job \in Jobs, NextNetwork
    PROVE  /\ job' \in Jobs /\ job.pc = "network" /\ job'.pc = "deployments"
           /\ \E n \in job.todo : job'.network = n /\ job'.todo = job.todo \ {n}
           /\ job'.failed = job.failed /\ job'.offset = 0 /\ job'.batch = {} /\ job'.full = FALSE
           /\ job'.deployments = [d \in Deployments |-> 0] /\ job'.models = [d \in Deployments |-> "none"]
           /\ job'.defs = {} /\ job'.instances = [r \in Runs |-> 0] /\ job'.runs = [r \in Runs |-> 0]
<1>1. PICK n \in job.todo :
        job' = [Ended EXCEPT !.pc = "deployments", !.network = n, !.todo = job.todo \ {n}, !.failed = job.failed]
  BY DEF NextNetwork
<1>2. n \in Networks /\ job.todo \ {n} \in SUBSET Networks /\ job.failed \in BOOLEAN
  BY DEF Jobs
<1>3. job' \in Jobs
  BY <1>1, <1>2 DEF Ended, Jobs
<1> QED BY <1>1, <1>3 DEF NextNetwork, At, Ended

LEMMA MigrateToWardenType ==
    ASSUME job \in Jobs, MigrateToWarden \/ ListKnownFails \/ Crash
    PROVE  /\ job' \in Jobs /\ job'.pc \in {"ended", "done"} /\ job'.todo = {} /\ ~job'.failed
           /\ job'.batch = {}
           /\ job'.deployments = [d \in Deployments |-> 0]
           /\ job'.instances = [r \in Runs |-> 0] /\ job'.runs = [r \in Runs |-> 0]
           /\ MigrateToWarden => /\ job.pc = "network" /\ job.todo = {}
                                 /\ ~job.failed <=> job'.pc = "done"
           /\ ListKnownFails \/ Crash => job'.pc = "ended"
<1>1. job' \in {Ended, [Ended EXCEPT !.pc = "done"]}
  BY DEF MigrateToWarden, ListKnownFails, Crash
<1>2. MigrateToWarden => /\ job.pc = "network" /\ job.todo = {}
                         /\ job' = IF job.failed THEN Ended ELSE [Ended EXCEPT !.pc = "done"]
  BY DEF MigrateToWarden, At
<1>3. ListKnownFails \/ Crash => job' = Ended
  BY DEF ListKnownFails, Crash
<1>4. job' \in Jobs
  BY <1>1, EndedType
<1>5. /\ job'.pc \in {"ended", "done"} /\ job'.todo = {} /\ ~job'.failed /\ job'.batch = {}
      /\ job'.deployments = [d \in Deployments |-> 0]
      /\ job'.instances = [r \in Runs |-> 0] /\ job'.runs = [r \in Runs |-> 0]
  BY <1>1 DEF Ended
<1>6. Ended.pc = "ended" /\ [Ended EXCEPT !.pc = "done"].pc = "done"
  BY DEF Ended
<1> QED BY <1>2, <1>3, <1>4, <1>5, <1>6

LEMMA PageType ==
    /\ Page(DeploymentList(job.network), DeploymentId) \in SUBSET Deployments
    /\ Page(DefinitionList(job.network), DefinitionId) \subseteq defined
    /\ Page(InstanceList(job.network), InstanceId) \in SUBSET Runs
BY DEF Page, DeploymentList, DefinitionList, InstanceList

LEMMA ListDeploymentsType ==
    ASSUME job \in Jobs, ListDeployments
    PROVE  /\ job' \in Jobs /\ job.pc = "deployments" /\ job'.pc = "visit"
           /\ job'.batch = Page(DeploymentList(job.network), DeploymentId)
           /\ job'.full <=> IsFull(job'.batch)
           /\ job'.offset = job.offset + BatchSize
           /\ KeepsPlace /\ KeepsFound /\ KeepsRuns
<1> DEFINE page == Page(DeploymentList(job.network), DeploymentId)
<1>1. job' = [job EXCEPT !.pc = "visit", !.batch = page, !.full = IsFull(page), !.offset = @ + BatchSize]
  BY DEF ListDeployments
<1>2. page \in SUBSET Deployments /\ IsFull(page) \in BOOLEAN /\ BatchSize \in Nat
  BY PageType, BatchSizeAssumption DEF IsFull
<1> HIDE DEF page
<1>3. job' \in Jobs
  <2>1. job.offset \in Nat /\ job.offset + BatchSize \in Nat
    BY <1>2 DEF Jobs
  <2>2. ASSUME NEW offset \in Nat, NEW full, full = TRUE \/ full = FALSE,
               job' = [job EXCEPT !.pc = "visit", !.batch = page, !.full = full, !.offset = offset]
        PROVE  job' \in Jobs
    <3>1. CASE full = TRUE
      BY <1>2, <2>2, <3>1 DEF Jobs
    <3>2. CASE full = FALSE
      BY <1>2, <2>2, <3>2 DEF Jobs
    <3> QED BY <2>2, <3>1, <3>2
  <2> QED BY <1>1, <1>2, <2>1, <2>2
<1>4. job'.full = IsFull(page) /\ job'.batch = page
  BY <1>1 DEF Jobs
<1>5. KeepsPlace /\ KeepsFound /\ KeepsRuns /\ job'.pc = "visit" /\ job'.offset = job.offset + BatchSize
  BY <1>1 DEF Jobs, KeepsPlace, KeepsDeployments, KeepsFound, KeepsRuns
<1>6. job.pc = "deployments"
  BY DEF ListDeployments, At
<1> QED BY <1>3, <1>4, <1>5, <1>6 DEF page

LEMMA VisitType ==
    ASSUME job \in Jobs, Visit
    PROVE  /\ job' \in Jobs /\ job.pc = "visit" /\ job'.pc = "visit"
           /\ \E d \in job.batch :
                /\ job'.batch = job.batch \ {d}
                /\ job'.deployments =
                     [job.deployments EXCEPT ![d] = IF info[d] = "none" THEN @ + 1 ELSE @]
           /\ job'.offset = job.offset /\ job'.full = job.full
           /\ job'.models = job.models /\ job'.defs = job.defs /\ job'.instances = job.instances
           /\ KeepsPlace /\ KeepsRuns
<1>1. PICK d \in job.batch :
        job' = [job EXCEPT !.batch = @ \ {d}, !.deployments[d] = IF IsUnguarded(d) THEN @ + 1 ELSE @]
  BY DEF Visit
<1>2. job.pc = "visit"
  BY DEF Visit, At
<1>3. /\ job'.batch = job.batch \ {d}
      /\ job'.deployments = [job.deployments EXCEPT ![d] = IF info[d] = "none" THEN @ + 1 ELSE @]
  BY <1>1 DEF Jobs, IsUnguarded
<1>4. job'.deployments \in [Deployments -> Nat] /\ job'.batch \in SUBSET Deployments
  BY <1>3 DEF Jobs
<1>5. job' \in Jobs
  BY <1>1, <1>4 DEF Jobs
<1>6. /\ job'.pc = job.pc /\ job'.offset = job.offset /\ job'.full = job.full
      /\ job'.models = job.models /\ job'.defs = job.defs /\ job'.instances = job.instances
      /\ KeepsPlace /\ KeepsRuns
  BY <1>1 DEF Jobs, KeepsPlace, KeepsRuns
<1> QED BY <1>2, <1>3, <1>5, <1>6

LEMMA NextPageType ==
    ASSUME job \in Jobs, NextPage
    PROVE  /\ job' \in Jobs /\ job.pc = "visit" /\ job.batch = {} /\ job'.batch = {}
           /\ job.full => job'.pc = "deployments" /\ job'.offset = job.offset
           /\ ~job.full => job'.pc = (IF NoneFound THEN "network" ELSE "metadata") /\ job'.offset = 0
           /\ KeepsPlace /\ KeepsFound /\ KeepsRuns
BY DEF NextPage, Jobs, At, KeepsPlace, KeepsDeployments, KeepsFound, KeepsRuns

LEMMA CollectMetadataType ==
    ASSUME job \in Jobs, CollectMetadata, metadata \in [Deployments -> {"plain", "parameters", "none"}]
    PROVE  /\ job' \in Jobs /\ job.pc = "metadata" /\ job'.pc \in {"metadata", "definitions"}
           /\ \A d \in Deployments : job'.models[d] =
                IF job.deployments[d] > 0 /\ NetworkOf[d] = job.network /\ metadata[d] # "none"
                THEN metadata[d] ELSE job.models[d]
           /\ job'.defs = job.defs /\ job'.instances = job.instances
           /\ KeepsPlace /\ KeepsPages /\ KeepsDeployments /\ KeepsRuns
<1> DEFINE page == ListDeploymentMetadata(job.network)
           models == [d \in Deployments |->
                        IF job.deployments[d] > 0 /\ d \in page THEN metadata[d] ELSE job.models[d]]
<1>1. /\ job.pc = "metadata"
      /\ \E pc \in {"metadata", "definitions"} : job' = [job EXCEPT !.pc = pc, !.models = models]
  BY DEF CollectMetadata, At
<1>2. models \in [Deployments -> {"plain", "parameters", "none"}]
  BY DEF Jobs
<1>3. \A d \in Deployments : models[d] =
        IF job.deployments[d] > 0 /\ NetworkOf[d] = job.network /\ metadata[d] # "none"
        THEN metadata[d] ELSE job.models[d]
  BY DEF ListDeploymentMetadata
<1> HIDE DEF models
<1> QED BY <1>1, <1>2, <1>3 DEF Jobs, KeepsPlace, KeepsPages, KeepsDeployments, KeepsRuns

LEMMA CollectDefinitionsType ==
    ASSUME job \in Jobs, CollectDefinitions, defined \subseteq Deployments
    PROVE  LET page == Page(DefinitionList(job.network), DefinitionId) IN
           /\ job' \in Jobs /\ job.pc = "definitions"
           /\ IsFull(page) => job'.pc = "definitions" /\ job'.offset = job.offset + BatchSize
           /\ ~IsFull(page) => job'.pc = "instances" /\ job'.offset = 0
           /\ job'.defs = job.defs \cup {d \in page : job.deployments[d] > 0}
           /\ job'.batch = job.batch /\ job'.full = job.full
           /\ job'.models = job.models /\ job'.instances = job.instances
           /\ KeepsPlace /\ KeepsDeployments /\ KeepsRuns
<1> DEFINE page == Page(DefinitionList(job.network), DefinitionId)
           found == {d \in page : job.deployments[d] > 0}
<1>1. /\ job.pc = "definitions"
      /\ job' = [job EXCEPT !.pc = IF IsFull(page) THEN "definitions" ELSE "instances",
                            !.offset = IF IsFull(page) THEN @ + BatchSize ELSE 0,
                            !.defs = @ \cup found]
  BY DEF CollectDefinitions, At
<1>2. found \subseteq Deployments /\ BatchSize \in Nat
  BY PageType, BatchSizeAssumption
<1> HIDE DEF page, found
<1>3. job' \in Jobs
  <2>1. \E pc \in {"definitions", "instances"}, offset \in Nat, defs \in SUBSET Deployments :
          job' = [job EXCEPT !.pc = pc, !.offset = offset, !.defs = defs]
    <3>1. job.offset \in Nat /\ job.offset + BatchSize \in Nat /\ job.defs \cup found \in SUBSET Deployments
      BY <1>2 DEF Jobs
    <3> QED BY <1>1, <3>1
  <2> QED BY <1>2, <2>1 DEF Jobs
<1>4. /\ IsFull(page) => job'.pc = "definitions" /\ job'.offset = job.offset + BatchSize
      /\ ~IsFull(page) => job'.pc = "instances" /\ job'.offset = 0
      /\ job'.defs = job.defs \cup found
      /\ job'.batch = job.batch /\ job'.full = job.full
      /\ job'.models = job.models /\ job'.instances = job.instances
      /\ KeepsPlace /\ KeepsDeployments /\ KeepsRuns
  BY <1>1 DEF Jobs, KeepsPlace, KeepsDeployments, KeepsRuns
<1> QED BY <1>1, <1>3, <1>4 DEF page, found

LEMMA CollectInstancesType ==
    ASSUME job \in Jobs, CollectInstances
    PROVE  LET page == Page(InstanceList(job.network), InstanceId) IN
           /\ job' \in Jobs /\ job.pc = "instances"
           /\ job'.pc = IF IsFull(page) THEN "instances" ELSE "guard"
           /\ job'.offset = job.offset + BatchSize
           /\ \A r \in Runs : job'.instances[r] =
                IF r \in page /\ ToReplace(r) THEN job.instances[r] + 1 ELSE job.instances[r]
           /\ job'.batch = job.batch /\ job'.full = job.full
           /\ job'.models = job.models /\ job'.defs = job.defs
           /\ KeepsPlace /\ KeepsDeployments /\ KeepsRuns
<1> DEFINE page == Page(InstanceList(job.network), InstanceId)
           instances == [r \in Runs |->
                           IF r \in page /\ ToReplace(r) THEN job.instances[r] + 1 ELSE job.instances[r]]
<1>1. /\ job.pc = "instances"
      /\ job' = [job EXCEPT !.pc = IF IsFull(page) THEN "instances" ELSE "guard",
                            !.offset = @ + BatchSize, !.instances = instances]
  BY DEF CollectInstances, At
<1>2. instances \in [Runs -> Nat] /\ BatchSize \in Nat
  BY BatchSizeAssumption DEF Jobs
<1>3. \A r \in Runs : instances[r] =
        IF r \in page /\ ToReplace(r) THEN job.instances[r] + 1 ELSE job.instances[r]
  OBVIOUS
<1> HIDE DEF page, instances
<1>4. job' \in Jobs
  <2>1. \E pc \in {"instances", "guard"}, offset \in Nat :
          job' = [job EXCEPT !.pc = pc, !.offset = offset, !.instances = instances]
    <3>1. job.offset \in Nat /\ job.offset + BatchSize \in Nat
      BY <1>2 DEF Jobs
    <3> QED BY <1>1, <3>1
  <2> QED BY <1>2, <2>1 DEF Jobs
<1>5. /\ job'.pc = IF IsFull(page) THEN "instances" ELSE "guard"
      /\ job'.offset = job.offset + BatchSize /\ job'.instances = instances
      /\ job'.batch = job.batch /\ job'.full = job.full
      /\ job'.models = job.models /\ job'.defs = job.defs
      /\ KeepsPlace /\ KeepsDeployments /\ KeepsRuns
  BY <1>1 DEF Jobs, KeepsPlace, KeepsDeployments, KeepsRuns
<1> QED BY <1>1, <1>3, <1>4, <1>5 DEF page

(* It guards a deployment, or has guarded all of the network.              *)
GuardsOne(d) ==
    /\ job.deployments[d] > 0
    /\ info' = [info EXCEPT ![d] = IF job.models[d] = "none" THEN "empty" ELSE "model"]
    /\ job'.pc = "runs"
    /\ job'.deployments = [job.deployments EXCEPT ![d] = @ - 1]
    /\ job'.runs = RunsOf(d)
    /\ job'.models = job.models /\ job'.defs = job.defs /\ job'.instances = job.instances
    /\ KeepsPlace /\ KeepsPages

LEMMA AddDeploymentWardenType ==
    ASSUME job \in Jobs, AddDeploymentWarden
    PROVE  /\ job' \in Jobs /\ job.pc = "guard"
           /\ \/ NoneFound /\ job'.pc = "network" /\ KeepsJob /\ info' = info
              \/ \E d \in Deployments : GuardsOne(d)
<1>1. job.pc = "guard"
  BY DEF AddDeploymentWarden, At
<1>2. CASE NoneFound /\ Goto("network") /\ UNCHANGED info
  BY <1>1, <1>2, GotoType
<1>3. ASSUME NEW d \in Deployments, job.deployments[d] > 0,
             info' = [info EXCEPT ![d] = IF job.models[d] = "none" THEN "empty" ELSE "model"],
             job' = [job EXCEPT !.pc = "runs", !.deployments[d] = @ - 1, !.runs = RunsOf(d)]
      PROVE job' \in Jobs /\ GuardsOne(d)
  <2>1. RunsOf(d) \in [Runs -> Nat]
    BY DEF RunsOf, Jobs
  <2>2. job'.deployments = [job.deployments EXCEPT ![d] = @ - 1] /\ job'.deployments \in [Deployments -> Nat]
    BY <1>3 DEF Jobs
  <2> HIDE DEF RunsOf
  <2>3. job' \in Jobs
    BY <1>3, <2>1, <2>2 DEF Jobs
  <2> QED BY <1>3, <2>2, <2>3 DEF GuardsOne, Jobs, KeepsPlace, KeepsPages
<1> QED BY <1>1, <1>2, <1>3 DEF AddDeploymentWarden

(* It takes a run, or has replaced all of the deployment.                  *)
LEMMA NextRunType ==
    ASSUME job \in Jobs, NextRun
    PROVE  /\ job' \in Jobs /\ job.pc = "runs" /\ KeepsPlace /\ KeepsPages /\ KeepsFound
           /\ \/ (\A r \in Runs : job.runs[r] = 0) /\ job'.pc = "guard" /\ job'.runs = job.runs
              \/ \E r \in Runs : /\ job.runs[r] > 0 /\ job'.pc = "add" /\ job'.run = r
                                 /\ job'.runs = [job.runs EXCEPT ![r] = @ - 1]
<1>1. job.pc = "runs"
  BY DEF NextRun, At
<1>2. CASE (\A r \in Runs : job.runs[r] = 0) /\ Goto("guard")
  BY <1>1, <1>2, GotoType DEF KeepsJob, KeepsRuns
<1>3. ASSUME NEW r \in Runs, job.runs[r] > 0, job' = [job EXCEPT !.pc = "add", !.runs[r] = @ - 1, !.run = r]
      PROVE  /\ job' \in Jobs /\ KeepsPlace /\ KeepsPages /\ KeepsFound
             /\ job'.pc = "add" /\ job'.run = r /\ job'.runs = [job.runs EXCEPT ![r] = @ - 1]
  <2>1. job'.runs = [job.runs EXCEPT ![r] = @ - 1] /\ job'.runs \in [Runs -> Nat]
    BY <1>3 DEF Jobs
  <2>2. job' \in Jobs
    BY <1>3, <2>1 DEF Jobs
  <2> QED BY <1>3, <2>1, <2>2 DEF Jobs, KeepsPlace, KeepsPages, KeepsDeployments, KeepsFound
<1> QED BY <1>1, <1>2, <1>3 DEF NextRun

(* It works on a run.                                                      *)
RunAction ==
    \/ AddInstanceWarden \/ Start \/ SavePlaceholders \/ Stop \/ Mark \/ StartFails \/ StopFails

LEMMA RunActionType ==
    ASSUME job \in Jobs, RunIsTaken, RunAction
    PROVE  /\ job' \in Jobs /\ KeepsJob /\ job.run \in Runs /\ WorksOn(job.run)
           /\ AddInstanceWarden => job.pc = "add" /\ job'.pc = "start"
           /\ Start => /\ job.pc = "start"
                       /\ job'.pc = IF Startable(DeploymentOf[job.run]) THEN "save" ELSE "rollback"
           /\ SavePlaceholders => job.pc = "save" /\ job'.pc = "stop"
           /\ Stop => job.pc = "stop" /\ job'.pc = IF instance[job.run] = "none" THEN "runs" ELSE "mark"
           /\ Mark => job.pc = "mark" /\ job'.pc = "runs"
           /\ StartFails => job.pc \in {"start", "save"} /\ job'.pc = "rollback"
           /\ StopFails => job.pc \in {"stop", "mark"} /\ job'.pc = "unguard"
<1>1. job.pc \in {"add", "start", "save", "stop", "mark"}
  BY DEF RunAction, AddInstanceWarden, Start, SavePlaceholders, Stop, Mark, StartFails, StopFails, At
<1>2. job.run \in Runs /\ WorksOn(job.run)
  BY <1>1 DEF RunIsTaken, RunSteps, WorksOn
<1>3. /\ AddInstanceWarden => job.pc = "add" /\ Goto("start")
      /\ Start => /\ job.pc = "start"
                  /\ IF Startable(DeploymentOf[job.run]) THEN Goto("save") ELSE Goto("rollback")
      /\ SavePlaceholders => job.pc = "save" /\ Goto("stop")
      /\ Stop => job.pc = "stop" /\ (IF instance[job.run] = "none" THEN Goto("runs") ELSE Goto("mark"))
      /\ Mark => job.pc = "mark" /\ Goto("runs")
      /\ StartFails => job.pc \in {"start", "save"} /\ Goto("rollback")
      /\ StopFails => job.pc \in {"stop", "mark"} /\ Goto("unguard")
  BY DEF AddInstanceWarden, Start, SavePlaceholders, Stop, Mark, StartFails, StopFails, At
<1>4. \A pc \in {"start", "save", "rollback", "stop", "runs", "mark", "unguard"} :
        Goto(pc) => job' \in Jobs /\ job'.pc = pc /\ KeepsJob
  BY GotoType
<1> HIDE DEF Goto
<1>5. job' \in Jobs /\ KeepsJob
  BY <1>3, <1>4 DEF RunAction
<1> QED BY <1>2, <1>3, <1>4, <1>5

(* The steps of MigrateToWarden keep the types.                            *)
LEMMA StepsType ==
    ASSUME TypeInv, Steps \/ Failures
    PROVE  TypeInv'
<1>0. TypeOK /\ RunIsTaken /\ job \in Jobs
  BY DEF TypeInv, TypeOK
<1>1. CASE New \/ ListKnownNetworkIds
  <2>1. job' \in Jobs /\ job'.pc \in {"known", "network"}
    BY <1>0, <1>1, GotoType DEF New, ListKnownNetworkIds, Jobs
  <2> QED BY <1>0, <1>1, <2>1
          DEF New, ListKnownNetworkIds, stored, history, ofOthers, TypeInv, TypeOK, RunIsTaken, RunSteps
<1>2. CASE NextNetwork
  BY <1>0, <1>2, NextNetworkType
  DEF NextNetwork, stored, history, ofOthers, TypeInv, TypeOK, RunIsTaken, RunSteps
<1>3. CASE MigrateToWarden \/ ListKnownFails \/ Crash
  <2>1. clean' \in BOOLEAN /\ saving' \in {saving, Nothing}
    BY <1>0, <1>3 DEF MigrateToWarden, ListKnownFails, Crash, TypeOK
  <2> QED BY <1>0, <1>3, <2>1, MigrateToWardenType
          DEF MigrateToWarden, ListKnownFails, Crash, stored, ofOthers, TypeInv, TypeOK, RunIsTaken, RunSteps
<1>4. CASE ListDeployments \/ Visit \/ NextPage
  <2>1. job' \in Jobs /\ job'.pc \in {"visit", "deployments", "network", "metadata"}
    BY <1>0, <1>4, ListDeploymentsType, VisitType, NextPageType
  <2> QED BY <1>0, <1>4, <2>1
          DEF ListDeployments, Visit, NextPage, stored, history, ofOthers, TypeInv, TypeOK, RunIsTaken, RunSteps
<1>5. CASE CollectMetadata \/ CollectDefinitions \/ CollectInstances
  <2>1. job' \in Jobs /\ job'.pc \in {"metadata", "definitions", "instances", "guard"}
    BY <1>0, <1>5, CollectMetadataType, CollectDefinitionsType, CollectInstancesType DEF TypeOK
  <2> QED BY <1>0, <1>5, <2>1
          DEF CollectMetadata, CollectDefinitions, CollectInstances, stored, history, ofOthers,
              TypeInv, TypeOK, RunIsTaken, RunSteps
<1>6. CASE AddDeploymentWarden
  <2>1. info' \in [Deployments -> {"model", "empty", "none"}]
    BY <1>0, <1>6, AddDeploymentWardenType DEF GuardsOne, TypeOK
  <2>2. job' \in Jobs /\ job'.pc \in {"network", "runs"}
    BY <1>0, <1>6, AddDeploymentWardenType DEF GuardsOne
  <2> QED BY <1>0, <1>6, <2>1, <2>2
          DEF AddDeploymentWarden, history, ofOthers, TypeInv, TypeOK, RunIsTaken, RunSteps
<1>7. CASE NextRun
  <2>1. job' \in Jobs /\ (job'.pc = "guard" \/ job'.run \in Runs)
    BY <1>0, <1>7, NextRunType
  <2> QED BY <1>0, <1>7, <2>1
          DEF NextRun, stored, history, ofOthers, TypeInv, TypeOK, RunIsTaken, RunSteps
<1>8. CASE RunAction
  <2>1. job' \in Jobs /\ job.run \in Runs /\ job'.run \in Runs
    BY <1>0, <1>8, RunActionType DEF KeepsJob, KeepsRuns
  <2>2. /\ guards' \subseteq Keys /\ starts' \in [Runs -> Nat] /\ stopped' \subseteq Runs
        /\ instance' \in [Runs -> InstanceStates]
    BY <1>0, <1>8, <2>1, KeyTypes
    DEF RunAction, AddInstanceWarden, Start, SavePlaceholders, Stop, Mark, StartFails, StopFails,
        stored, history, TypeOK, InstanceStates
  <2> QED BY <1>0, <1>8, <2>1, <2>2
          DEF RunAction, AddInstanceWarden, Start, SavePlaceholders, Stop, Mark, StartFails, StopFails,
              stored, history, ofOthers, TypeInv, TypeOK, RunIsTaken
<1>9. CASE RollBack \/ Unguard
  <2>1. job.run \in Runs
    BY <1>0, <1>9 DEF RollBack, Unguard, At, RunIsTaken, RunSteps
  <2>2. job' \in Jobs /\ job'.pc = "network"
    BY <1>0, <1>9, NetworkFailsType DEF RollBack, Unguard
  <2> QED BY <1>0, <1>9, <2>1, <2>2, KeyTypes
          DEF RollBack, Unguard, history, ofOthers, TypeInv, TypeOK, RunIsTaken, RunSteps
<1>10. CASE ListFails \/ AddFails
  <2>1. job' \in Jobs /\ job'.pc = "network"
    BY <1>0, <1>10, NetworkFailsType DEF ListFails, AddFails
  <2> QED BY <1>0, <1>10, <2>1
          DEF ListFails, AddFails, stored, history, ofOthers, TypeInv, TypeOK, RunIsTaken, RunSteps
<1> QED
  BY <1>1, <1>2, <1>3, <1>4, <1>5, <1>6, <1>7, <1>8, <1>9, <1>10 DEF Steps, Failures, RunAction

(* What others write.                                                      *)
LEMMA RequestsType ==
    ASSUME TypeOK, Requests \/ Reports \/ SaveReported
    PROVE  /\ deployment' \in [Deployments -> DeploymentStates]
           /\ metadata' \in [Deployments -> {"plain", "parameters", "none"}]
           /\ defined' \subseteq Deployments
           /\ instance' \in [Runs -> InstanceStates]
           /\ info' \in [Deployments -> {"model", "empty", "none"}]
           /\ guards' \subseteq Keys
           /\ saving' \in ({"deployment"} \X Deployments) \cup ({"instance"} \X Runs) \cup {Nothing}
           /\ deleted' \subseteq Deployments
           /\ cleared' \subseteq Keys
<1> DEFINE Goal ==
           /\ deployment' \in [Deployments -> DeploymentStates]
           /\ metadata' \in [Deployments -> {"plain", "parameters", "none"}]
           /\ defined' \subseteq Deployments
           /\ instance' \in [Runs -> InstanceStates]
           /\ info' \in [Deployments -> {"model", "empty", "none"}]
           /\ guards' \subseteq Keys
           /\ saving' \in ({"deployment"} \X Deployments) \cup ({"instance"} \X Runs) \cup {Nothing}
           /\ deleted' \subseteq Deployments
           /\ cleared' \subseteq Keys
<1> SUFFICES Goal
  OBVIOUS
<1>1. ASSUME NEW d \in Deployments, ApiDeleteDeployment(d) PROVE Goal
  <2>1. /\ deployment' \in [Deployments -> DeploymentStates]
        /\ metadata' \in [Deployments -> {"plain", "parameters", "none"}]
        /\ info' \in [Deployments -> {"model", "empty", "none"}]
    BY <1>1 DEF ApiDeleteDeployment, TypeOK, DeploymentStates
  <2>2. instance' \in [Runs -> InstanceStates]
    BY <1>1 DEF ApiDeleteDeployment, TypeOK, InstanceStates
  <2>3. guards' \subseteq Keys /\ cleared' \subseteq Keys /\ deleted' \subseteq Deployments
    BY <1>1, KeyTypes DEF ApiDeleteDeployment, TypeOK
  <2> QED BY <1>1, <2>1, <2>2, <2>3 DEF ApiDeleteDeployment, TypeOK
<1>2. ASSUME NEW r \in Runs, ApiDeleteProcessInstance(r) PROVE Goal
  BY <1>2, KeyTypes DEF ApiDeleteProcessInstance, TypeOK
<1>3. ASSUME NEW d \in Deployments, UpdateDeployment(d) \/ DeleteDeployment(d) PROVE Goal
  <2>1. /\ deployment' \in [Deployments -> DeploymentStates]
        /\ metadata' \in [Deployments -> {"plain", "parameters", "none"}]
    BY <1>3 DEF UpdateDeployment, DeleteDeployment, Forgets, TypeOK, DeploymentStates
  <2> QED BY <1>3, <2>1 DEF UpdateDeployment, DeleteDeployment, TypeOK
<1>4. ASSUME NEW n \in Networks, NEW known \in SUBSET Deployments, DeleteUnknownDeployments(n, known) PROVE Goal
  <2>1. /\ deployment' \in [Deployments -> DeploymentStates]
        /\ metadata' \in [Deployments -> {"plain", "parameters", "none"}]
    BY <1>4 DEF DeleteUnknownDeployments, TypeOK, DeploymentStates
  <2> QED BY <1>4, <2>1 DEF DeleteUnknownDeployments, TypeOK
<1>5. ASSUME NEW d \in Deployments, UpdateProcessDefinition(d) \/ DeleteProcessDefinition(d) PROVE Goal
  <2>1. instance' \in [Runs -> InstanceStates]
    BY <1>5 DEF UpdateProcessDefinition, DeleteProcessDefinition, TypeOK, InstanceStates
  <2> QED BY <1>5, <2>1 DEF UpdateProcessDefinition, DeleteProcessDefinition, TypeOK
<1>6. ASSUME NEW n \in Networks, NEW known, DeleteUnknownProcessDefinitions(n, known) PROVE Goal
  BY <1>6 DEF DeleteUnknownProcessDefinitions, TypeOK
<1>7. ASSUME NEW r \in Runs, UpdateProcessInstance(r) PROVE Goal
  BY <1>7 DEF UpdateProcessInstance, TypeOK, InstanceStates
<1>8. ASSUME NEW gone, DeleteProcessInstances(gone) PROVE Goal
  BY <1>8 DEF DeleteProcessInstances, TypeOK, InstanceStates
<1>9. CASE SaveReported
  <2>1. /\ deployment' \in [Deployments -> DeploymentStates]
        /\ instance' \in [Runs -> InstanceStates]
    BY <1>9 DEF SaveReported, TypeOK, DeploymentStates, InstanceStates
  <2> QED BY <1>9, <2>1 DEF SaveReported, TypeOK
<1> HIDE DEF Goal
<1>10. CASE Requests
  BY <1>1, <1>2, <1>10 DEF Requests
<1>11. CASE Reports
  <2>1. CASE \E d \in Deployments : \/ UpdateDeployment(d) \/ DeleteDeployment(d)
                                   \/ UpdateProcessDefinition(d) \/ DeleteProcessDefinition(d)
    BY <1>3, <1>5, <2>1
  <2>2. CASE \E r \in Runs : UpdateProcessInstance(r) \/ DeleteProcessInstance(r)
    BY <1>7, <1>8, <2>2 DEF DeleteProcessInstance
  <2>3. ASSUME NEW n \in Networks, NEW known \in SUBSET Deployments,
               DeleteUnknownDeployments(n, known) \/ DeleteUnknownProcessDefinitions(n, known)
        PROVE  Goal
    BY <1>4, <1>6, <2>3
  <2>4. ASSUME NEW n \in Networks, NEW known \in SUBSET Runs, DeleteUnknownProcessInstances(n, known)
        PROVE  Goal
    BY <1>8, <2>4 DEF DeleteUnknownProcessInstances
  <2> QED BY <1>11, <2>1, <2>2, <2>3, <2>4 DEF Reports
<1> QED BY <1>9, <1>10, <1>11

LEMMA WithMarks ==
    ASSUME NEW marks \in Marks, NEW more \in Marks
    PROVE  /\ With(marks, more) \in Marks
           /\ With(marks, more).deployment = marks.deployment \cup more.deployment
           /\ With(marks, more).definition = marks.definition \cup more.definition
           /\ With(marks, more).instance = marks.instance \cup more.instance
<1>1. With(marks, more) = [deployment |-> marks.deployment \cup more.deployment,
                           definition |-> marks.definition \cup more.definition,
                           instance |-> marks.instance \cup more.instance]
  BY DEF With, Marks
<1> QED BY <1>1 DEF Marks

(* They touch what they write, and move what they move.                    *)
LEMMA OthersNotice ==
    ASSUME TypeInv, Others \/ Saves
    PROVE  /\ TypeInv'
           /\ UNCHANGED <<job, starts, stopped, refused, clean>>
           /\ touched'.deployment = touched.deployment \cup Written.deployment
           /\ touched'.definition = touched.definition \cup Written.definition
           /\ touched'.instance = touched.instance \cup Written.instance
           /\ moved'.deployment = moved.deployment \cup Shifted.deployment
           /\ moved'.definition = moved.definition \cup Shifted.definition
           /\ moved'.instance = moved.instance \cup Shifted.instance
<1>0. TypeOK /\ RunIsTaken /\ Noticed
  BY DEF TypeInv, Others, Saves
<1>1. Requests \/ Reports \/ SaveReported
  BY DEF Others, Saves
<1>2. Written \in Marks
  BY <1>0, <1>1, RequestsType DEF Written, Marks, TypeOK
<1>3. Shifted \in Marks
  BY DEF Shifted, Crossed, Marks
<1>4. touched \in Marks /\ moved \in Marks
  BY <1>0 DEF TypeOK
<1>5. touched' = With(touched, Written) /\ moved' = With(moved, Shifted)
  BY <1>0 DEF Noticed
<1>6. UNCHANGED <<job, starts, stopped, refused, clean>>
  BY <1>0 DEF Noticed
<1> HIDE DEF Written, Shifted
<1>7. touched' \in Marks /\ moved' \in Marks
  BY <1>2, <1>3, <1>4, <1>5, WithMarks
<1>8. TypeOK'
  BY <1>0, <1>1, <1>6, <1>7, RequestsType DEF TypeOK
<1>9. RunIsTaken'
  BY <1>0, <1>6 DEF RunIsTaken
<1> QED BY <1>2, <1>3, <1>4, <1>5, <1>6, <1>8, <1>9, WithMarks DEF TypeInv

LEMMA StutterType ==
    ASSUME TypeInv, UNCHANGED vars
    PROVE  TypeInv'
BY DEF vars, stored, history, ofOthers, TypeInv, TypeOK, RunIsTaken

LEMMA NextType == TypeInv /\ [Next]_vars => TypeInv'
BY StepsType, OthersNotice, StutterType DEF Next

(* The documents, the guards and the job keep their types, and what the    *)
(* migration works on is a run it took from the list (MigrateToWarden).    *)
THEOREM TypeCorrect == Spec => []TypeOK
<1>1. Init => TypeInv
  BY InitType
<1>2. TypeInv => TypeOK
  BY DEF TypeInv
<1> QED BY <1>1, <1>2, NextType, PTL DEF Spec

-----------------------------------------------------------------------------
(* Guarded starts                                                          *)

(* No run is found by the key of a start that replaces one, and who shares *)
(* the new key shares the old one.                                         *)
LEMMA KeysDiffer ==
    ASSUME NEW r \in Runs, NEW q \in Runs
    PROVE  /\ NewKey(r) # OldKey(q)
           /\ NewKey(r) = NewKey(q) => OldKey(r) = OldKey(q)
BY DEF NewKey, OldKey

(* The types of what the invariant speaks of.                              *)
LEMMA Fields ==
    ASSUME TypeInv
    PROVE  /\ job \in Jobs /\ job.batch \subseteq Deployments /\ job.offset \in Nat /\ job.full \in BOOLEAN
           /\ job.deployments \in [Deployments -> Nat] /\ job.defs \subseteq Deployments
           /\ job.models \in [Deployments -> {"plain", "parameters", "none"}]
           /\ job.instances \in [Runs -> Nat] /\ job.runs \in [Runs -> Nat]
           /\ job.todo \subseteq Networks /\ job.failed \in BOOLEAN
           /\ deployment \in [Deployments -> DeploymentStates]
           /\ metadata \in [Deployments -> {"plain", "parameters", "none"}] /\ defined \subseteq Deployments
           /\ instance \in [Runs -> InstanceStates]
           /\ info \in [Deployments -> {"model", "empty", "none"}]
           /\ starts \in [Runs -> Nat] /\ stopped \subseteq Runs
           /\ DeploymentOf \in [Runs -> Deployments] /\ NetworkOf \in [Deployments -> Networks]
           /\ BatchSize \in Nat \ {0} /\ clean \in BOOLEAN
           /\ RunIsTaken
BY DeploymentOfAssumption, NetworkOfAssumption, BatchSizeAssumption DEF TypeInv, TypeOK, Jobs

LEMMA PlaceTypes ==
    ASSUME TypeInv
    PROVE  /\ \A d : PlaceOf(d) \in Nat /\ PlaceOfDefinition(d) \in Nat
           /\ \A r : PlaceOfRun(r) \in Nat
<1>1. DeploymentList(job.network) \in SUBSET Deployments /\ DefinitionList(job.network) \in SUBSET Deployments
  BY Fields DEF DeploymentList, DefinitionList
<1>2. InstanceList(job.network) \in SUBSET Runs
  BY DEF InstanceList
<1>3. /\ IsFiniteSet(DeploymentList(job.network)) /\ IsFiniteSet(DefinitionList(job.network))
      /\ IsFiniteSet(InstanceList(job.network))
  BY <1>1, <1>2, FiniteAssumption, FS_Subset
<1> QED BY <1>3, PlaceType DEF PlaceOf, PlaceOfDefinition, PlaceOfRun

(* A page that is not full reaches to the end of its list.                 *)
LEMMA PagesCover ==
    ASSUME TypeInv
    PROVE  /\ ~IsFull(Page(DeploymentList(job.network), DeploymentId)) =>
                \A d \in DeploymentList(job.network) : PlaceOf(d) < job.offset + BatchSize
           /\ ~IsFull(Page(DefinitionList(job.network), DefinitionId)) =>
                \A d \in DefinitionList(job.network) : PlaceOfDefinition(d) < job.offset + BatchSize
           /\ ~IsFull(Page(InstanceList(job.network), InstanceId)) =>
                \A r \in InstanceList(job.network) : PlaceOfRun(r) < job.offset + BatchSize
<1>1. DeploymentList(job.network) \in SUBSET Deployments /\ DefinitionList(job.network) \in SUBSET Deployments
  BY Fields DEF DeploymentList, DefinitionList
<1>2. InstanceList(job.network) \in SUBSET Runs
  BY DEF InstanceList
<1>3. job.offset \in Nat
  BY Fields
<1> QED
  BY <1>1, <1>2, <1>3, FiniteAssumption, IdAssumption, PageCovers DEF PlaceOf, PlaceOfDefinition, PlaceOfRun

(* What is on a page.                                                      *)
LEMMA OnPages ==
    ASSUME TypeInv
    PROVE  /\ \A d \in Deployments : d \in Page(DeploymentList(job.network), DeploymentId) <=>
                /\ Here(d) /\ deployment[d] # "none"
                /\ PlaceOf(d) >= job.offset /\ PlaceOf(d) < job.offset + BatchSize
           /\ \A d \in Deployments : d \in Page(DefinitionList(job.network), DefinitionId) <=>
                /\ Here(d) /\ d \in defined
                /\ PlaceOfDefinition(d) >= job.offset /\ PlaceOfDefinition(d) < job.offset + BatchSize
           /\ \A r \in Runs : r \in Page(InstanceList(job.network), InstanceId) <=>
                /\ Here(DeploymentOf[r]) /\ instance[r] # "none"
                /\ PlaceOfRun(r) >= job.offset /\ PlaceOfRun(r) < job.offset + BatchSize
<1>1. job.offset \in Nat /\ BatchSize \in Nat
  BY Fields
<1>2. \A n \in Nat : n \in job.offset .. job.offset + BatchSize - 1 <=>
                     n >= job.offset /\ n < job.offset + BatchSize
  BY <1>1
<1>3. \A d \in Deployments : d \in Page(DeploymentList(job.network), DeploymentId) <=>
        d \in DeploymentList(job.network) /\ PlaceOf(d) \in job.offset .. job.offset + BatchSize - 1
  BY DEF Page, PlaceOf
<1>4. \A d \in Deployments : d \in Page(DefinitionList(job.network), DefinitionId) <=>
        d \in DefinitionList(job.network) /\ PlaceOfDefinition(d) \in job.offset .. job.offset + BatchSize - 1
  BY DEF Page, PlaceOfDefinition
<1>5. \A r \in Runs : r \in Page(InstanceList(job.network), InstanceId) <=>
        r \in InstanceList(job.network) /\ PlaceOfRun(r) \in job.offset .. job.offset + BatchSize - 1
  BY DEF Page, PlaceOfRun
<1>6. /\ \A d \in Deployments : d \in DeploymentList(job.network) <=> Here(d) /\ deployment[d] # "none"
      /\ \A d \in Deployments : d \in DefinitionList(job.network) <=> Here(d) /\ d \in defined
      /\ \A r \in Runs : r \in InstanceList(job.network) <=> Here(DeploymentOf[r]) /\ instance[r] # "none"
  BY DEF DeploymentList, DefinitionList, InstanceList, Here
<1> QED BY <1>2, <1>3, <1>4, <1>5, <1>6, PlaceTypes

(* What others leave alone keeps its documents and its place.              *)
LEMMA OthersLeave ==
    ASSUME TypeInv, Others \/ Saves
    PROVE  /\ \A d \in Deployments \ touched'.deployment :
                deployment'[d] = deployment[d] /\ metadata'[d] = metadata[d] /\ info'[d] = info[d]
           /\ \A d \in Deployments \ touched'.definition : d \in defined' <=> d \in defined
           /\ \A r \in Runs \ touched'.instance : instance'[r] = instance[r]
           /\ \A d \in Deployments \ moved'.deployment : ReadsDeployments /\ Here(d) =>
                (PlaceOf(d) < job.offset <=> PlaceOf(d)' < job.offset)
           /\ \A d \in Deployments \ moved'.definition : job.pc = "definitions" /\ Here(d) =>
                (PlaceOfDefinition(d) < job.offset <=> PlaceOfDefinition(d)' < job.offset)
           /\ \A r \in Runs \ moved'.instance : job.pc = "instances" /\ Here(DeploymentOf[r]) =>
                (PlaceOfRun(r) < job.offset <=> PlaceOfRun(r)' < job.offset)
           /\ touched.deployment \subseteq touched'.deployment /\ touched.definition \subseteq touched'.definition
           /\ touched.instance \subseteq touched'.instance
           /\ moved.deployment \subseteq moved'.deployment /\ moved.definition \subseteq moved'.definition
           /\ moved.instance \subseteq moved'.instance
<1>1. job' = job
  BY OthersNotice
<1>2. \A d \in Deployments \ touched'.deployment :
        deployment'[d] = deployment[d] /\ metadata'[d] = metadata[d] /\ info'[d] = info[d]
  BY OthersNotice DEF Written
<1>3. \A d \in Deployments \ touched'.definition : d \in defined' <=> d \in defined
  BY OthersNotice DEF Written
<1>4. \A r \in Runs \ touched'.instance : instance'[r] = instance[r]
  BY OthersNotice DEF Written
<1>5. ASSUME NEW d \in Deployments, d \notin moved'.deployment, ReadsDeployments, Here(d)
      PROVE  PlaceOf(d) < job.offset <=> PlaceOf(d)' < job.offset
  <2>1. d \notin Crossed({e \in Deployments : NetworkOf[e] = job.network},
                         DeploymentList(job.network), DeploymentList(job.network)', DeploymentId)
    BY <1>1, <1>5, OthersNotice DEF Shifted
  <2> QED BY <1>1, <1>5, <2>1 DEF Crossed, PlaceOf, Place, Here
<1>6. ASSUME NEW d \in Deployments, d \notin moved'.definition, job.pc = "definitions", Here(d)
      PROVE  PlaceOfDefinition(d) < job.offset <=> PlaceOfDefinition(d)' < job.offset
  <2>1. d \notin Crossed({e \in Deployments : NetworkOf[e] = job.network},
                         DefinitionList(job.network), DefinitionList(job.network)', DefinitionId)
    BY <1>1, <1>6, OthersNotice DEF Shifted, At
  <2> QED BY <1>1, <1>6, <2>1 DEF Crossed, PlaceOfDefinition, Place, Here
<1>7. ASSUME NEW r \in Runs, r \notin moved'.instance, job.pc = "instances", Here(DeploymentOf[r])
      PROVE  PlaceOfRun(r) < job.offset <=> PlaceOfRun(r)' < job.offset
  <2>1. r \notin Crossed({q \in Runs : DeploymentOf[q] \in {e \in Deployments : NetworkOf[e] = job.network}},
                         InstanceList(job.network), InstanceList(job.network)', InstanceId)
    BY <1>1, <1>7, OthersNotice DEF Shifted, At
  <2> QED BY <1>1, <1>7, <2>1, Fields DEF Crossed, PlaceOfRun, Place, Here
<1> QED BY <1>2, <1>3, <1>4, <1>5, <1>6, <1>7, OthersNotice

(* Steps that read no list.                                                *)
LEMMA OnceElsewhere ==
    ASSUME TypeInv, DeploymentsOnce, job' \in Jobs, job'.pc \notin {"deployments", "visit", "metadata"},
           job'.network = job.network, job'.batch = job.batch, moved' = moved,
           \A d \in Deployments : job'.deployments[d] <= job.deployments[d]
    PROVE  DeploymentsOnce'
<1>1. job.deployments \in [Deployments -> Nat] /\ job'.deployments \in [Deployments -> Nat]
  BY Fields DEF Jobs
<1>2. ~ReadsDeployments'
  BY DEF ReadsDeployments, At
<1>3. \A d \in Deployments : job'.deployments[d] > 0 \/ d \in job'.batch => Here(d)'
  BY <1>1 DEF DeploymentsOnce, Here
<1>4. \A d \in Deployments \ moved.deployment : job'.deployments[d] \in {0, 1}
  BY <1>1 DEF DeploymentsOnce
<1> QED BY <1>2, <1>3, <1>4 DEF DeploymentsOnce

LEMMA InstancesElsewhere ==
    ASSUME TypeInv, InstancesOnce, job' \in Jobs, job'.pc \notin ReadsDefinitions \cup {"instances"},
           job'.network = job.network, job'.instances = job.instances, moved' = moved,
           job'.pc \in RunSteps => job'.run = job.run /\ job.pc \in RunSteps,
           \A r \in Runs : job'.runs[r] <= job.runs[r]
    PROVE  InstancesOnce'
<1>1. job.runs \in [Runs -> Nat] /\ job'.runs \in [Runs -> Nat]
  BY Fields DEF Jobs
<1>2. \A r \in Runs : job'.instances[r] > 0 => Here(DeploymentOf[r])'
  BY DEF InstancesOnce, Here
<1>3. \A r \in Runs \ moved.instance :
        /\ job'.instances[r] \in {0, 1} /\ job'.runs[r] \in {0, 1}
        /\ WorksOn(r)' => job'.runs[r] = 0
  BY <1>1 DEF InstancesOnce, WorksOn
<1> QED BY <1>2, <1>3 DEF InstancesOnce, At

LEMMA NewOnce ==
    ASSUME job' \in Jobs, job'.batch = {}, job'.offset = 0 \/ job'.pc # "metadata",
           job'.pc \notin RunSteps,
           job'.deployments = [d \in Deployments |-> 0],
           job'.instances = [r \in Runs |-> 0], job'.runs = [r \in Runs |-> 0]
    PROVE  DeploymentsOnce' /\ InstancesOnce'
<1>1. DeploymentsOnce'
  BY DEF DeploymentsOnce
<1>2. InstancesOnce'
  BY DEF InstancesOnce, WorksOn
<1> QED BY <1>1, <1>2

(* The pages of deployments.                                               *)
LEMMA PagesOnce ==
    ASSUME TypeInv, DeploymentsOnce, InstancesOnce, ListDeployments \/ Visit \/ NextPage
    PROVE  DeploymentsOnce' /\ InstancesOnce'
<1> USE DEF stored, history, ofOthers
<1>0. job \in Jobs /\ job.deployments \in [Deployments -> Nat] /\ job.offset \in Nat /\ BatchSize \in Nat \ {0}
  BY Fields
<1>1. UNCHANGED <<deployment, moved>>
  BY DEF ListDeployments, Visit, NextPage
<1>2. KeepsPlace /\ KeepsRuns /\ job'.instances = job.instances /\ job' \in Jobs
  BY <1>0, ListDeploymentsType, VisitType, NextPageType DEF KeepsFound
<1>3. \A d \in Deployments : (Here(d) <=> Here(d)') /\ PlaceOf(d)' = PlaceOf(d)
  BY <1>1, <1>2 DEF Here, PlaceOf, Place, DeploymentList, KeepsPlace
<1>4. CASE ListDeployments
  <2>1. /\ job.pc = "deployments" /\ job'.pc = "visit" /\ job'.deployments = job.deployments
        /\ job'.offset = job.offset + BatchSize
        /\ job'.batch = Page(DeploymentList(job.network), DeploymentId)
    BY <1>0, <1>4, ListDeploymentsType DEF KeepsFound, KeepsDeployments
  <2>2. \A d \in Deployments : d \in job'.batch =>
          Here(d) /\ PlaceOf(d) >= job.offset /\ PlaceOf(d) < job'.offset
    BY <2>1, OnPages
  <2>3. ReadsDeployments
    BY <2>1 DEF ReadsDeployments, At
  <2>4. ASSUME NEW d \in Deployments, d \notin moved.deployment
        PROVE  /\ job'.deployments[d] \in {0, 1}
               /\ d \in job'.batch => job'.deployments[d] = 0
               /\ job'.deployments[d] = 1 \/ d \in job'.batch => PlaceOf(d) < job'.offset
    BY <1>0, <2>1, <2>2, <2>3, <2>4, PlaceTypes DEF DeploymentsOnce
  <2>5. \A d \in Deployments : job'.deployments[d] > 0 \/ d \in job'.batch => Here(d)
    BY <2>1, <2>2 DEF DeploymentsOnce
  <2>6. DeploymentsOnce'
    BY <1>1, <1>3, <2>1, <2>4, <2>5 DEF DeploymentsOnce
  <2>7. InstancesOnce'
    BY <1>1, <1>2, <2>1 DEF InstancesOnce, WorksOn, RunSteps, ReadsDefinitions, At, KeepsRuns, KeepsPlace, Here
  <2> QED BY <2>6, <2>7
<1>5. CASE Visit
  <2>1. PICK d \in job.batch :
          /\ job.pc = "visit" /\ job'.pc = "visit" /\ job'.batch = job.batch \ {d}
          /\ job'.deployments = [job.deployments EXCEPT ![d] = IF info[d] = "none" THEN @ + 1 ELSE @]
          /\ job'.offset = job.offset /\ job'.full = job.full
    BY <1>0, <1>5, VisitType
  <2>2. d \in Deployments /\ (ReadsDeployments' <=> ReadsDeployments)
    BY <2>1, Fields DEF ReadsDeployments, At
  <2>3. ASSUME NEW e \in Deployments, e \notin moved.deployment
        PROVE  /\ job'.deployments[e] \in {0, 1}
               /\ e \in job'.batch => job'.deployments[e] = 0
               /\ ReadsDeployments /\ (job'.deployments[e] = 1 \/ e \in job'.batch) => PlaceOf(e) < job.offset
    <3>1. CASE e = d
      BY <1>0, <2>1, <2>2, <2>3, <3>1 DEF DeploymentsOnce
    <3>2. CASE e # d
      BY <1>0, <2>1, <2>2, <2>3, <3>2 DEF DeploymentsOnce
    <3> QED BY <3>1, <3>2
  <2>4. \A e \in Deployments : job'.deployments[e] > 0 \/ e \in job'.batch => Here(e)
    BY <1>0, <2>1, <2>2 DEF DeploymentsOnce
  <2>5. DeploymentsOnce'
    BY <1>1, <1>3, <2>1, <2>2, <2>3, <2>4 DEF DeploymentsOnce
  <2>6. InstancesOnce'
    BY <1>1, <1>2, <2>1 DEF InstancesOnce, WorksOn, RunSteps, ReadsDefinitions, At, KeepsRuns, KeepsPlace, Here
  <2> QED BY <2>5, <2>6
<1>6. CASE NextPage
  <2>1. /\ job.pc = "visit" /\ job.batch = {} /\ job'.batch = {} /\ job'.deployments = job.deployments
        /\ job'.pc \in {"deployments", "network", "metadata"}
        /\ job'.pc = "deployments" => job.full /\ job'.offset = job.offset
        /\ job'.pc = "metadata" => job'.offset = 0
    BY <1>0, <1>6, NextPageType, Fields DEF KeepsFound, KeepsDeployments
  <2>2. ReadsDeployments' => ReadsDeployments /\ job'.offset = job.offset
    BY <2>1 DEF ReadsDeployments, At
  <2>3. DeploymentsOnce'
    BY <1>1, <1>3, <2>1, <2>2 DEF DeploymentsOnce
  <2>4. InstancesOnce'
    BY <1>1, <1>2, <2>1 DEF InstancesOnce, WorksOn, RunSteps, ReadsDefinitions, At, KeepsRuns, KeepsPlace, Here
  <2> QED BY <2>3, <2>4
<1> QED BY <1>4, <1>5, <1>6

(* The other lists.                                                        *)
LEMMA CollectOnce ==
    ASSUME TypeInv, DeploymentsOnce, InstancesOnce, CollectMetadata \/ CollectDefinitions \/ CollectInstances
    PROVE  DeploymentsOnce' /\ InstancesOnce'
<1> USE DEF stored, history, ofOthers
<1>0. /\ job \in Jobs /\ job.instances \in [Runs -> Nat] /\ job.offset \in Nat /\ BatchSize \in Nat \ {0}
      /\ job.deployments \in [Deployments -> Nat]
  BY Fields
<1>1. UNCHANGED <<instance, moved>>
  BY DEF CollectMetadata, CollectDefinitions, CollectInstances
<1>2. KeepsPlace /\ KeepsRuns /\ KeepsDeployments /\ job' \in Jobs /\ job'.batch = job.batch
  BY <1>0, CollectMetadataType, CollectDefinitionsType, CollectInstancesType, Fields DEF KeepsPages
<1>3. \A r \in Runs : (Here(DeploymentOf[r]) <=> Here(DeploymentOf[r])') /\ PlaceOfRun(r)' = PlaceOfRun(r)
  BY <1>1, <1>2 DEF Here, PlaceOfRun, Place, InstanceList, KeepsPlace
<1>4. CASE CollectMetadata
  <2>1. /\ job.pc = "metadata" /\ job'.pc \in {"metadata", "definitions"}
        /\ job'.instances = job.instances /\ job'.offset = job.offset
    BY <1>0, <1>4, CollectMetadataType, Fields DEF KeepsPages
  <2>2. DeploymentsOnce'
    BY <1>1, <1>2, <2>1 DEF DeploymentsOnce, ReadsDeployments, At, Here, KeepsPlace, KeepsDeployments
  <2>3. InstancesOnce'
    BY <1>1, <1>2, <2>1 DEF InstancesOnce, WorksOn, RunSteps, ReadsDefinitions, At, KeepsRuns, KeepsPlace, Here
  <2> QED BY <2>2, <2>3
<1>5. CASE CollectDefinitions
  <2>1. /\ job.pc = "definitions" /\ job'.pc \in {"definitions", "instances"} /\ job'.instances = job.instances
    BY <1>0, <1>5, CollectDefinitionsType, Fields
  <2>2. DeploymentsOnce'
    BY <1>0, <1>1, <1>2, <2>1, OnceElsewhere DEF KeepsPlace, KeepsDeployments
  <2>3. \A r \in Runs : job'.instances[r] = 0
    BY <2>1 DEF InstancesOnce, ReadsDefinitions
  <2>4. InstancesOnce'
    BY <1>1, <1>2, <2>1, <2>3 DEF InstancesOnce, WorksOn, RunSteps, KeepsRuns
  <2> QED BY <2>2, <2>4
<1>6. CASE CollectInstances
  <2>1. /\ job.pc = "instances" /\ job'.pc \in {"instances", "guard"} /\ job'.offset = job.offset + BatchSize
        /\ \A r \in Runs : job'.instances[r] =
             IF r \in Page(InstanceList(job.network), InstanceId) /\ ToReplace(r)
             THEN job.instances[r] + 1 ELSE job.instances[r]
    BY <1>0, <1>6, CollectInstancesType, Zenon
  <2>2. DeploymentsOnce'
    BY <1>0, <1>1, <1>2, <2>1, OnceElsewhere DEF KeepsPlace, KeepsDeployments
  <2>3. ASSUME NEW r \in Runs
        PROVE  /\ job'.instances[r] > 0 => Here(DeploymentOf[r])
               /\ r \notin moved.instance =>
                    /\ job'.instances[r] \in {0, 1}
                    /\ job'.instances[r] = 1 => PlaceOfRun(r) < job'.offset
    <3>1. job.instances[r] \in Nat /\ PlaceOfRun(r) \in Nat
      BY <1>0, PlaceTypes
    <3>2. r \notin moved.instance =>
            job.instances[r] \in {0, 1} /\ (job.instances[r] = 1 => PlaceOfRun(r) < job.offset)
      BY <2>1 DEF InstancesOnce, At
    <3>3. CASE r \in Page(InstanceList(job.network), InstanceId) /\ ToReplace(r)
      <4>1. Here(DeploymentOf[r]) /\ PlaceOfRun(r) >= job.offset /\ PlaceOfRun(r) < job.offset + BatchSize
        BY <3>3, OnPages
      <4>2. job'.instances[r] = job.instances[r] + 1
        BY <2>1, <3>3
      <4> QED BY <1>0, <2>1, <3>1, <3>2, <4>1, <4>2
    <3>4. CASE ~(r \in Page(InstanceList(job.network), InstanceId) /\ ToReplace(r))
      <4>1. job'.instances[r] = job.instances[r]
        BY <2>1, <3>4
      <4>2. job.instances[r] > 0 => Here(DeploymentOf[r])
        BY DEF InstancesOnce
      <4> QED BY <1>0, <2>1, <3>1, <3>2, <4>1, <4>2
    <3> QED BY <3>3, <3>4
  <2>4. InstancesOnce'
    BY <1>1, <1>2, <1>3, <2>1, <2>3 DEF InstancesOnce, WorksOn, RunSteps, ReadsDefinitions, KeepsRuns
  <2> QED BY <2>2, <2>4
<1> QED BY <1>4, <1>5, <1>6

(* A run waits at most once as well.                                       *)
LEMMA RunsOnce ==
    ASSUME TypeInv, DeploymentsOnce, InstancesOnce, AddDeploymentWarden \/ NextRun \/ RunAction
    PROVE  DeploymentsOnce' /\ InstancesOnce'
<1>0. /\ job \in Jobs /\ job.instances \in [Runs -> Nat] /\ job.runs \in [Runs -> Nat] /\ RunIsTaken
      /\ job.deployments \in [Deployments -> Nat]
  BY Fields
<1>1. moved' = moved
  BY DEF AddDeploymentWarden, NextRun, RunAction, AddInstanceWarden, Start, SavePlaceholders, Stop, Mark,
         StartFails, StopFails, history, ofOthers
<1>2. CASE AddDeploymentWarden
  <2>1. CASE NoneFound /\ job'.pc = "network" /\ KeepsJob
    BY <1>0, <1>1, <1>2, <2>1, AddDeploymentWardenType, OnceElsewhere, InstancesElsewhere
    DEF KeepsJob, KeepsPlace, KeepsPages, KeepsFound, KeepsDeployments, KeepsRuns, RunSteps, ReadsDefinitions
  <2>2. ASSUME NEW d \in Deployments, GuardsOne(d) PROVE DeploymentsOnce' /\ InstancesOnce'
    <3>1. /\ job' \in Jobs /\ job.pc = "guard" /\ job'.pc = "runs" /\ KeepsPlace /\ KeepsPages
          /\ job'.instances = job.instances
      BY <1>0, <1>2, <2>2, AddDeploymentWardenType DEF GuardsOne
    <3>2. \A e \in Deployments : job'.deployments[e] <= job.deployments[e]
      BY <1>0, <2>2 DEF GuardsOne
    <3>3. DeploymentsOnce'
      BY <1>1, <3>1, <3>2, OnceElsewhere DEF KeepsPlace, KeepsPages
    <3>4. \A r \in Runs : job'.runs[r] \in {0, job.instances[r]}
      BY <1>0, <2>2 DEF GuardsOne, RunsOf
    <3>5. InstancesOnce'
      BY <1>1, <3>1, <3>4
      DEF InstancesOnce, WorksOn, RunSteps, ReadsDefinitions, At, Here, KeepsPlace
    <3> QED BY <3>3, <3>5
  <2> QED BY <1>0, <1>2, <2>1, <2>2, AddDeploymentWardenType
<1>3. CASE NextRun
  <2>1. /\ job' \in Jobs /\ job.pc = "runs" /\ KeepsPlace /\ KeepsPages /\ KeepsFound
    BY <1>0, <1>3, NextRunType
  <2>2. job'.pc \in {"guard", "add"}
    BY <1>0, <1>3, NextRunType
  <2>3. DeploymentsOnce'
    BY <1>0, <1>1, <2>1, <2>2, OnceElsewhere DEF KeepsPlace, KeepsPages, KeepsFound, KeepsDeployments
  <2>4. \A r \in Runs \ moved.instance : job'.runs[r] \in {0, 1} /\ (WorksOn(r)' => job'.runs[r] = 0)
    <3>1. CASE job'.pc = "guard" /\ job'.runs = job.runs
      BY <3>1 DEF InstancesOnce, WorksOn, RunSteps
    <3>2. ASSUME NEW q \in Runs, job.runs[q] > 0, job'.pc = "add", job'.run = q,
                 job'.runs = [job.runs EXCEPT ![q] = @ - 1]
          PROVE  \A r \in Runs \ moved.instance : job'.runs[r] \in {0, 1} /\ (WorksOn(r)' => job'.runs[r] = 0)
      BY <1>0, <3>2 DEF InstancesOnce, WorksOn
    <3> QED BY <1>0, <1>3, <3>1, <3>2, NextRunType
  <2>5. InstancesOnce'
    BY <1>1, <2>1, <2>2, <2>4 DEF InstancesOnce, ReadsDefinitions, At, Here, KeepsPlace, KeepsFound
  <2> QED BY <2>3, <2>5
<1>4. CASE RunAction
  <2>1. job' \in Jobs /\ KeepsJob /\ job.pc \in RunSteps
    BY <1>0, <1>4, RunActionType DEF WorksOn
  <2>2. job'.pc \in {"start", "save", "rollback", "stop", "runs", "mark", "unguard"}
    BY <1>0, <1>4, RunActionType DEF RunAction
  <2> QED BY <1>0, <1>1, <2>1, <2>2, OnceElsewhere, InstancesElsewhere
          DEF KeepsJob, KeepsPlace, KeepsPages, KeepsFound, KeepsDeployments, KeepsRuns, ReadsDefinitions
<1> QED BY <1>2, <1>3, <1>4

(* Others say what they move.                                              *)
LEMMA OthersOnce ==
    ASSUME TypeInv, DeploymentsOnce, InstancesOnce, Others \/ Saves
    PROVE  DeploymentsOnce' /\ InstancesOnce'
<1>1. job' = job
  BY OthersNotice
<1>2. DeploymentsOnce'
  <2>1. ReadsDeployments' <=> ReadsDeployments
    BY <1>1 DEF ReadsDeployments, At
  <2>2. ASSUME NEW d \in Deployments, d \notin moved'.deployment, ReadsDeployments,
               job.deployments[d] = 1 \/ d \in job.batch
        PROVE  PlaceOf(d)' < job.offset
    <3>1. Here(d) /\ d \notin moved.deployment
      BY <2>2, OthersLeave, Fields DEF DeploymentsOnce
    <3>2. PlaceOf(d) < job.offset
      BY <2>2, <3>1 DEF DeploymentsOnce
    <3> QED BY <2>2, <3>1, <3>2, OthersLeave
  <2>3. \A d \in Deployments : d \notin moved'.deployment => d \notin moved.deployment
    BY OthersLeave
  <2> QED BY <1>1, <2>1, <2>2, <2>3 DEF DeploymentsOnce, Here
<1>3. InstancesOnce'
  <2>1. ASSUME NEW r \in Runs, r \notin moved'.instance, job.pc = "instances", job.instances[r] = 1
        PROVE  PlaceOfRun(r)' < job.offset
    <3>1. Here(DeploymentOf[r]) /\ r \notin moved.instance
      BY <2>1, OthersLeave, Fields DEF InstancesOnce
    <3>2. PlaceOfRun(r) < job.offset
      BY <2>1, <3>1 DEF InstancesOnce, At
    <3> QED BY <2>1, <3>1, <3>2, OthersLeave
  <2>2. \A r \in Runs : r \notin moved'.instance => r \notin moved.instance
    BY OthersLeave
  <2> QED BY <1>1, <2>1, <2>2 DEF InstancesOnce, Here, WorksOn, At
<1> QED BY <1>2, <1>3

LEMMA OnceStep ==
    ASSUME GuardInv, Next
    PROVE  DeploymentsOnce' /\ InstancesOnce'
<1>0. /\ TypeInv /\ DeploymentsOnce /\ InstancesOnce /\ job \in Jobs
      /\ job.runs \in [Runs -> Nat] /\ job.deployments \in [Deployments -> Nat]
  BY Fields DEF GuardInv, GuardCore
<1>1. CASE NextNetwork \/ MigrateToWarden \/ ListKnownFails \/ Crash
  <2>1. job'.pc \in {"deployments", "ended", "done"} /\ job' \in Jobs /\ job'.batch = {}
    BY <1>0, <1>1, NextNetworkType, MigrateToWardenType
  <2> QED BY <1>0, <1>1, <2>1, NextNetworkType, MigrateToWardenType, NewOnce DEF RunSteps
<1>2. CASE New \/ RollBack \/ Unguard \/ ListFails \/ AddFails
  <2>1. /\ job' \in Jobs /\ job'.pc \in {"known", "network"} /\ job'.network = job.network /\ moved' = moved
        /\ KeepsPages /\ KeepsFound /\ KeepsRuns
    BY <1>0, <1>2, GotoType, NetworkFailsType
    DEF New, RollBack, Unguard, ListFails, AddFails, history, ofOthers, KeepsJob, KeepsPlace
  <2> QED BY <1>0, <2>1, OnceElsewhere, InstancesElsewhere
          DEF KeepsPages, KeepsFound, KeepsDeployments, KeepsRuns, RunSteps, ReadsDefinitions
<1>3. CASE ListKnownNetworkIds
  <2>1. /\ job' \in Jobs /\ job'.pc = "network" /\ job'.network = job.network /\ moved' = moved
        /\ KeepsPages /\ KeepsFound /\ KeepsRuns
    BY <1>0, <1>3
    DEF ListKnownNetworkIds, history, ofOthers, Jobs, KeepsPages, KeepsFound, KeepsDeployments, KeepsRuns
  <2> QED BY <1>0, <2>1, OnceElsewhere, InstancesElsewhere
          DEF KeepsPages, KeepsFound, KeepsDeployments, KeepsRuns, RunSteps, ReadsDefinitions
<1> QED BY <1>0, <1>1, <1>2, <1>3, PagesOnce, CollectOnce, RunsOnce, OthersOnce
        DEF Next, Steps, Failures, RunAction

LEMMA InitGuardCore == Init => GuardCore
<1> SUFFICES ASSUME Init PROVE GuardCore
  OBVIOUS
<1>1. /\ job.pc = "ended" /\ job.batch = {} /\ job.deployments = [d \in Deployments |-> 0]
      /\ job.instances = [r \in Runs |-> 0] /\ job.runs = [r \in Runs |-> 0]
  BY DEF Init, Ended
<1>2. DeploymentsOnce
  BY <1>1 DEF DeploymentsOnce, ReadsDeployments, At
<1>3. InstancesOnce
  BY <1>1 DEF InstancesOnce, WorksOn, RunSteps, At
<1>4. StartCore
  BY <1>1 DEF Init, StartCore, WaitingUnguarded, RunsOfGuarded, WaitingUntouched, StartsAreGuarded,
              StoppedAreGuarded, ReplacedOnce, Waits, WorksOn, RunSteps
<1> QED BY <1>2, <1>3, <1>4 DEF GuardCore

(* A step that only gives up what was waiting and works on no run.         *)
LEMMA JobLeaves ==
    ASSUME GuardInv, UNCHANGED <<info, starts, stopped, ofOthers>>,
           \A r \in Runs : NewKey(r) \in guards => NewKey(r) \in guards',
           refused \subseteq refused', job' \in Jobs, job'.pc \notin RunSteps,
           \A d \in Deployments : job'.deployments[d] > 0 => job.deployments[d] > 0 \/ info[d] = "none",
           \A r \in Runs : job'.runs[r] > 0 => job.runs[r] > 0
    PROVE  StartCore'
<1> USE DEF ofOthers
<1>0. TypeInv /\ WaitingUnguarded /\ RunsOfGuarded /\ WaitingUntouched /\ StoppedAreGuarded /\ ReplacedOnce
  BY DEF GuardInv, GuardCore, StartCore
<1>1. \A r \in Runs : /\ WorksOn(r)' => FALSE
                      /\ Deleted(r) <=> Deleted(r)'
                      /\ Moved(r) <=> Moved(r)'
                      /\ Excused(r) <=> Excused(r)'
                      /\ Waits(r)' => Waits(r)
  BY DEF WorksOn, Deleted, Moved, Excused, Waits, RunSteps
<1>2. WaitingUnguarded'
  BY <1>0 DEF WaitingUnguarded
<1>3. RunsOfGuarded'
  BY <1>0, <1>1 DEF RunsOfGuarded
<1>4. WaitingUntouched'
  BY <1>0, <1>1 DEF WaitingUntouched
<1>5. StartsAreGuarded'
  BY DEF StartsAreGuarded, RunSteps
<1>6. StoppedAreGuarded'
  BY <1>0, <1>1, Fields DEF StoppedAreGuarded
<1>7. ReplacedOnce'
  BY <1>0, <1>1 DEF ReplacedOnce
<1> QED BY <1>2, <1>3, <1>4, <1>5, <1>6, <1>7 DEF StartCore

(* The migration of networks, until it takes a run.                        *)
LEMMA NetworksStartCore ==
    ASSUME GuardInv,
           \/ New \/ ListKnownNetworkIds \/ NextNetwork \/ MigrateToWarden
           \/ ListDeployments \/ Visit \/ NextPage
           \/ CollectMetadata \/ CollectDefinitions \/ CollectInstances
           \/ ListFails \/ ListKnownFails \/ AddFails \/ Crash \/ Unguard
    PROVE  StartCore'
<1>0. /\ job \in Jobs /\ job.deployments \in [Deployments -> Nat] /\ job.runs \in [Runs -> Nat] /\ TypeInv
      /\ defined \subseteq Deployments /\ metadata \in [Deployments -> {"plain", "parameters", "none"}]
      /\ RunIsTaken
  BY Fields DEF GuardInv
<1>1. UNCHANGED <<info, starts, stopped, refused, ofOthers>>
  BY DEF New, ListKnownNetworkIds, NextNetwork, MigrateToWarden, ListDeployments, Visit, NextPage,
         CollectMetadata, CollectDefinitions, CollectInstances, ListFails, ListKnownFails, AddFails, Crash,
         Unguard, stored, history
<1>2. CASE New \/ ListFails \/ AddFails \/ Unguard
  <2>1. job' \in Jobs /\ job'.pc \in {"known", "network"} /\ KeepsFound /\ KeepsRuns
    BY <1>0, <1>2, GotoType, NetworkFailsType DEF New, ListFails, AddFails, Unguard, KeepsJob
  <2>2. \A r \in Runs : NewKey(r) \in guards => NewKey(r) \in guards'
    <3>1. CASE Unguard
      <4>1. job.run \in Runs
        BY <1>0, <3>1 DEF Unguard, At, RunIsTaken, RunSteps
      <4> QED BY <3>1, <4>1, KeysDiffer DEF Unguard
    <3> QED BY <1>2, <3>1 DEF New, ListFails, AddFails, stored
  <2> QED BY <1>1, <2>1, <2>2, JobLeaves DEF KeepsFound, KeepsDeployments, KeepsRuns, RunSteps
<1>3. guards' = guards \/ Unguard
  BY DEF New, ListKnownNetworkIds, NextNetwork, MigrateToWarden, ListDeployments, Visit, NextPage,
         CollectMetadata, CollectDefinitions, CollectInstances, ListFails, ListKnownFails, AddFails, Crash, stored
<1>4. CASE ListKnownNetworkIds
  <2>1. job' \in Jobs /\ job'.pc = "network" /\ job'.deployments = job.deployments /\ job'.runs = job.runs
    BY <1>0, <1>4 DEF ListKnownNetworkIds, Jobs
  <2> QED BY <1>1, <1>2, <1>3, <2>1, JobLeaves DEF RunSteps
<1>5. CASE NextNetwork \/ MigrateToWarden \/ ListKnownFails \/ Crash
  <2>1. /\ job' \in Jobs /\ job'.pc \in {"deployments", "ended", "done"}
        /\ job'.deployments = [d \in Deployments |-> 0] /\ job'.runs = [r \in Runs |-> 0]
    BY <1>0, <1>5, NextNetworkType, MigrateToWardenType
  <2> QED BY <1>1, <1>2, <1>3, <2>1, JobLeaves DEF RunSteps
<1>6. CASE ListDeployments \/ NextPage
  <2>1. /\ job' \in Jobs /\ job'.pc \in {"visit", "deployments", "network", "metadata"}
        /\ KeepsFound /\ KeepsRuns
    BY <1>0, <1>6, ListDeploymentsType, NextPageType, Fields
  <2> QED BY <1>1, <1>2, <1>3, <2>1, JobLeaves DEF KeepsFound, KeepsDeployments, KeepsRuns, RunSteps
<1>7. CASE Visit
  <2>1. /\ job' \in Jobs /\ job'.pc = "visit" /\ KeepsRuns
        /\ \A d \in Deployments : job'.deployments[d] > 0 => job.deployments[d] > 0 \/ info[d] = "none"
    BY <1>0, <1>7, VisitType
  <2> QED BY <1>1, <1>2, <1>3, <2>1, JobLeaves DEF KeepsRuns, RunSteps
<1>8. CASE CollectMetadata \/ CollectDefinitions \/ CollectInstances
  <2>1. /\ job' \in Jobs /\ job'.pc \in {"metadata", "definitions", "instances", "guard"}
        /\ KeepsDeployments /\ KeepsRuns
    BY <1>0, <1>8, CollectMetadataType, CollectDefinitionsType, CollectInstancesType
  <2> QED BY <1>1, <1>2, <1>3, <2>1, JobLeaves DEF KeepsDeployments, KeepsRuns, RunSteps
<1> QED BY <1>2, <1>4, <1>5, <1>6, <1>7, <1>8

(* A deployment gets its guard before its runs are taken.                  *)
LEMMA GuardStartCore ==
    ASSUME GuardInv, AddDeploymentWarden
    PROVE  StartCore'
<1>0. /\ TypeInv /\ WaitingUnguarded /\ RunsOfGuarded /\ WaitingUntouched /\ StoppedAreGuarded /\ ReplacedOnce
      /\ DeploymentsOnce /\ job \in Jobs /\ job.deployments \in [Deployments -> Nat]
      /\ info \in [Deployments -> {"model", "empty", "none"}] /\ DeploymentOf \in [Runs -> Deployments]
      /\ job.instances \in [Runs -> Nat] /\ job.runs \in [Runs -> Nat]
  BY Fields DEF GuardInv, GuardCore, StartCore
<1>1. UNCHANGED <<guards, starts, stopped, refused, ofOthers>>
  BY DEF AddDeploymentWarden, history
<1>2. CASE NoneFound /\ job'.pc = "network" /\ KeepsJob /\ info' = info
  BY <1>0, <1>1, <1>2, AddDeploymentWardenType, JobLeaves
  DEF KeepsJob, KeepsFound, KeepsDeployments, KeepsRuns, RunSteps
<1>3. ASSUME NEW d \in Deployments, GuardsOne(d) PROVE StartCore'
  <2>1. /\ job'.deployments = [job.deployments EXCEPT ![d] = @ - 1] /\ job'.pc = "runs"
        /\ \A r \in Runs : job'.runs[r] > 0 => DeploymentOf[r] = d
        /\ \A e \in Deployments : e # d => info'[e] = info[e]
        /\ info'[d] # "none" /\ job.deployments[d] > 0
    BY <1>0, <1>3 DEF GuardsOne, RunsOf
  <2>2. \A r \in Runs : /\ WorksOn(r)' => FALSE
                        /\ Deleted(r) <=> Deleted(r)'
                        /\ Moved(r) <=> Moved(r)'
                        /\ Excused(r) <=> Excused(r)'
    BY <1>1, <2>1 DEF WorksOn, Deleted, Moved, Excused, RunSteps, ofOthers
  <2>3. WaitingUnguarded'
    <3>1. d \notin moved.deployment => job.deployments[d] = 1
      BY <1>0, <2>1 DEF DeploymentsOnce
    <3> QED BY <1>0, <1>1, <2>1, <3>1 DEF WaitingUnguarded, ofOthers
  <2>4. RunsOfGuarded'
    BY <2>1, <2>2 DEF RunsOfGuarded
  <2>5. \A r \in Runs : Waits(r)' => Waits(r) \/ Excused(r)
    <3> SUFFICES ASSUME NEW r \in Runs, Waits(r)' PROVE Waits(r) \/ Excused(r)
      OBVIOUS
    <3>1. CASE DeploymentOf[r] = d
      BY <1>0, <2>1, <3>1 DEF WaitingUnguarded, Waits, Excused, Moved
    <3>2. CASE DeploymentOf[r] # d
      BY <1>0, <2>1, <3>2 DEF Waits
    <3> QED BY <3>1, <3>2
  <2>6. WaitingUntouched'
    BY <1>0, <1>1, <2>2, <2>5 DEF WaitingUntouched
  <2>7. StartsAreGuarded'
    BY <2>1 DEF StartsAreGuarded
  <2>8. StoppedAreGuarded' /\ ReplacedOnce'
    BY <1>0, <1>1, <2>2, Fields DEF StoppedAreGuarded, ReplacedOnce, ofOthers
  <2> QED BY <2>3, <2>4, <2>6, <2>7, <2>8 DEF StartCore
<1> QED BY <1>0, <1>2, <1>3, AddDeploymentWardenType

(* A run is taken.                                                         *)
LEMMA NextRunStartCore ==
    ASSUME GuardInv, NextRun
    PROVE  StartCore'
<1>0. /\ TypeInv /\ WaitingUnguarded /\ RunsOfGuarded /\ WaitingUntouched
      /\ StoppedAreGuarded /\ ReplacedOnce /\ job \in Jobs /\ job.runs \in [Runs -> Nat]
  BY Fields DEF GuardInv, GuardCore, StartCore
<1>1. UNCHANGED <<info, guards, starts, stopped, refused, ofOthers>> /\ job'.deployments = job.deployments
  BY <1>0, NextRunType DEF NextRun, stored, history, KeepsFound, KeepsDeployments
<1>2. CASE job'.pc = "guard" /\ job'.runs = job.runs
  BY <1>0, <1>1, <1>2, NextRunType, JobLeaves DEF RunSteps
<1>3. ASSUME NEW q \in Runs, job.runs[q] > 0, job'.pc = "add", job'.run = q,
             job'.runs = [job.runs EXCEPT ![q] = @ - 1]
      PROVE  StartCore'
  <2>1. \A r \in Runs : /\ job'.runs[r] > 0 \/ WorksOn(r)' => job.runs[r] > 0
                        /\ Deleted(r) <=> Deleted(r)'
                        /\ Moved(r) <=> Moved(r)'
                        /\ Excused(r) <=> Excused(r)'
    BY <1>0, <1>1, <1>3 DEF WorksOn, Deleted, Moved, Excused, ofOthers
  <2>2. \A r \in Runs : Waits(r)' => Waits(r)
    BY <1>0, <1>1, <1>3, <2>1 DEF Waits
  <2>3. WaitingUnguarded' /\ RunsOfGuarded'
    BY <1>0, <1>1, <2>1 DEF WaitingUnguarded, RunsOfGuarded, ofOthers
  <2>4. WaitingUntouched'
    BY <1>0, <1>1, <2>1, <2>2 DEF WaitingUntouched
  <2>5. StartsAreGuarded'
    BY <1>3 DEF StartsAreGuarded
  <2>6. StoppedAreGuarded' /\ ReplacedOnce'
    BY <1>0, <1>1, <2>1, Fields DEF StoppedAreGuarded, ReplacedOnce, ofOthers
  <2> QED BY <2>3, <2>4, <2>5, <2>6 DEF StartCore
<1> QED BY <1>0, <1>2, <1>3, NextRunType

(* Its start is guarded, sent and saved; the old run is stopped and marked.*)
LEMMA RunStartCore ==
    ASSUME GuardInv, RunAction
    PROVE  StartCore'
<1>0. /\ TypeInv /\ WaitingUnguarded /\ RunsOfGuarded /\ WaitingUntouched /\ StartsAreGuarded
      /\ StoppedAreGuarded /\ ReplacedOnce /\ InstancesOnce /\ job \in Jobs /\ job.runs \in [Runs -> Nat]
      /\ starts \in [Runs -> Nat] /\ stopped \subseteq Runs /\ RunIsTaken
  BY Fields DEF GuardInv, GuardCore, StartCore
<1>1. /\ job.run \in Runs /\ WorksOn(job.run) /\ job.pc \in RunSteps
      /\ job'.deployments = job.deployments /\ job'.runs = job.runs /\ job'.run = job.run
      /\ job'.pc \in {"start", "save", "stop", "rollback", "runs", "mark", "unguard"}
  BY <1>0, RunActionType
  DEF KeepsJob, KeepsFound, KeepsDeployments, KeepsRuns, RunAction, WorksOn
<1>2. UNCHANGED <<info, refused, ofOthers>>
  BY DEF RunAction, AddInstanceWarden, Start, SavePlaceholders, Stop, Mark, StartFails, StopFails, stored, history
<1>3. \A r \in Runs : /\ WorksOn(r)' => WorksOn(r)
                      /\ Deleted(r) <=> Deleted(r)'
                      /\ Moved(r) <=> Moved(r)'
                      /\ Excused(r) <=> Excused(r)'
                      /\ NewKey(r) \in guards => NewKey(r) \in guards'
  <2>1. \A r \in Runs : NewKey(r) \in guards => NewKey(r) \in guards'
    BY <1>1, KeysDiffer
    DEF RunAction, AddInstanceWarden, Start, SavePlaceholders, Stop, Mark, StartFails, StopFails, stored
  <2> QED BY <1>1, <1>2, <2>1 DEF WorksOn, Deleted, Moved, Excused, ofOthers
<1>4. /\ starts' = starts \/ (Start /\ job'.pc = "save" /\ starts' = [starts EXCEPT ![job.run] = @ + 1])
      /\ stopped' = stopped \/ (Stop /\ stopped' = stopped \cup {job.run})
  <2>1. Start => starts' = starts \/ (job'.pc = "save" /\ starts' = [starts EXCEPT ![job.run] = @ + 1])
    BY <1>0, RunActionType DEF Start
  <2> QED BY <2>1 DEF RunAction, AddInstanceWarden, Start, SavePlaceholders, Stop, Mark, StartFails, StopFails,
                     history
<1>5. job.pc \in {"add", "start"} => (starts[job.run] = 0 /\ job.run \notin stopped) \/ Excused(job.run)
  BY <1>0, <1>1 DEF WaitingUntouched, Waits
<1>6. (job.runs[job.run] = 0 \/ Excused(job.run)) /\ (info[DeploymentOf[job.run]] # "none" \/ Excused(job.run))
  BY <1>0, <1>1 DEF InstancesOnce, RunsOfGuarded, Excused, Moved
<1>7. WaitingUnguarded' /\ RunsOfGuarded'
  BY <1>0, <1>1, <1>2, <1>3 DEF WaitingUnguarded, RunsOfGuarded, ofOthers
<1>8. job'.pc = "start" => AddInstanceWarden
  BY <1>0, RunActionType DEF RunAction
<1>9. WaitingUntouched'
  <2> SUFFICES ASSUME NEW r \in Runs, Waits(r)' PROVE ((starts[r] = 0 /\ r \notin stopped) \/ Excused(r))'
    BY DEF WaitingUntouched
  <2>1. CASE r = job.run
    <3>1. Excused(r) \/ job'.pc = "start"
      BY <1>1, <1>2, <1>6, <2>1 DEF Waits
    <3>2. CASE job'.pc = "start"
      <4>1. job.pc = "add" /\ starts' = starts /\ stopped' = stopped
        BY <1>0, <1>8, <3>2, RunActionType DEF AddInstanceWarden, At, history
      <4> QED BY <1>3, <1>5, <2>1, <4>1
    <3> QED BY <1>3, <3>1, <3>2
  <2>2. CASE r # job.run
    BY <1>0, <1>1, <1>2, <1>3, <1>4, <2>2 DEF Waits, WaitingUntouched
  <2> QED BY <2>1, <2>2
<1>10. StartsAreGuarded'
  <2>1. job'.pc \in {"start", "save", "stop"} => NewKey(job.run) \in guards' \cup cleared'
    <3>1. CASE AddInstanceWarden
      BY <3>1 DEF AddInstanceWarden
    <3>2. CASE Start \/ SavePlaceholders
      <4>1. job.pc \in {"start", "save"}
        BY <1>0, <3>2, RunActionType DEF RunAction
      <4> QED BY <1>0, <1>1, <1>2, <1>3, <4>1 DEF StartsAreGuarded, ofOthers
    <3>3. CASE Stop \/ Mark \/ StartFails \/ StopFails
      BY <1>0, <3>3, RunActionType DEF RunAction
    <3> QED BY <3>1, <3>2, <3>3 DEF RunAction
  <2>2. job'.pc \in {"save", "stop"} => starts'[job.run] > 0
    <3>1. CASE Start
      <4>1. job'.pc = "save" => starts' = [starts EXCEPT ![job.run] = @ + 1]
        BY <1>0, <3>1, RunActionType DEF Start
      <4>2. job'.pc # "stop"
        BY <1>0, <3>1, RunActionType DEF RunAction
      <4> QED BY <1>0, <1>1, <4>1, <4>2
    <3>2. CASE SavePlaceholders
      BY <1>0, <3>2, RunActionType DEF RunAction, StartsAreGuarded, SavePlaceholders, history
    <3>3. CASE ~(Start \/ SavePlaceholders)
      BY <1>0, <3>3, RunActionType DEF RunAction
    <3> QED BY <3>1, <3>2, <3>3
  <2>3. job'.pc \in {"save", "stop", "rollback"} => job.run \notin stopped' \/ Excused(job.run)
    <3>1. CASE Stop
      BY <1>0, <3>1, RunActionType DEF RunAction
    <3>2. CASE Start \/ SavePlaceholders \/ StartFails
      <4>1. job.pc \in {"start", "save"} /\ stopped' = stopped
        BY <1>0, <3>2, RunActionType DEF RunAction, Start, SavePlaceholders, StartFails, history
      <4> QED BY <1>0, <1>5, <4>1 DEF StartsAreGuarded
    <3>3. CASE AddInstanceWarden \/ Mark \/ StopFails
      BY <1>0, <3>3, RunActionType DEF RunAction
    <3> QED BY <3>1, <3>2, <3>3 DEF RunAction
  <2> QED BY <1>1, <1>3, <2>1, <2>2, <2>3 DEF StartsAreGuarded
<1>11. StoppedAreGuarded'
  <2>1. Stop => starts[job.run] > 0 /\ NewKey(job.run) \in guards \cup cleared
    BY <1>0, RunActionType DEF RunAction, StartsAreGuarded
  <2>2. \A r \in Runs : starts[r] > 0 => starts'[r] > 0
    BY <1>0, <1>1, <1>4
  <2>3. \A r \in stopped' : r \in stopped \/ (Stop /\ r = job.run)
    BY <1>4
  <2> SUFFICES ASSUME NEW r \in stopped'
               PROVE  /\ starts'[r] > 0
                      /\ \/ NewKey(r) \in guards' \cup cleared'
                         \/ NewKey(r) \in refused' /\ (Moved(r)' \/ \E q \in Runs \ {r} : OldKey(q) = OldKey(r))
    BY DEF StoppedAreGuarded
  <2>4. CASE r \in stopped
    BY <1>0, <1>2, <1>3, <2>2, <2>4 DEF StoppedAreGuarded, ofOthers
  <2>5. CASE Stop /\ r = job.run
    BY <1>1, <1>2, <1>3, <2>1, <2>2, <2>5 DEF ofOthers
  <2> QED BY <2>3, <2>4, <2>5
<1>12. ReplacedOnce'
  <2>1. Start => starts[job.run] = 0 \/ Excused(job.run)
    BY <1>0, <1>5, RunActionType DEF RunAction
  <2>2. \A r \in Runs : r # job.run => starts'[r] = starts[r]
    BY <1>0, <1>4
  <2>3. starts'[job.run] > 1 => starts[job.run] > 1 \/ Excused(job.run)
    BY <1>0, <1>1, <1>4, <2>1
  <2> QED BY <1>0, <1>1, <1>2, <1>3, <2>2, <2>3 DEF ReplacedOnce, Excused, Deleted, ofOthers
<1> QED BY <1>7, <1>9, <1>10, <1>11, <1>12 DEF StartCore

(* A refused start is taken back; a run of the same key may lose its guard.*)
LEMMA RollBackStartCore ==
    ASSUME GuardInv, RollBack
    PROVE  StartCore'
<1>0. /\ TypeInv /\ WaitingUnguarded /\ RunsOfGuarded /\ WaitingUntouched /\ StartsAreGuarded
      /\ StoppedAreGuarded /\ ReplacedOnce /\ job \in Jobs /\ stopped \subseteq Runs /\ RunIsTaken
  BY Fields DEF GuardInv, GuardCore, StartCore
<1>1. /\ job.run \in Runs /\ job.pc = "rollback"
      /\ job'.deployments = job.deployments /\ job'.runs = job.runs /\ job'.pc = "network"
  BY <1>0, NetworkFailsType DEF RollBack, At, RunIsTaken, RunSteps, KeepsFound, KeepsDeployments, KeepsRuns
<1>2. UNCHANGED <<info, starts, stopped, ofOthers>> /\ refused' = refused \cup {NewKey(job.run)}
  BY DEF RollBack
<1>3. \A r \in Runs : /\ WorksOn(r)' => FALSE
                      /\ Deleted(r) <=> Deleted(r)'
                      /\ Moved(r) <=> Moved(r)'
                      /\ Excused(r) <=> Excused(r)'
                      /\ Waits(r)' => Waits(r)
  BY <1>1, <1>2 DEF WorksOn, RunSteps, Deleted, Moved, Excused, Waits, ofOthers
<1>4. WaitingUnguarded' /\ RunsOfGuarded' /\ WaitingUntouched'
  BY <1>0, <1>1, <1>2, <1>3 DEF WaitingUnguarded, RunsOfGuarded, WaitingUntouched, ofOthers
<1>5. StartsAreGuarded' /\ ReplacedOnce'
  BY <1>0, <1>1, <1>2, <1>3 DEF StartsAreGuarded, ReplacedOnce, ofOthers
<1>6. StoppedAreGuarded'
  <2> SUFFICES ASSUME NEW r \in stopped
               PROVE  /\ starts[r] > 0
                      /\ \/ NewKey(r) \in guards' \cup cleared
                         \/ NewKey(r) \in refused' /\ (Moved(r) \/ \E q \in Runs \ {r} : OldKey(q) = OldKey(r))
    BY <1>0, <1>2, <1>3 DEF StoppedAreGuarded, ofOthers
  <2>1. CASE NewKey(r) # NewKey(job.run)
    BY <1>0, <2>1 DEF RollBack, StoppedAreGuarded
  <2>2. CASE r = job.run
    <3>1. Excused(r) /\ starts[r] > 0
      BY <1>0, <1>1, <2>2 DEF StartsAreGuarded, StoppedAreGuarded
    <3> QED BY <1>2, <2>2, <3>1 DEF Excused, Deleted
  <2>3. CASE NewKey(r) = NewKey(job.run) /\ r # job.run
    BY <1>0, <1>1, <1>2, <2>3, KeysDiffer DEF StoppedAreGuarded
  <2> QED BY <2>1, <2>2, <2>3
<1> QED BY <1>4, <1>5, <1>6 DEF StartCore

(* Users clear what they take the guard of.                                *)
LEMMA RequestsClear ==
    ASSUME TypeInv, Others \/ Saves
    PROVE  /\ cleared \subseteq cleared' /\ deleted \subseteq deleted'
           /\ \A r \in Runs : NewKey(r) \in guards => NewKey(r) \in guards' \cup cleared'
           /\ \A d \in Deployments : info'[d] = info[d] \/
                /\ info'[d] = "none" /\ d \in deleted'
                /\ \A r \in Runs : DeploymentOf[r] = d => NewKey(r) \in cleared'
<1>0. info \in [Deployments -> {"model", "empty", "none"}]
  BY Fields
<1>1. ASSUME NEW d \in Deployments, ApiDeleteDeployment(d)
      PROVE  /\ cleared \subseteq cleared' /\ deleted \subseteq deleted'
             /\ \A r \in Runs : NewKey(r) \in guards => NewKey(r) \in guards' \cup cleared'
             /\ \A e \in Deployments : info'[e] = info[e] \/
                  /\ info'[e] = "none" /\ e \in deleted'
                  /\ \A r \in Runs : DeploymentOf[r] = e => NewKey(r) \in cleared'
  <2>1. \A r \in Runs : NewKey(r) \in guards => NewKey(r) \in guards' \cup cleared'
    BY <1>1 DEF ApiDeleteDeployment
  <2> QED BY <1>0, <1>1, <2>1 DEF ApiDeleteDeployment
<1>2. ASSUME NEW r \in Runs, ApiDeleteProcessInstance(r)
      PROVE  /\ cleared \subseteq cleared' /\ deleted' = deleted /\ info' = info
             /\ \A q \in Runs : NewKey(q) \in guards => NewKey(q) \in guards' \cup cleared'
  BY <1>2 DEF ApiDeleteProcessInstance
<1>3. Reports \/ SaveReported => UNCHANGED <<cleared, deleted, guards, info>>
  BY DEF Reports, SaveReported, UpdateDeployment, DeleteDeployment, UpdateProcessDefinition,
         DeleteProcessDefinition, UpdateProcessInstance, DeleteProcessInstance, DeleteProcessInstances,
         DeleteUnknownDeployments, DeleteUnknownProcessDefinitions, DeleteUnknownProcessInstances
<1> QED BY <1>1, <1>2, <1>3 DEF Others, Saves, Requests

(* Users and clients.                                                      *)
LEMMA OthersStartCore ==
    ASSUME GuardInv, Others \/ Saves
    PROVE  StartCore'
<1>0. /\ TypeInv /\ WaitingUnguarded /\ RunsOfGuarded /\ WaitingUntouched /\ StartsAreGuarded
      /\ StoppedAreGuarded /\ ReplacedOnce /\ DeploymentOf \in [Runs -> Deployments] /\ stopped \subseteq Runs
      /\ RunIsTaken
  BY Fields DEF GuardInv, GuardCore, StartCore
<1>1. job' = job /\ UNCHANGED <<starts, stopped, refused>>
  BY <1>0, OthersNotice
<1>2. /\ cleared \subseteq cleared' /\ deleted \subseteq deleted'
      /\ touched.deployment \subseteq touched'.deployment
      /\ moved.deployment \subseteq moved'.deployment /\ moved.instance \subseteq moved'.instance
  BY <1>0, OthersLeave, RequestsClear
<1>3. \A r \in Runs : NewKey(r) \in guards => NewKey(r) \in guards' \cup cleared'
  BY <1>0, RequestsClear
<1>4. \A r \in Runs : /\ Deleted(r) => Deleted(r)'
                      /\ Moved(r) => Moved(r)'
                      /\ Excused(r) => Excused(r)'
                      /\ WorksOn(r) <=> WorksOn(r)'
  BY <1>1, <1>2 DEF Deleted, Moved, Excused, WorksOn
<1>5. \A d \in Deployments : info'[d] = info[d] \/ info'[d] = "none"
  BY <1>0, RequestsClear
<1>6. \A r \in Runs : info'[DeploymentOf[r]] # info[DeploymentOf[r]] => Deleted(r)'
  <2> SUFFICES ASSUME NEW r \in Runs, info'[DeploymentOf[r]] # info[DeploymentOf[r]] PROVE Deleted(r)'
    OBVIOUS
  <2>1. DeploymentOf[r] \in deleted' /\ NewKey(r) \in cleared'
    BY <1>0, RequestsClear
  <2>2. DeploymentOf[r] \in touched'.deployment
    BY <1>0, OthersLeave
  <2> QED BY <2>1, <2>2 DEF Deleted, NewKey, OldKey
<1>7. WaitingUnguarded'
  BY <1>0, <1>1, <1>2, <1>5 DEF WaitingUnguarded
<1>8. RunsOfGuarded'
  BY <1>0, <1>1, <1>4, <1>6 DEF RunsOfGuarded
<1>9. WaitingUntouched'
  BY <1>0, <1>1, <1>4, <1>6 DEF WaitingUntouched, Waits, Excused
<1>10. StartsAreGuarded'
  BY <1>0, <1>1, <1>2, <1>3, <1>4 DEF StartsAreGuarded, RunIsTaken, RunSteps
<1>11. StoppedAreGuarded' /\ ReplacedOnce'
  BY <1>0, <1>1, <1>2, <1>3, <1>4 DEF StoppedAreGuarded, ReplacedOnce
<1> QED BY <1>7, <1>8, <1>9, <1>10, <1>11 DEF StartCore

LEMMA StutterGuardCore ==
    ASSUME GuardInv, UNCHANGED vars
    PROVE  GuardCore'
<1> USE DEF vars, stored, history, ofOthers
<1>1. DeploymentsOnce'
  BY DEF GuardInv, GuardCore, DeploymentsOnce, Here, ReadsDeployments, At, PlaceOf, Place, DeploymentList
<1>2. InstancesOnce'
  BY DEF GuardInv, GuardCore, InstancesOnce, Here, WorksOn, At, PlaceOfRun, Place, InstanceList
<1>3. StartCore'
  BY DEF GuardInv, GuardCore, StartCore, WaitingUnguarded, RunsOfGuarded, WaitingUntouched,
         StartsAreGuarded, StoppedAreGuarded, ReplacedOnce, Waits, WorksOn, Deleted, Moved, Excused
<1> QED BY <1>1, <1>2, <1>3 DEF GuardCore

LEMMA GuardStep == GuardInv /\ [Next]_vars => GuardInv'
<1> SUFFICES ASSUME GuardInv, [Next]_vars PROVE GuardInv'
  OBVIOUS
<1>1. TypeInv'
  BY NextType DEF GuardInv
<1>2. Next => DeploymentsOnce' /\ InstancesOnce'
  BY OnceStep
<1>3. CASE Steps \/ Failures
  <2>1. StartCore'
    BY <1>3, NetworksStartCore, GuardStartCore, NextRunStartCore, RunStartCore, RollBackStartCore
    DEF Steps, Failures, RunAction
  <2> QED BY <1>1, <1>2, <1>3, <2>1 DEF Next, GuardInv, GuardCore
<1>4. CASE Others \/ Saves
  BY <1>1, <1>2, <1>4, OthersStartCore DEF Next, GuardInv, GuardCore
<1> QED BY <1>1, <1>3, <1>4, StutterGuardCore DEF Next, GuardInv

LEMMA GuardInvariant == Spec => []GuardInv
<1>1. Init => GuardInv
  BY InitType, InitGuardCore DEF GuardInv
<1> QED BY <1>1, GuardStep, PTL DEF Spec

(* A run is only stopped with a guarded start in its place, whatever fails *)
(* and whenever the process ends (migrateToWarden); a rolled back          *)
(* start may only take the guard away from a run of the same key, or from  *)
(* one that was met twice because pages moved.                             *)
THEOREM StoppedGuarded == Spec => []StoppedAreGuarded
<1>1. GuardInv => StoppedAreGuarded
  BY DEF GuardInv, GuardCore, StartCore
<1> QED BY <1>1, GuardInvariant, PTL

(* However often the migration is begun again, no run is replaced twice,   *)
(* unless a user deleted its deployment, or others moved it, or its        *)
(* deployment, over the end of a page (GetDeploymentWardenInfoBy...        *)
(* DeploymentId is asked before each deployment is guarded).               *)
THEOREM StartsReplacedOnce == Spec => []ReplacedOnce
<1>1. GuardInv => ReplacedOnce
  BY DEF GuardInv, GuardCore, StartCore
<1> QED BY <1>1, GuardInvariant, PTL

-----------------------------------------------------------------------------
(* What an undisturbed migration has done                                  *)

(* Nothing of a network is read there.                                     *)
Outside == {"ended", "known", "network", "done"}

LEMMA OutsideRead ==
    /\ job.pc \in Outside => ReadSoFar
    /\ job'.pc \in Outside => ReadSoFar'
BY DEF Outside, ReadSoFar, DeploymentsRead, MetadataRead, DefinitionsRead, InstancesRead,
       AfterInstances, AfterDefinitions, AfterMetadata, AfterDeployments, RunSteps

LEMMA InitMigratedCore == Init => MigratedCore
<1> SUFFICES ASSUME Init PROVE MigratedCore
  OBVIOUS
<1>1. /\ job.pc = "ended" /\ job.runs = [r \in Runs |-> 0] /\ job.instances = [r \in Runs |-> 0]
      /\ info = [d \in Deployments |-> "none"]
  BY DEF Init, Ended
<1>2. DoneDidNotFail /\ FoundExist /\ NothingLeft
  BY <1>1 DEF DoneDidNotFail, At, FoundExist, WorksOn, RunSteps, NothingLeft
<1>3. ReadSoFar
  BY <1>1, OutsideRead DEF Outside
<1>4. ThroughGuarded
  BY <1>1 DEF ThroughGuarded, Through, AfterDeployments, RunSteps
<1>5. GuardsAreRight /\ RunsAreReplaced
  BY <1>1, DeploymentOfAssumption DEF GuardsAreRight, RunsAreReplaced
<1> QED BY <1>2, <1>3, <1>4, <1>5 DEF MigratedCore, CleanCore

LEMMA Parts ==
    ASSUME MigratedInv
    PROVE  /\ TypeInv /\ DeploymentsOnce /\ InstancesOnce /\ StartCore
           /\ DoneDidNotFail /\ FoundExist /\ (CleanSoFar => CleanCore)
BY DEF MigratedInv, MigratedCore, GuardInv, GuardCore

(* An error is not forgotten but by a process that ends.                   *)
LEMMA CleanBefore ==
    ASSUME MigratedInv, Next, CleanSoFar'
    PROVE  CleanSoFar
<1>0. /\ job \in Jobs /\ DoneDidNotFail /\ TypeInv /\ RunIsTaken
      /\ defined \subseteq Deployments /\ metadata \in [Deployments -> {"plain", "parameters", "none"}]
  BY Parts, Fields
<1>1. CASE MigrateToWarden
  BY <1>1 DEF MigrateToWarden, CleanSoFar
<1>2. CASE New \/ ListKnownNetworkIds \/ NextNetwork
  <2>1. job'.failed = job.failed
    BY <1>0, <1>2, GotoType, NextNetworkType DEF New, ListKnownNetworkIds, KeepsJob, KeepsPlace, Jobs
  <2> QED BY <1>2, <2>1 DEF New, ListKnownNetworkIds, NextNetwork, history, CleanSoFar
<1>3. CASE ListDeployments \/ Visit \/ NextPage \/ CollectMetadata \/ CollectDefinitions \/ CollectInstances
  <2>1. KeepsPlace
    BY <1>0, <1>3, ListDeploymentsType, VisitType, NextPageType, CollectMetadataType, CollectDefinitionsType,
       CollectInstancesType
  <2> QED BY <1>3, <2>1 DEF ListDeployments, Visit, NextPage, CollectMetadata, CollectDefinitions,
                            CollectInstances, history, CleanSoFar, KeepsPlace
<1>4. CASE AddDeploymentWarden \/ NextRun \/ RunAction
  <2>1. KeepsPlace
    BY <1>0, <1>4, AddDeploymentWardenType, NextRunType, RunActionType DEF KeepsJob, GuardsOne
  <2>2. clean' = clean
    BY <1>4 DEF AddDeploymentWarden, NextRun, RunAction, AddInstanceWarden, Start, SavePlaceholders, Stop,
                Mark, StartFails, StopFails, history
  <2> QED BY <2>1, <2>2 DEF CleanSoFar, KeepsPlace
<1>5. CASE RollBack \/ Unguard \/ ListFails \/ AddFails
  <2>1. job'.failed
    BY <1>0, <1>5, NetworkFailsType DEF RollBack, Unguard, ListFails, AddFails
  <2> QED BY <2>1 DEF CleanSoFar
<1>6. CASE ListKnownFails \/ Crash
  BY <1>0, <1>6 DEF ListKnownFails, Crash, CleanSoFar, DoneDidNotFail
<1>7. CASE Others \/ Saves
  <2>1. job' = job /\ clean' = clean
    BY <1>0, <1>7, OthersNotice
  <2> QED BY <2>1 DEF CleanSoFar
<1> QED BY <1>1, <1>2, <1>3, <1>4, <1>5, <1>6, <1>7 DEF Next, Steps, Failures, RunAction

LEMMA DoneStep ==
    ASSUME MigratedInv, Next
    PROVE  DoneDidNotFail'
<1>0. /\ job \in Jobs /\ DoneDidNotFail /\ TypeInv /\ RunIsTaken
      /\ defined \subseteq Deployments /\ metadata \in [Deployments -> {"plain", "parameters", "none"}]
      /\ job.full \in BOOLEAN
  BY Parts, Fields
<1>1. CASE MigrateToWarden \/ ListKnownFails \/ Crash
  BY <1>0, <1>1, MigrateToWardenType DEF DoneDidNotFail
<1>2. CASE New \/ ListKnownNetworkIds \/ NextNetwork
  <2>1. job'.pc \in {"known", "network", "deployments"}
    BY <1>0, <1>2, GotoType, NextNetworkType DEF New, ListKnownNetworkIds, Jobs
  <2> QED BY <2>1 DEF DoneDidNotFail, At
<1>3. CASE ListDeployments \/ Visit \/ NextPage \/ CollectMetadata \/ CollectDefinitions \/ CollectInstances
  <2>1. job'.pc \in {"visit", "deployments", "network", "metadata", "definitions", "instances", "guard"}
    BY <1>0, <1>3, ListDeploymentsType, VisitType, NextPageType, CollectMetadataType, CollectDefinitionsType,
       CollectInstancesType
  <2> QED BY <2>1 DEF DoneDidNotFail, At
<1>4. CASE AddDeploymentWarden \/ NextRun \/ RunAction
  <2>1. job'.pc # "done"
    BY <1>0, <1>4, AddDeploymentWardenType, NextRunType, RunActionType DEF GuardsOne, RunAction
  <2> QED BY <2>1 DEF DoneDidNotFail, At
<1>5. CASE RollBack \/ Unguard \/ ListFails \/ AddFails
  <2>1. job'.pc = "network"
    BY <1>0, <1>5, NetworkFailsType DEF RollBack, Unguard, ListFails, AddFails
  <2> QED BY <2>1 DEF DoneDidNotFail, At
<1>6. CASE Others \/ Saves
  <2>1. job' = job
    BY <1>0, <1>6, OthersNotice
  <2> QED BY <1>0, <2>1 DEF DoneDidNotFail, At
<1> QED BY <1>1, <1>2, <1>3, <1>4, <1>5, <1>6 DEF Next, Steps, Failures, RunAction

(* The migration itself writes instances, and guards, only.                *)
LEMMA StepsTouchNothing ==
    ASSUME Steps \/ Failures
    PROVE  /\ UNCHANGED <<deployment, metadata, defined, ofOthers>>
           /\ instance' = instance \/ Mark
           /\ info' = info \/ AddDeploymentWarden
           /\ UNCHANGED <<starts, stopped>> \/ RunAction
BY DEF Steps, Failures, New, ListKnownNetworkIds, NextNetwork, MigrateToWarden, ListDeployments, Visit, NextPage,
       CollectMetadata, CollectDefinitions, CollectInstances, AddDeploymentWarden, NextRun,
       AddInstanceWarden, Start, SavePlaceholders, RollBack, Stop, Mark, Unguard,
       ListFails, ListKnownFails, AddFails, StartFails, StopFails, Crash, RunAction, stored, history

LEMMA FoundStep ==
    ASSUME MigratedInv, Next
    PROVE  FoundExist'
<1>0. /\ job \in Jobs /\ FoundExist /\ TypeInv /\ RunIsTaken /\ instance \in [Runs -> InstanceStates]
      /\ job.instances \in [Runs -> Nat] /\ job.runs \in [Runs -> Nat]
      /\ defined \subseteq Deployments /\ metadata \in [Deployments -> {"plain", "parameters", "none"}]
  BY Parts, Fields
<1>1. CASE Others \/ Saves
  <2>1. job' = job
    BY <1>0, <1>1, OthersNotice
  <2>2. \A r \in Runs \ touched'.instance : r \notin touched.instance /\ instance'[r] = instance[r]
    BY <1>0, <1>1, OthersLeave
  <2> QED BY <1>0, <2>1, <2>2 DEF FoundExist, WorksOn
<1>2. CASE Steps \/ Failures
  <2>0. touched' = touched /\ (instance' = instance \/ Mark)
    BY <1>2, StepsTouchNothing DEF ofOthers
  <2>1. ASSUME instance' = instance, job'.pc \notin RunSteps,
               \A r \in Runs : job'.instances[r] > 0 \/ job'.runs[r] > 0 => job.instances[r] > 0 \/ job.runs[r] > 0
        PROVE  FoundExist'
    BY <1>0, <2>0, <2>1 DEF FoundExist, WorksOn
  <2>2. CASE New \/ ListKnownNetworkIds \/ RollBack \/ Unguard \/ ListFails \/ AddFails
    <3>1. job'.pc \in {"known", "network"} /\ job'.instances = job.instances /\ job'.runs = job.runs
      BY <1>0, <2>2, GotoType, NetworkFailsType
      DEF New, ListKnownNetworkIds, RollBack, Unguard, ListFails, AddFails, KeepsJob, KeepsFound, KeepsRuns, Jobs
    <3>2. instance' = instance
      BY <2>2 DEF New, ListKnownNetworkIds, RollBack, Unguard, ListFails, AddFails, stored
    <3> QED BY <2>1, <3>1, <3>2 DEF RunSteps
  <2>3. CASE NextNetwork \/ MigrateToWarden \/ ListKnownFails \/ Crash
    <3>1. /\ job'.pc \in {"deployments", "ended", "done"} /\ job'.instances = [r \in Runs |-> 0]
          /\ job'.runs = [r \in Runs |-> 0]
      BY <1>0, <2>3, NextNetworkType, MigrateToWardenType
    <3>2. instance' = instance
      BY <2>3 DEF NextNetwork, MigrateToWarden, ListKnownFails, Crash, stored
    <3> QED BY <2>1, <3>1, <3>2 DEF RunSteps
  <2>4. CASE ListDeployments \/ Visit \/ NextPage \/ CollectMetadata \/ CollectDefinitions
    <3>1. /\ job'.pc \in {"visit", "deployments", "network", "metadata", "definitions", "instances"}
          /\ job'.instances = job.instances /\ job'.runs = job.runs
      BY <1>0, <2>4, ListDeploymentsType, VisitType, NextPageType, CollectMetadataType, CollectDefinitionsType,
         Fields DEF KeepsFound, KeepsRuns
    <3>2. instance' = instance
      BY <2>4 DEF ListDeployments, Visit, NextPage, CollectMetadata, CollectDefinitions, stored
    <3> QED BY <2>1, <3>1, <3>2 DEF RunSteps
  <2>5. CASE CollectInstances
    <3>1. /\ job'.pc \in {"instances", "guard"} /\ job'.runs = job.runs /\ instance' = instance
          /\ \A r \in Runs : job'.instances[r] =
               IF r \in Page(InstanceList(job.network), InstanceId) /\ ToReplace(r)
               THEN job.instances[r] + 1 ELSE job.instances[r]
      BY <1>0, <2>5, CollectInstancesType, Zenon DEF CollectInstances, KeepsRuns, stored
    <3>2. \A r \in Runs : r \in Page(InstanceList(job.network), InstanceId) /\ ToReplace(r) =>
            instance[r] \in {"running", "deleting"}
      BY <1>0, OnPages DEF ToReplace, InstanceStates
    <3> QED BY <1>0, <2>0, <3>1, <3>2 DEF FoundExist, WorksOn, RunSteps
  <2>6. CASE AddDeploymentWarden
    <3>1. CASE job'.pc = "network" /\ KeepsJob
      BY <2>0, <2>1, <2>6, <3>1 DEF AddDeploymentWarden, KeepsJob, KeepsFound, KeepsRuns, RunSteps
    <3>2. ASSUME NEW d \in Deployments, GuardsOne(d) PROVE FoundExist'
      <4>1. /\ job'.pc = "runs" /\ job'.instances = job.instances
            /\ \A r \in Runs : job'.runs[r] \in {0, job.instances[r]}
        BY <1>0, <3>2 DEF GuardsOne, RunsOf
      <4>2. instance' = instance
        BY <2>6 DEF AddDeploymentWarden
      <4>3. \A r \in Runs : job'.instances[r] > 0 \/ job'.runs[r] > 0 => job.instances[r] > 0 \/ job.runs[r] > 0
        BY <1>0, <4>1
      <4> QED BY <2>1, <4>1, <4>2, <4>3 DEF RunSteps
    <3> QED BY <1>0, <2>6, <3>1, <3>2, AddDeploymentWardenType
  <2>7. CASE NextRun
    <3>1. /\ job'.instances = job.instances /\ instance' = instance
          /\ \A r \in Runs : job'.runs[r] > 0 \/ WorksOn(r)' => job.runs[r] > 0
      <4>1. CASE job'.pc = "guard" /\ job'.runs = job.runs
        BY <1>0, <2>7, <4>1, NextRunType DEF NextRun, stored, KeepsFound, WorksOn, RunSteps
      <4>2. ASSUME NEW q \in Runs, job.runs[q] > 0, job'.pc = "add", job'.run = q,
                   job'.runs = [job.runs EXCEPT ![q] = @ - 1]
            PROVE  /\ job'.instances = job.instances /\ instance' = instance
                   /\ \A r \in Runs : job'.runs[r] > 0 \/ WorksOn(r)' => job.runs[r] > 0
        BY <1>0, <2>7, <4>2, NextRunType DEF NextRun, stored, KeepsFound, WorksOn
      <4> QED BY <1>0, <2>7, <4>1, <4>2, NextRunType
    <3> QED BY <1>0, <2>0, <3>1 DEF FoundExist
  <2>8. CASE RunAction
    <3>1. /\ job'.instances = job.instances /\ job'.runs = job.runs /\ job'.run = job.run
          /\ job.pc \in RunSteps /\ job.run \in Runs
      BY <1>0, <2>8, RunActionType DEF KeepsJob, KeepsFound, KeepsRuns, WorksOn
    <3>2. instance' = instance \/ instance' = [instance EXCEPT ![job.run] = "deleting"]
      BY <2>0 DEF Mark
    <3> QED BY <1>0, <2>0, <3>1, <3>2 DEF FoundExist, WorksOn
  <2> QED BY <1>2, <2>2, <2>3, <2>4, <2>5, <2>6, <2>7, <2>8 DEF Steps, Failures, RunAction
<1> QED BY <1>1, <1>2 DEF Next

(* What is needed is the same while no document changes.                   *)
LEMMA SameNeeds ==
    ASSUME UNCHANGED <<deployment, metadata, defined, instance, ofOthers>>
    PROVE  /\ \A d : Known(d)' <=> Known(d)
           /\ \A r : Needed(r)' <=> Needed(r)
BY DEF ofOthers, Known, Needed

(* A step that works on no run leaves what runs have become.               *)
LEMMA NoRunReplaced ==
    ASSUME MigratedInv, CleanSoFar, job.pc \notin AtRuns, \A r \in Runs : job'.runs[r] = 0,
           UNCHANGED <<deployment, metadata, defined, instance, info, starts, stopped, ofOthers>>
    PROVE  GuardsAreRight' /\ RunsAreReplaced' /\ NothingLeft'
<1>0. GuardsAreRight /\ RunsAreReplaced /\ NothingLeft
  BY Parts DEF CleanCore
<1>1. \A r \in Runs : Needed(r) /\ info[DeploymentOf[r]] # "none" => Replaced(r)
  BY <1>0 DEF RunsAreReplaced, NothingLeft, AtRuns, BeingReplaced, WorksOn
<1>2. RunsAreReplaced'
  BY <1>1, SameNeeds DEF RunsAreReplaced, Replaced
<1>3. GuardsAreRight'
  BY <1>0, SameNeeds DEF GuardsAreRight, Guards
<1>4. NothingLeft'
  BY DEF NothingLeft
<1> QED BY <1>2, <1>3, <1>4

(* The migration finds its networks.                                       *)
LEMMA NetworksCleanCore ==
    ASSUME MigratedInv, CleanSoFar,
           New \/ ListKnownNetworkIds \/ NextNetwork \/ MigrateToWarden \/ Crash, clean'
    PROVE  CleanCore'
<1>0. /\ job \in Jobs /\ TypeInv /\ CleanCore /\ NothingLeft /\ NetworkOf \in [Deployments -> Networks]
      /\ job.runs \in [Runs -> Nat]
  BY Parts, Fields DEF CleanCore
<1>1. UNCHANGED <<deployment, metadata, defined, instance, info, starts, stopped, ofOthers>>
  BY DEF New, ListKnownNetworkIds, NextNetwork, MigrateToWarden, Crash, stored, history
<1>2. \A d : Known(d)' <=> Known(d)
  BY <1>1, SameNeeds
<1>3. ThroughGuarded
  BY <1>0 DEF CleanCore
<1>4. CASE New \/ ListKnownNetworkIds
  <2>1. /\ job.pc \in {"ended", "known"} /\ job'.runs = job.runs
        /\ job'.pc = "known" \/ (job'.pc = "network" /\ job'.todo = Networks)
    BY <1>0, <1>4, GotoType DEF New, ListKnownNetworkIds, At, Jobs, KeepsJob, KeepsRuns
  <2>2. ThroughGuarded'
    BY <1>0, <2>1 DEF ThroughGuarded, Through, AfterDeployments, RunSteps
  <2>3. job.pc \notin AtRuns /\ \A r \in Runs : job'.runs[r] = 0
    BY <1>0, <2>1 DEF NothingLeft, AtRuns, RunSteps
  <2> QED BY <1>1, <2>1, <2>2, <2>3, NoRunReplaced, OutsideRead DEF CleanCore, Outside
<1>5. CASE NextNetwork
  <2>1. PICK n \in job.todo : job'.network = n /\ job'.todo = job.todo \ {n}
    BY <1>0, <1>5, NextNetworkType
  <2>2. /\ job.pc = "network" /\ job'.pc = "deployments" /\ job'.offset = 0
        /\ job'.models = [d \in Deployments |-> "none"] /\ job'.deployments = [d \in Deployments |-> 0]
        /\ job'.runs = [r \in Runs |-> 0]
    BY <1>0, <1>5, NextNetworkType
  <2>3. DeploymentsRead'
    <3>1. DeploymentList(job.network)' \in SUBSET Deployments
      BY DEF DeploymentList
    <3>2. \A d : PlaceOf(d)' \in Nat
      BY <3>1, FiniteAssumption, FS_Subset, PlaceType DEF PlaceOf
    <3>3. ReadsDeployments'
      BY <2>2 DEF ReadsDeployments, At
    <3> QED BY <2>2, <3>2, <3>3 DEF DeploymentsRead, AfterDeployments, RunSteps
  <2>4. MetadataRead' /\ DefinitionsRead' /\ InstancesRead'
    BY <2>2 DEF MetadataRead, DefinitionsRead, InstancesRead,
                AfterInstances, AfterDefinitions, AfterMetadata, AfterDeployments, RunSteps
  <2>5. ThroughGuarded'
    BY <1>0, <1>1, <1>2, <1>3, <2>1, <2>2 DEF ThroughGuarded, Through, AfterDeployments, RunSteps
  <2>6. job.pc \notin AtRuns /\ \A r \in Runs : job'.runs[r] = 0
    BY <2>2 DEF AtRuns, RunSteps
  <2> QED BY <1>1, <2>3, <2>4, <2>5, <2>6, NoRunReplaced DEF CleanCore, ReadSoFar
<1>6. CASE MigrateToWarden
  <2>1. /\ job.pc = "network" /\ job.todo = {} /\ job'.pc \in {"ended", "done"} /\ job'.runs = [r \in Runs |-> 0]
    BY <1>0, <1>6, MigrateToWardenType
  <2>2. ThroughGuarded'
    BY <1>0, <1>1, <1>2, <1>3, <2>1 DEF ThroughGuarded, Through, AfterDeployments, RunSteps
  <2>3. job.pc \notin AtRuns /\ \A r \in Runs : job'.runs[r] = 0
    BY <2>1 DEF AtRuns, RunSteps
  <2> QED BY <1>1, <2>1, <2>2, <2>3, NoRunReplaced, OutsideRead DEF CleanCore, Outside
<1>7. CASE Crash
  <2>1. job.pc = "done" /\ job'.pc = "ended" /\ job'.runs = [r \in Runs |-> 0]
    BY <1>0, <1>7, MigrateToWardenType DEF Crash, At
  <2>2. ThroughGuarded'
    BY <2>1 DEF ThroughGuarded, Through, AfterDeployments, RunSteps
  <2>3. job.pc \notin AtRuns /\ \A r \in Runs : job'.runs[r] = 0
    BY <2>1 DEF AtRuns, RunSteps
  <2> QED BY <1>1, <2>1, <2>2, <2>3, NoRunReplaced, OutsideRead DEF CleanCore, Outside
<1> QED BY <1>4, <1>5, <1>6, <1>7

(* It reads the deployments of a network.                                  *)
LEMMA PagesCleanCore ==
    ASSUME MigratedInv, CleanSoFar, ListDeployments \/ Visit \/ NextPage
    PROVE  CleanCore'
<1>0. /\ job \in Jobs /\ TypeInv /\ NetworkOf \in [Deployments -> Networks]
      /\ job.offset \in Nat /\ BatchSize \in Nat \ {0} /\ job.deployments \in [Deployments -> Nat]
      /\ DeploymentsRead /\ MetadataRead /\ ThroughGuarded /\ NothingLeft /\ job.full \in BOOLEAN
  BY Parts, Fields DEF CleanCore, ReadSoFar
<1>1. /\ UNCHANGED <<deployment, metadata, defined, instance, info, starts, stopped, ofOthers>>
      /\ KeepsPlace /\ KeepsRuns /\ job.pc \in {"deployments", "visit"}
      /\ job'.pc \in {"visit", "deployments", "network", "metadata"} /\ job'.models = job.models
  BY <1>0, ListDeploymentsType, VisitType, NextPageType
  DEF ListDeployments, Visit, NextPage, stored, history, KeepsFound
<1>2. \A d : (Known(d)' <=> Known(d)) /\ (Here(d)' <=> Here(d)) /\ PlaceOf(d)' = PlaceOf(d)
  BY <1>1, SameNeeds DEF Here, PlaceOf, Place, DeploymentList, KeepsPlace
<1>3. GuardsAreRight' /\ RunsAreReplaced' /\ NothingLeft'
  BY <1>0, <1>1, NoRunReplaced DEF NothingLeft, AtRuns, RunSteps, KeepsRuns
<1>4. MetadataRead' /\ DefinitionsRead' /\ InstancesRead'
  <2>1. \A d \in Deployments : Known(d) => job.models[d] \in {"none", metadata[d]}
    BY <1>0, <1>1 DEF MetadataRead
  <2>2. MetadataRead'
    BY <1>1, <1>2, <2>1 DEF MetadataRead, AfterMetadata, AfterDeployments, RunSteps
  <2>3. DefinitionsRead' /\ InstancesRead'
    BY <1>1 DEF DefinitionsRead, InstancesRead, AfterInstances, AfterDefinitions, AfterMetadata,
                AfterDeployments, RunSteps
  <2> QED BY <2>2, <2>3
<1>5. ASSUME NEW d \in Deployments, Known(d), Here(d), info[d] = "none"
      PROVE  /\ job'.pc \in {"metadata", "network"} => job'.deployments[d] > 0
             /\ job'.pc \in {"deployments", "visit"} =>
                  \/ job'.deployments[d] > 0
                  \/ job'.pc = "visit" /\ d \in job'.batch
                  \/ ReadsDeployments' /\ PlaceOf(d) >= job'.offset
  <2>0. /\ deployment[d] # "none" /\ PlaceOf(d) \in Nat
        /\ \/ job.deployments[d] > 0
           \/ job.pc = "visit" /\ d \in job.batch
           \/ ReadsDeployments /\ PlaceOf(d) >= job.offset
    BY <1>0, <1>1, <1>5, PlaceTypes DEF DeploymentsRead, Known
  <2>1. CASE ListDeployments
    <3>1. /\ job.pc = "deployments" /\ job'.pc = "visit" /\ job'.deployments = job.deployments
          /\ job'.offset = job.offset + BatchSize
          /\ job'.batch = Page(DeploymentList(job.network), DeploymentId)
          /\ job'.full <=> IsFull(job'.batch)
      BY <1>0, <2>1, ListDeploymentsType DEF KeepsFound, KeepsDeployments
    <3>2. CASE job.deployments[d] > 0
      BY <3>1, <3>2
    <3>3. CASE PlaceOf(d) >= job.offset /\ PlaceOf(d) < job.offset + BatchSize
      <4>1. d \in job'.batch
        BY <1>0, <1>5, <2>0, <3>1, <3>3, OnPages
      <4> QED BY <3>1, <4>1
    <3>4. CASE PlaceOf(d) >= job.offset + BatchSize
      <4>1. d \in DeploymentList(job.network)
        BY <1>5, <2>0 DEF DeploymentList, Here
      <4>2. IsFull(job'.batch)
        BY <1>0, <2>0, <3>1, <3>4, <4>1, PagesCover
      <4>3. ReadsDeployments'
        BY <3>1, <4>2 DEF ReadsDeployments, At
      <4> QED BY <3>1, <3>4, <4>3
    <3> QED BY <1>0, <2>0, <3>1, <3>2, <3>3, <3>4
  <2>2. CASE Visit
    <3>1. PICK e \in job.batch :
            /\ job.pc = "visit" /\ job'.pc = "visit" /\ job'.batch = job.batch \ {e}
            /\ job'.deployments = [job.deployments EXCEPT ![e] = IF info[e] = "none" THEN @ + 1 ELSE @]
            /\ job'.offset = job.offset /\ job'.full = job.full
      BY <1>0, <2>2, VisitType
    <3>2. ReadsDeployments' <=> ReadsDeployments
      BY <3>1 DEF ReadsDeployments, At
    <3>3. job.deployments[d] > 0 \/ d = e => job'.deployments[d] > 0
      BY <1>0, <1>5, <3>1
    <3> QED BY <2>0, <3>1, <3>2, <3>3
  <2>3. CASE NextPage
    <3>1. /\ job.pc = "visit" /\ job.batch = {} /\ job'.deployments = job.deployments
          /\ job.full => job'.pc = "deployments" /\ job'.offset = job.offset
          /\ ~job.full => job'.pc \in {"network", "metadata"}
      BY <1>0, <2>3, NextPageType DEF KeepsFound, KeepsDeployments
    <3>2. job.deployments[d] > 0 \/ (job.full /\ PlaceOf(d) >= job.offset)
      BY <2>0, <3>1 DEF ReadsDeployments, At
    <3>3. job'.pc = "deployments" => ReadsDeployments'
      BY DEF ReadsDeployments, At
    <3> QED BY <1>0, <3>1, <3>2, <3>3
  <2> QED BY <2>1, <2>2, <2>3
<1>6. DeploymentsRead'
  BY <1>1, <1>2, <1>5 DEF DeploymentsRead, AfterDeployments, RunSteps
<1>7. ThroughGuarded'
  <2>1. CASE job'.pc = "network"
    <3>1. /\ job.pc = "visit" /\ NoneFound /\ job'.deployments = job.deployments
      BY <1>0, <2>1, ListDeploymentsType, VisitType, NextPageType DEF KeepsFound, KeepsDeployments
    <3>2. \A d \in Deployments : Known(d) /\ Here(d) => info[d] # "none"
      BY <1>0, <1>5, <2>1, <3>1 DEF NoneFound
    <3> QED BY <1>0, <1>1, <1>2, <2>1, <3>1, <3>2
            DEF ThroughGuarded, Through, Here, AfterDeployments, RunSteps, KeepsPlace
  <2>2. CASE job'.pc # "network"
    BY <1>0, <1>1, <1>2, <2>2 DEF ThroughGuarded, Through, AfterDeployments, RunSteps, KeepsPlace
  <2> QED BY <2>1, <2>2
<1> QED BY <1>3, <1>4, <1>6, <1>7 DEF CleanCore, ReadSoFar

(* It reads the other lists.                                               *)
LEMMA CollectCleanCore ==
    ASSUME MigratedInv, CleanSoFar, CollectMetadata \/ CollectDefinitions \/ CollectInstances
    PROVE  CleanCore'
<1>0. /\ job \in Jobs /\ TypeInv /\ NetworkOf \in [Deployments -> Networks]
      /\ DeploymentOf \in [Runs -> Deployments]
      /\ job.offset \in Nat /\ BatchSize \in Nat \ {0} /\ job.deployments \in [Deployments -> Nat]
      /\ job.instances \in [Runs -> Nat]
      /\ defined \subseteq Deployments /\ metadata \in [Deployments -> {"plain", "parameters", "none"}]
      /\ job.models \in [Deployments -> {"plain", "parameters", "none"}]
      /\ DeploymentsRead /\ MetadataRead /\ DefinitionsRead /\ InstancesRead /\ ThroughGuarded /\ NothingLeft
      /\ DeploymentsOnce
  BY Parts, Fields DEF CleanCore, ReadSoFar
<1>1. /\ UNCHANGED <<deployment, metadata, defined, instance, info, starts, stopped, ofOthers>>
      /\ KeepsPlace /\ KeepsRuns /\ KeepsDeployments
      /\ job.pc \in {"metadata", "definitions", "instances"}
      /\ job'.pc \in {"metadata", "definitions", "instances", "guard"}
  BY <1>0, CollectMetadataType, CollectDefinitionsType, CollectInstancesType
  DEF CollectMetadata, CollectDefinitions, CollectInstances, stored, history
<1>2. /\ \A d : /\ Known(d)' <=> Known(d)
                /\ Here(d)' <=> Here(d)
                /\ PlaceOfDefinition(d)' = PlaceOfDefinition(d)
      /\ \A r : (Needed(r)' <=> Needed(r)) /\ PlaceOfRun(r)' = PlaceOfRun(r)
  BY <1>1, SameNeeds DEF Here, PlaceOfDefinition, PlaceOfRun, Place, DefinitionList, InstanceList, KeepsPlace
<1>3. GuardsAreRight' /\ RunsAreReplaced' /\ NothingLeft'
  BY <1>0, <1>1, NoRunReplaced DEF NothingLeft, AtRuns, RunSteps, KeepsRuns
<1>4. ThroughGuarded'
  BY <1>0, <1>1, <1>2 DEF ThroughGuarded, Through, AfterDeployments, RunSteps, KeepsPlace
<1>5. DeploymentsRead'
  BY <1>0, <1>1, <1>2 DEF DeploymentsRead, AfterDeployments, RunSteps, KeepsDeployments
<1>6. CASE CollectMetadata
  <2>1. /\ job.pc = "metadata" /\ job'.pc \in {"metadata", "definitions"}
        /\ job'.defs = job.defs /\ job'.instances = job.instances /\ job'.offset = job.offset
        /\ \A d \in Deployments : job'.models[d] =
             IF job.deployments[d] > 0 /\ NetworkOf[d] = job.network /\ metadata[d] # "none"
             THEN metadata[d] ELSE job.models[d]
    BY <1>0, <1>6, CollectMetadataType DEF KeepsPages
  <2>2. job.offset = 0
    BY <1>0, <2>1 DEF DeploymentsOnce
  <2>3. ASSUME NEW d \in Deployments, Known(d)
        PROVE  /\ job'.models[d] \in {"none", metadata[d]}
               /\ job.deployments[d] > 0 => job'.models[d] = metadata[d]
    <3>1. job.models[d] \in {"none", metadata[d]}
      BY <1>0, <2>1, <2>3 DEF MetadataRead
    <3>2. job.deployments[d] > 0 => NetworkOf[d] = job.network
      BY <1>0 DEF DeploymentsOnce, Here
    <3> QED BY <1>0, <2>1, <3>1, <3>2
  <2>4. MetadataRead'
    BY <1>1, <1>2, <2>3 DEF MetadataRead, KeepsDeployments
  <2>5. DefinitionsRead'
    <3>1. \A d : PlaceOfDefinition(d) >= job'.offset
      BY <1>0, <2>1, <2>2, PlaceTypes
    <3> QED BY <1>2, <2>1, <3>1
            DEF DefinitionsRead, AfterDefinitions, AfterMetadata, AfterDeployments, RunSteps
  <2>6. InstancesRead'
    BY <2>1 DEF InstancesRead, AfterInstances, AfterDefinitions, AfterMetadata, AfterDeployments, RunSteps
  <2> QED BY <1>3, <1>4, <1>5, <2>4, <2>5, <2>6 DEF CleanCore, ReadSoFar
<1>7. CASE CollectDefinitions
  <2> DEFINE page == Page(DefinitionList(job.network), DefinitionId)
  <2>1. /\ job.pc = "definitions" /\ job'.models = job.models /\ job'.instances = job.instances
        /\ IsFull(page) => job'.pc = "definitions" /\ job'.offset = job.offset + BatchSize
        /\ ~IsFull(page) => job'.pc = "instances" /\ job'.offset = 0
        /\ job'.defs = job.defs \cup {d \in page : job.deployments[d] > 0}
    BY <1>0, <1>7, CollectDefinitionsType
  <2>2. ASSUME NEW d \in defined, d \notin touched.definition \cup moved.definition, job.deployments[d] > 0
        PROVE  /\ job'.pc = "definitions" => d \in job'.defs \/ PlaceOfDefinition(d) >= job'.offset
               /\ job'.pc = "instances" => d \in job'.defs
    <3>1. /\ d \in job.defs \/ PlaceOfDefinition(d) >= job.offset
          /\ Here(d) /\ d \in Deployments /\ PlaceOfDefinition(d) \in Nat
      BY <1>0, <2>1, <2>2, PlaceTypes DEF DefinitionsRead, DeploymentsOnce
    <3>2. CASE d \in job.defs
      BY <2>1, <3>2
    <3>3. CASE PlaceOfDefinition(d) >= job.offset /\ PlaceOfDefinition(d) < job.offset + BatchSize
      <4>1. d \in page
        BY <1>0, <2>2, <3>1, <3>3, OnPages
      <4> QED BY <2>1, <2>2, <4>1
    <3>4. CASE PlaceOfDefinition(d) >= job.offset + BatchSize
      <4>1. d \in DefinitionList(job.network)
        BY <2>2, <3>1 DEF DefinitionList, Here
      <4>2. IsFull(page)
        BY <1>0, <3>1, <3>4, <4>1, PagesCover
      <4> QED BY <2>1, <3>4, <4>2
    <3> QED BY <1>0, <3>1, <3>2, <3>3, <3>4
  <2>3. job'.pc \in {"definitions", "instances"}
    BY <2>1
  <2>4. DefinitionsRead'
    BY <1>1, <1>2, <2>2, <2>3
    DEF DefinitionsRead, AfterDefinitions, AfterMetadata, AfterDeployments, RunSteps, KeepsDeployments, ofOthers
  <2>5. InstancesRead'
    <3>1. job'.pc = "instances" => job'.offset = 0
      BY <2>1
    <3>2. \A r : PlaceOfRun(r) \in Nat
      BY <1>0, PlaceTypes
    <3>3. \A r \in Runs : job'.pc = "instances" => PlaceOfRun(r) >= job'.offset
      BY <3>1, <3>2
    <3> QED BY <1>2, <2>3, <3>3
            DEF InstancesRead, AfterInstances, AfterDefinitions, AfterMetadata, AfterDeployments, RunSteps
  <2>6. MetadataRead'
    BY <1>0, <1>1, <1>2, <2>1, <2>3 DEF MetadataRead, AfterMetadata, AfterDeployments, KeepsDeployments
  <2> QED BY <1>3, <1>4, <1>5, <2>4, <2>5, <2>6 DEF CleanCore, ReadSoFar
<1>8. CASE CollectInstances
  <2> DEFINE page == Page(InstanceList(job.network), InstanceId)
  <2>1. /\ job.pc = "instances" /\ job'.models = job.models /\ job'.defs = job.defs
        /\ job'.pc = IF IsFull(page) THEN "instances" ELSE "guard"
        /\ job'.offset = job.offset + BatchSize
        /\ \A r \in Runs : job'.instances[r] =
             IF r \in page /\ ToReplace(r) THEN job.instances[r] + 1 ELSE job.instances[r]
    BY <1>0, <1>8, CollectInstancesType, Zenon
  <2>2. ASSUME NEW r \in Runs, Needed(r), job.deployments[DeploymentOf[r]] > 0
        PROVE  /\ job'.pc = "instances" => job'.instances[r] > 0 \/ PlaceOfRun(r) >= job'.offset
               /\ job'.pc = "guard" => job'.instances[r] > 0
    <3>1. /\ job.instances[r] > 0 \/ PlaceOfRun(r) >= job.offset
          /\ Here(DeploymentOf[r]) /\ PlaceOfRun(r) \in Nat /\ job.instances[r] \in Nat
      BY <1>0, <2>1, <2>2, PlaceTypes DEF InstancesRead, DeploymentsOnce
    <3>2. instance[r] # "none" /\ ToReplace(r)
      BY <1>0, <2>1, <2>2
      DEF Needed, ToReplace, DefinitionsRead, AfterDefinitions, AfterMetadata, AfterDeployments
    <3>3. CASE job.instances[r] > 0
      <4>1. job'.instances[r] > 0
        BY <2>1, <3>1, <3>3
      <4> QED BY <4>1
    <3>4. CASE PlaceOfRun(r) >= job.offset /\ PlaceOfRun(r) < job.offset + BatchSize
      <4>1. r \in page
        BY <1>0, <3>1, <3>2, <3>4, OnPages
      <4>2. job'.instances[r] > 0
        BY <2>1, <3>1, <3>2, <4>1
      <4> QED BY <4>2
    <3>5. CASE PlaceOfRun(r) >= job.offset + BatchSize
      <4>1. r \in InstanceList(job.network)
        BY <3>1, <3>2 DEF InstanceList, Here
      <4>2. IsFull(page)
        BY <1>0, <3>1, <3>5, <4>1, PagesCover
      <4> QED BY <2>1, <3>5, <4>2
    <3> QED BY <1>0, <3>1, <3>3, <3>4, <3>5
  <2>3. job'.pc \in {"instances", "guard"}
    BY <2>1
  <2>4. InstancesRead'
    BY <1>1, <1>2, <2>2, <2>3
    DEF InstancesRead, AfterInstances, AfterDefinitions, AfterMetadata, AfterDeployments, RunSteps, KeepsDeployments
  <2>5. DefinitionsRead'
    BY <1>0, <1>1, <1>2, <2>1, <2>3
    DEF DefinitionsRead, AfterDefinitions, AfterMetadata, AfterDeployments, KeepsDeployments, ofOthers
  <2>6. MetadataRead'
    BY <1>0, <1>1, <1>2, <2>1, <2>3 DEF MetadataRead, AfterMetadata, AfterDeployments, KeepsDeployments
  <2> QED BY <1>3, <1>4, <1>5, <2>4, <2>5, <2>6 DEF CleanCore, ReadSoFar
<1> QED BY <1>6, <1>7, <1>8

(* It guards a deployment with what it read, and lists its runs.           *)
LEMMA GuardCleanCore ==
    ASSUME MigratedInv, CleanSoFar, AddDeploymentWarden
    PROVE  CleanCore'
<1>0. /\ job \in Jobs /\ TypeInv /\ job.deployments \in [Deployments -> Nat]
      /\ DeploymentOf \in [Runs -> Deployments]
      /\ job.instances \in [Runs -> Nat] /\ info \in [Deployments -> {"model", "empty", "none"}]
      /\ DeploymentsRead /\ MetadataRead /\ DefinitionsRead /\ InstancesRead
      /\ ThroughGuarded /\ NothingLeft /\ GuardsAreRight /\ RunsAreReplaced /\ job.pc = "guard"
      /\ \A r \in Runs : job.runs[r] = 0
  BY Parts, Fields, AddDeploymentWardenType DEF CleanCore, ReadSoFar, NothingLeft, AtRuns, RunSteps
<1>1. UNCHANGED <<deployment, metadata, defined, instance, starts, stopped, ofOthers>>
  BY DEF AddDeploymentWarden, history
<1>2. (\A d : Known(d)' <=> Known(d)) /\ (\A r : Needed(r)' <=> Needed(r)) /\ (\A r : Replaced(r)' <=> Replaced(r))
  BY <1>1, SameNeeds DEF Replaced
<1>3. CASE NoneFound /\ job'.pc = "network" /\ KeepsJob /\ info' = info
  <2>1. ThroughGuarded'
    <3>1. \A d \in Deployments : Known(d) /\ Here(d) => info[d] # "none"
      BY <1>0, <1>3 DEF DeploymentsRead, NoneFound, AfterDeployments
    <3> QED BY <1>0, <1>2, <1>3, <3>1 DEF ThroughGuarded, Through, Here, AfterDeployments, KeepsJob, KeepsPlace
  <2>2. GuardsAreRight' /\ RunsAreReplaced' /\ NothingLeft'
    BY <1>0, <1>1, <1>3, NoRunReplaced DEF AtRuns, RunSteps, KeepsJob, KeepsRuns
  <2> QED BY <1>3, <2>1, <2>2, OutsideRead DEF CleanCore, Outside
<1>4. ASSUME NEW d \in Deployments, GuardsOne(d) PROVE CleanCore'
  <2>1. /\ job.deployments[d] > 0 /\ job'.pc = "runs" /\ KeepsPlace
        /\ job'.deployments = [job.deployments EXCEPT ![d] = @ - 1]
        /\ job'.models = job.models /\ job'.defs = job.defs /\ job'.instances = job.instances
        /\ \A r \in Runs : job'.runs[r] =
             IF DeploymentOf[r] = d /\ job.models[d] # "parameters" THEN job.instances[r] ELSE 0
        /\ \A e \in Deployments : e # d => info'[e] = info[e]
        /\ info'[d] = IF job.models[d] = "none" THEN "empty" ELSE "model"
    BY <1>0, <1>4 DEF GuardsOne, RunsOf
  <2>2. \A e \in Deployments : /\ job'.deployments[e] > 0 => job.deployments[e] > 0
                               /\ e # d => job'.deployments[e] = job.deployments[e]
    BY <1>0, <2>1
  <2>3. Known(d) => job.models[d] = metadata[d]
    BY <1>0, <2>1 DEF MetadataRead, AfterMetadata, AfterDeployments
  <2>4. DeploymentsRead'
    <3>1. \A e \in Deployments : Known(e) /\ Here(e) /\ info'[e] = "none" => job'.deployments[e] > 0
      BY <1>0, <2>1, <2>2 DEF DeploymentsRead, AfterDeployments
    <3> QED BY <1>2, <2>1, <3>1 DEF DeploymentsRead, Here, KeepsPlace
  <2>5. MetadataRead'
    BY <1>0, <1>1, <1>2, <2>1, <2>2 DEF MetadataRead, AfterMetadata, AfterDeployments
  <2>6. DefinitionsRead'
    <3>1. \A e \in defined \ (touched.definition \cup moved.definition) : e \in Deployments
      BY Fields, <1>0
    <3> QED BY <1>0, <1>1, <2>1, <2>2, <3>1
            DEF DefinitionsRead, AfterDefinitions, AfterMetadata, AfterDeployments, ofOthers
  <2>7. InstancesRead'
    BY <1>0, <1>2, <2>1, <2>2 DEF InstancesRead, AfterInstances, AfterDefinitions, AfterMetadata, AfterDeployments
  <2>8. ThroughGuarded'
    BY <1>0, <1>2, <2>1 DEF ThroughGuarded, Through, AfterDeployments, KeepsPlace
  <2>9. GuardsAreRight'
    BY <1>0, <1>1, <1>2, <2>1, <2>3 DEF GuardsAreRight, Guards
  <2>10. RunsAreReplaced'
    <3> SUFFICES ASSUME NEW r \in Runs, Needed(r), info'[DeploymentOf[r]] # "none"
                 PROVE  Replaced(r) \/ job'.runs[r] > 0
      BY <1>2 DEF RunsAreReplaced
    <3>1. CASE DeploymentOf[r] = d
      <4>1. job.instances[r] > 0
        BY <1>0, <2>1, <3>1 DEF InstancesRead, AfterInstances, AfterDefinitions, AfterMetadata, AfterDeployments
      <4>2. job.models[d] # "parameters"
        BY <2>3, <3>1 DEF Needed
      <4> QED BY <2>1, <3>1, <4>1, <4>2
    <3>2. CASE DeploymentOf[r] # d
      BY <1>0, <2>1, <3>2 DEF RunsAreReplaced, BeingReplaced, WorksOn, RunSteps
    <3> QED BY <3>1, <3>2
  <2>11. NothingLeft'
    BY <2>1 DEF NothingLeft, AtRuns
  <2> QED BY <2>4, <2>5, <2>6, <2>7, <2>8, <2>9, <2>10, <2>11 DEF CleanCore, ReadSoFar
<1> QED BY <1>0, <1>3, <1>4, AddDeploymentWardenType

(* What it works on of a run leaves what was read, and the guards.         *)
LEMMA RunKeepsRead ==
    ASSUME MigratedInv, CleanSoFar, UNCHANGED <<deployment, info, metadata, defined, ofOthers>>,
           job.pc \in AtRuns, job'.pc \in AtRuns \cup {"guard"}, KeepsPlace, KeepsFound,
           \A r \in Runs : Needed(r)' => Needed(r)
    PROVE  ReadSoFar' /\ ThroughGuarded' /\ GuardsAreRight'
<1>0. /\ DeploymentsRead /\ MetadataRead /\ DefinitionsRead /\ InstancesRead
      /\ ThroughGuarded /\ GuardsAreRight
  BY Parts DEF CleanCore, ReadSoFar
<1>1. \A d : (Known(d)' <=> Known(d)) /\ (Here(d)' <=> Here(d))
  BY DEF Known, Here, KeepsPlace, ofOthers
<1>2. /\ job.pc \in AfterInstances /\ job'.pc \in AfterInstances
      /\ job'.pc \notin {"deployments", "visit", "metadata", "definitions", "instances", "network", "done"}
  BY DEF AtRuns, RunSteps, AfterInstances, AfterDefinitions, AfterMetadata, AfterDeployments
<1>3. /\ job.pc \in AfterDefinitions /\ job.pc \in AfterMetadata /\ job.pc \in AfterDeployments
      /\ job'.pc \in AfterDefinitions /\ job'.pc \in AfterMetadata /\ job'.pc \in AfterDeployments
  BY <1>2 DEF AfterInstances, AfterDefinitions, AfterMetadata
<1>4. DeploymentsRead' /\ MetadataRead'
  BY <1>0, <1>1, <1>2, <1>3 DEF DeploymentsRead, MetadataRead, KeepsFound, KeepsDeployments
<1>5. DefinitionsRead'
  BY <1>0, <1>2, <1>3 DEF DefinitionsRead, KeepsFound, KeepsDeployments, ofOthers
<1>6. InstancesRead'
  BY <1>0, <1>2 DEF InstancesRead, KeepsFound, KeepsDeployments
<1>7. ThroughGuarded'
  BY <1>0, <1>1, <1>2, <1>3 DEF ThroughGuarded, Through, KeepsPlace
<1>8. GuardsAreRight'
  BY <1>0, <1>1 DEF GuardsAreRight, Guards
<1> QED BY <1>4, <1>5, <1>6, <1>7, <1>8 DEF ReadSoFar

(* It takes a run, or has replaced all of the deployment.                  *)
LEMMA NextRunCleanCore ==
    ASSUME MigratedInv, CleanSoFar, NextRun
    PROVE  CleanCore'
<1>0. /\ RunsAreReplaced /\ job \in Jobs /\ job.runs \in [Runs -> Nat]
  BY Parts, Fields DEF CleanCore
<1>1. UNCHANGED <<deployment, metadata, defined, instance, info, starts, stopped, ofOthers>>
  BY DEF NextRun, stored, history
<1>2. /\ job.pc = "runs" /\ job'.pc \in {"guard", "add"} /\ KeepsPlace /\ KeepsFound
      /\ job.pc \in AtRuns /\ job'.pc \in AtRuns \cup {"guard"}
  BY <1>0, NextRunType DEF AtRuns, RunSteps
<1>3. \A r \in Runs : (Needed(r)' <=> Needed(r)) /\ (Replaced(r)' <=> Replaced(r))
  BY <1>1, SameNeeds DEF Replaced
<1>4. ReadSoFar' /\ ThroughGuarded' /\ GuardsAreRight'
  BY <1>1, <1>2, <1>3, RunKeepsRead
<1>5. \A r \in Runs : Needed(r) /\ info[DeploymentOf[r]] # "none" => Replaced(r) \/ job.runs[r] > 0
  BY <1>0, <1>2 DEF RunsAreReplaced, BeingReplaced, WorksOn, RunSteps
<1>6. CASE (\A r \in Runs : job.runs[r] = 0) /\ job'.pc = "guard" /\ job'.runs = job.runs
  <2>1. RunsAreReplaced'
    BY <1>1, <1>3, <1>5, <1>6 DEF RunsAreReplaced
  <2>2. NothingLeft'
    BY <1>6 DEF NothingLeft
  <2> QED BY <1>4, <2>1, <2>2 DEF CleanCore
<1>7. ASSUME NEW q \in Runs, job'.pc = "add", job'.run = q, job'.runs = [job.runs EXCEPT ![q] = @ - 1]
      PROVE  CleanCore'
  <2>1. BeingReplaced(q)'
    BY <1>7 DEF BeingReplaced, WorksOn, RunSteps
  <2>2. \A r \in Runs : r # q => job'.runs[r] = job.runs[r]
    BY <1>0, <1>7
  <2>3. RunsAreReplaced'
    BY <1>1, <1>3, <1>5, <2>1, <2>2 DEF RunsAreReplaced
  <2>4. NothingLeft'
    BY <1>7 DEF NothingLeft, AtRuns, RunSteps
  <2> QED BY <1>4, <2>3, <2>4 DEF CleanCore
<1> QED BY <1>0, <1>6, <1>7, NextRunType

(* It replaces the run, unless a failure comes in between.                 *)
LEMMA ReplaceCleanCore ==
    ASSUME MigratedInv, CleanSoFar, RunAction
    PROVE  CleanCore'
<1>0. /\ RunsAreReplaced /\ FoundExist /\ job \in Jobs /\ RunIsTaken /\ WaitingUntouched
      /\ starts \in [Runs -> Nat] /\ instance \in [Runs -> InstanceStates] /\ stopped \subseteq Runs
  BY Parts, Fields DEF StartCore, CleanCore
<1>1. /\ job.run \in Runs /\ WorksOn(job.run) /\ job'.runs = job.runs /\ job'.run = job.run
      /\ KeepsPlace /\ KeepsFound /\ job.pc \in RunSteps
  BY <1>0, RunActionType DEF KeepsJob, KeepsRuns, WorksOn
<1>2. job.pc \in AtRuns /\ job'.pc \in AtRuns
  BY <1>0, <1>1, RunActionType DEF RunAction, AtRuns, RunSteps
<1>3. UNCHANGED <<deployment, metadata, defined, info, ofOthers>>
  BY DEF RunAction, AddInstanceWarden, Start, SavePlaceholders, Stop, Mark, StartFails, StopFails, stored, history
<1>4. /\ starts' = starts \/ (Start /\ job'.pc = "save" /\ starts' = [starts EXCEPT ![job.run] = @ + 1])
      /\ stopped' = stopped \/ stopped' = stopped \cup {job.run}
      /\ instance' = instance \/ instance' = [instance EXCEPT ![job.run] = "deleting"]
  <2>1. Start => starts' = starts \/ (job'.pc = "save" /\ starts' = [starts EXCEPT ![job.run] = @ + 1])
    BY <1>0, RunActionType DEF Start
  <2> QED BY <2>1 DEF RunAction, AddInstanceWarden, Start, SavePlaceholders, Stop, Mark, StartFails, StopFails,
                     stored, history
<1>5. \A r \in Runs : r # job.run =>
        starts'[r] = starts[r] /\ instance'[r] = instance[r] /\ (r \in stopped' <=> r \in stopped)
  BY <1>0, <1>4
<1>6. \A d : Known(d)' <=> Known(d)
  BY <1>3 DEF Known, ofOthers
<1>7. \A r \in Runs : Needed(r)' => Needed(r)
  <2> SUFFICES ASSUME NEW r \in Runs, Needed(r)' PROVE Needed(r)
    OBVIOUS
  <2>1. instance[r] \in {"running", "deleting"}
    <3>1. CASE r = job.run
      BY <1>0, <1>1, <1>3, <3>1 DEF FoundExist, Needed, ofOthers
    <3>2. CASE r # job.run
      BY <1>5, <3>2 DEF Needed
    <3> QED BY <3>1, <3>2
  <2> QED BY <1>3, <1>6, <2>1 DEF Needed, ofOthers
<1>8. ReadSoFar' /\ ThroughGuarded' /\ GuardsAreRight'
  BY <1>1, <1>2, <1>3, <1>7, RunKeepsRead
<1>9. NothingLeft'
  BY <1>2 DEF NothingLeft
<1>10. ASSUME NEW r \in Runs, r # job.run, Needed(r), info[DeploymentOf[r]] # "none"
       PROVE  Replaced(r)' \/ job'.runs[r] > 0
  BY <1>0, <1>1, <1>5, <1>10 DEF RunsAreReplaced, BeingReplaced, WorksOn, Replaced
<1>11. ASSUME Needed(job.run), info[DeploymentOf[job.run]] # "none"
       PROVE  Replaced(job.run)' \/ job'.runs[job.run] > 0 \/ BeingReplaced(job.run)'
  <2>0. Replaced(job.run) \/ job.runs[job.run] > 0 \/ BeingReplaced(job.run)
    BY <1>0, <1>1, <1>11 DEF RunsAreReplaced
  <2>1. ~Excused(job.run)
    BY <1>11 DEF Needed, Known, Excused, Deleted, Moved
  <2>2. job.pc \in {"add", "start"} => starts[job.run] = 0
    BY <1>0, <1>1, <2>1 DEF WaitingUntouched, Waits
  <2>3. instance[job.run] # "none"
    BY <1>11 DEF Needed
  <2>4. WorksOn(job.run)' <=> job'.pc \in RunSteps
    BY <1>1 DEF WorksOn
  <2>5. CASE AddInstanceWarden \/ StartFails \/ StopFails
    <3>1. job'.pc \in {"start", "rollback", "unguard"}
      BY <1>0, <2>5, RunActionType DEF RunAction
    <3> QED BY <1>1, <2>4, <3>1 DEF BeingReplaced, RunSteps
  <2>6. CASE Start
    <3>1. job'.pc = "rollback" \/ (job'.pc = "save" /\ starts'[job.run] = 1)
      <4>1. job.pc = "start"
        BY <1>0, <2>6, RunActionType DEF RunAction
      <4>2. CASE Startable(DeploymentOf[job.run])
        <5>1. starts' = [starts EXCEPT ![job.run] = @ + 1]
          BY <2>6, <4>2 DEF Start
        <5>2. job'.pc = "save"
          BY <1>0, <2>6, <4>2, RunActionType DEF RunAction
        <5> QED BY <1>0, <1>1, <2>2, <4>1, <5>1, <5>2
      <4>3. CASE ~Startable(DeploymentOf[job.run])
        BY <1>0, <2>6, <4>3, RunActionType DEF RunAction
      <4> QED BY <4>2, <4>3
    <3> QED BY <1>1, <2>4, <3>1 DEF BeingReplaced, RunSteps
  <2>7. CASE SavePlaceholders
    <3>1. job.pc = "save" /\ job'.pc = "stop" /\ UNCHANGED <<starts, stopped, instance>>
      BY <1>0, <2>7, RunActionType DEF RunAction, SavePlaceholders, stored, history
    <3> QED BY <1>1, <2>0, <2>4, <3>1 DEF Replaced, BeingReplaced, RunSteps
  <2>8. CASE Stop
    <3>1. /\ job.pc = "stop" /\ job'.pc = "mark" /\ job.run \in stopped' /\ UNCHANGED <<starts, instance>>
      BY <1>0, <2>3, <2>8, RunActionType DEF RunAction, Stop
    <3> QED BY <1>1, <2>0, <2>4, <3>1 DEF Replaced, BeingReplaced, RunSteps
  <2>9. CASE Mark
    <3>1. job.pc = "mark" /\ instance'[job.run] = "deleting" /\ UNCHANGED <<starts, stopped>>
      BY <1>0, <1>1, <2>9, RunActionType DEF RunAction, Mark, history
    <3> QED BY <1>1, <2>0, <3>1 DEF Replaced, BeingReplaced
  <2> QED BY <2>5, <2>6, <2>7, <2>8, <2>9 DEF RunAction
<1>12. RunsAreReplaced'
  BY <1>1, <1>3, <1>7, <1>10, <1>11 DEF RunsAreReplaced
<1> QED BY <1>8, <1>9, <1>12 DEF CleanCore

(* Users and clients touch what they change, and move what they move.      *)
LEMMA OthersCleanCore ==
    ASSUME MigratedInv, CleanSoFar, Others \/ Saves
    PROVE  CleanCore'
<1>0. /\ TypeInv /\ DeploymentsOnce /\ InstancesOnce /\ NothingLeft /\ ThroughGuarded /\ GuardsAreRight
      /\ RunsAreReplaced /\ DeploymentsRead /\ MetadataRead /\ DefinitionsRead /\ InstancesRead
      /\ DeploymentOf \in [Runs -> Deployments] /\ job.offset \in Nat /\ defined \subseteq Deployments
  BY Parts, Fields DEF CleanCore, ReadSoFar
<1>1. UNCHANGED <<job, starts, stopped, refused, clean>> /\ TypeInv' /\ defined' \subseteq Deployments
  BY <1>0, OthersNotice DEF TypeInv, TypeOK
<1>2. \A d \in Deployments : Known(d)' =>
        /\ Known(d) /\ metadata'[d] = metadata[d] /\ info'[d] = info[d]
        /\ d \notin moved'.deployment
  <2> SUFFICES ASSUME NEW d \in Deployments, Known(d)'
               PROVE  /\ Known(d) /\ metadata'[d] = metadata[d] /\ info'[d] = info[d]
                      /\ d \notin moved'.deployment
    OBVIOUS
  <2>1. d \notin touched'.deployment /\ d \notin moved'.deployment /\ deployment'[d] # "none"
    BY DEF Known
  <2>2. deployment'[d] = deployment[d] /\ metadata'[d] = metadata[d] /\ info'[d] = info[d]
    BY <1>0, <2>1, OthersLeave
  <2>3. d \notin touched.deployment /\ d \notin moved.deployment
    BY <1>0, <2>1, OthersLeave
  <2> QED BY <2>1, <2>2, <2>3 DEF Known
<1>3. \A d \in Deployments : d \in defined' \ (touched'.definition \cup moved'.definition) =>
        d \in defined \ (touched.definition \cup moved.definition) /\ d \notin moved'.definition
  BY <1>0, OthersLeave
<1>4. \A r \in Runs : Needed(r)' =>
        /\ Needed(r) /\ instance'[r] = instance[r] /\ info'[DeploymentOf[r]] = info[DeploymentOf[r]]
        /\ r \notin moved'.instance
  <2> SUFFICES ASSUME NEW r \in Runs, Needed(r)'
               PROVE  /\ Needed(r) /\ instance'[r] = instance[r] /\ info'[DeploymentOf[r]] = info[DeploymentOf[r]]
                      /\ r \notin moved'.instance
    OBVIOUS
  <2>1. /\ r \notin touched'.instance /\ r \notin moved'.instance /\ instance'[r] \in {"running", "deleting"}
        /\ Known(DeploymentOf[r])' /\ metadata'[DeploymentOf[r]] # "parameters"
        /\ DeploymentOf[r] \in defined' \ (touched'.definition \cup moved'.definition)
    BY DEF Needed
  <2>2. instance'[r] = instance[r] /\ r \notin touched.instance /\ r \notin moved.instance
    BY <1>0, <2>1, OthersLeave
  <2> QED BY <1>0, <1>2, <1>3, <2>1, <2>2 DEF Needed
<1>5. /\ ReadsDeployments' <=> ReadsDeployments
      /\ \A d : Here(d)' <=> Here(d)
  BY <1>1 DEF ReadsDeployments, At, Here
<1>6. /\ \A d : PlaceOf(d) \in Nat /\ PlaceOf(d)' \in Nat
      /\ \A d : PlaceOfDefinition(d) \in Nat /\ PlaceOfDefinition(d)' \in Nat
      /\ \A r : PlaceOfRun(r) \in Nat /\ PlaceOfRun(r)' \in Nat
  <2>1. /\ DeploymentList(job.network)' \in SUBSET Deployments /\ DefinitionList(job.network)' \in SUBSET Deployments
        /\ InstanceList(job.network)' \in SUBSET Runs
    BY <1>1 DEF DeploymentList, DefinitionList, InstanceList
  <2>2. /\ IsFiniteSet(DeploymentList(job.network)') /\ IsFiniteSet(DefinitionList(job.network)')
        /\ IsFiniteSet(InstanceList(job.network)')
    BY <2>1, FiniteAssumption, FS_Subset
  <2> QED BY <1>0, <2>2, PlaceTypes, PlaceType DEF PlaceOf, PlaceOfDefinition, PlaceOfRun
<1>7. DeploymentsRead'
  <2> SUFFICES ASSUME NEW d \in Deployments, Known(d)', Here(d)', info'[d] = "none"
               PROVE  /\ job'.pc \in AfterDeployments => job'.deployments[d] > 0
                      /\ job'.pc \in {"deployments", "visit"} =>
                            \/ job'.deployments[d] > 0
                            \/ job'.pc = "visit" /\ d \in job'.batch
                            \/ ReadsDeployments' /\ PlaceOf(d)' >= job'.offset
    BY DEF DeploymentsRead
  <2>1. /\ job.pc \in AfterDeployments => job.deployments[d] > 0
        /\ job.pc \in {"deployments", "visit"} =>
              \/ job.deployments[d] > 0
              \/ job.pc = "visit" /\ d \in job.batch
              \/ ReadsDeployments /\ PlaceOf(d) >= job.offset
    BY <1>0, <1>2, <1>5 DEF DeploymentsRead
  <2>2. ReadsDeployments /\ PlaceOf(d) >= job.offset => PlaceOf(d)' >= job.offset
    <3>1. ReadsDeployments => (PlaceOf(d) < job.offset <=> PlaceOf(d)' < job.offset)
      BY <1>0, <1>2, <1>5, OthersLeave
    <3> QED BY <1>0, <1>6, <3>1
  <2> QED BY <1>1, <1>5, <2>1, <2>2
<1>8. MetadataRead'
  BY <1>0, <1>1, <1>2 DEF MetadataRead
<1>9. DefinitionsRead'
  <2> SUFFICES ASSUME NEW d \in Deployments, d \in defined' \ (touched'.definition \cup moved'.definition),
                      job'.deployments[d] > 0
               PROVE  /\ job'.pc = "definitions" => d \in job'.defs \/ PlaceOfDefinition(d)' >= job'.offset
                      /\ job'.pc \in AfterDefinitions => d \in job'.defs
    BY <1>1 DEF DefinitionsRead
  <2>1. /\ job.pc = "definitions" => d \in job.defs \/ PlaceOfDefinition(d) >= job.offset
        /\ job.pc \in AfterDefinitions => d \in job.defs
    BY <1>0, <1>1, <1>3 DEF DefinitionsRead
  <2>2. Here(d)
    BY <1>0, <1>1 DEF DeploymentsOnce
  <2>3. job.pc = "definitions" /\ PlaceOfDefinition(d) >= job.offset => PlaceOfDefinition(d)' >= job.offset
    <3>1. job.pc = "definitions" => (PlaceOfDefinition(d) < job.offset <=> PlaceOfDefinition(d)' < job.offset)
      BY <1>0, <1>3, <2>2, OthersLeave
    <3> QED BY <1>0, <1>6, <3>1
  <2> QED BY <1>1, <2>1, <2>3
<1>10. InstancesRead'
  <2> SUFFICES ASSUME NEW r \in Runs, Needed(r)', job'.deployments[DeploymentOf[r]] > 0
               PROVE  /\ job'.pc = "instances" => job'.instances[r] > 0 \/ PlaceOfRun(r)' >= job'.offset
                      /\ job'.pc \in AfterInstances => job'.instances[r] > 0
    BY DEF InstancesRead
  <2>1. /\ job.pc = "instances" => job.instances[r] > 0 \/ PlaceOfRun(r) >= job.offset
        /\ job.pc \in AfterInstances => job.instances[r] > 0
    BY <1>0, <1>1, <1>4 DEF InstancesRead
  <2>2. Here(DeploymentOf[r])
    BY <1>0, <1>1 DEF DeploymentsOnce
  <2>3. job.pc = "instances" /\ PlaceOfRun(r) >= job.offset => PlaceOfRun(r)' >= job.offset
    <3>1. job.pc = "instances" => (PlaceOfRun(r) < job.offset <=> PlaceOfRun(r)' < job.offset)
      BY <1>0, <1>4, <2>2, OthersLeave
    <3> QED BY <1>0, <1>6, <3>1
  <2> QED BY <1>1, <2>1, <2>3
<1>11. ThroughGuarded' /\ GuardsAreRight' /\ NothingLeft'
  BY <1>0, <1>1, <1>2 DEF ThroughGuarded, Through, GuardsAreRight, Guards, NothingLeft
<1>12. RunsAreReplaced'
  BY <1>0, <1>1, <1>4 DEF RunsAreReplaced, Replaced, BeingReplaced, WorksOn
<1> QED BY <1>7, <1>8, <1>9, <1>10, <1>11, <1>12 DEF CleanCore, ReadSoFar

LEMMA StutterMigrated ==
    ASSUME MigratedInv, UNCHANGED vars
    PROVE  MigratedCore'
<1> USE DEF vars, stored, history, ofOthers
<1>1. DoneDidNotFail' /\ (CleanSoFar' <=> CleanSoFar)
  BY Parts DEF DoneDidNotFail, At, CleanSoFar
<1>2. FoundExist'
  BY Parts DEF FoundExist, WorksOn
<1>3. ASSUME CleanSoFar PROVE CleanCore'
  <2>0. /\ DeploymentsRead /\ MetadataRead /\ DefinitionsRead /\ InstancesRead /\ ThroughGuarded
        /\ GuardsAreRight /\ RunsAreReplaced /\ NothingLeft
    BY <1>3, Parts DEF CleanCore, ReadSoFar
  <2>1. (\A d : Known(d)' <=> Known(d)) /\ (\A r : Needed(r)' <=> Needed(r))
    BY SameNeeds
  <2>2. DeploymentsRead'
    BY <2>0, <2>1 DEF DeploymentsRead, Here, ReadsDeployments, At, PlaceOf, Place, DeploymentList
  <2>3. MetadataRead' /\ DefinitionsRead'
    BY <2>0, <2>1 DEF MetadataRead, DefinitionsRead, PlaceOfDefinition, Place, DefinitionList
  <2>4. InstancesRead'
    BY <2>0, <2>1 DEF InstancesRead, PlaceOfRun, Place, InstanceList
  <2>5. ThroughGuarded' /\ GuardsAreRight' /\ NothingLeft'
    BY <2>0, <2>1 DEF ThroughGuarded, Through, GuardsAreRight, Guards, NothingLeft
  <2>6. RunsAreReplaced'
    BY <2>0, <2>1 DEF RunsAreReplaced, Replaced, BeingReplaced, WorksOn
  <2> QED BY <2>2, <2>3, <2>4, <2>5, <2>6 DEF CleanCore, ReadSoFar
<1> QED BY <1>1, <1>2, <1>3 DEF MigratedCore

LEMMA MigratedStep == MigratedInv /\ [Next]_vars => MigratedInv'
<1> SUFFICES ASSUME MigratedInv, [Next]_vars PROVE MigratedInv'
  OBVIOUS
<1>1. GuardInv'
  BY GuardStep DEF MigratedInv
<1>2. CASE UNCHANGED vars
  BY <1>1, <1>2, StutterMigrated DEF MigratedInv
<1>3. CASE Next
  <2>1. FoundExist' /\ DoneDidNotFail'
    BY <1>3, FoundStep, DoneStep
  <2>2. ASSUME CleanSoFar' PROVE CleanCore'
    <3>1. CleanSoFar /\ clean' /\ ~job'.failed
      BY <1>3, <2>2, CleanBefore DEF CleanSoFar
    <3>2. ~(RollBack \/ Unguard \/ ListFails \/ AddFails \/ ListKnownFails)
      BY <3>1, Parts, Fields, NetworkFailsType DEF RollBack, Unguard, ListFails, AddFails, ListKnownFails
    <3>3. CASE Steps
      BY <3>1, <3>2, <3>3, NetworksCleanCore, PagesCleanCore, CollectCleanCore, GuardCleanCore,
         NextRunCleanCore, ReplaceCleanCore
      DEF Steps, RunAction
    <3>4. CASE Failures
      BY <3>1, <3>2, <3>4, NetworksCleanCore, ReplaceCleanCore DEF Failures, RunAction
    <3>5. CASE Others \/ Saves
      BY <3>1, <3>5, OthersCleanCore
    <3> QED BY <1>3, <3>3, <3>4, <3>5 DEF Next
  <2> QED BY <1>1, <2>1, <2>2 DEF MigratedInv, MigratedCore
<1> QED BY <1>2, <1>3

(* A migration that nothing disturbed has replaced every run it had to,    *)
(* and guarded every deployment as what it is (migrateToWarden),           *)
(* page by page, next to the handlers: all but what others wrote, and what *)
(* their insertions and removals moved over the end of the pages it had    *)
(* read.                                                                   *)
THEOREM MigratedAll == Spec => []Migrated
<1>1. Init => MigratedInv
  BY InitType, InitGuardCore, InitMigratedCore DEF MigratedInv, GuardInv
<1>2. MigratedInv => Migrated
  <2> SUFFICES ASSUME MigratedInv, At("done"), clean PROVE Migrated
    BY DEF Migrated
  <2>1. CleanSoFar /\ job.pc = "done"
    BY Parts DEF CleanSoFar, DoneDidNotFail, At
  <2>2. ThroughGuarded /\ GuardsAreRight /\ RunsAreReplaced /\ NothingLeft
    BY <2>1, Parts DEF CleanCore
  <2>3. \A d \in Deployments : Known(d) => info[d] # "none"
    BY <2>1, <2>2 DEF ThroughGuarded, Through
  <2>4. \A r \in Runs : Needed(r) => Known(DeploymentOf[r]) /\ DeploymentOf[r] \in Deployments
    BY Parts, Fields DEF Needed
  <2>5. \A r \in Runs : Needed(r) => Replaced(r)
    BY <2>1, <2>2, <2>3, <2>4 DEF RunsAreReplaced, NothingLeft, BeingReplaced, WorksOn, AtRuns, RunSteps
  <2> QED BY <2>2, <2>3, <2>5 DEF Migrated, GuardsAreRight, Guards
<1> QED BY <1>1, <1>2, MigratedStep, PTL DEF Spec
=============================================================================
