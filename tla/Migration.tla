----------------------------- MODULE Migration -----------------------------
(***************************************************************************)
(* MigrateToWarden (controller/sync.go): process-sync guards deployments   *)
(* and runs that were there before the warden. It is called when the       *)
(* process starts, after the MQTT handlers and the loops of the warden; an *)
(* error ends the process, which is started again. Network by network it   *)
(* collects what is not guarded, guards the deployments, and replaces each *)
(* run that needs no parameters: a guarded start, then the stop of the old *)
(* run. It reads page by page, while handlers add and remove documents: a  *)
(* document that moves over the end of the last page is met twice or never.*)
(* What the loops do with the new guards is the subject of InstanceWarden  *)
(* and DeploymentSync; the pages of other lists that of Lists.             *)
(*                                                                         *)
(* Clients and users, and IterBatch of service-commons, are external.      *)
(***************************************************************************)
EXTENDS Naturals, FiniteSets

CONSTANTS
    Networks,
    Deployments,
    Runs,          \* the runs of the time before the warden, and placeholders of runs
    NetworkOf,     \* deployment |-> its network
    DeploymentOf,  \* run |-> its deployment
    BusinessKey,   \* run |-> its business key, or Nothing
    DeploymentId, DefinitionId, InstanceId,  \* the order of the lists
    BatchSize,     \* IterBatch asks for pages of 100
    Nothing

ASSUME NetworkOfAssumption == NetworkOf \in [Deployments -> Networks]
ASSUME DeploymentOfAssumption == DeploymentOf \in [Runs -> Deployments]
ASSUME BatchSizeAssumption == BatchSize \in Nat \ {0}
ASSUME FiniteAssumption == IsFiniteSet(Deployments) /\ IsFiniteSet(Runs)

(* Ids are unique in a network: they order its documents.                  *)
IsOrder(id, U) == id \in [U -> Nat] /\ \A x, y \in U : id[x] = id[y] => x = y

ASSUME IdAssumption ==
    IsOrder(DeploymentId, Deployments) /\ IsOrder(DefinitionId, Deployments) /\ IsOrder(InstanceId, Runs)

VARIABLES
    \* MongoDB
    deployment,  \* deployment |-> state of its document
    metadata,    \* deployment |-> "plain", "parameters" (it needs some), or "none"
    defined,     \* deployments whose process definition is there
    instance,    \* run |-> state of its instance document
    info,        \* deployment |-> what its DeploymentWardenInfo says, or "none"
    guards,      \* business keys with a WardenInfo
    \* in the process
    job,         \* the migration
    saving,      \* what the handler of a report saves next, or Nothing
    \* history
    starts,      \* run |-> accepted starts that replace it
    stopped,     \* runs the migration stopped
    deleted,     \* deployments users deleted
    cleared,     \* business keys whose guards users removed
    refused,     \* business keys whose guards were rolled back
    touched,     \* documents users and clients wrote, list by list
    moved,       \* documents they moved over the end of the pages read, list by list
    clean        \* no migration failed or stopped in the middle

stored == <<deployment, metadata, defined, instance, info, guards>>
ofOthers == <<deleted, cleared, touched, moved>>
history == <<starts, stopped, refused, clean, ofOthers>>
vars == <<stored, job, saving, history>>

DeploymentStates == {"none", "placeholder", "deployed", "missing", "deleting"}
InstanceStates == {"none", "placeholder", "running", "deleting"}

(* The key a run is found by, and the one MarkInstanceBusinessKeyAs...     *)
(* WardenHandled makes of it for the start that replaces it.               *)
OldKey(r) == [wardened |-> FALSE, key |-> IF BusinessKey[r] = Nothing THEN r ELSE BusinessKey[r]]
NewKey(r) == [OldKey(r) EXCEPT !.wardened = TRUE]

Keys == {OldKey(r) : r \in Runs} \cup {NewKey(r) : r \in Runs}

(* The deployments to guard and the instances to replace are slices: what  *)
(* is met twice is in them twice.                                          *)
Jobs ==
    [pc : {"ended", "known", "network", "deployments", "visit", "metadata", "definitions", "instances",
           "guard", "runs", "add", "start", "save", "rollback", "stop", "mark", "unguard", "done"},
     todo : SUBSET Networks, network : Networks \cup {Nothing}, failed : BOOLEAN,
     offset : Nat, batch : SUBSET Deployments, full : BOOLEAN,
     deployments : [Deployments -> Nat], models : [Deployments -> {"plain", "parameters", "none"}],
     defs : SUBSET Deployments, instances : [Runs -> Nat],
     runs : [Runs -> Nat], run : Runs \cup {Nothing}]

Ended ==
    [pc |-> "ended", todo |-> {}, network |-> Nothing, failed |-> FALSE,
     offset |-> 0, batch |-> {}, full |-> FALSE,
     deployments |-> [d \in Deployments |-> 0], models |-> [d \in Deployments |-> "none"],
     defs |-> {}, instances |-> [r \in Runs |-> 0],
     runs |-> [r \in Runs |-> 0], run |-> Nothing]

(* What of each list.                                                      *)
Marks == [deployment : SUBSET Deployments, definition : SUBSET Deployments, instance : SUBSET Runs]
NoMarks == [deployment |-> {}, definition |-> {}, instance |-> {}]

Init ==
    /\ deployment \in [Deployments -> DeploymentStates]
    /\ metadata \in [Deployments -> {"plain", "parameters", "none"}]
    /\ defined \in SUBSET Deployments
    /\ instance \in [Runs -> InstanceStates]
    /\ info = [d \in Deployments |-> "none"]
    /\ guards = {}
    /\ job = Ended
    /\ saving = Nothing
    /\ starts = [r \in Runs |-> 0]
    /\ stopped = {} /\ deleted = {} /\ cleared = {} /\ refused = {}
    /\ touched = NoMarks /\ moved = NoMarks
    /\ clean = TRUE

-----------------------------------------------------------------------------
At(pc) == job.pc = pc
Goto(pc) == job' = [job EXCEPT !.pc = pc]


(* The migration of a network ends with an error; the others go on.        *)
NetworkFails == job' = [job EXCEPT !.pc = "network", !.failed = TRUE]

New ==
    /\ At("ended")
    /\ Goto("known")
    /\ UNCHANGED <<stored, saving, history>>

ListKnownNetworkIds ==
    /\ At("known")
    /\ job' = [job EXCEPT !.pc = "network", !.todo = Networks]
    /\ UNCHANGED <<stored, saving, history>>

NextNetwork ==
    /\ At("network")
    /\ \E n \in job.todo :
         job' = [Ended EXCEPT !.pc = "deployments", !.network = n, !.todo = job.todo \ {n}, !.failed = job.failed]
    /\ UNCHANGED <<stored, saving, history>>

(* All networks are through: New returns their errors, and main ends.      *)
MigrateToWarden ==
    /\ At("network") /\ job.todo = {}
    /\ job' = IF job.failed THEN Ended ELSE [Ended EXCEPT !.pc = "done"]
    /\ saving' = IF job.failed THEN Nothing ELSE saving
    /\ clean' = (clean /\ ~job.failed)
    /\ UNCHANGED <<stored, starts, stopped, refused, ofOthers>>

-----------------------------------------------------------------------------
(* Lists and their pages                                                   *)

DeploymentList(n) == {d \in Deployments : NetworkOf[d] = n /\ deployment[d] # "none"}
DefinitionList(n) == {d \in defined : NetworkOf[d] = n}
InstanceList(n) == {r \in Runs : NetworkOf[DeploymentOf[r]] = n /\ instance[r] # "none"}

(* Where x is, or would be, in the list of S that is sorted by id.         *)
Place(x, S, id) == Cardinality({y \in S : id[y] < id[x]})

(* IterBatch asks for BatchSize documents behind the offset, and goes on   *)
(* with the next page unless it got fewer.                                 *)
Page(S, id) == {x \in S : Place(x, S, id) \in job.offset .. job.offset + BatchSize - 1}
IsFull(page) == Cardinality(page) >= BatchSize

ListDeployments ==
    /\ At("deployments")
    /\ LET page == Page(DeploymentList(job.network), DeploymentId) IN
       job' = [job EXCEPT !.pc = "visit", !.batch = page, !.full = IsFull(page), !.offset = @ + BatchSize]
    /\ UNCHANGED <<stored, saving, history>>

(* Fault: guarded deployments are migrated as well.                        *)
FaultIsUnguarded(d) == TRUE

IsUnguarded(d) == info[d] = "none"

(* GetDeploymentWardenInfoByDeploymentId of the next one of the page.      *)
Visit ==
    /\ At("visit")
    /\ \E d \in job.batch :
         /\ Place(d, job.batch, DeploymentId) = 0
         /\ job' = [job EXCEPT !.batch = @ \ {d}, !.deployments[d] = IF IsUnguarded(d) THEN @ + 1 ELSE @]
    /\ UNCHANGED <<stored, saving, history>>

NoneFound == \A d \in Deployments : job.deployments[d] = 0

NextPage ==
    /\ At("visit") /\ job.batch = {}
    /\ job' = IF job.full THEN [job EXCEPT !.pc = "deployments"]
              ELSE [job EXCEPT !.pc = IF NoneFound THEN "network" ELSE "metadata", !.offset = 0]
    /\ UNCHANGED <<stored, saving, history>>

ListDeploymentMetadata(n) == {d \in Deployments : NetworkOf[d] = n /\ metadata[d] # "none"}

(* The query has neither limit nor offset, so IterBatch gets all metadata  *)
(* as each page, and the same ones for ever if they fill one.              *)
CollectMetadata ==
    /\ At("metadata")
    /\ LET page == ListDeploymentMetadata(job.network) IN
       job' = [job EXCEPT !.pc = IF IsFull(page) THEN "metadata" ELSE "definitions",
                          !.models = [d \in Deployments |->
                             IF job.deployments[d] > 0 /\ d \in page THEN metadata[d] ELSE @[d]]]
    /\ UNCHANGED <<stored, saving, history>>

CollectDefinitions ==
    /\ At("definitions")
    /\ LET page == Page(DefinitionList(job.network), DefinitionId) IN
       job' = [job EXCEPT !.pc = IF IsFull(page) THEN "definitions" ELSE "instances",
                          !.offset = IF IsFull(page) THEN @ + BatchSize ELSE 0,
                          !.defs = @ \cup {d \in page : job.deployments[d] > 0}]
    /\ UNCHANGED <<stored, saving, history>>

(* Fault: of the instances of a deployment the last one replaces the others*)
FaultToReplace(r) ==
    /\ instance[r] # "placeholder" /\ DeploymentOf[r] \in job.defs
    /\ r = CHOOSE q \in Runs : instance[q] # "none" /\ DeploymentOf[q] = DeploymentOf[r]

(* Placeholders of starts have no definition, instances of guarded starts  *)
(* have the prefix (they fill pages as placeholders do, and are not told   *)
(* apart from these). Marks are not looked at.                             *)
ToReplace(r) == instance[r] # "placeholder" /\ DeploymentOf[r] \in job.defs

CollectInstances ==
    /\ At("instances")
    /\ LET page == Page(InstanceList(job.network), InstanceId) IN
       job' = [job EXCEPT !.pc = IF IsFull(page) THEN "instances" ELSE "guard",
                          !.offset = @ + BatchSize,
                          !.instances = [r \in Runs |-> IF r \in page /\ ToReplace(r) THEN @[r] + 1 ELSE @[r]]]
    /\ UNCHANGED <<stored, saving, history>>

-----------------------------------------------------------------------------
(* Guards, and runs                                                        *)

(* The runs that are replaced with a deployment that needs no parameters.  *)
RunsOf(d) ==
    [r \in Runs |-> IF DeploymentOf[r] = d /\ job.models[d] # "parameters" THEN job.instances[r] ELSE 0]

(* Fault: the guard gets the metadata, not the model in them.              *)
FaultAddDeploymentWarden ==
    /\ At("guard")
    /\ \/ /\ NoneFound
          /\ Goto("network")
          /\ UNCHANGED info
       \/ \E d \in Deployments :
            /\ job.deployments[d] > 0
            /\ info' = [info EXCEPT ![d] = job.models[d]]
            /\ job' = [job EXCEPT !.pc = "runs", !.deployments[d] = @ - 1, !.runs = RunsOf(d)]
    /\ UNCHANGED <<deployment, metadata, defined, instance, guards, saving, history>>

(* AddDeploymentWarden, with an empty model if no metadata were found: no  *)
(* metadata need no parameters, either.                                    *)
AddDeploymentWarden ==
    /\ At("guard")
    /\ \/ /\ NoneFound
          /\ Goto("network")
          /\ UNCHANGED info
       \/ \E d \in Deployments :
            /\ job.deployments[d] > 0
            /\ info' = [info EXCEPT ![d] = IF job.models[d] = "none" THEN "empty" ELSE "model"]
            /\ job' = [job EXCEPT !.pc = "runs", !.deployments[d] = @ - 1, !.runs = RunsOf(d)]
    /\ UNCHANGED <<deployment, metadata, defined, instance, guards, saving, history>>

NextRun ==
    /\ At("runs")
    /\ \/ /\ \A r \in Runs : job.runs[r] = 0
          /\ Goto("guard")
       \/ \E r \in Runs :
            /\ job.runs[r] > 0
            /\ job' = [job EXCEPT !.pc = "add", !.runs[r] = @ - 1, !.run = r]
    /\ UNCHANGED <<stored, saving, history>>

-----------------------------------------------------------------------------
(* ApiStartDeployment of the new key.                                      *)

AddInstanceWarden ==
    /\ At("add")
    /\ guards' = guards \cup {NewKey(job.run)}
    /\ Goto("start")
    /\ UNCHANGED <<deployment, metadata, defined, instance, info, saving, history>>

Startable(d) == deployment[d] \in {"placeholder", "deployed"}

(* Fault: a start that is refused is taken for an accepted one.            *)
FaultStart ==
    /\ At("start")
    /\ Goto("save")
    /\ starts' = IF Startable(DeploymentOf[job.run]) THEN [starts EXCEPT ![job.run] = @ + 1] ELSE starts
    /\ UNCHANGED <<stored, saving, stopped, refused, clean, ofOthers>>

(* ReadDeployment and SendDeploymentStartCommand, which a placeholder gets *)
(* none of: the warden starts its runs when it is deployed.                *)
Start ==
    /\ At("start")
    /\ IF Startable(DeploymentOf[job.run])
       THEN /\ Goto("save")
            /\ starts' = [starts EXCEPT ![job.run] = @ + 1]
       ELSE /\ Goto("rollback")
            /\ UNCHANGED starts
    /\ UNCHANGED <<stored, saving, stopped, refused, clean, ofOthers>>

SavePlaceholders ==
    /\ At("save")
    /\ Goto("stop")
    /\ UNCHANGED <<stored, saving, history>>

(* RemoveInstanceWarden; if that fails the guard stays.                    *)
RollBack ==
    /\ At("rollback")
    /\ guards' \in {guards, guards \ {NewKey(job.run)}}
    /\ refused' = refused \cup {NewKey(job.run)}
    /\ NetworkFails
    /\ UNCHANGED <<deployment, metadata, defined, instance, info, saving, starts, stopped, clean, ofOthers>>

-----------------------------------------------------------------------------
(* ApiDeleteProcessInstance of the old run, whose key never had a guard.   *)

(* An instance that is gone is read as an empty one: the stop command names*)
(* nothing, and what is saved is the document of nothing.                  *)
Stop ==
    /\ At("stop")
    /\ guards' = guards \ (IF instance[job.run] = "none" THEN {} ELSE {OldKey(job.run)})
    /\ Goto(IF instance[job.run] = "none" THEN "runs" ELSE "mark")
    /\ stopped' = IF instance[job.run] = "none" THEN stopped ELSE stopped \cup {job.run}
    /\ UNCHANGED <<deployment, metadata, defined, instance, info, saving, starts, refused, clean, ofOthers>>

(* SaveProcessInstance of what was read, whether it is still there or not. *)
Mark ==
    /\ At("mark")
    /\ instance' = [instance EXCEPT ![job.run] = "deleting"]
    /\ Goto("runs")
    /\ UNCHANGED <<deployment, metadata, defined, info, guards, saving, history>>

(* RemoveInstanceWardenByBusinessKey with the key of the old run: the      *)
(* guard of the start that replaces it has another one and stays.          *)
Unguard ==
    /\ At("unguard")
    /\ guards' = guards \ {OldKey(job.run)}
    /\ NetworkFails
    /\ UNCHANGED <<deployment, metadata, defined, instance, info, saving, history>>

-----------------------------------------------------------------------------
(* Failures: queries, commands and messages; the process.                  *)

ListFails ==
    /\ job.pc \in {"deployments", "visit", "metadata", "definitions", "instances", "guard"}
    /\ NetworkFails
    /\ UNCHANGED <<stored, saving, history>>

(* Without the list of networks, nothing is migrated.                      *)
ListKnownFails ==
    /\ At("known")
    /\ job' = Ended
    /\ saving' = Nothing
    /\ clean' = FALSE
    /\ UNCHANGED <<stored, starts, stopped, refused, ofOthers>>

(* The guard is not saved: nothing to roll back.                           *)
AddFails ==
    /\ At("add")
    /\ NetworkFails
    /\ UNCHANGED <<stored, saving, history>>

(* The command or a placeholder, after the command is sent.                *)
StartFails ==
    /\ job.pc \in {"start", "save"}
    /\ Goto("rollback")
    /\ UNCHANGED <<stored, saving, history>>

StopFails ==
    /\ job.pc \in {"stop", "mark"}
    /\ Goto("unguard")
    /\ UNCHANGED <<stored, saving, history>>

Crash ==
    /\ ~At("ended")
    /\ job' = Ended
    /\ saving' = Nothing
    /\ clean' = (clean /\ At("done"))
    /\ UNCHANGED <<stored, starts, stopped, refused, ofOthers>>

-----------------------------------------------------------------------------
(* Users, whose requests other replicas serve until the migration is       *)
(* through, and clients, whose reports are handled next to it.             *)

(* What they write, and what moves over the end of the pages read.         *)
Crossed(U, S, T, id) ==
    {x \in U : (Place(x, S, id) < job.offset) # (Place(x, T, id) < job.offset)}

ReadsDeployments == At("deployments") \/ (At("visit") /\ job.full)

Written ==
    [deployment |-> {d \in Deployments : \/ deployment'[d] # deployment[d]
                                         \/ metadata'[d] # metadata[d]
                                         \/ info'[d] # info[d]},
     definition |-> (defined \ defined') \cup (defined' \ defined),
     instance |-> {r \in Runs : instance'[r] # instance[r]}]

Shifted ==
    LET n == job.network
        here == {d \in Deployments : NetworkOf[d] = n}
        runs == {r \in Runs : DeploymentOf[r] \in here}
    IN  [deployment |-> IF ReadsDeployments
                        THEN Crossed(here, DeploymentList(n), DeploymentList(n)', DeploymentId) ELSE {},
         definition |-> IF At("definitions")
                        THEN Crossed(here, DefinitionList(n), DefinitionList(n)', DefinitionId) ELSE {},
         instance |-> IF At("instances")
                      THEN Crossed(runs, InstanceList(n), InstanceList(n)', InstanceId) ELSE {}]

With(marks, more) == [list \in DOMAIN marks |-> marks[list] \cup more[list]]

Noticed ==
    /\ UNCHANGED <<job, starts, stopped, refused, clean>>
    /\ touched' = With(touched, Written)
    /\ moved' = With(moved, Shifted)

(* ApiDeleteDeployment: guards and instance documents go, the deployment   *)
(* is marked until its client confirms.                                    *)
ApiDeleteDeployment(d) ==
    /\ deployment[d] # "none"
    /\ deployment' = [deployment EXCEPT ![d] = IF @ \in {"placeholder", "missing"} THEN "none" ELSE "deleting"]
    /\ metadata' = [metadata EXCEPT ![d] = IF deployment'[d] = "none" THEN "none" ELSE @]
    /\ info' = [info EXCEPT ![d] = "none"]
    /\ guards' = {k \in guards : \A r \in Runs : DeploymentOf[r] = d => k # NewKey(r)}
    /\ deleted' = deleted \cup {d}
    /\ cleared' = cleared \cup {NewKey(r) : r \in {q \in Runs : DeploymentOf[q] = d}}
    /\ instance' = [r \in Runs |-> IF DeploymentOf[r] = d /\ d \in defined THEN "none" ELSE instance[r]]
    /\ UNCHANGED <<defined, saving>>

(* A user deletes the new run.                                             *)
ApiDeleteProcessInstance(r) ==
    /\ NewKey(r) \in guards
    /\ guards' = guards \ {NewKey(r)}
    /\ cleared' = cleared \cup {NewKey(r)}
    /\ UNCHANGED <<deployment, metadata, defined, instance, info, saving, deleted>>

(* A report of a deployment or of a run removes the placeholders of its    *)
(* network, and is saved then.                                             *)
UpdateDeployment(d) ==
    /\ saving = Nothing
    /\ deployment' = [e \in Deployments |->
          IF NetworkOf[e] = NetworkOf[d] /\ deployment[e] = "placeholder" THEN "none" ELSE deployment[e]]
    /\ saving' = <<"deployment", d>>
    /\ UNCHANGED <<metadata, defined, instance, info, guards, deleted, cleared>>

UpdateProcessInstance(r) ==
    /\ saving = Nothing
    /\ instance' = [q \in Runs |->
          IF NetworkOf[DeploymentOf[q]] = NetworkOf[DeploymentOf[r]] /\ instance[q] = "placeholder"
          THEN "none" ELSE instance[q]]
    /\ saving' = <<"instance", r>>
    /\ UNCHANGED <<deployment, metadata, defined, info, guards, deleted, cleared>>

SaveReported ==
    /\ \/ \E d \in Deployments :
            /\ saving = <<"deployment", d>>
            /\ deployment' = [deployment EXCEPT ![d] = "deployed"]
            /\ UNCHANGED instance
       \/ \E r \in Runs :
            /\ saving = <<"instance", r>>
            /\ instance' = [instance EXCEPT ![r] = "running"]
            /\ UNCHANGED deployment
    /\ saving' = Nothing
    /\ UNCHANGED <<metadata, defined, info, guards, deleted, cleared>>

(* Documents the client has no longer, and their metadata, go if D says so.*)
Forgets(D) ==
    /\ deployment' = [d \in Deployments |-> IF d \in D THEN "none" ELSE deployment[d]]
    /\ metadata' = [d \in Deployments |-> IF d \in D THEN "none" ELSE metadata[d]]

(* A deployment with metadata that the client lost is kept as missing;     *)
(* clients know of no placeholders.                                        *)
DeleteDeployment(d) ==
    /\ deployment[d] # "placeholder"
    /\ IF deployment[d] \in {"none", "deleting"} \/ metadata[d] = "none" THEN Forgets({d})
       ELSE /\ deployment' = [deployment EXCEPT ![d] = "missing"]
            /\ UNCHANGED metadata
    /\ UNCHANGED <<defined, instance, info, guards, saving, deleted, cleared>>

(* Of the deployments a full report does not name, those without metadata  *)
(* are kept as well.                                                       *)
DeleteUnknownDeployments(n, knownIds) ==
    LET unknown == {d \in Deployments \ knownIds : NetworkOf[d] = n}
        gone == {d \in unknown : deployment[d] \in {"none", "placeholder", "deleting"}}
    IN  /\ deployment' = [d \in Deployments |->
              IF d \in gone THEN "none" ELSE IF d \in unknown THEN "missing" ELSE deployment[d]]
        /\ metadata' = [d \in Deployments |-> IF d \in gone THEN "none" ELSE metadata[d]]
        /\ UNCHANGED <<defined, instance, info, guards, saving, deleted, cleared>>

UpdateProcessDefinition(d) ==
    /\ defined' = defined \cup {d}
    /\ UNCHANGED <<deployment, metadata, instance, info, guards, saving, deleted, cleared>>

(* Its instances go with a definition.                                     *)
DeleteProcessDefinition(d) ==
    /\ defined' = defined \ {d}
    /\ instance' = [r \in Runs |->
          IF DeploymentOf[r] = d /\ instance[r] # "placeholder" THEN "none" ELSE instance[r]]
    /\ UNCHANGED <<deployment, metadata, info, guards, saving, deleted, cleared>>

DeleteUnknownProcessDefinitions(n, knownIds) ==
    /\ defined' = {d \in defined : NetworkOf[d] # n \/ d \in knownIds}
    /\ UNCHANGED <<deployment, metadata, instance, info, guards, saving, deleted, cleared>>

(* Runs that ended, by a report of one or of all that are left.            *)
DeleteProcessInstances(gone) ==
    /\ instance' = [r \in Runs |-> IF r \in gone THEN "none" ELSE instance[r]]
    /\ UNCHANGED <<deployment, metadata, defined, info, guards, saving, deleted, cleared>>

DeleteProcessInstance(r) == DeleteProcessInstances({r})

DeleteUnknownProcessInstances(n, knownIds) ==
    DeleteProcessInstances({r \in Runs \ knownIds : NetworkOf[DeploymentOf[r]] = n})

-----------------------------------------------------------------------------
Steps ==
    \/ New \/ ListKnownNetworkIds \/ NextNetwork \/ MigrateToWarden
    \/ ListDeployments \/ Visit \/ NextPage
    \/ CollectMetadata \/ CollectDefinitions \/ CollectInstances
    \/ AddDeploymentWarden \/ NextRun
    \/ AddInstanceWarden \/ Start \/ SavePlaceholders \/ RollBack
    \/ Stop \/ Mark \/ Unguard

Failures == ListFails \/ ListKnownFails \/ AddFails \/ StartFails \/ StopFails \/ Crash

Requests ==
    \/ \E d \in Deployments : ApiDeleteDeployment(d)
    \/ \E r \in Runs : ApiDeleteProcessInstance(r)

Reports ==
    \/ \E d \in Deployments : \/ UpdateDeployment(d) \/ DeleteDeployment(d)
                              \/ UpdateProcessDefinition(d) \/ DeleteProcessDefinition(d)
    \/ \E r \in Runs : UpdateProcessInstance(r) \/ DeleteProcessInstance(r)
    \/ \E n \in Networks :
         \/ \E known \in SUBSET Deployments : \/ DeleteUnknownDeployments(n, known)
                                              \/ DeleteUnknownProcessDefinitions(n, known)
         \/ \E known \in SUBSET Runs : DeleteUnknownProcessInstances(n, known)

Others == (Requests \/ Reports) /\ Noticed
Saves == SaveReported /\ Noticed

Next == Steps \/ Failures \/ Others \/ Saves

Spec == Init /\ [][Next]_vars

TypeOK ==
    /\ deployment \in [Deployments -> DeploymentStates]
    /\ metadata \in [Deployments -> {"plain", "parameters", "none"}]
    /\ defined \subseteq Deployments
    /\ instance \in [Runs -> InstanceStates]
    /\ info \in [Deployments -> {"model", "empty", "none"}]
    /\ guards \subseteq Keys
    /\ job \in Jobs
    /\ saving \in ({"deployment"} \X Deployments) \cup ({"instance"} \X Runs) \cup {Nothing}
    /\ starts \in [Runs -> Nat]
    /\ stopped \subseteq Runs
    /\ deleted \subseteq Deployments
    /\ cleared \subseteq Keys
    /\ refused \subseteq Keys
    /\ touched \in Marks
    /\ moved \in Marks
    /\ clean \in BOOLEAN

-----------------------------------------------------------------------------
(* Properties                                                              *)

(* A run that may be met twice, with its deployment or in its own list.    *)
Moved(r) == DeploymentOf[r] \in moved.deployment \/ r \in moved.instance

(* A run is stopped only once an accepted start replaces it and is guarded,*)
(* whatever fails and whenever the process ends: its key has a guard until *)
(* a user deletes what it guards, or until a start of this key is rolled   *)
(* back, of another run, or of the same one if pages moved while it was    *)
(* read.                                                                   *)
StoppedAreGuarded ==
    \A r \in stopped : starts[r] > 0 /\
        \/ NewKey(r) \in guards \cup cleared
        \/ NewKey(r) \in refused /\ (Moved(r) \/ \E q \in Runs \ {r} : OldKey(q) = OldKey(r))

(* No run is replaced twice, however often the migration is begun again.   *)
(* (After a user deleted its deployment nothing is guarded any more, and   *)
(* the run may be reported again. A run or deployment that new documents   *)
(* push from a page that was read to the next one is met twice.)           *)
ReplacedOnce == \A r \in Runs : starts[r] > 1 => DeploymentOf[r] \in deleted \/ Moved(r)

(* When a migration that nothing disturbed is through, each run whose      *)
(* deployment is known with its definition and needs no parameters is      *)
(* replaced, and each deployment has a guard that says what it is. Not     *)
(* what others wrote meanwhile, nor what they moved over the end of the    *)
(* pages read: removing a document from one of these pages moves the next  *)
(* one there, and the migration never meets it.                            *)
Known(d) == d \notin touched.deployment \cup moved.deployment /\ deployment[d] # "none"

Needed(r) ==
    LET d == DeploymentOf[r] IN
    /\ r \notin touched.instance \cup moved.instance /\ instance[r] \in {"running", "deleting"}
    /\ d \in defined \ (touched.definition \cup moved.definition)
    /\ Known(d) /\ metadata[d] # "parameters"

Replaced(r) == r \in stopped /\ instance[r] = "deleting" /\ starts[r] = 1

Migrated ==
    At("done") /\ clean =>
        /\ \A r \in Runs : Needed(r) => Replaced(r)
        /\ \A d \in Deployments : Known(d) => info[d] = IF metadata[d] = "none" THEN "empty" ELSE "model"
=============================================================================
