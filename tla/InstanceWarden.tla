--------------------------- MODULE InstanceWarden ---------------------------
(***************************************************************************)
(* The process warden of process-sync for the instances of one deployment  *)
(* on one mgw network: the REST calls that start and delete processes, the *)
(* MQTT handlers that copy the client's state into the database, and the   *)
(* periodic warden loop that restarts guarded processes, stops duplicates  *)
(* and stops processes nobody guards.                                      *)
(*                                                                         *)
(* The API goroutines, the MQTT callback goroutine and the warden          *)
(* goroutine share only the database. A REST start is three steps here and *)
(* a warden loop one step per list it reads and per element it checks, on  *)
(* the lists it read earlier; an MQTT handler, another REST call and one   *)
(* check are single steps. The client (the process engine on the mgw) is   *)
(* not part of the repository: its actions are what the handlers and the   *)
(* tests expect of it.                                                     *)
(***************************************************************************)
EXTENDS Naturals, Sequences, FiniteSets

CONSTANTS
    Keys,         \* business keys with the prefix "wardened:"
    LegacyKeys,   \* business keys without it
    MaxId,        \* bound: instance ids in use at one time
    MaxMessages,  \* bound: state messages in flight to the platform
    MaxStarts,    \* bound: start commands in flight for one key
    SaveOutcomes  \* how far the two saves of a start may get

Saves == {"both", "instance", "none"}

ASSUME KeysAssumption == Keys \cap LegacyKeys = {}
ASSUME BoundsAssumption == MaxId \in Nat /\ MaxMessages \in Nat /\ MaxStarts \in Nat
ASSUME SavesAssumption == SaveOutcomes \subseteq Saves

AllKeys == Keys \cup LegacyKeys

(* Ids grow with the start time: the order of two ids is the order of the  *)
(* StartTimes of their histories.                                          *)
Ids == 1..MaxId

(* "young" is the age below the warden's age gate; "none" is no document.  *)
Ages == {"none", "young", "old"}

(* The document of the deployment the WardenInfos name: absent, a          *)
(* placeholder, synchronised, marked as missing, or marked for delete.     *)
DeploymentStates == {"none", "placeholder", "deployed", "missing", "deleting"}

(* The states StartDeploymentWithoutWardenHandling and deploymentExistsId  *)
(* accept.                                                                 *)
Startable == {"placeholder", "deployed"}

Instance == [id : Ids, key : AllKeys, placeholder : BOOLEAN, young : BOOLEAN]
History  == [id : Ids, key : AllKeys, placeholder : BOOLEAN]
Run      == [id : Ids, key : AllKeys]

Message ==
    [type : {"instance", "history"}, id : Ids, key : AllKeys]
        \cup [type : {"instance-delete", "history-delete", "incident"}, id : Ids]
        \cup [type : {"instance-known", "history-known"}, ids : SUBSET Ids]

VARIABLES
    deployment,   \* state of the deployment's document
    deplGuarded,  \* is there a DeploymentWardenInfo of that deployment
    warden,       \* age of the WardenInfo of each key
    instances,    \* process instance documents; young: by SyncDate
    histories,    \* process history documents
    fresh,        \* ids whose StartTime is younger than the age gate
    incidents,    \* age of the incident of each instance id
    starts,       \* start commands in flight, per key
    stops,        \* stop commands in flight
    engine,       \* runs at the client
    msgs,         \* state messages in flight to the platform
    starting,     \* progress of ApiStartDeployment, per key
    phase,        \* progress of the warden loop
    infoTodo,     \* WardenInfos of the list being checked, with their age
    instTodo,     \* instances of the list being checked
    cleared,      \* history variable: keys deleted or refused by the API
    late          \* history variable: starts of a key since it was cleared

deplVars   == <<deployment, deplGuarded>>
docVars    == <<instances, histories, fresh, incidents>>
cmdVars    == <<starts, stops>>
loopVars   == <<phase, infoTodo, instTodo>>
ghostVars  == <<cleared, late>>
clientVars == <<engine, msgs>>
vars == <<deplVars, warden, docVars, cmdVars, clientVars, starting, loopVars, ghostVars>>

TypeOK ==
    /\ deployment \in DeploymentStates
    /\ deplGuarded \in BOOLEAN
    /\ warden \in [Keys -> Ages]
    /\ instances \subseteq Instance
    /\ histories \subseteq History
    /\ fresh \subseteq Ids
    /\ incidents \in [Ids -> Ages]
    /\ starts \in [AllKeys -> 0..MaxStarts]
    /\ stops \subseteq Ids
    /\ engine \subseteq Run
    /\ msgs \in Seq(Message)
    /\ starting \in [Keys -> {"idle", "guarded", "sent"}]
    /\ phase \in {"idle", "infos", "instances"}
    /\ infoTodo \in [Keys -> Ages]
    /\ instTodo \subseteq Instance
    /\ cleared \subseteq Keys
    /\ late \in [Keys -> Nat]

(* A network without documents, its deployment known and guarded or not.   *)
Init ==
    /\ deployment \in {"none", "placeholder", "deployed"}
    /\ deplGuarded \in BOOLEAN
    /\ warden = [k \in Keys |-> "none"]
    /\ instances = {} /\ histories = {} /\ fresh = {}
    /\ incidents = [i \in Ids |-> "none"]
    /\ starts = [k \in AllKeys |-> 0]
    /\ stops = {}
    /\ engine = {}
    /\ msgs = <<>>
    /\ starting = [k \in Keys |-> "idle"]
    /\ phase = "idle"
    /\ infoTodo = [k \in Keys |-> "none"]
    /\ instTodo = {}
    /\ cleared = {}
    /\ late = [k \in Keys |-> 0]

-----------------------------------------------------------------------------
(* Ids                                                                     *)

IdsOf(docs) == {d.id : d \in docs}

Mentioned(m) ==
    IF m.type \in {"instance-known", "history-known"} THEN m.ids ELSE {m.id}

UsedIds ==
    IdsOf(instances) \cup IdsOf(histories) \cup IdsOf(engine) \cup IdsOf(instTodo)
        \cup stops \cup {i \in Ids : incidents[i] # "none"}
        \cup UNION {Mentioned(msgs[n]) : n \in DOMAIN msgs}

(* The id of the next run or placeholder: above every id in use.           *)
IsNext(i) ==
    /\ \A j \in UsedIds : j < i
    /\ i > 1 => i - 1 \in UsedIds

-----------------------------------------------------------------------------
(* Database operations                                                     *)

(* ReplaceOne with upsert.                                                 *)
Save(docs, doc) == {d \in docs : d.id # doc.id} \cup {doc}

Without(docs, ids) == {d \in docs : d.id \notin ids}

(* RemovePlaceholder...(networkId): the placeholders of the whole network. *)
WithoutPlaceholders(docs) == {d \in docs : ~d.placeholder}

InstancesOf(k) == {x \in instances : x.key = k}

HistoriesOf(k) == {h \in histories : h.key = k}

WithoutIncidents(ids) == [i \in Ids |-> IF i \in ids THEN "none" ELSE incidents[i]]

-----------------------------------------------------------------------------
(* Start and stop                                                          *)

PlaceholderInstance(i, k) == [id |-> i, key |-> k, placeholder |-> TRUE, young |-> TRUE]

(* Fault: the history is saved with the fields of the instance.            *)
FaultPlaceholderHistory(i, k) == PlaceholderInstance(i, k)

PlaceholderHistory(i, k) == [id |-> i, key |-> k, placeholder |-> TRUE]

(* The start command is sent only if the deployment is synchronised; a     *)
(* placeholder deployment only gets the placeholder documents.             *)
SendDeploymentStartCommand(d, k) ==
    /\ d = "deployed" => starts[k] < MaxStarts
    /\ starts' = IF d = "deployed" THEN [starts EXCEPT ![k] = @ + 1] ELSE starts

(* The placeholder documents of a start are saved over insts and hists.    *)
SavePlaceholders(insts, hists, k, saved) ==
    \E i \in Ids :
        /\ IsNext(i)
        /\ instances' = IF saved = "none" THEN insts
                                          ELSE insts \cup {PlaceholderInstance(i, k)}
        /\ histories' = IF saved = "both" THEN hists \cup {PlaceholderHistory(i, k)} ELSE hists
        /\ fresh' = IF saved = "both" THEN fresh \cup {i} ELSE fresh

(* A start by the warden, for deployment state d, over the documents       *)
(* insts and hists.                                                        *)
StartDeploymentWithoutWardenHandling(insts, hists, d, k) ==
    \/ /\ d \in Startable
       /\ SendDeploymentStartCommand(d, k)
       /\ \E saved \in SaveOutcomes : SavePlaceholders(insts, hists, k, saved)
       /\ late' = IF k \in cleared THEN [late EXCEPT ![k] = @ + 1] ELSE late
    \/ /\ d \notin Startable
       /\ instances' = insts
       /\ histories' = hists
       /\ UNCHANGED <<starts, fresh, late>>

(* What stopping the instances S, as read earlier, leaves: a placeholder   *)
(* and its history are removed, a real instance is saved back marked for   *)
(* delete (nothing below reads the mark) after its stop command was sent.  *)
InstancesAfterStop(S) ==
    Without(instances, IdsOf(S)) \cup {x \in S : ~x.placeholder}

HistoriesAfterStop(S) == Without(histories, IdsOf({x \in S : x.placeholder}))

StopProcessInstancesWithoutWardenHandling(S) ==
    /\ instances' = InstancesAfterStop(S)
    /\ histories' = HistoriesAfterStop(S)
    /\ stops' = stops \cup IdsOf({x \in S : ~x.placeholder})

-----------------------------------------------------------------------------
(* The REST API                                                            *)

(* Fault: the guard is written without its creation time.                  *)
FaultAddInstanceWarden(k) ==
    /\ starting[k] = "idle"
    /\ starting' = [starting EXCEPT ![k] = "guarded"]
    /\ warden' = [warden EXCEPT ![k] = "old"]
    /\ cleared' = cleared \ {k}
    /\ late' = [late EXCEPT ![k] = 0]
    /\ UNCHANGED <<deplVars, docVars, cmdVars, clientVars, loopVars>>

(* ApiStartDeployment, first step: the guard is written before anything is *)
(* sent.                                                                   *)
AddInstanceWarden(k) ==
    /\ starting[k] = "idle"
    /\ starting' = [starting EXCEPT ![k] = "guarded"]
    /\ warden' = [warden EXCEPT ![k] = "young"]
    /\ cleared' = cleared \ {k}
    /\ late' = [late EXCEPT ![k] = 0]
    /\ UNCHANGED <<deplVars, docVars, cmdVars, clientVars, loopVars>>

(* Second step: the deployment is read and the command sent, or the start  *)
(* is refused and the guard of the key removed, whoever set it.            *)
ApiSendStart(k) ==
    /\ starting[k] = "guarded"
    /\ deployment \in Startable
    /\ SendDeploymentStartCommand(deployment, k)
    /\ starting' = [starting EXCEPT ![k] = "sent"]
    /\ UNCHANGED <<deplVars, warden, docVars, stops, clientVars, loopVars, ghostVars>>

RollBackGuard(k) ==
    /\ starting' = [starting EXCEPT ![k] = "idle"]
    /\ warden' = [warden EXCEPT ![k] = "none"]
    /\ cleared' = cleared \cup {k}
    /\ late' = [late EXCEPT ![k] = 0]

ApiRefuseStart(k) ==
    /\ starting[k] = "guarded"
    /\ deployment \notin Startable
    /\ RollBackGuard(k)
    /\ UNCHANGED <<deplVars, docVars, cmdVars, clientVars, loopVars>>

(* Third step: the placeholder documents; a failing save takes the guard   *)
(* back although the command is on its way.                                *)
ApiSavePlaceholders(k) ==
    /\ starting[k] = "sent"
    /\ \E saved \in SaveOutcomes :
          /\ SavePlaceholders(instances, histories, k, saved)
          /\ IF saved = "both"
             THEN /\ starting' = [starting EXCEPT ![k] = "idle"]
                  /\ UNCHANGED <<warden, ghostVars>>
             ELSE RollBackGuard(k)
    /\ UNCHANGED <<deplVars, incidents, cmdVars, clientVars, loopVars>>

(* The guards of the keys ks are removed on behalf of a user.              *)
ClearGuards(ks) ==
    /\ warden' = [k \in Keys |-> IF k \in ks THEN "none" ELSE warden[k]]
    /\ cleared' = cleared \cup ks
    /\ late' = [k \in Keys |-> IF k \in ks THEN 0 ELSE late[k]]

ApiDeleteProcessInstance(x) ==
    /\ x \in instances
    /\ ClearGuards({x.key} \cap Keys)
    /\ StopProcessInstancesWithoutWardenHandling({x})
    /\ UNCHANGED <<deplVars, fresh, incidents, starts, clientVars, starting, loopVars>>

(* Does nothing while the key has no instance document.                    *)
DeleteProcessInstanceByBusinessKey(k) ==
    /\ InstancesOf(k) # {}
    /\ ClearGuards({k} \cap Keys)
    /\ StopProcessInstancesWithoutWardenHandling(InstancesOf(k))
    /\ UNCHANGED <<deplVars, fresh, incidents, starts, clientVars, starting, loopVars>>

(* A user deletes a history: a placeholder is removed at once, a real one  *)
(* only after its end and when the client confirms (ClientDeletesHistory). *)
ApiDeletePlaceholderHistory(h) ==
    /\ h \in histories
    /\ h.placeholder
    /\ histories' = Without(histories, {h.id})
    /\ UNCHANGED <<deplVars, warden, instances, fresh, incidents, cmdVars,
                   clientVars, starting, loopVars, ghostVars>>

(* Creating a deployment: the placeholder document and its guard.          *)
ApiCreateDeployment ==
    /\ deployment = "none"
    /\ deployment' = "placeholder"
    /\ deplGuarded' = TRUE
    /\ UNCHANGED <<warden, docVars, cmdVars, clientVars, starting, loopVars, ghostVars>>

(* Deleting a deployment drops the guards of its processes, its own guard  *)
(* and its instance documents (placeholders have no definition id and      *)
(* stay); a running process gets no stop command. A deployment without a   *)
(* document is refused only after its guards are gone.                     *)
ApiDeleteDeployment ==
    /\ ClearGuards({k \in Keys : warden[k] # "none"})
    /\ deplGuarded' = FALSE
    /\ \E definitionKnown \in BOOLEAN :
          instances' = IF definitionKnown THEN {x \in instances : x.placeholder} ELSE instances
    /\ deployment' = IF deployment \in {"deployed", "deleting"} THEN "deleting" ELSE "none"
    /\ UNCHANGED <<histories, fresh, incidents, cmdVars, clientVars, starting, loopVars>>

-----------------------------------------------------------------------------
(* MQTT handlers                                                           *)

(* What the deployment handlers may do to this deployment's document. A    *)
(* placeholder is removed by the update of any deployment of the network.  *)
UpdateDeploymentSteps ==
    [d \in DeploymentStates |-> IF d = "placeholder" THEN {"none"} ELSE {"deployed"}]

(* With metadata a deleted or unknown deployment is marked as missing,     *)
(* without it is removed, as is one that a user wants deleted.             *)
DeleteDeploymentSteps ==
    [d \in DeploymentStates |->
        IF d \in {"deployed", "missing"} THEN {"missing", "none"} ELSE {"none"}]

DeploymentHandlers ==
    /\ deployment' \in UpdateDeploymentSteps[deployment] \cup DeleteDeploymentSteps[deployment]
    /\ deployment' # deployment
    /\ UNCHANGED <<deplGuarded, warden, docVars, cmdVars, clientVars, starting, loopVars, ghostVars>>

Receive(type) ==
    /\ msgs # <<>>
    /\ Head(msgs).type = type
    /\ msgs' = Tail(msgs)

UpdateProcessInstance ==
    /\ Receive("instance")
    /\ instances' = Save(WithoutPlaceholders(instances),
                         [id |-> Head(msgs).id, key |-> Head(msgs).key,
                          placeholder |-> FALSE, young |-> TRUE])
    /\ UNCHANGED <<deplVars, warden, histories, fresh, incidents, cmdVars, engine,
                   starting, loopVars, ghostVars>>

DeleteProcessInstance ==
    /\ Receive("instance-delete")
    /\ instances' = Without(instances, {Head(msgs).id})
    /\ incidents' = WithoutIncidents({Head(msgs).id})
    /\ UNCHANGED <<deplVars, warden, histories, fresh, cmdVars, engine,
                   starting, loopVars, ghostVars>>

(* Placeholders are not known to the client, so they go as well.           *)
DeleteUnknownProcessInstances ==
    /\ Receive("instance-known")
    /\ instances' = {x \in instances : x.id \in Head(msgs).ids}
    /\ incidents' = WithoutIncidents(Ids \ Head(msgs).ids)
    /\ UNCHANGED <<deplVars, warden, histories, fresh, cmdVars, engine,
                   starting, loopVars, ghostVars>>

UpdateHistoricProcessInstance ==
    /\ Receive("history")
    /\ histories' = Save(WithoutPlaceholders(histories),
                         [id |-> Head(msgs).id, key |-> Head(msgs).key, placeholder |-> FALSE])
    /\ instances' = WithoutPlaceholders(instances)
    /\ UNCHANGED <<deplVars, warden, fresh, incidents, cmdVars, engine,
                   starting, loopVars, ghostVars>>

DeleteHistoricProcessInstance ==
    /\ Receive("history-delete")
    /\ histories' = Without(histories, {Head(msgs).id})
    /\ UNCHANGED <<deplVars, warden, instances, fresh, incidents, cmdVars, engine,
                   starting, loopVars, ghostVars>>

DeleteUnknownHistoricProcessInstances ==
    /\ Receive("history-known")
    /\ histories' = {h \in histories : h.id \in Head(msgs).ids}
    /\ UNCHANGED <<deplVars, warden, instances, fresh, incidents, cmdVars, engine,
                   starting, loopVars, ghostVars>>

UpdateIncident ==
    /\ Receive("incident")
    /\ incidents' = [incidents EXCEPT ![Head(msgs).id] = "young"]
    /\ UNCHANGED <<deplVars, warden, instances, histories, fresh, cmdVars, engine,
                   starting, loopVars, ghostVars>>

Handlers ==
    \/ UpdateProcessInstance \/ DeleteProcessInstance \/ DeleteUnknownProcessInstances
    \/ UpdateHistoricProcessInstance \/ DeleteHistoricProcessInstance
    \/ DeleteUnknownHistoricProcessInstances
    \/ UpdateIncident

-----------------------------------------------------------------------------
(* The warden loop                                                         *)

(* LoopDeploymentWardenDb: the guarded deployment is sent again unless its *)
(* document exists; one that is marked for delete loses its guard. A       *)
(* failing save of the new placeholder leaves the state as it was.         *)
Redeploy ==
    CASE deplGuarded /\ deployment \in {"none", "missing"} ->
            /\ deployment' \in {"placeholder", deployment}
            /\ UNCHANGED deplGuarded
      [] deplGuarded /\ deployment = "deleting" ->
            /\ deplGuarded' = FALSE
            /\ UNCHANGED deployment
      [] OTHER -> UNCHANGED deplVars

BeginLoopWardenDb ==
    /\ phase = "idle"
    /\ Redeploy
    /\ phase' = "infos"
    /\ infoTodo' = warden
    /\ UNCHANGED <<warden, docVars, cmdVars, clientVars, starting, instTodo, ghostVars>>

(* Date of an instance: the StartTime of its history or its SyncDate.      *)
InstanceIsYoung(x) == IF x.id \in IdsOf(histories) THEN x.id \in fresh ELSE x.young

(* Fault: the comparison with the age gate is turned around.               *)
FaultInstanceIsOldPlaceholder(x) == x.placeholder /\ InstanceIsYoung(x)

InstanceIsOldPlaceholder(x) == x.placeholder /\ ~InstanceIsYoung(x)

(* Fault: the pages of the list overlap, an info is checked again.         *)
FaultChecked(k) ==
    /\ phase = "infos"
    /\ infoTodo[k] # "none"
    /\ UNCHANGED <<incidents, clientVars, starting, loopVars, cleared>>

Checked(k) ==
    /\ phase = "infos"
    /\ infoTodo[k] # "none"
    /\ infoTodo' = [infoTodo EXCEPT ![k] = "none"]
    /\ UNCHANGED <<incidents, clientVars, starting, phase, instTodo, cleared>>

NoAction ==
    UNCHANGED <<deplVars, warden, instances, histories, fresh, cmdVars, late>>

(* Start of a checked key over the documents as they are.                  *)
WardenStart(k, d) ==
    /\ StartDeploymentWithoutWardenHandling(instances, histories, d, k)
    /\ UNCHANGED <<warden, stops>>

RemoveInstanceWarden(k) ==
    /\ warden' = [warden EXCEPT ![k] = "none"]
    /\ UNCHANGED <<instances, histories, fresh, cmdVars, late>>

ImmatureInfo(k) ==
    /\ Checked(k)
    /\ infoTodo[k] = "young"
    /\ NoAction

(* One instance that is no old placeholder: the expected state.            *)
ExpectedInstance(k) ==
    /\ Checked(k)
    /\ infoTodo[k] = "old"
    /\ \E x \in instances : InstancesOf(k) = {x} /\ ~InstanceIsOldPlaceholder(x)
    /\ NoAction

OldPlaceholderInstance(k) ==
    /\ Checked(k)
    /\ infoTodo[k] = "old"
    /\ \E x \in instances :
          /\ InstancesOf(k) = {x}
          /\ InstanceIsOldPlaceholder(x)
          /\ StartDeploymentWithoutWardenHandling(InstancesAfterStop({x}),
                                                  HistoriesAfterStop({x}), deployment, k)
    /\ UNCHANGED <<deplVars, warden, stops>>

(* The instances that may come first in the order by date: dates by        *)
(* SyncDate are later than the start, by an amount the model leaves open.  *)
CanComeFirst(S) ==
    {x \in S : \A y \in S : y.id < x.id => y.id \notin IdsOf(histories)}

(* All but the first of the sorted list are stopped, unless the first is   *)
(* younger than the age gate.                                              *)
(* Faults: the loop over the list starts at its first element, or returns  *)
(* with it.                                                                *)
FaultStopsAll(x, S) == S
FaultStopsNone(x, S) == {}

AllBut(x, S) == S \ {x}

DuplicateInstances(k) ==
    /\ Checked(k)
    /\ infoTodo[k] = "old"
    /\ Cardinality(InstancesOf(k)) > 1
    /\ \E x \in CanComeFirst(InstancesOf(k)) :
          IF InstanceIsYoung(x) THEN UNCHANGED <<instances, histories, stops>>
          ELSE StopProcessInstancesWithoutWardenHandling(AllBut(x, InstancesOf(k)))
    /\ UNCHANGED <<deplVars, warden, fresh, starts, late>>

Missing(k) ==
    /\ Checked(k)
    /\ infoTodo[k] = "old"
    /\ InstancesOf(k) = {}

(* No history: a start that got lost.                                      *)
NeverSeen(k) == Missing(k) /\ HistoriesOf(k) = {}

(* Fault: the guard is dropped as if the process had finished.             *)
FaultStartNeverSeen(k) ==
    /\ NeverSeen(k)
    /\ deployment \in Startable
    /\ RemoveInstanceWarden(k)
    /\ UNCHANGED deplVars

StartNeverSeen(k) ==
    /\ NeverSeen(k)
    /\ deployment \in Startable
    /\ WardenStart(k, deployment)
    /\ UNCHANGED deplVars

(* The deployment does not exist: tryRedeployProcess saves and sends it    *)
(* again before the start, or fails and is retried by the next loop.       *)
RedeployNeverSeen(k) ==
    /\ NeverSeen(k)
    /\ deployment \in {"none", "missing"} /\ deplGuarded
    /\ \/ /\ deployment' = "placeholder"
          /\ WardenStart(k, "placeholder")
          /\ UNCHANGED deplGuarded
       \/ NoAction

(* It is not guarded, or a user wants it deleted: both guards go.          *)
ForgetNeverSeen(k) ==
    /\ NeverSeen(k)
    /\ deployment \notin Startable
    /\ deployment = "deleting" \/ ~deplGuarded
    /\ deplGuarded' = FALSE
    /\ UNCHANGED deployment
    /\ RemoveInstanceWarden(k)

MissingWithoutHistory(k) == StartNeverSeen(k) \/ RedeployNeverSeen(k) \/ ForgetNeverSeen(k)

(* GetYoungestHistory returns the first of the list sorted by StartTime.   *)
GetYoungestHistory(S) == CHOOSE h \in S : \A g \in S : h.id <= g.id

(* The history decides, and the incidents of its instance.                 *)
EndedRun(k) == GetYoungestHistory(HistoriesOf(k)).id

Ended(k) == Missing(k) /\ HistoriesOf(k) # {}

EndIsImmature(k) ==
    /\ Ended(k)
    /\ EndedRun(k) \in fresh \/ incidents[EndedRun(k)] = "young"
    /\ NoAction

EndedWithoutIncident(k) ==
    /\ Ended(k)
    /\ EndedRun(k) \notin fresh /\ incidents[EndedRun(k)] = "none"
    /\ RemoveInstanceWarden(k)
    /\ UNCHANGED deplVars

(* Fault: a process with an incident is taken for a finished one.          *)
FaultEndedWithIncident(k) ==
    /\ Ended(k)
    /\ EndedRun(k) \notin fresh /\ incidents[EndedRun(k)] = "old"
    /\ RemoveInstanceWarden(k)
    /\ UNCHANGED deplVars

EndedWithIncident(k) ==
    /\ Ended(k)
    /\ EndedRun(k) \notin fresh /\ incidents[EndedRun(k)] = "old"
    /\ WardenStart(k, deployment)
    /\ UNCHANGED deplVars

MissingWithHistory(k) == EndIsImmature(k) \/ EndedWithoutIncident(k) \/ EndedWithIncident(k)

CheckWardenInfo(k) ==
    \/ ImmatureInfo(k) \/ ExpectedInstance(k) \/ OldPlaceholderInstance(k)
    \/ DuplicateInstances(k) \/ MissingWithoutHistory(k) \/ MissingWithHistory(k)

BeginLoopProcesses ==
    /\ phase = "infos"
    /\ \A k \in Keys : infoTodo[k] = "none"
    /\ phase' = "instances"
    /\ instTodo' = instances
    /\ UNCHANGED <<deplVars, warden, docVars, cmdVars, clientVars, starting, infoTodo, ghostVars>>

(* Fault: the test of the business key's prefix is turned around.          *)
FaultCheckProcessInstance(x) ==
    /\ phase = "instances"
    /\ x \in instTodo
    /\ instTodo' = instTodo \ {x}
    /\ IF x.key \notin Keys
       THEN StopProcessInstancesWithoutWardenHandling({x})
       ELSE UNCHANGED <<instances, histories, stops>>
    /\ UNCHANGED <<deplVars, warden, fresh, incidents, starts, clientVars, starting,
                   phase, infoTodo, ghostVars>>

(* The instance is the one the list held, the guard is read now.           *)
CheckProcessInstance(x) ==
    /\ phase = "instances"
    /\ x \in instTodo
    /\ instTodo' = instTodo \ {x}
    /\ IF x.key \in Keys /\ warden[x.key] = "none"
       THEN StopProcessInstancesWithoutWardenHandling({x})
       ELSE UNCHANGED <<instances, histories, stops>>
    /\ UNCHANGED <<deplVars, warden, fresh, incidents, starts, clientVars, starting,
                   phase, infoTodo, ghostVars>>

EndLoop ==
    /\ phase = "instances"
    /\ instTodo = {}
    /\ phase' = "idle"
    /\ UNCHANGED <<deplVars, warden, docVars, cmdVars, clientVars, starting,
                   infoTodo, instTodo, ghostVars>>

CheckSteps ==
    \/ \E k \in Keys : CheckWardenInfo(k)
    \/ BeginLoopProcesses
    \/ \E x \in instTodo : CheckProcessInstance(x)
    \/ EndLoop

-----------------------------------------------------------------------------
(* Time and restarts of process-sync                                       *)

(* Everything that exists grows older than the age gate.                   *)
Aged(f) == [x \in DOMAIN f |-> IF f[x] = "young" THEN "old" ELSE f[x]]

SyncedLongAgo(docs) == {[x EXCEPT !.young = FALSE] : x \in docs}

AgeGatePasses ==
    /\ warden' = Aged(warden)
    /\ infoTodo' = Aged(infoTodo)
    /\ incidents' = Aged(incidents)
    /\ fresh' = {}
    /\ instances' = SyncedLongAgo(instances)
    /\ instTodo' = SyncedLongAgo(instTodo)
    /\ UNCHANGED <<deplVars, histories, cmdVars, clientVars, starting, phase, ghostVars>>

(* A restart ends API calls and the loop where they are (the messages lost *)
(* with the clean MQTT session are LoseMessages).                          *)
Restart ==
    /\ starting' = [k \in Keys |-> "idle"]
    /\ phase' = "idle"
    /\ infoTodo' = [k \in Keys |-> "none"]
    /\ instTodo' = {}
    /\ UNCHANGED <<deplVars, warden, docVars, cmdVars, clientVars, ghostVars>>

-----------------------------------------------------------------------------
(* The client and the channels (external)                                  *)

ClientSends(s) ==
    /\ Len(msgs) + Len(s) <= MaxMessages
    /\ msgs' = msgs \o s

InstanceMessage(r) == [type |-> "instance", id |-> r.id, key |-> r.key]
HistoryMessage(r)  == [type |-> "history", id |-> r.id, key |-> r.key]
EndMessage(i)      == [type |-> "instance-delete", id |-> i]
IncidentMessage(i) == [type |-> "incident", id |-> i]

(* A new run, reported by its instance and its history in either order.    *)
ClientRuns(k) ==
    \E i \in Ids :
        LET r == [id |-> i, key |-> k] IN
        /\ IsNext(i)
        /\ engine' = engine \cup {r}
        /\ fresh' = fresh \cup {i}
        /\ \/ ClientSends(<<InstanceMessage(r), HistoryMessage(r)>>)
           \/ ClientSends(<<HistoryMessage(r), InstanceMessage(r)>>)

ClientStart(k) ==
    /\ starts[k] > 0
    /\ starts' = [starts EXCEPT ![k] = @ - 1]
    /\ ClientRuns(k)
    /\ UNCHANGED <<deplVars, warden, instances, histories, incidents, stops,
                   starting, loopVars, ghostVars>>

(* A run of a legacy business key is started at the client.                *)
ClientStartsLegacy(k) ==
    /\ k \in LegacyKeys
    /\ ClientRuns(k)
    /\ UNCHANGED <<deplVars, warden, instances, histories, incidents, cmdVars,
                   starting, loopVars, ghostVars>>

(* A run ends and is reported; its history message does not change the     *)
(* history document in anything modelled here.                             *)
RunEnds(r) ==
    /\ engine' = engine \ {r}
    /\ ClientSends(<<EndMessage(r.id), HistoryMessage(r)>>)
    /\ UNCHANGED <<deplVars, warden, docVars, starting, loopVars, ghostVars>>

RunFinishes(r) ==
    /\ r \in engine
    /\ RunEnds(r)
    /\ UNCHANGED cmdVars

ClientStop(i) ==
    /\ i \in stops
    /\ stops' = stops \ {i}
    /\ IF i \in IdsOf(engine)
       THEN \E r \in engine : r.id = i /\ RunEnds(r)
       ELSE UNCHANGED <<deplVars, warden, docVars, clientVars, starting, loopVars, ghostVars>>
    /\ UNCHANGED starts

(* A run fails: the client reports the incident and ends the run, in an    *)
(* order the platform does not control.                                    *)
RunFails(r) ==
    /\ r \in engine
    /\ engine' = engine \ {r}
    /\ \/ ClientSends(<<EndMessage(r.id), IncidentMessage(r.id)>>)
       \/ ClientSends(<<IncidentMessage(r.id), EndMessage(r.id)>>)
    /\ UNCHANGED <<deplVars, warden, docVars, cmdVars, starting, loopVars, ghostVars>>

(* The state of a running process is reported again.                       *)
ClientReports(r) ==
    /\ r \in engine
    /\ \/ ClientSends(<<InstanceMessage(r)>>)
       \/ ClientSends(<<HistoryMessage(r)>>)
    /\ UNCHANGED <<deplVars, warden, docVars, cmdVars, engine, starting, loopVars, ghostVars>>

ClientListsInstances ==
    /\ ClientSends(<<[type |-> "instance-known", ids |-> IdsOf(engine)]>>)
    /\ UNCHANGED <<deplVars, warden, docVars, cmdVars, engine, starting, loopVars, ghostVars>>

(* The client lost its engine's database and reports both empty lists.     *)
ClientReset ==
    /\ engine # {}
    /\ engine' = {}
    /\ ClientSends(<<[type |-> "instance-known", ids |-> {}],
                     [type |-> "history-known", ids |-> {}]>>)
    /\ UNCHANGED <<deplVars, warden, docVars, cmdVars, starting, loopVars, ghostVars>>

(* The history of an ended run is deleted at the client.                   *)
ClientDeletesHistory(h) ==
    /\ h \in histories
    /\ ~h.placeholder
    /\ h.id \notin IdsOf(engine)
    /\ ClientSends(<<[type |-> "history-delete", id |-> h.id]>>)
    /\ UNCHANGED <<deplVars, warden, docVars, cmdVars, engine, starting, loopVars, ghostVars>>

(* Commands and state messages are lost while a side is disconnected.      *)
LoseStart(k) ==
    /\ starts[k] > 0
    /\ starts' = [starts EXCEPT ![k] = @ - 1]
    /\ UNCHANGED <<deplVars, warden, docVars, stops, clientVars, starting, loopVars, ghostVars>>

LoseStop(i) ==
    /\ i \in stops
    /\ stops' = stops \ {i}
    /\ UNCHANGED <<deplVars, warden, docVars, starts, clientVars, starting, loopVars, ghostVars>>

LoseMessages ==
    /\ msgs # <<>>
    /\ msgs' = <<>>
    /\ UNCHANGED <<deplVars, warden, docVars, cmdVars, engine, starting, loopVars, ghostVars>>

-----------------------------------------------------------------------------
(* Specification                                                           *)

ApiSteps ==
    \E k \in Keys : ApiSendStart(k) \/ ApiRefuseStart(k) \/ ApiSavePlaceholders(k)

UserRequests ==
    \/ \E k \in Keys : AddInstanceWarden(k)
    \/ \E k \in AllKeys : DeleteProcessInstanceByBusinessKey(k)
    \/ \E x \in instances : ApiDeleteProcessInstance(x)
    \/ \E h \in histories : ApiDeletePlaceholderHistory(h)

DeploymentRequests == ApiCreateDeployment \/ ApiDeleteDeployment

ClientObeys ==
    \/ \E k \in AllKeys : ClientStart(k)
    \/ \E i \in stops : ClientStop(i)

RunsEnd == \E r \in engine : RunFinishes(r) \/ RunFails(r)

ClientSpeaks ==
    \/ \E r \in engine : ClientReports(r)
    \/ ClientListsInstances
    \/ \E h \in histories : ClientDeletesHistory(h)
    \/ \E k \in LegacyKeys : ClientStartsLegacy(k)

CommandLosses ==
    \/ \E k \in AllKeys : LoseStart(k)
    \/ \E i \in stops : LoseStop(i)

Next ==
    \/ ApiSteps \/ UserRequests \/ DeploymentRequests
    \/ Handlers \/ DeploymentHandlers
    \/ BeginLoopWardenDb \/ CheckSteps \/ AgeGatePasses
    \/ ClientObeys \/ RunsEnd \/ ClientSpeaks
    \/ CommandLosses \/ LoseMessages \/ ClientReset \/ Restart

Spec == Init /\ [][Next]_vars

-----------------------------------------------------------------------------
(* Safety properties                                                       *)

(* Once a user deleted the guard of a process, or its start was refused,   *)
(* the warden starts it at most once more: from the list of WardenInfos    *)
(* LoopWardenDb read before the guard was gone.                            *)
ClearedKeysStartAtMostOnce == \A k \in cleared : late[k] <= 1

(* The stronger invariant behind it: a cleared key has no guard, and its   *)
(* one late start uses up its entry in the list.                           *)
ClearedKeysStayCleared ==
    /\ \A k \in cleared : warden[k] = "none" /\ (infoTodo[k] # "none" => late[k] = 0)
    /\ ClearedKeysStartAtMostOnce
=============================================================================
