---------------------------- MODULE GroupUpdates ----------------------------
(***************************************************************************)
(* How clients learn that a device group changed. A deployment that reacts *)
(* to the events of a group carries descriptions of these events, computed *)
(* from the group when the deployment is created. A consumer of the Kafka  *)
(* topic of device groups (pkg/kafka/consumer.go with the listener of      *)
(* controller/groupupdate.go) looks up the deployments a changed group     *)
(* concerns, computes their descriptions again and publishes them to all   *)
(* MQTT brokers (MultiMqtt). Deployments are created and brought back next *)
(* to it; what else happens to them is the subject of DeploymentSync.      *)
(*                                                                         *)
(* Kafka, the device repository, the auth server, paho and the clients are *)
(* external. The topic has one partition and the process one replica.      *)
(***************************************************************************)
EXTENDS MultiMqtt, FiniteSets

CONSTANTS
    Groups,    \* device groups
    GroupOf    \* deployment |-> the group whose events it reacts to

Deployments == Targets

ASSUME GroupsAssumption == GroupOf \in [Deployments -> Groups]
ASSUME CallersAssumption == Callers = {"updates", "warden", "api"}

VARIABLES
    \* external
    repo,       \* group |-> its description in the device repository
    unsaid,     \* groups that changed and whose PUT command is still to come
    topic,      \* the Kafka topic: commands, by offset
    engine,     \* deployment |-> what its client runs, or Nothing
    removed,    \* deployments with a device the repository does not have
    \* kept in Kafka and MongoDB
    committed,  \* how many commands the consumer group committed
    metadata,   \* deployment |-> DeploymentMetadata, or Nothing
    guard,      \* deployment |-> the description in its DeploymentWardenInfo, or Nothing
    known,      \* deployments with a document
    \* in the process
    up,         \* the process runs
    worker,     \* the consumer
    request,    \* ApiCreateDeployment
    bringing,   \* the deployment the warden brings back, or Nothing
    \* history
    ids,        \* deployment |-> how many ids its client gave it
    missed      \* deployments whose client cannot know the last change of their group

external == <<repo, unsaid, topic, engine, removed>>
stored == <<committed, metadata, guard, known>>
process == <<up, worker, request, bringing>>
vars == <<mqttVars, external, stored, process, ids, missed>>

(* A state of a group, and the event descriptions computed from it: a      *)
(* group without devices has none.                                         *)
Descriptions == [version : Nat, empty : BOOLEAN]

Commands == [command : {"PUT"}, id : Groups, group : Descriptions] \cup [command : {"other"}]

(* DeploymentModel (SendDeploymentCommand) and EventDescriptionsUpdate.    *)
Messages ==
    [cmd : {"deployment"}, of : Deployments, id : Nat, desc : Descriptions]
    \cup [cmd : {"event-descriptions"}, of : Deployments, id : Nat, desc : Descriptions]

(* What a deployment's metadata tells: its id at the client, and whether   *)
(* its event descriptions name the group.                                  *)
Metadata == [of : Deployments, id : Nat, names : BOOLEAN]

Workers ==
    [pc : {"idle", "token", "list", "describe", "publish", "commit", "failed"},
     token : {"none", "valid", "expired"}, found : SUBSET Metadata, element : Metadata \cup {Nothing}]

Idle == [pc |-> "idle", token |-> "none", found |-> {}, element |-> Nothing]

Init ==
    /\ MqttInit
    /\ repo = [g \in Groups |-> [version |-> 0, empty |-> FALSE]]
    /\ unsaid = {} /\ topic = <<>> /\ removed = {}
    /\ engine = [d \in Deployments |-> Nothing]
    /\ committed = 0 /\ known = {}
    /\ metadata = [d \in Deployments |-> Nothing]
    /\ guard = [d \in Deployments |-> Nothing]
    /\ up = FALSE /\ worker = Idle
    /\ request = Nothing /\ bringing = Nothing
    /\ ids = [d \in Deployments |-> 0] /\ missed = {}

-----------------------------------------------------------------------------
(* The consumer                                                            *)

At(pc) == up /\ worker.pc = pc

Goto(pc) == worker' = [worker EXCEPT !.pc = pc]

Command == topic[committed + 1]

(* FetchMessage, and the commands the listener ignores.                    *)
Fetch ==
    /\ At("idle") /\ committed < Len(topic)
    /\ worker' = [Idle EXCEPT !.pc = IF Command.command = "PUT" THEN "token" ELSE "commit"]
    /\ UNCHANGED <<mqttVars, external, stored, up, request, bringing, ids, missed>>

(* GetAdminToken: the cached token while it is valid, or a new one.        *)
GetAdminToken ==
    /\ At("token")
    /\ worker' = [worker EXCEPT !.pc = "list", !.token = "valid"]
    /\ UNCHANGED <<mqttVars, external, stored, up, request, bringing, ids, missed>>

(* Neither the refresh token nor the secret get a new one.                 *)
TokenRefused ==
    /\ At("token")
    /\ Goto("failed")
    /\ UNCHANGED <<mqttVars, external, stored, up, request, bringing, ids, missed>>

(* The token expires while UpdateDeviceGroup works with it.                *)
ExpireToken ==
    /\ up /\ worker.token = "valid"
    /\ worker' = [worker EXCEPT !.token = "expired"]
    /\ UNCHANGED <<mqttVars, external, stored, up, request, bringing, ids, missed>>

(* ListDeploymentMetadataByEventDeviceGroupId                              *)
Concerned(g) ==
    {metadata[d] : d \in {d \in Deployments : GroupOf[d] = g /\ metadata[d] # Nothing /\ metadata[d].names}}

(* UpdateDeviceGroup reads which deployments the group concerns.           *)
ListConcerned ==
    /\ At("list")
    /\ worker' = [worker EXCEPT !.pc = "describe", !.found = Concerned(Command.id)]
    /\ missed' = missed \cup
         {d \in Deployments : GroupOf[d] = Command.id /\ d \notin {e.of : e \in Concerned(Command.id)}}
    /\ UNCHANGED <<mqttVars, external, stored, up, request, bringing, ids>>

Describable(d) == d \notin removed

Described(d) == repo[GroupOf[d]]

(* Fault: the descriptions are computed from the group in the command.     *)
FaultDescribe(e) ==
    /\ At("describe") /\ e \in worker.found
    /\ worker.token = "valid" /\ Describable(e.of)
    /\ Publish("updates",
         [cmd |-> "event-descriptions", of |-> e.of, id |-> e.id, desc |-> Command.group])
    /\ worker' = [worker EXCEPT !.pc = "publish", !.element = e]
    /\ UNCHANGED <<link, queue, external, stored, up, request, bringing, ids, missed>>

(* deploymentModelWithEventDescriptions of one of them, and the call of    *)
(* SendDeploymentEventUpdateCommand.                                       *)
Describe(e) ==
    /\ At("describe") /\ e \in worker.found
    /\ worker.token = "valid" /\ Describable(e.of)
    /\ Publish("updates",
         [cmd |-> "event-descriptions", of |-> e.of, id |-> e.id, desc |-> Described(e.of)])
    /\ worker' = [worker EXCEPT !.pc = "publish", !.element = e]
    /\ UNCHANGED <<link, queue, external, stored, up, request, bringing, ids, missed>>

(* Fault: what cannot be described is skipped.                             *)
FaultDescribeFails ==
    /\ At("describe")
    /\ \E e \in worker.found :
          /\ worker.token # "valid" \/ ~Describable(e.of)
          /\ worker' = [worker EXCEPT !.found = @ \ {e}]
    /\ UNCHANGED <<mqttVars, external, stored, up, request, bringing, ids, missed>>

DescribeFails ==
    /\ At("describe")
    /\ \E e \in worker.found : worker.token # "valid" \/ ~Describable(e.of)
    /\ Goto("failed")
    /\ UNCHANGED <<mqttVars, external, stored, up, request, bringing, ids, missed>>

(* The database or the repository do not answer.                           *)
CallFails ==
    /\ At("list") \/ (At("describe") /\ worker.found # {})
    /\ Goto("failed")
    /\ UNCHANGED <<mqttVars, external, stored, up, request, bringing, ids, missed>>

(* The client of a deployment can know the descriptions if its broker took *)
(* them and the deployment still has the id they were sent to.             *)
Informed(e) ==
    /\ BrokerOf[e.of] \notin fan["updates"].err
    /\ engine[e.of] # Nothing /\ engine[e.of].id = e.id

Published ==
    /\ At("publish") /\ Returned("updates")
    /\ fan' = [fan EXCEPT !["updates"] = Nothing]
    /\ IF Error("updates") = Nothing
       THEN worker' = [worker EXCEPT !.pc = "describe", !.found = @ \ {worker.element},
                                     !.element = Nothing]
       ELSE Goto("failed")
    /\ missed' = IF Informed(worker.element)
                 THEN missed \ {worker.element.of} ELSE missed \cup {worker.element.of}
    /\ UNCHANGED <<link, queue, external, stored, up, request, bringing, ids>>

AllPublished ==
    /\ At("describe") /\ worker.found = {}
    /\ Goto("commit")
    /\ UNCHANGED <<mqttVars, external, stored, up, request, bringing, ids, missed>>

(* Fault: the next round commits the message again.                        *)
FaultCommit ==
    /\ At("commit")
    /\ committed' = committed + 1
    /\ UNCHANGED <<mqttVars, external, metadata, guard, known, process, ids, missed>>

Commit ==
    /\ At("commit")
    /\ committed' = committed + 1
    /\ worker' = Idle
    /\ UNCHANGED <<mqttVars, external, metadata, guard, known, up, request, bringing, ids, missed>>

(* retry calls the listener again.                                         *)
Retry ==
    /\ At("failed")
    /\ worker' = [Idle EXCEPT !.pc = "token"]
    /\ UNCHANGED <<mqttVars, external, stored, up, request, bringing, ids, missed>>

-----------------------------------------------------------------------------
(* The end of the process and its start                                    *)

(* What it keeps in memory is gone, messages of paho included.             *)
ProcessEnds ==
    /\ up' = FALSE
    /\ worker' = Idle
    /\ request' = Nothing /\ bringing' = Nothing
    /\ fan' = [c \in Callers |-> Nothing]
    /\ link' = [b \in Brokers |-> "never"]
    /\ missed' = missed \cup {fan[c].msg.of : c \in {c \in Callers : fan[c] # Nothing}}

Crash == up /\ ProcessEnds /\ UNCHANGED <<queue, external, stored, ids>>

(* Fault: the consumer ends, and the process goes on without it.           *)
FaultHandlerError ==
    /\ At("failed")
    /\ Goto("closed")
    /\ UNCHANGED <<mqttVars, external, stored, up, request, bringing, ids, missed>>

(* The listener failed for ten minutes: log.Fatal. So does an error of     *)
(* FetchMessage or of CommitMessages.                                      *)
HandlerError ==
    /\ At("failed")
    /\ ProcessEnds
    /\ UNCHANGED <<queue, external, stored, ids>>

CommitError ==
    /\ At("commit")
    /\ ProcessEnds
    /\ committed' \in {committed, committed + 1}
    /\ UNCHANGED <<queue, external, metadata, guard, known, ids>>

(* New: connected to its brokers, or so it believes.                       *)
Start ==
    /\ ~up
    /\ up' = TRUE
    /\ Connect
    /\ UNCHANGED <<fan, queue, external, stored, worker, request, bringing, ids, missed>>

-----------------------------------------------------------------------------
(* Deployments are created and brought back                                *)

(* A deployment is sent when its client runs none (that it may have one    *)
(* twice otherwise is checked with DeploymentSync).                        *)
Absent(d) ==
    /\ engine[d] = Nothing
    /\ \A i \in DOMAIN queue[d] : queue[d][i].cmd # "deployment"

(* ApiCreateDeployment: the descriptions, the message, then the document   *)
(* and the guard.                                                          *)
ApiDescribes(d) ==
    /\ up /\ request = Nothing /\ guard[d] = Nothing /\ d \notin known
    /\ ids[d] = 0 /\ Absent(d)
    /\ Describable(d)
    /\ LET message == [cmd |-> "deployment", of |-> d, id |-> 0, desc |-> Described(d)]
       IN request' = message /\ Publish("api", message)
    /\ missed' = missed \ {d}
    /\ UNCHANGED <<link, queue, external, stored, up, worker, bringing, ids>>

ApiCreates ==
    /\ up /\ request # Nothing /\ Returned("api")
    /\ fan' = [fan EXCEPT !["api"] = Nothing]
    /\ guard' = [guard EXCEPT ![request.of] = request.desc]
    /\ known' = known \cup {request.of}
    /\ request' = Nothing
    /\ UNCHANGED <<link, queue, external, committed, metadata, up, worker, bringing, ids, missed>>

(* CheckDeploymentWardenInfo and Redeploy: the metadata of the missing     *)
(* deployment goes, and the warden sends what it kept at its creation, ... *)
Redeploy(d) ==
    /\ up /\ bringing = Nothing /\ guard[d] # Nothing /\ d \notin known /\ Absent(d)
    /\ bringing' = d
    /\ Publish("warden", [cmd |-> "deployment", of |-> d, id |-> 0, desc |-> guard[d]])
    /\ metadata' = [metadata EXCEPT ![d] = Nothing]
    /\ missed' = IF guard[d] = Described(d) THEN missed \ {d} ELSE missed \cup {d}
    /\ UNCHANGED <<link, queue, external, committed, guard, known, up, worker, request, ids>>

(* ... and saves a placeholder for it.                                     *)
Redeployed ==
    /\ up /\ bringing # Nothing /\ Returned("warden")
    /\ fan' = [fan EXCEPT !["warden"] = Nothing]
    /\ known' = known \cup {bringing}
    /\ bringing' = Nothing
    /\ UNCHANGED <<link, queue, external, committed, metadata, guard, up, worker, request, ids, missed>>

(* A client reports a deployment as it runs or as it was deployed, and     *)
(* UpdateDeploymentMetadata replaces what was there of it.                 *)
UpdateDeploymentMetadata(d) ==
    /\ up /\ engine[d] # Nothing
    /\ \E desc \in {engine[d].desc, engine[d].first} :
         metadata' = [metadata EXCEPT ![d] = [of |-> d, id |-> engine[d].id, names |-> ~desc.empty]]
    /\ known' = known \cup {d}
    /\ UNCHANGED <<mqttVars, external, committed, guard, process, ids, missed>>

(* A client reports what it runs: the document of what it does not run     *)
(* goes or is marked as missing; metadata that was reported stays.         *)
DeleteUnknownDeployments(d) ==
    /\ up /\ Absent(d) /\ d \in known
    /\ known' = known \ {d}
    /\ UNCHANGED <<mqttVars, external, committed, metadata, guard, process, ids, missed>>

-----------------------------------------------------------------------------
(* The world                                                               *)

GroupChanges(g) ==
    /\ g \notin unsaid
    /\ \E empty \in BOOLEAN : repo' = [repo EXCEPT ![g] = [version |-> @.version + 1, empty |-> empty]]
    /\ unsaid' = unsaid \cup {g}
    /\ UNCHANGED <<mqttVars, topic, engine, removed, stored, process, ids, missed>>

(* The command that tells of it carries the group.                         *)
GroupCommand(g) ==
    /\ g \in unsaid
    /\ topic' = Append(topic, [command |-> "PUT", id |-> g, group |-> repo[g]])
    /\ unsaid' = unsaid \ {g}
    /\ UNCHANGED <<mqttVars, repo, engine, removed, stored, process, ids, missed>>

OtherCommand ==
    /\ topic' = Append(topic, [command |-> "other"])
    /\ UNCHANGED <<mqttVars, repo, unsaid, engine, removed, stored, process, ids, missed>>

(* A client takes the next message for a deployment.                       *)
ClientDeploys(d) ==
    /\ queue[d] # <<>> /\ Head(queue[d]).cmd = "deployment"
    /\ queue' = [queue EXCEPT ![d] = Tail(@)]
    /\ ids' = [ids EXCEPT ![d] = @ + 1]
    /\ engine' = [engine EXCEPT ![d] =
         [id |-> ids[d] + 1, desc |-> Head(queue[d]).desc, first |-> Head(queue[d]).desc]]
    /\ UNCHANGED <<link, fan, repo, unsaid, topic, removed, stored, process, missed>>

ClientUpdates(d) ==
    /\ queue[d] # <<>> /\ Head(queue[d]).cmd = "event-descriptions"
    /\ queue' = [queue EXCEPT ![d] = Tail(@)]
    /\ engine' = IF engine[d] # Nothing /\ engine[d].id = Head(queue[d]).id
                 THEN [engine EXCEPT ![d].desc = Head(queue[d]).desc] ELSE engine
    /\ UNCHANGED <<link, fan, repo, unsaid, topic, removed, stored, process, ids, missed>>

ClientLoses(d) ==
    /\ engine[d] # Nothing
    /\ engine' = [engine EXCEPT ![d] = Nothing]
    /\ UNCHANGED <<mqttVars, repo, unsaid, topic, removed, stored, process, ids, missed>>

DeviceRemoved(d) ==
    /\ d \notin removed
    /\ removed' = removed \cup {d}
    /\ UNCHANGED <<mqttVars, repo, unsaid, topic, engine, stored, process, ids, missed>>

DeviceBack(d) ==
    /\ d \in removed
    /\ removed' = removed \ {d}
    /\ UNCHANGED <<mqttVars, repo, unsaid, topic, engine, stored, process, ids, missed>>

-----------------------------------------------------------------------------
WorkerSteps ==
    \/ Fetch \/ GetAdminToken \/ ListConcerned \/ Published \/ AllPublished \/ Commit \/ Retry
    \/ DescribeFails
    \/ \E d \in Deployments : \E e \in worker.found : Describe(e)

Unheard == UNCHANGED <<external, stored, process, ids, missed>>

FanOutSteps(c) == FanOut(c) /\ Unheard

Reconnects == up /\ (\E b \in Brokers : Reconnect(b)) /\ Unheard

CreationSteps == ApiCreates \/ Redeployed \/ \E d \in Deployments : Redeploy(d)

ClientSteps == \E d \in Deployments : ClientDeploys(d) \/ ClientUpdates(d)

Reports == \E d \in Deployments : UpdateDeploymentMetadata(d) \/ DeleteUnknownDeployments(d)

Changes ==
    \/ OtherCommand
    \/ \E g \in Groups : GroupChanges(g)
    \/ \E d \in Deployments : ApiDescribes(d)

Announcements == \E g \in Groups : GroupCommand(g)

Failures ==
    \/ TokenRefused \/ ExpireToken \/ CallFails \/ Crash \/ CommitError
    \/ \E d \in Deployments : ClientLoses(d) \/ DeviceRemoved(d)
    \/ up /\ (\E b \in Brokers : ConnectionLost(b)) /\ Unheard
    \/ (\E c \in Callers, b \in Brokers : SendFails(c, b)) /\ Unheard

Repairs == \E d \in Deployments : DeviceBack(d)

Next ==
    \/ WorkerSteps \/ HandlerError \/ Start \/ (\E c \in Callers : FanOutSteps(c)) \/ Reconnects \/ CreationSteps
    \/ ClientSteps \/ Reports \/ Changes \/ Announcements \/ Failures \/ Repairs

Spec == Init /\ [][Next]_vars

-----------------------------------------------------------------------------
(* Properties                                                              *)

TypeOK ==
    /\ link \in [Brokers -> {"open", "lost", "never"}]
    /\ fan \in [Callers -> Calls(Messages) \cup {Nothing}]
    /\ queue \in [Deployments -> Seq(Messages)]
    /\ repo \in [Groups -> Descriptions] /\ unsaid \subseteq Groups
    /\ topic \in Seq(Commands) /\ committed \in 0 .. Len(topic)
    /\ engine \in [Deployments -> [id : Nat, desc : Descriptions, first : Descriptions] \cup {Nothing}]
    /\ removed \subseteq Deployments /\ known \subseteq Deployments
    /\ metadata \in [Deployments -> Metadata \cup {Nothing}]
    /\ guard \in [Deployments -> Descriptions \cup {Nothing}]
    /\ up \in BOOLEAN
    /\ worker \in Workers
    /\ request \in Messages \cup {Nothing}
    /\ bringing \in Deployments \cup {Nothing}
    /\ ids \in [Deployments -> Nat] /\ missed \subseteq Deployments

Pending(g) == \E k \in committed + 1 .. Len(topic) : topic[k].command = "PUT" /\ topic[k].id = g

(* When the commands of a group are committed, each client of a deployment *)
(* that reacts to it works with the group as it is now; except for what    *)
(* the code cannot reach, which the history records: deployments without   *)
(* metadata that name the group when the command came, descriptions a      *)
(* broker refused, and deployments brought back as they were created.      *)
Fresh ==
    \A d \in Deployments :
        engine[d] # Nothing /\ GroupOf[d] \notin unsaid /\ ~Pending(GroupOf[d]) /\ queue[d] = <<>>
            => d \in missed \/ engine[d].desc = repo[GroupOf[d]]

-----------------------------------------------------------------------------
(* Why NeverOlder holds                                                    *)

Update(m) == m.cmd = "event-descriptions"

(* No message speaks of an id before its client gave it, so none updates   *)
(* a deployment that is still to come.                                     *)
IdsKnown ==
    /\ \A d \in Deployments :
          /\ engine[d] # Nothing => engine[d].id = ids[d]
          /\ metadata[d] # Nothing => metadata[d].of = d /\ metadata[d].id <= ids[d]
          /\ \A i \in DOMAIN queue[d] : Update(queue[d][i]) => queue[d][i].id <= ids[d]
    /\ \A e \in worker.found : e.id <= ids[e.of]
    /\ \A c \in Callers : fan[c] # Nothing =>
          /\ Update(fan[c].msg) <=> c = "updates"
          /\ c = "updates" => fan[c].msg.id <= ids[fan[c].msg.of]

(* Descriptions are never ahead of the repository.                         *)
NotAhead ==
    /\ \A d \in Deployments :
          /\ engine[d] # Nothing => engine[d].desc.version <= Described(d).version
          /\ guard[d] # Nothing => guard[d].version <= Described(d).version
          /\ \A i \in DOMAIN queue[d] : queue[d][i].desc.version <= Described(d).version
    /\ request # Nothing => request.desc.version <= Described(request.of).version
    /\ \A c \in Callers : fan[c] # Nothing
          => fan[c].msg.desc.version <= Described(fan[c].msg.of).version

(* What a client runs, what waits for it and what is on its way to its     *)
(* broker is in this order of age.                                         *)
OnItsWay(d) ==
    /\ fan["updates"] # Nothing /\ fan["updates"].msg.of = d
    /\ fan["updates"].sub[BrokerOf[d]] = "waiting"

InOrder ==
    \A d \in Deployments :
        /\ \A i \in DOMAIN queue[d] :
              /\ Update(queue[d][i]) /\ engine[d] # Nothing /\ queue[d][i].id = engine[d].id
                    => engine[d].desc.version <= queue[d][i].desc.version
              /\ \A j \in DOMAIN queue[d] :
                    i < j /\ Update(queue[d][i]) /\ Update(queue[d][j]) /\ queue[d][i].id = queue[d][j].id
                        => queue[d][i].desc.version <= queue[d][j].desc.version
        /\ OnItsWay(d) =>
              LET m == fan["updates"].msg IN
              /\ engine[d] # Nothing /\ engine[d].id = m.id => engine[d].desc.version <= m.desc.version
              /\ \A i \in DOMAIN queue[d] :
                    Update(queue[d][i]) /\ queue[d][i].id = m.id
                        => queue[d][i].desc.version <= m.desc.version

(* A worker that is not idle has a command, and knows what it published.   *)
WorkerBusy ==
    /\ worker.pc # "idle" => committed < Len(topic)
    /\ worker.pc = "publish" => worker.element \in Metadata

AgeInv == TypeOK /\ WorkerBusy /\ IdsKnown /\ NotAhead /\ InOrder

(* A client that works with the description of a group never goes back to  *)
(* an older one, although commands are redelivered after a crash, retried  *)
(* from their start and overtaken by changes of the group: descriptions    *)
(* are computed from the group as it is, not as the command tells, and one *)
(* message follows the other. (A deployment that is brought back does.)    *)
NeverOlder ==
    [][\A d \in Deployments :
          engine[d] # Nothing /\ engine'[d] # Nothing /\ engine'[d].id = engine[d].id
              => engine'[d].desc.version >= engine[d].desc.version]_vars
=============================================================================
