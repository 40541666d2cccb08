--------------------------- MODULE DeploymentSync ---------------------------
(***************************************************************************)
(* The deployments of one mgw network: their documents, their metadata,    *)
(* the guards that bring them back (DeploymentWardenInfo) and the guards   *)
(* of processes that name them (WardenInfo).                               *)
(*                                                                         *)
(* A deployment is created under an id of the platform. The client's       *)
(* engine gives it an id of its own at every deploy command; the report of *)
(* that id replaces the placeholder document, and its metadata moves the   *)
(* guards from the old id to the new one.                                  *)
(*                                                                         *)
(* A REST request, the MQTT handler and the warden loop are sequences of   *)
(* database commands that interleave. Each works on documents it read some *)
(* steps ago; they are kept in api, handler and the lists of the loop.     *)
(***************************************************************************)
EXTENDS Naturals, Sequences, FiniteSets

CONSTANTS
    Deployments,  \* what users deploy
    Keys,         \* business keys of processes
    MaxIds,       \* bound: client ids of one deployment in use at one time
    MaxCommands,  \* bound: commands in flight to the client
    MaxMessages,  \* bound: state messages in flight to the platform
    ReportOrders  \* orders in which the client may report a deployment

Orders == {"deployment first", "metadata first"}

ASSUME OrdersAssumption == ReportOrders \subseteq Orders
ASSUME BoundsAssumption == MaxIds \in Nat /\ MaxCommands \in Nat /\ MaxMessages \in Nat

(* An id tells which deployment it names. Number 0 is the platform's id.   *)
Ids == [of : Deployments, nr : 0..MaxIds]

PlatformId(c) == [of |-> c, nr |-> 0]

Doc  == [id : Ids, placeholder : BOOLEAN, deleting : BOOLEAN, missing : BOOLEAN]
Info == [key : Keys, id : Ids, young : BOOLEAN]
Metadata == [id : Ids, model : Ids]

Command == [type : {"deploy", "delete"}, id : Ids]

Message ==
    [type : {"deployment", "delete"}, id : Ids]
        \cup [type : {"metadata"}, id : Ids, model : Ids]
        \cup [type : {"known"}, ids : SUBSET Ids]

ApiCall ==
    [at : {"idle"}]
        \cup [at : {"create-save", "create-guard", "delete-guard", "delete-read"}, id : Ids]
        \cup [at : {"delete-write"}, doc : Doc]
        \cup [at : {"start"}, key : Keys, id : Ids]
        \cup [at : {"sync"}, docs : SUBSET Doc]

HandlerCall ==
    [at : {"idle"}]
        \cup [at : {"mark"}, doc : Doc]
        \cup [at : {"unknown"}, known : SUBSET Ids, docs : SUBSET Doc]
        \cup [at : {"set", "remove", "find"}, old : Ids, new : Ids]
        \cup [at : {"rewrite"}, new : Ids, infos : SUBSET Info]

VARIABLES
    docs,       \* deployment documents
    metadata,   \* deployment metadata documents; model: id in the model
    guards,     \* ids of the DeploymentWardenInfos
    infos,      \* WardenInfos of processes
    cmds,       \* commands in flight
    msgs,       \* state messages in flight
    engine,     \* ids of the deployments at the client
    api,        \* the REST request under way
    handler,    \* the MQTT handler under way
    phase,      \* progress of the warden loop
    guardTodo,  \* rest of the list of LoopDeploymentWardenDb
    infoTodo,   \* rest of the list of LoopWardenDb
    saving,     \* placeholders the loop has sent and not yet saved
    gap,        \* history variable: messages lost since the last full report
    created,    \* history variable: deployments created successfully
    deleted,    \* history variable: deployments a user asked to delete
    torn        \* history variable: deployments whose move was interrupted

loopVars   == <<phase, guardTodo, infoTodo, saving>>
ghostVars  == <<created, deleted, torn>>
clientVars == <<engine, msgs, gap>>
vars == <<docs, metadata, guards, infos, cmds, clientVars, api, handler, loopVars, ghostVars>>

TypeOK ==
    /\ docs \subseteq Doc
    /\ metadata \subseteq Metadata
    /\ guards \subseteq Ids
    /\ infos \subseteq Info
    /\ cmds \in Seq(Command)
    /\ msgs \in Seq(Message)
    /\ engine \subseteq Ids /\ IsFiniteSet(engine)
    /\ api \in ApiCall
    /\ handler \in HandlerCall
    /\ phase \in {"idle", "guards", "infos"}
    /\ guardTodo \subseteq Ids
    /\ infoTodo \subseteq Info
    /\ saving \subseteq Ids
    /\ gap \in BOOLEAN
    /\ created \subseteq Deployments
    /\ deleted \subseteq Deployments
    /\ torn \subseteq Deployments

Idle == [at |-> "idle"]

(* A network without deployments.                                          *)
Init ==
    /\ docs = {} /\ metadata = {} /\ guards = {} /\ infos = {}
    /\ cmds = <<>> /\ msgs = <<>> /\ engine = {} /\ gap = FALSE
    /\ api = Idle /\ handler = Idle
    /\ phase = "idle" /\ guardTodo = {} /\ infoTodo = {} /\ saving = {}
    /\ created = {} /\ deleted = {} /\ torn = {}

-----------------------------------------------------------------------------
(* Documents                                                               *)

IdsOf(S) == {x.id : x \in S}

PlaceholderDoc(i) == [id |-> i, placeholder |-> TRUE, deleting |-> FALSE, missing |-> FALSE]

SyncedDoc(i) == [PlaceholderDoc(i) EXCEPT !.placeholder = FALSE]

MarkedAsMissing(d) == [d EXCEPT !.missing = TRUE]

MarkedForDelete(d) == [d EXCEPT !.deleting = TRUE]

(* ReplaceOne with upsert.                                                 *)
Save(S, d) == {x \in S : x.id # d.id} \cup {d}

Without(S, ids) == {x \in S : x.id \notin ids}

RemovePlaceholderDeployments == {d \in docs : ~d.placeholder}

(* Fault: a missing deployment counts as existing.                         *)
FaultExists(i) == \E d \in docs : d.id = i /\ ~d.deleting

(* deploymentExistsId: what the warden takes for an existing deployment.   *)
Exists(i) == \E d \in docs : d.id = i /\ ~d.deleting /\ ~d.missing

MarkedForDeleteAt(i) == \E d \in docs : d.id = i /\ d.deleting

(* Removes document and metadata of the ids.                               *)
deleteDeployment(ids) ==
    /\ docs' = Without(docs, ids)
    /\ metadata' = Without(metadata, ids)

Send(s) ==
    /\ Len(cmds) + Len(s) <= MaxCommands
    /\ cmds' = cmds \o s

DeployCommand(i) == [type |-> "deploy", id |-> i]
DeleteCommand(i) == [type |-> "delete", id |-> i]

-----------------------------------------------------------------------------
(* REST requests, one at a time                                            *)

(* ApiCreateDeployment sends, then saves the placeholder, then guards. A   *)
(* failing save ends it like a restart.                                    *)
CreateSends(c) ==
    /\ api = Idle
    /\ c \notin created
    /\ Send(<<DeployCommand(PlatformId(c))>>)
    /\ api' = [at |-> "create-save", id |-> PlatformId(c)]
    /\ UNCHANGED <<docs, metadata, guards, infos, clientVars, handler, loopVars, ghostVars>>

CreateSaves ==
    /\ api.at = "create-save"
    /\ docs' = Save(docs, PlaceholderDoc(api.id))
    /\ api' = [at |-> "create-guard", id |-> api.id]
    /\ UNCHANGED <<metadata, guards, infos, cmds, clientVars, handler, loopVars, ghostVars>>

CreateGuards ==
    /\ api.at = "create-guard"
    /\ guards' = guards \cup {api.id}
    /\ created' = created \cup {api.id.of}
    /\ api' = Idle
    /\ UNCHANGED <<docs, metadata, infos, cmds, clientVars, handler, loopVars, deleted, torn>>

(* ApiDeleteDeployment: the guards of its processes, its own guard, then   *)
(* the document, by what it is at that time.                               *)
DeleteRemovesInfos(d) ==
    /\ api = Idle
    /\ d \in docs
    /\ infos' = {x \in infos : x.id # d.id}
    /\ deleted' = deleted \cup {d.id.of}
    /\ api' = [at |-> "delete-guard", id |-> d.id]
    /\ UNCHANGED <<docs, metadata, guards, cmds, clientVars, handler, loopVars, created, torn>>

DeleteRemovesGuard ==
    /\ api.at = "delete-guard"
    /\ guards' = guards \ {api.id}
    /\ api' = [at |-> "delete-read", id |-> api.id]
    /\ UNCHANGED <<docs, metadata, infos, cmds, clientVars, handler, loopVars, ghostVars>>

(* The client is told only of a deployment it has reported.                *)
DeleteReads ==
    /\ api.at = "delete-read"
    /\ \/ /\ api.id \notin IdsOf(docs)
          /\ api' = Idle
          /\ UNCHANGED <<docs, metadata>>
       \/ \E d \in docs :
             /\ d.id = api.id
             /\ IF d.placeholder \/ d.missing
                THEN deleteDeployment({d.id}) /\ api' = Idle
                ELSE api' = [at |-> "delete-write", doc |-> d] /\ UNCHANGED <<docs, metadata>>
    /\ UNCHANGED <<guards, infos, cmds, clientVars, handler, loopVars, ghostVars>>

DeleteWrites ==
    /\ api.at = "delete-write"
    /\ Send(<<DeleteCommand(api.doc.id)>>)
    /\ docs' = Save(docs, MarkedForDelete(api.doc))
    /\ api' = Idle
    /\ UNCHANGED <<metadata, guards, infos, clientVars, handler, loopVars, ghostVars>>

(* ApiStartDeployment guards the process, then reads the deployment and    *)
(* accepts the start or takes the guard back. (InstanceWarden models the   *)
(* start itself, and what becomes of the process.)                         *)
StartGuards(k, d) ==
    /\ api = Idle
    /\ d \in docs
    /\ infos' = {x \in infos : x.key # k} \cup {[key |-> k, id |-> d.id, young |-> TRUE]}
    /\ api' = [at |-> "start", key |-> k, id |-> d.id]
    /\ UNCHANGED <<docs, metadata, guards, cmds, clientVars, handler, loopVars, ghostVars>>

StartReads ==
    /\ api.at = "start"
    /\ infos' = IF Exists(api.id) THEN infos ELSE {x \in infos : x.key # api.key}
    /\ api' = Idle
    /\ UNCHANGED <<docs, metadata, guards, cmds, clientVars, handler, loopVars, ghostVars>>

(* ApiSyncDeployments: placeholders go, the rest is listed; deletes are    *)
(* repeated and missing deployments nobody guards are sent again, under    *)
(* the id their metadata have.                                             *)
SyncLists ==
    /\ api = Idle
    /\ docs' = RemovePlaceholderDeployments
    /\ api' = [at |-> "sync", docs |-> docs']
    /\ UNCHANGED <<metadata, guards, infos, cmds, clientVars, handler, loopVars, ghostVars>>

SyncRepeatsDelete(d) == IF d.deleting THEN <<DeleteCommand(d.id)>> ELSE <<>>

SyncDeployment(d) ==
    /\ api.at = "sync"
    /\ d \in api.docs
    /\ api' = [api EXCEPT !.docs = @ \ {d}]
    /\ IF d.missing /\ d.id \notin guards /\ d.id \in IdsOf(metadata)
       THEN \E m \in metadata :
               /\ m.id = d.id
               /\ metadata' = Without(metadata, {d.id})
               /\ docs' = Save(docs, PlaceholderDoc(d.id))
               /\ Send(SyncRepeatsDelete(d) \o <<DeployCommand(m.model)>>)
       ELSE Send(SyncRepeatsDelete(d)) /\ UNCHANGED <<docs, metadata>>
    /\ UNCHANGED <<guards, infos, clientVars, handler, loopVars, ghostVars>>

SyncEnds ==
    /\ api.at = "sync"
    /\ api.docs = {}
    /\ api' = Idle
    /\ UNCHANGED <<docs, metadata, guards, infos, cmds, clientVars, handler, loopVars, ghostVars>>

-----------------------------------------------------------------------------
(* MQTT handlers, one message at a time                                    *)

Receive(type) ==
    /\ handler = Idle
    /\ msgs # <<>>
    /\ Head(msgs).type = type
    /\ msgs' = Tail(msgs)

UpdateDeployment ==
    /\ Receive("deployment")
    /\ docs' = Save(RemovePlaceholderDeployments, SyncedDoc(Head(msgs).id))
    /\ UNCHANGED <<metadata, guards, infos, cmds, engine, gap, api, handler, loopVars, ghostVars>>

(* A deployment that a user wants deleted or that has no metadata is       *)
(* removed, every other one is marked as missing, as it was read.          *)
DeleteDeployment ==
    /\ Receive("delete")
    /\ LET i == Head(msgs).id IN
       \/ /\ \/ i \notin IdsOf(docs) \/ i \notin IdsOf(metadata)
             \/ MarkedForDeleteAt(i)
          /\ deleteDeployment({i})
          /\ UNCHANGED handler
       \/ \E d \in docs :
             /\ d.id = i /\ ~d.deleting /\ i \in IdsOf(metadata)
             /\ handler' = [at |-> "mark", doc |-> d]
             /\ UNCHANGED <<docs, metadata>>
    /\ UNCHANGED <<guards, infos, cmds, engine, gap, api, loopVars, ghostVars>>

SaveMissing ==
    /\ handler.at = "mark"
    /\ docs' = Save(docs, MarkedAsMissing(handler.doc))
    /\ handler' = Idle
    /\ UNCHANGED <<metadata, guards, infos, cmds, clientVars, api, loopVars, ghostVars>>

ListUnknownDeployments ==
    /\ Receive("known")
    /\ handler' = [at |-> "unknown", known |-> Head(msgs).ids,
                   docs |-> Without(docs, Head(msgs).ids)]
    /\ UNCHANGED <<docs, metadata, guards, infos, cmds, engine, gap, api, loopVars, ghostVars>>

(* Fault: synchronised deployments are kept without a mark.                *)
FaultDeleteUnknownDeployments ==
    /\ handler.at = "unknown"
    /\ docs' = {x \in docs : \/ x.id \in handler.known
                             \/ x \in handler.docs /\ ~x.deleting /\ ~x.placeholder}
    /\ handler' = Idle
    /\ UNCHANGED <<metadata, guards, infos, cmds, clientVars, api, loopVars, ghostVars>>

(* Marks the synchronised deployments of the list as missing, removes the  *)
(* others of the list and whatever came into the collections since.        *)
DeleteUnknownDeployments ==
    /\ handler.at = "unknown"
    /\ LET gone == {d \in handler.docs : d.deleting \/ d.placeholder}
           kept == handler.docs \ gone
           marked == {d \in kept : ~d.missing}
       IN /\ docs' = {x \in docs : \/ x.id \in handler.known
                                   \/ x.id \in IdsOf(kept) \ IdsOf(marked)}
                        \cup {MarkedAsMissing(d) : d \in marked}
          /\ metadata' = {m \in metadata : m.id \in handler.known \cup IdsOf(kept)}
    /\ handler' = Idle
    /\ UNCHANGED <<guards, infos, cmds, clientVars, api, loopVars, ghostVars>>

(* Fault: the message is saved as it was received.                         *)
FaultUpdateDeploymentMetadata ==
    /\ Receive("metadata")
    /\ LET m == Head(msgs) IN
       /\ metadata' = Save(metadata, m)
       /\ handler' = [at |-> IF m.model \in guards THEN "set" ELSE "find",
                      old |-> m.model, new |-> m.id]
    /\ UNCHANGED <<docs, guards, infos, cmds, engine, gap, api, loopVars, ghostVars>>

(* Fault: the new guard is set whether there was an old one or not.        *)
FaultMovesNoGuard ==
    /\ Receive("metadata")
    /\ LET m == Head(msgs) IN
       /\ metadata' = Save(metadata, [id |-> m.id, model |-> m.model])
       /\ handler' = [at |-> "set", old |-> m.model, new |-> m.id]
    /\ UNCHANGED <<docs, guards, infos, cmds, engine, gap, api, loopVars, ghostVars>>

(* UpdateDeploymentMetadata saves the metadata and moves the guards from   *)
(* the id of the model to the id of the client.                            *)
UpdateDeploymentMetadata ==
    /\ Receive("metadata")
    /\ LET m == Head(msgs) IN
       /\ metadata' = Save(metadata, [id |-> m.id, model |-> m.model])
       /\ handler' = [at |-> IF m.model \in guards THEN "set" ELSE "find",
                      old |-> m.model, new |-> m.id]
    /\ UNCHANGED <<docs, guards, infos, cmds, engine, gap, api, loopVars, ghostVars>>

SetNewGuard ==
    /\ handler.at = "set"
    /\ guards' = guards \cup {handler.new}
    /\ handler' = [handler EXCEPT !.at = "remove"]
    /\ UNCHANGED <<docs, metadata, infos, cmds, clientVars, api, loopVars, ghostVars>>

(* Fault: the old guard stays.                                             *)
FaultRemoveOldGuard ==
    /\ handler.at = "remove"
    /\ handler' = [handler EXCEPT !.at = "find"]
    /\ UNCHANGED <<docs, metadata, guards, infos, cmds, clientVars, api, loopVars, ghostVars>>

RemoveOldGuard ==
    /\ handler.at = "remove"
    /\ guards' = guards \ {handler.old}
    /\ handler' = [handler EXCEPT !.at = "find"]
    /\ UNCHANGED <<docs, metadata, infos, cmds, clientVars, api, loopVars, ghostVars>>

FindOldInfos ==
    /\ handler.at = "find"
    /\ handler' = [at |-> "rewrite", new |-> handler.new,
                   infos |-> {x \in infos : x.id = handler.old}]
    /\ UNCHANGED <<docs, metadata, guards, infos, cmds, clientVars, api, loopVars, ghostVars>>

(* The WardenInfos found are saved with the new id, one replacing each.    *)
RewriteInfos ==
    /\ handler.at = "rewrite"
    /\ infos' = {x \in infos : \A y \in handler.infos : x.key # y.key}
                   \cup {[y EXCEPT !.id = handler.new] : y \in handler.infos}
    /\ handler' = Idle
    /\ UNCHANGED <<docs, metadata, guards, cmds, clientVars, api, loopVars, ghostVars>>

-----------------------------------------------------------------------------
(* The warden loop                                                         *)

BeginDeploymentLoop ==
    /\ phase = "idle"
    /\ phase' = "guards"
    /\ guardTodo' = guards
    /\ UNCHANGED <<docs, metadata, guards, infos, cmds, clientVars, api, handler,
                   infoTodo, saving, ghostVars>>

(* Redeploy of a deployment that is absent or missing: metadata of the old *)
(* id go, the command is sent; SavePlaceholder is the rest.                *)
RedeploySends(i) ==
    /\ ~Exists(i) /\ ~MarkedForDeleteAt(i)
    /\ metadata' = IF i \in IdsOf(docs) THEN Without(metadata, {i}) ELSE metadata
    /\ Send(<<DeployCommand(i)>>)
    /\ saving' = {i}

(* Fault: whatever does not exist is forgotten.                            *)
FaultRedeployForgets(i) ==
    /\ ~Exists(i)
    /\ guards' = guards \ {i}

(* Redeploy of one that a user wants deleted drops the guard.              *)
RedeployForgets(i) ==
    /\ ~Exists(i) /\ MarkedForDeleteAt(i)
    /\ guards' = guards \ {i}

CheckDeploymentWardenInfo(i) ==
    /\ phase = "guards" /\ saving = {}
    /\ i \in guardTodo
    /\ guardTodo' = guardTodo \ {i}
    /\ \/ Exists(i) /\ UNCHANGED <<metadata, guards, cmds, saving>>
       \/ RedeploySends(i) /\ UNCHANGED guards
       \/ RedeployForgets(i) /\ UNCHANGED <<metadata, cmds, saving>>
    /\ UNCHANGED <<docs, infos, clientVars, api, handler, phase, infoTodo, ghostVars>>

SavePlaceholder(i) ==
    /\ i \in saving
    /\ docs' = Save(docs, PlaceholderDoc(i))
    /\ saving' = {}
    /\ UNCHANGED <<metadata, guards, infos, cmds, clientVars, api, handler,
                   phase, guardTodo, infoTodo, ghostVars>>

BeginInfoLoop ==
    /\ phase = "guards" /\ saving = {}
    /\ guardTodo = {}
    /\ phase' = "infos"
    /\ infoTodo' = infos
    /\ UNCHANGED <<docs, metadata, guards, infos, cmds, clientVars, api, handler,
                   guardTodo, saving, ghostVars>>

(* CheckWardenInfo of an immature info, of a process that has documents or *)
(* of one whose deployment exists leaves the deployments alone.            *)
InfoNeedsNoDeployment(x) ==
    UNCHANGED <<metadata, guards, infos, cmds, saving>>

(* One without documents and deployment: tryRedeployProcess.               *)
InfoRedeploys(x) ==
    /\ ~x.young
    /\ x.id \in guards
    /\ RedeploySends(x.id)
    /\ UNCHANGED <<guards, infos>>

DropInfo(x) == infos' = {y \in infos : y.key # x.key}

(* Fault: every redeployment that sends nothing is final.                  *)
FaultInfoIsFinal(x) ==
    /\ ~x.young
    /\ ~Exists(x.id)
    /\ DropInfo(x)
    /\ UNCHANGED <<metadata, guards, cmds, saving>>

InfoIsFinal(x) ==
    /\ ~x.young
    /\ ~Exists(x.id)
    /\ IF x.id \in guards THEN RedeployForgets(x.id) ELSE UNCHANGED guards
    /\ DropInfo(x)
    /\ UNCHANGED <<metadata, cmds, saving>>

CheckWardenInfo(x) ==
    /\ phase = "infos" /\ saving = {}
    /\ x \in infoTodo
    /\ infoTodo' = infoTodo \ {x}
    /\ InfoNeedsNoDeployment(x) \/ InfoRedeploys(x) \/ InfoIsFinal(x)
    /\ UNCHANGED <<docs, clientVars, api, handler, phase, guardTodo, ghostVars>>

EndLoop ==
    /\ phase = "infos" /\ saving = {}
    /\ infoTodo = {}
    /\ phase' = "idle"
    /\ UNCHANGED <<docs, metadata, guards, infos, cmds, clientVars, api, handler,
                   guardTodo, infoTodo, saving, ghostVars>>

-----------------------------------------------------------------------------
(* Time, and restarts of process-sync                                      *)

Older(S) == {[x EXCEPT !.young = FALSE] : x \in S}

(* The WardenInfos grow older than the age gate.                           *)
AgeGatePasses ==
    /\ \E x \in infos : x.young
    /\ infos' = Older(infos)
    /\ infoTodo' = Older(infoTodo)
    /\ handler' = IF handler.at = "rewrite" THEN [handler EXCEPT !.infos = Older(@)] ELSE handler
    /\ UNCHANGED <<docs, metadata, guards, cmds, clientVars, api, phase, guardTodo, saving, ghostVars>>

(* Requests, the handler and the loop end where they are.                  *)
Restart ==
    /\ api' = Idle /\ handler' = Idle
    /\ phase' = "idle" /\ guardTodo' = {} /\ infoTodo' = {} /\ saving' = {}
    /\ gap' = (gap \/ handler # Idle)
    /\ torn' = IF handler.at = "remove" THEN torn \cup {handler.old.of} ELSE torn
    /\ UNCHANGED <<docs, metadata, guards, infos, cmds, engine, msgs, created, deleted>>

(* The cleanup of a network that was silent for CleanupMaxAge removes the  *)
(* documents and the metadata; the guards stay.                            *)
RemoveOldElements ==
    /\ docs # {}
    /\ msgs = <<>> /\ handler = Idle
    /\ docs' = {} /\ metadata' = {}
    /\ gap' = TRUE
    /\ UNCHANGED <<guards, infos, cmds, engine, msgs, api, handler, loopVars, ghostVars>>

-----------------------------------------------------------------------------
(* The client and the channels (external)                                  *)

Report(s) ==
    /\ Len(msgs) + Len(s) <= MaxMessages
    /\ msgs' = msgs \o s

DeploymentMessage(i)  == [type |-> "deployment", id |-> i]
DeleteMessage(i)      == [type |-> "delete", id |-> i]
KnownMessage(ids)     == [type |-> "known", ids |-> ids]
MetadataMessage(i, m) == [type |-> "metadata", id |-> i, model |-> m]

MessageIds(m) ==
    CASE m.type = "known"    -> m.ids
      [] m.type = "metadata" -> {m.id, m.model}
      [] OTHER               -> {m.id}

ApiIds ==
    CASE api.at = "idle"         -> {}
      [] api.at = "delete-write" -> {api.doc.id}
      [] api.at = "sync"         -> IdsOf(api.docs)
      [] OTHER                   -> {api.id}

HandlerIds ==
    CASE handler.at = "idle"    -> {}
      [] handler.at = "mark"    -> {handler.doc.id}
      [] handler.at = "unknown" -> handler.known \cup IdsOf(handler.docs)
      [] handler.at = "rewrite" -> {handler.new} \cup IdsOf(handler.infos)
      [] OTHER                  -> {handler.old, handler.new}

UsedIds ==
    IdsOf(docs) \cup IdsOf(metadata) \cup {m.model : m \in metadata} \cup guards
        \cup IdsOf(infos) \cup engine \cup guardTodo \cup IdsOf(infoTodo) \cup saving
        \cup {cmds[n].id : n \in DOMAIN cmds}
        \cup UNION {MessageIds(msgs[n]) : n \in DOMAIN msgs}
        \cup ApiIds \cup HandlerIds

(* The client's next id for the deployment c: no one uses it, and every    *)
(* smaller one is in use.                                                  *)
IsNext(i, c) ==
    /\ i.of = c
    /\ i.nr > 0
    /\ i \notin UsedIds
    /\ \A j \in Ids : j.of = c /\ 0 < j.nr /\ j.nr < i.nr => j \in UsedIds

(* A deploy command gives the deployment an id; its report and its         *)
(* metadata follow in an order the platform does not control.              *)
ClientDeploys ==
    /\ cmds # <<>>
    /\ Head(cmds).type = "deploy"
    /\ cmds' = Tail(cmds)
    /\ \E i \in Ids :
          /\ IsNext(i, Head(cmds).id.of)
          /\ engine' = engine \cup {i}
          /\ \E order \in ReportOrders :
                Report(IF order = "deployment first"
                       THEN <<DeploymentMessage(i), MetadataMessage(i, Head(cmds).id)>>
                       ELSE <<MetadataMessage(i, Head(cmds).id), DeploymentMessage(i)>>)
    /\ UNCHANGED <<docs, metadata, guards, infos, gap, api, handler, loopVars, ghostVars>>

ClientDeletes ==
    /\ cmds # <<>>
    /\ Head(cmds).type = "delete"
    /\ cmds' = Tail(cmds)
    /\ engine' = engine \ {Head(cmds).id}
    /\ IF Head(cmds).id \in engine THEN Report(<<DeleteMessage(Head(cmds).id)>>)
                                   ELSE UNCHANGED msgs
    /\ UNCHANGED <<docs, metadata, guards, infos, gap, api, handler, loopVars, ghostVars>>

(* The client lost its engine's database.                                  *)
ClientReset ==
    /\ engine # {}
    /\ engine' = {}
    /\ Report(<<KnownMessage({})>>)
    /\ UNCHANGED <<docs, metadata, guards, infos, cmds, gap, api, handler, loopVars, ghostVars>>

(* The client connects again after a loss: it lists and reports all it     *)
(* has, in any order.                                                      *)
Reports(S) ==
    {s \in [1..Cardinality(S) -> {DeploymentMessage(i) : i \in S}] :
        \A m, n \in DOMAIN s : s[m] = s[n] => m = n}

ClientReconnects ==
    /\ gap
    /\ gap' = FALSE
    /\ \E s \in Reports(engine) : Report(<<KnownMessage(engine)>> \o s)
    /\ UNCHANGED <<docs, metadata, guards, infos, cmds, engine, api, handler, loopVars, ghostVars>>

(* Commands or messages are lost while a side is disconnected.             *)
LoseCommands ==
    /\ cmds # <<>>
    /\ cmds' = <<>>
    /\ gap' = TRUE
    /\ UNCHANGED <<docs, metadata, guards, infos, engine, msgs, api, handler, loopVars, ghostVars>>

LoseMessages ==
    /\ msgs # <<>>
    /\ msgs' = <<>>
    /\ gap' = TRUE
    /\ UNCHANGED <<docs, metadata, guards, infos, cmds, engine, api, handler, loopVars, ghostVars>>

-----------------------------------------------------------------------------
(* Specification                                                           *)

Requests ==
    \/ \E c \in Deployments : CreateSends(c)
    \/ \E d \in docs : DeleteRemovesInfos(d)
    \/ \E k \in Keys, d \in docs : StartGuards(k, d)
    \/ SyncLists

ApiSteps ==
    \/ CreateSaves \/ CreateGuards
    \/ DeleteRemovesGuard \/ DeleteReads \/ DeleteWrites
    \/ StartReads
    \/ (api.at = "sync" /\ \E d \in api.docs : SyncDeployment(d)) \/ SyncEnds

Handlers ==
    \/ UpdateDeployment
    \/ DeleteDeployment \/ SaveMissing
    \/ ListUnknownDeployments \/ DeleteUnknownDeployments
    \/ UpdateDeploymentMetadata \/ SetNewGuard \/ RemoveOldGuard
    \/ FindOldInfos \/ RewriteInfos

LoopSteps ==
    \/ \E i \in guardTodo : CheckDeploymentWardenInfo(i)
    \/ \E i \in saving : SavePlaceholder(i)
    \/ BeginInfoLoop
    \/ \E x \in infoTodo : CheckWardenInfo(x)
    \/ EndLoop

ClientObeys == ClientDeploys \/ ClientDeletes

Losses == LoseCommands \/ LoseMessages

Next ==
    \/ Requests \/ ApiSteps \/ Handlers
    \/ BeginDeploymentLoop \/ LoopSteps \/ AgeGatePasses
    \/ ClientObeys \/ ClientReconnects
    \/ ClientReset \/ Losses \/ Restart \/ RemoveOldElements

Spec == Init /\ [][Next]_vars

-----------------------------------------------------------------------------
(* Safety properties                                                       *)

(* A deployment whose creation succeeded and that no user asked to delete  *)
(* has a DeploymentWardenInfo, whatever the handlers, the loop and         *)
(* restarts do to its id: the warden can bring it back.                    *)
CreatedStaysGuarded ==
    \A c \in created \ deleted : \E i \in guards : i.of = c

(* A deployment has one DeploymentWardenInfo, under one id. Two exist only *)
(* between the two database commands that move it, or for good if          *)
(* process-sync stops between them.                                        *)
OneGuardEach ==
    \A i, j \in guards :
        \/ i.of # j.of \/ i = j
        \/ handler.at = "remove" /\ handler.old.of = i.of
        \/ i.of \in torn

(* Once every message is handled and none was lost since the client's last *)
(* full report, what the platform takes for synchronised is at the client. *)
Quiet == msgs = <<>> /\ handler = Idle /\ ~gap

SyncedExistAtClient ==
    Quiet => \A d \in docs :
        ~d.placeholder /\ ~d.deleting /\ ~d.missing => d.id \in engine

(* LoopWardenDb drops the guard of a process for want of a deployment only *)
(* if the deployment was deleted, or if the deployment has its guard under *)
(* another id than the one the loop looks for: the move of the guards left *)
(* the process behind that a user started on the placeholder meanwhile, or *)
(* the loop read the process before the move.                              *)
Drops(x) == x \notin infoTodo' /\ (\E y \in infos : y.key = x.key) /\ (\A y \in infos' : y.key # x.key)

DroppedOnlyAfterDelete ==
    [][\A x \in infoTodo :
          Drops(x) => \/ x.id.of \notin created \ deleted
                      \/ \E i \in guards : i.of = x.id.of /\ i # x.id]_vars

-----------------------------------------------------------------------------
(* Refinement                                                              *)

Promise == INSTANCE GuardedDeployments WITH guarded <- {i.of : i \in guards}

(* The requests, handlers and the loop together keep the promise of        *)
(* GuardedDeployments: seen from outside, no step drops, returns or adds a *)
(* guard but a creation and what follows a user's delete.                  *)
KeepsPromise == Promise!Spec
=============================================================================
