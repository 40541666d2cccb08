---------------------------- MODULE NetworkCopy ----------------------------
(***************************************************************************)
(* The copy of the clients' engines: definitions, instances, histories and *)
(* incidents of several mgw networks, what the MQTT handlers write, what   *)
(* the cleanup of silent networks removes, which networks are listed, and  *)
(* which incidents the users are notified of.                              *)
(*                                                                         *)
(* A handler is a sequence of database commands. Each may fail; the error  *)
(* is logged and the handler goes on with its next command. The cleanup    *)
(* reads the list of the silent networks once and then removes their       *)
(* documents, one collection after the other.                              *)
(*                                                                         *)
(* Deployments and their metadata are DeploymentSync's.                    *)
(***************************************************************************)
EXTENDS Naturals, Sequences, FiniteSets

CONSTANTS
    Networks,
    Definitions, Instances, Incidents,  \* ids in the clients' engines
    Placeholders,  \* ids of placeholders of starts
    DefinitionOf,  \* the definition of each instance
    InstanceOf,    \* the instance of each incident
    MaxMessages    \* bound: state messages in flight

ASSUME RelationsAssumption ==
    /\ DefinitionOf \in [Instances -> Definitions]
    /\ InstanceOf \in [Incidents -> Instances]
ASSUME MaxMessagesAssumption == MaxMessages \in Nat

Kinds == {"definition", "instance", "history", "incident"}

EntityIds == Definitions \cup Instances \cup Incidents

(* ApiStartDeployment puts a prefix before the ids of placeholders that no *)
(* engine gives.                                                           *)
ASSUME PlaceholdersAssumption == Placeholders \cap EntityIds = {}

(* What an engine holds; ended is told of histories.                       *)
Entity == [kind : Kinds, id : EntityIds, ended : BOOLEAN]

Document ==
    [net : Networks, kind : Kinds, id : EntityIds \cup Placeholders, ended : BOOLEAN,
     placeholder : BOOLEAN, marked : BOOLEAN]

Message ==
    [net : Networks, kind : Kinds, op : {"update"}, entity : Entity]
        \cup [net : Networks, kind : Kinds, op : {"delete"}, id : EntityIds]
        \cup [net : Networks, kind : Kinds, op : {"known"}, ids : SUBSET EntityIds]

Commands ==
    {"SaveLastContact",
     "SaveProcessDefinition", "SaveProcessInstance", "SaveHistoricProcessInstance", "SaveIncident",
     "RemoveProcessDefinition", "RemoveProcessInstance", "RemoveHistoricProcessInstance",
     "RemoveIncident",
     "RemoveUnknownProcessDefinitions", "RemoveUnknownProcessInstances",
     "RemoveUnknownHistoricProcessInstances", "RemoveUnknownIncidents",
     "RemovePlaceholderProcessInstances", "RemovePlaceholderHistoricProcessInstances",
     "RemoveProcessInstancesByDefinitionId",
     "RemoveIncidentOfInstance", "RemoveIncidentOfNotInstances",
     "RemoveIncidentOfDefinition", "RemoveIncidentOfNotDefinitions"}

HandlerCall ==
    [at : {"idle"}] \cup [at : {"message"}, msg : Message, todo : Seq(Commands)]

ApiCall ==
    [at : {"idle"}] \cup [at : {"remove", "send", "save"}, doc : Document]

(* Fault: the contacts are not removed last.                               *)
FaultCleanupOrder == <<"definition", "contact", "history", "incident", "instance">>

(* The collections in the order in which they are cleaned.                 *)
CleanupOrder == <<"definition", "history", "incident", "instance", "contact">>

CleanerCall ==
    [at : {"idle"}] \cup [at : 1..Len(CleanupOrder), nets : SUBSET Networks]

VARIABLES
    docs,        \* the documents of the four collections
    contact,     \* last contact of each network: none, recent or too old
    msgs,        \* state messages in flight
    cmds,        \* history delete commands in flight
    engine,      \* what each client's engine holds
    used,        \* ids the engines have given
    alive,       \* networks whose client is there
    handler,     \* the MQTT handler under way
    api,         \* the REST request under way
    cleaner,     \* the cleanup under way
    notifying,   \* incidents whose notification is being sent
    begun,       \* history variable: incidents with a document whose notification was begun
    told,        \* history variable: incidents whose notification was sent
    lost,        \* history variable: incidents whose last notification was begun and never sent
    waived,      \* history variable: incidents that a user removed
    broken,      \* history variable: networks that lost a message or a write since their last full report
    contactless  \* history variable: networks whose last contact may be missing

clientVars == <<engine, used, alive>>
noticeVars == <<notifying, begun, told, lost, waived>>
vars == <<docs, contact, msgs, cmds, clientVars, handler, api, cleaner, noticeVars,
          broken, contactless>>

Notices == Networks \X Incidents

TypeOK ==
    /\ docs \subseteq Document
    /\ contact \in [Networks -> {"none", "recent", "old"}]
    /\ msgs \in Seq(Message)
    /\ cmds \subseteq [net : Networks, id : EntityIds \cup Placeholders]
    /\ engine \in [Networks -> SUBSET Entity] /\ \A n \in Networks : IsFiniteSet(engine[n])
    /\ used \subseteq Networks \X EntityIds
    /\ alive \subseteq Networks
    /\ handler \in HandlerCall
    /\ api \in ApiCall
    /\ cleaner \in CleanerCall
    /\ notifying \subseteq Notices /\ begun \subseteq Notices
    /\ told \subseteq Notices /\ lost \subseteq Notices /\ waived \subseteq Notices
    /\ broken \subseteq Networks
    /\ contactless \subseteq Networks

Idle == [at |-> "idle"]

(* Networks that are there and have not spoken yet.                        *)
Init ==
    /\ docs = {} /\ contact = [n \in Networks |-> "none"]
    /\ msgs = <<>> /\ cmds = {}
    /\ engine = [n \in Networks |-> {}] /\ used = {} /\ alive = Networks
    /\ handler = Idle /\ api = Idle /\ cleaner = Idle
    /\ notifying = {} /\ begun = {} /\ told = {} /\ lost = {} /\ waived = {}
    /\ broken = {} /\ contactless = {}

-----------------------------------------------------------------------------
(* Documents                                                               *)

Of(n, kind) == {d \in docs : d.net = n /\ d.kind = kind}

(* A document of something that the client has reported.                   *)
Reported(d) == ~d.placeholder /\ ~d.marked

DocumentOf(n, e) ==
    [net |-> n, kind |-> e.kind, id |-> e.id, ended |-> e.ended,
     placeholder |-> FALSE, marked |-> FALSE]

(* ReplaceOne with upsert.                                                 *)
Save(S, d) ==
    {x \in S : ~(x.net = d.net /\ x.kind = d.kind /\ x.id = d.id)} \cup {d}

(* The filters of the delete commands.                                     *)
RemoveProcessDefinition(n, i) == {d \in Of(n, "definition") : d.id = i}
RemoveProcessInstance(n, i) == {d \in Of(n, "instance") : d.id = i}
RemoveHistoricProcessInstance(n, i) == {d \in Of(n, "history") : d.id = i}
RemoveIncident(n, i) == {d \in Of(n, "incident") : d.id = i}

(* Fault: what the client knows is removed.                                *)
FaultRemoveUnknownProcessInstances(n, ids) == {d \in Of(n, "instance") : d.id \in ids}

RemoveUnknownProcessDefinitions(n, ids) == {d \in Of(n, "definition") : d.id \notin ids}
RemoveUnknownProcessInstances(n, ids) == {d \in Of(n, "instance") : d.id \notin ids}
RemoveUnknownHistoricProcessInstances(n, ids) == {d \in Of(n, "history") : d.id \notin ids}
RemoveUnknownIncidents(n, ids) == {d \in Of(n, "incident") : d.id \notin ids}

RemovePlaceholderProcessInstances(n) == {d \in Of(n, "instance") : d.placeholder}
RemovePlaceholderHistoricProcessInstances(n) == {d \in Of(n, "history") : d.placeholder}

RemoveProcessInstancesByDefinitionId(n, i) ==
    {d \in Of(n, "instance") : ~d.placeholder /\ DefinitionOf[d.id] = i}

RemoveIncidentOfInstance(n, i) == {d \in Of(n, "incident") : InstanceOf[d.id] = i}
RemoveIncidentOfNotInstances(n, ids) == {d \in Of(n, "incident") : InstanceOf[d.id] \notin ids}
RemoveIncidentOfDefinition(n, i) ==
    {d \in Of(n, "incident") : DefinitionOf[InstanceOf[d.id]] = i}
RemoveIncidentOfNotDefinitions(n, ids) ==
    {d \in Of(n, "incident") : DefinitionOf[InstanceOf[d.id]] \notin ids}

-----------------------------------------------------------------------------
(* MQTT handlers: the commands of the controller, and their dispatch       *)

UpdateProcessDefinition == <<"SaveProcessDefinition">>

DeleteProcessDefinition ==
    <<"RemoveProcessDefinition", "RemoveProcessInstancesByDefinitionId",
      "RemoveIncidentOfDefinition">>

DeleteUnknownProcessDefinitions ==
    <<"RemoveUnknownProcessDefinitions", "RemoveIncidentOfNotDefinitions">>

UpdateProcessInstance == <<"RemovePlaceholderProcessInstances", "SaveProcessInstance">>

DeleteProcessInstance == <<"RemoveProcessInstance", "RemoveIncidentOfInstance">>

DeleteUnknownProcessInstances ==
    <<"RemoveUnknownProcessInstances", "RemoveIncidentOfNotInstances">>

UpdateHistoricProcessInstance ==
    <<"RemovePlaceholderHistoricProcessInstances", "RemovePlaceholderProcessInstances",
      "SaveHistoricProcessInstance">>

DeleteHistoricProcessInstance == <<"RemoveHistoricProcessInstance">>

DeleteUnknownHistoricProcessInstances == <<"RemoveUnknownHistoricProcessInstances">>

UpdateIncident == <<"SaveIncident">>

DeleteIncident == <<"RemoveIncident">>

DeleteUnknownIncidents == <<"RemoveUnknownIncidents">>

HandleProcessDefinition ==
    [update |-> UpdateProcessDefinition, delete |-> DeleteProcessDefinition,
     known  |-> DeleteUnknownProcessDefinitions]

HandleProcessInstance ==
    [update |-> UpdateProcessInstance, delete |-> DeleteProcessInstance,
     known  |-> DeleteUnknownProcessInstances]

HandleHistoricProcessInstance ==
    [update |-> UpdateHistoricProcessInstance, delete |-> DeleteHistoricProcessInstance,
     known  |-> DeleteUnknownHistoricProcessInstances]

HandleIncident ==
    [update |-> UpdateIncident, delete |-> DeleteIncident, known |-> DeleteUnknownIncidents]

Handler ==
    [definition |-> HandleProcessDefinition, instance |-> HandleProcessInstance,
     history    |-> HandleHistoricProcessInstance, incident |-> HandleIncident]

(* The MQTT client calls one handler after the other, in the order of the  *)
(* messages. Each logs the contact first.                                  *)
Receive ==
    /\ handler = Idle
    /\ msgs # <<>>
    /\ LET m == Head(msgs) IN
          handler' = [at |-> "message", msg |-> m,
                      todo |-> <<"SaveLastContact">> \o Handler[m.kind][m.op]]
    /\ msgs' = Tail(msgs)
    /\ UNCHANGED <<docs, contact, cmds, clientVars, api, cleaner, noticeVars,
                   broken, contactless>>

(* The documents that the command c of a handler for m deletes.            *)
Removed(c, m) ==
    CASE c = "RemoveProcessDefinition"       -> RemoveProcessDefinition(m.net, m.id)
      [] c = "RemoveProcessInstance"         -> RemoveProcessInstance(m.net, m.id)
      [] c = "RemoveHistoricProcessInstance" -> RemoveHistoricProcessInstance(m.net, m.id)
      [] c = "RemoveIncident"                -> RemoveIncident(m.net, m.id)
      [] c = "RemoveUnknownProcessDefinitions" ->
            RemoveUnknownProcessDefinitions(m.net, m.ids)
      [] c = "RemoveUnknownProcessInstances" -> RemoveUnknownProcessInstances(m.net, m.ids)
      [] c = "RemoveUnknownHistoricProcessInstances" ->
            RemoveUnknownHistoricProcessInstances(m.net, m.ids)
      [] c = "RemoveUnknownIncidents"        -> RemoveUnknownIncidents(m.net, m.ids)
      [] c = "RemovePlaceholderProcessInstances" -> RemovePlaceholderProcessInstances(m.net)
      [] c = "RemovePlaceholderHistoricProcessInstances" ->
            RemovePlaceholderHistoricProcessInstances(m.net)
      [] c = "RemoveProcessInstancesByDefinitionId" ->
            RemoveProcessInstancesByDefinitionId(m.net, m.id)
      [] c = "RemoveIncidentOfInstance"      -> RemoveIncidentOfInstance(m.net, m.id)
      [] c = "RemoveIncidentOfNotInstances"  -> RemoveIncidentOfNotInstances(m.net, m.ids)
      [] c = "RemoveIncidentOfDefinition"    -> RemoveIncidentOfDefinition(m.net, m.id)
      [] c = "RemoveIncidentOfNotDefinitions" -> RemoveIncidentOfNotDefinitions(m.net, m.ids)
      [] OTHER                               -> {}

(* The next command of the handler under way is one of C.                  *)
Executes(C) ==
    /\ handler # Idle
    /\ Head(handler.todo) \in C
    /\ handler' = IF Len(handler.todo) = 1 THEN Idle
                                           ELSE [handler EXCEPT !.todo = Tail(@)]

SaveCommands == {"SaveProcessDefinition", "SaveProcessInstance", "SaveHistoricProcessInstance"}

RemoveCommands == Commands \ (SaveCommands \cup {"SaveLastContact", "SaveIncident"})

BeingHandled(n) == handler # Idle /\ handler.msg.net = n

BeingCleaned(n) == cleaner # Idle /\ n \in cleaner.nets

(* A contact that is logged while the network's documents are being        *)
(* removed is removed with them.                                           *)
SaveLastContact ==
    /\ Executes({"SaveLastContact"})
    /\ LET n == handler.msg.net IN
          /\ contact' = [contact EXCEPT ![n] = "recent"]
          /\ contactless' = IF BeingCleaned(n) THEN contactless \cup {n} ELSE contactless \ {n}
    /\ UNCHANGED <<docs, msgs, cmds, clientVars, api, cleaner, noticeVars, broken>>

SaveReported == docs' = Save(docs, DocumentOf(handler.msg.net, handler.msg.entity))

SaveDocument ==
    /\ Executes(SaveCommands)
    /\ SaveReported
    /\ UNCHANGED <<contact, msgs, cmds, clientVars, api, cleaner, noticeVars,
                   broken, contactless>>

RemoveDocuments ==
    /\ Executes(RemoveCommands)
    /\ docs' = docs \ Removed(Head(handler.todo), handler.msg)
    /\ UNCHANGED <<contact, msgs, cmds, clientVars, api, cleaner, noticeVars,
                   broken, contactless>>

(* Fault: every report of an incident counts as a new document.            *)
FaultNewDocument(n, i) == TRUE

(* Fault: only a document that was matched counts as new.                  *)
FaultOldDocument(n, i) == RemoveIncident(n, i) # {}

(* The document was not matched by the upsert.                             *)
NewDocument(n, i) == RemoveIncident(n, i) = {}

(* An incident without a document is one to notify the user of. That is    *)
(* left to a goroutine of its own.                                         *)
SaveIncident ==
    /\ Executes({"SaveIncident"})
    /\ SaveReported
    /\ LET n == handler.msg.net  i == handler.msg.entity.id IN
          IF NewDocument(n, i)
          THEN /\ notifying' = notifying \cup {<<n, i>>}
               /\ begun' = begun \cup {<<n, i>>}
               /\ lost' = lost \ {<<n, i>>}
          ELSE UNCHANGED <<notifying, begun, lost>>
    /\ UNCHANGED <<contact, msgs, cmds, clientVars, api, cleaner, told, waived, broken, contactless>>

(* Any other command than SaveIncident fails: the handler goes on.         *)
CommandFails ==
    /\ Executes(Commands \ {"SaveIncident"})
    /\ broken' = broken \cup {handler.msg.net}
    /\ contactless' = IF Head(handler.todo) = "SaveLastContact"
                      THEN contactless \cup {handler.msg.net} ELSE contactless
    /\ UNCHANGED <<docs, contact, msgs, cmds, clientVars, api, cleaner, noticeVars>>

(* process-sync stops. What it works on and, for want of a session, what   *)
(* is in flight to it is lost. So are notifications that are not sent yet: *)
(* their incidents have a document, so no later report is a new one.       *)
Stops ==
    /\ handler' = Idle /\ api' = Idle /\ cleaner' = Idle
    /\ msgs' = <<>>
    /\ notifying' = {} /\ lost' = lost \cup notifying
    /\ broken' = broken \cup {msgs[k].net : k \in DOMAIN msgs}
                        \cup {n \in Networks : BeingHandled(n)}
    /\ UNCHANGED <<docs, contact, cmds, clientVars, begun, told, waived, contactless>>

(* SaveIncident reads the result of a write that failed: the process ends  *)
(* with a nil dereference.                                                 *)
SaveIncidentFails ==
    /\ handler # Idle
    /\ Head(handler.todo) = "SaveIncident"
    /\ Stops

(* The goroutine sends the notification once; an error is logged.          *)
NotificationSent(p) ==
    /\ p \in notifying
    /\ notifying' = notifying \ {p}
    /\ told' = told \cup {p}
    /\ UNCHANGED <<docs, contact, msgs, cmds, clientVars, handler, api, cleaner, begun, lost, waived,
                   broken, contactless>>

NotificationFails(p) ==
    /\ p \in notifying
    /\ notifying' = notifying \ {p}
    /\ lost' = lost \cup {p}
    /\ UNCHANGED <<docs, contact, msgs, cmds, clientVars, handler, api, cleaner, begun, told, waived,
                   broken, contactless>>

-----------------------------------------------------------------------------
(* REST requests                                                           *)

(* The hubs of the user that ApiListNetworks shows.                        *)
ApiListNetworks(hubs) == {n \in hubs : contact[n] # "none"}

(* A start leaves placeholders (InstanceWarden models starts).             *)
StartSavesPlaceholders(n, p) ==
    /\ \A d \in docs : d.id # p
    /\ docs' = docs \cup
          {[net |-> n, kind |-> k, id |-> p, ended |-> FALSE, placeholder |-> TRUE,
            marked |-> FALSE] : k \in {"instance", "history"}}
    /\ UNCHANGED <<contact, msgs, cmds, clientVars, handler, api, cleaner, noticeVars,
                   broken, contactless>>

ApiDeleteIncident(n, i) ==
    /\ docs' = docs \ RemoveIncident(n, i)
    /\ waived' = waived \cup {<<n, i>>}
    /\ begun' = begun \ {<<n, i>>}
    /\ UNCHANGED <<contact, msgs, cmds, clientVars, handler, api, cleaner, notifying, told, lost,
                   broken, contactless>>

(* ApiDeleteHistoricProcessInstance reads the document, removes a          *)
(* placeholder, refuses a running one, and for any other sends a command   *)
(* and saves what it read.                                                 *)
DeleteHistoryReads(d) ==
    /\ api = Idle
    /\ d \in docs /\ d.kind = "history"
    /\ \/ d.placeholder /\ api' = [at |-> "remove", doc |-> d]
       \/ ~d.placeholder /\ d.ended /\ api' = [at |-> "send", doc |-> d]
    /\ UNCHANGED <<docs, contact, msgs, cmds, clientVars, handler, cleaner, noticeVars,
                   broken, contactless>>

DeleteHistoryRemoves ==
    /\ api.at = "remove"
    /\ docs' = docs \ RemoveHistoricProcessInstance(api.doc.net, api.doc.id)
    /\ api' = Idle
    /\ UNCHANGED <<contact, msgs, cmds, clientVars, handler, cleaner, noticeVars,
                   broken, contactless>>

DeleteHistorySends ==
    /\ api.at = "send"
    /\ cmds' = cmds \cup {[net |-> api.doc.net, id |-> api.doc.id]}
    /\ api' = [api EXCEPT !.at = "save"]
    /\ UNCHANGED <<docs, contact, msgs, clientVars, handler, cleaner, noticeVars,
                   broken, contactless>>

DeleteHistorySaves ==
    /\ api.at = "save"
    /\ docs' = Save(docs, [api.doc EXCEPT !.marked = TRUE])
    /\ api' = Idle
    /\ UNCHANGED <<contact, msgs, cmds, clientVars, handler, cleaner, noticeVars,
                   broken, contactless>>

-----------------------------------------------------------------------------
(* Cleanup                                                                 *)

(* Every network whose last contact is too old, as of now.                 *)
BeginCleanup ==
    /\ cleaner = Idle
    /\ \E n \in Networks : contact[n] = "old"
    /\ cleaner' = [at |-> 1, nets |-> {n \in Networks : contact[n] = "old"}]
    /\ UNCHANGED <<docs, contact, msgs, cmds, clientVars, handler, api, noticeVars,
                   broken, contactless>>

(* The documents of one collection; their networks have a copy again when  *)
(* they report everything.                                                 *)
RemoveOldDocuments ==
    /\ cleaner # Idle
    /\ CleanupOrder[cleaner.at] # "contact"
    /\ docs' = {d \in docs : d.net \notin cleaner.nets \/ d.kind # CleanupOrder[cleaner.at]}
    /\ cleaner' = IF cleaner.at = Len(CleanupOrder) THEN Idle
                                                    ELSE [cleaner EXCEPT !.at = @ + 1]
    /\ broken' = broken \cup cleaner.nets
    /\ begun' = IF CleanupOrder[cleaner.at] = "incident"
               THEN {p \in begun : p[1] \notin cleaner.nets} ELSE begun
    /\ UNCHANGED <<contact, msgs, cmds, clientVars, handler, api, notifying, told, lost, waived,
                   contactless>>

(* Fault: the cleanup goes on behind its last step.                        *)
FaultRemoveOldContacts ==
    /\ cleaner # Idle
    /\ CleanupOrder[cleaner.at] = "contact"
    /\ contact' = [n \in Networks |-> IF n \in cleaner.nets THEN "none" ELSE contact[n]]
    /\ cleaner' = [cleaner EXCEPT !.at = @ + 1]
    /\ UNCHANGED <<docs, msgs, cmds, clientVars, handler, api, noticeVars, broken, contactless>>

RemoveOldContacts ==
    /\ cleaner # Idle
    /\ CleanupOrder[cleaner.at] = "contact"
    /\ contact' = [n \in Networks |-> IF n \in cleaner.nets THEN "none" ELSE contact[n]]
    /\ cleaner' = IF cleaner.at = Len(CleanupOrder) THEN Idle
                                                    ELSE [cleaner EXCEPT !.at = @ + 1]
    /\ UNCHANGED <<docs, msgs, cmds, clientVars, handler, api, noticeVars, broken, contactless>>

(* A failing command ends RemoveOldElements.                               *)
CleanupFails ==
    /\ cleaner # Idle
    /\ cleaner' = Idle
    /\ UNCHANGED <<docs, contact, msgs, cmds, clientVars, handler, api, noticeVars,
                   broken, contactless>>

(* No message of n for as long as CleanupMaxAge; no handler takes so long. *)
ContactAges(n) ==
    /\ contact[n] = "recent"
    /\ ~BeingHandled(n)
    /\ contact' = [contact EXCEPT ![n] = "old"]
    /\ UNCHANGED <<docs, msgs, cmds, clientVars, handler, api, cleaner, noticeVars,
                   broken, contactless>>

-----------------------------------------------------------------------------
(* The clients and the channel (external)                                  *)

UpdateMessage(n, e) == [net |-> n, kind |-> e.kind, op |-> "update", entity |-> e]
DeleteMessage(n, e) == [net |-> n, kind |-> e.kind, op |-> "delete", id |-> e.id]
KnownMessage(n, kind) ==
    [net |-> n, kind |-> kind, op |-> "known", ids |-> {e.id : e \in {x \in engine[n] : x.kind = kind}}]

ReportOrder == <<"definition", "instance", "history", "incident">>

Orders(S) ==
    {s \in [1..Cardinality(S) -> S] : \A m, n \in DOMAIN s : s[m] = s[n] => m = n}

Report(s) ==
    /\ Len(msgs) + Len(s) <= MaxMessages
    /\ msgs' = msgs \o s

(* The client reports every change of its engine, in any order.            *)
Changes(n, new) ==
    {UpdateMessage(n, e) : e \in new \ engine[n]} \cup
    {DeleteMessage(n, e) : e \in
        {x \in engine[n] : \A y \in new : ~(y.kind = x.kind /\ y.id = x.id)}}

Becomes(n, new) ==
    /\ n \in alive
    /\ engine' = [engine EXCEPT ![n] = new]
    /\ used' = used \cup {<<n, e.id>> : e \in new}
    /\ \E s \in Orders(Changes(n, new)) : Report(s)
    /\ UNCHANGED <<docs, contact, alive, handler, api, cleaner, noticeVars, broken, contactless>>

Thing(kind, i, ended) == [kind |-> kind, id |-> i, ended |-> ended]
Holds(n, kind, i) == Thing(kind, i, FALSE) \in engine[n]

(* An engine gives an id once.                                             *)
Deploys(n, d) ==
    /\ <<n, d>> \notin used
    /\ Becomes(n, engine[n] \cup {Thing("definition", d, FALSE)})
    /\ UNCHANGED cmds

Runs(n, i) ==
    /\ <<n, i>> \notin used
    /\ Holds(n, "definition", DefinitionOf[i])
    /\ Becomes(n, engine[n] \cup {Thing("instance", i, FALSE), Thing("history", i, FALSE)})
    /\ UNCHANGED cmds

Fails(n, x) ==
    /\ Holds(n, "instance", InstanceOf[x])
    /\ <<n, x>> \notin used
    /\ Becomes(n, engine[n] \cup {Thing("incident", x, FALSE)})
    /\ UNCHANGED cmds

IncidentsOf(n, i) == {e \in engine[n] : e.kind = "incident" /\ InstanceOf[e.id] = i}

Ends(n, i) ==
    /\ Holds(n, "instance", i)
    /\ Becomes(n, (engine[n] \ ({Thing("instance", i, FALSE), Thing("history", i, FALSE)}
                                    \cup IncidentsOf(n, i)))
                     \cup {Thing("history", i, TRUE)})
    /\ UNCHANGED cmds

(* A definition goes with all that belongs to it.                          *)
Undeploys(n, d) ==
    /\ Holds(n, "definition", d)
    /\ Becomes(n, {e \in engine[n] :
                      CASE e.kind = "definition" -> e.id # d
                        [] e.kind = "incident"   -> DefinitionOf[InstanceOf[e.id]] # d
                        [] OTHER                 -> DefinitionOf[e.id] # d})
    /\ UNCHANGED cmds

ObeysHistoryDelete(c) ==
    /\ c \in cmds
    /\ cmds' = cmds \ {c}
    /\ Becomes(c.net, engine[c.net] \ {Thing("history", c.id, TRUE)})

(* On its next connect the client lists and reports all it has.            *)
FullReport(n) ==
    /\ n \in broken \cap alive
    /\ broken' = broken \ {n}
    /\ \E s \in Orders({UpdateMessage(n, e) : e \in engine[n]}) :
          Report([k \in 1..4 |-> KnownMessage(n, ReportOrder[k])] \o s)
    /\ UNCHANGED <<docs, contact, cmds, clientVars, handler, api, cleaner, noticeVars, contactless>>

LosesMessages ==
    /\ msgs # <<>>
    /\ broken' = broken \cup {msgs[k].net : k \in DOMAIN msgs}
    /\ msgs' = <<>>
    /\ UNCHANGED <<docs, contact, cmds, clientVars, handler, api, cleaner, noticeVars, contactless>>

FallsSilent(n) ==
    /\ n \in alive
    /\ alive' = alive \ {n}
    /\ UNCHANGED <<docs, contact, msgs, cmds, engine, used, handler, api, cleaner, noticeVars,
                   broken, contactless>>

Returns(n) ==
    /\ n \in Networks \ alive
    /\ alive' = alive \cup {n}
    /\ broken' = broken \cup {n}
    /\ UNCHANGED <<docs, contact, msgs, cmds, engine, used, handler, api, cleaner, noticeVars,
                   contactless>>

-----------------------------------------------------------------------------
(* Specification                                                           *)

HandlerSteps == Receive \/ SaveLastContact \/ SaveDocument \/ RemoveDocuments \/ SaveIncident

ClientChanges ==
    \E n \in Networks :
        \/ \E d \in Definitions : Deploys(n, d) \/ Undeploys(n, d)
        \/ \E i \in Instances : Runs(n, i) \/ Ends(n, i)
        \/ \E x \in Incidents : Fails(n, x)

ClientAnswers ==
    \/ \E c \in cmds : ObeysHistoryDelete(c)
    \/ \E n \in Networks : FullReport(n)

Requests ==
    \/ \E n \in Networks : \/ \E p \in Placeholders : StartSavesPlaceholders(n, p)
                            \/ \E i \in Incidents : ApiDeleteIncident(n, i)
    \/ \E d \in docs : DeleteHistoryReads(d)

ApiSteps == DeleteHistoryRemoves \/ DeleteHistorySends \/ DeleteHistorySaves

CleanupSteps == RemoveOldDocuments \/ RemoveOldContacts

Time == \E n \in Networks : ContactAges(n)

Notifications == \E p \in notifying : NotificationSent(p)
NotificationsFail == \E p \in notifying : NotificationFails(p)

Failures ==
    \/ CommandFails \/ SaveIncidentFails \/ CleanupFails \/ NotificationsFail \/ Stops \/ LosesMessages

Presence == \E n \in Networks : FallsSilent(n) \/ Returns(n)

Next ==
    \/ HandlerSteps \/ Notifications
    \/ Requests \/ ApiSteps
    \/ BeginCleanup \/ CleanupSteps \/ Time
    \/ ClientChanges \/ ClientAnswers
    \/ Failures \/ Presence

Spec == Init /\ [][Next]_vars

-----------------------------------------------------------------------------
(* Properties                                                              *)

(* A network whose client has reported documents is listed: each handler   *)
(* logs the contact before it writes a document, and the cleanup removes   *)
(* the contact after the documents, whatever fails in between. A contact   *)
(* that could not be saved, or was saved while the cleanup removed the     *)
(* documents of its network, is the exception.                             *)
CopiedIsListed ==
    \A d \in docs : Reported(d) =>
        d.net \in ApiListNetworks(Networks) \cup contactless

(* Once everything is handled, and nothing was lost since the client's     *)
(* last full report, the copy is the client's engine: it holds nothing the *)
(* engine does not, and all the engine holds but the incidents a user      *)
(* removed. (A history marked for delete may outlive its engine's.)        *)
Quiet(n) ==
    /\ handler = Idle /\ api = Idle
    /\ \A k \in DOMAIN msgs : msgs[k].net # n
    /\ n \notin broken

Copy(n, S) == {Thing(d.kind, d.id, d.ended) : d \in {x \in S : x.net = n /\ ~x.placeholder}}

CopyIsEngine ==
    \A n \in Networks : Quiet(n) =>
        /\ Copy(n, {d \in docs : ~d.marked}) \subseteq engine[n]
        /\ \A e \in engine[n] \ Copy(n, docs) : e.kind = "incident" /\ <<n, e.id>> \in waived

(* A user is notified once of an incident, although the client reports it  *)
(* again and again, unless its document was removed by a user or by the    *)
(* cleanup in between.                                                     *)
NotifiedOnce ==
    [][\A p \in notifying' \ notifying : p \notin begun]_vars
=============================================================================
