------------------------ MODULE NetworkCopy_proofs --------------------------
(***************************************************************************)
(* Proofs about NetworkCopy, for any networks, engines and bounds: a       *)
(* network with reported documents is listed.                              *)
(***************************************************************************)
EXTENDS NetworkCopy, FiniteSetTheorems, FunctionTheorems, SequenceTheorems, TLAPS

Saves == SaveCommands \cup {"SaveIncident"}

(* The part of the types that the proof needs.                             *)
Shape ==
    /\ contact \in [Networks -> {"none", "recent", "old"}]
    /\ docs \in SUBSET Document
    /\ msgs \in Seq(Message)
    /\ engine \in [Networks -> SUBSET Entity]
    /\ \A n \in Networks : IsFiniteSet(engine[n])
    /\ alive \in SUBSET Networks
    /\ cleaner \in CleanerCall

ApiShape == api # Idle => api \in [at : {"remove", "send", "save"}, doc : Document]

(* What is left to do for a message: the contact only at first, and only   *)
(* an update is saved.                                                     *)
HandlerShape ==
    handler # Idle =>
        /\ handler \in [at : {"message"}, msg : Message, todo : Seq(Commands)]
        /\ handler.todo # <<>>
        /\ \A k \in 2..Len(handler.todo) : handler.todo[k] # "SaveLastContact"
        /\ \A k \in 1..Len(handler.todo) : handler.todo[k] \in Saves => handler.msg.op = "update"

(* A handler that has logged its contact: no cleanup has listed the        *)
(* network since, or the contact counts as one that may be missing.        *)
Logged ==
    handler # Idle /\ Head(handler.todo) # "SaveLastContact" =>
        \/ handler.msg.net \in contactless
        \/ contact[handler.msg.net] = "recent" /\ ~BeingCleaned(handler.msg.net)

(* The collections that are already cleaned hold nothing reported of the   *)
(* networks being cleaned.                                                 *)
Cleaned ==
    cleaner # Idle =>
        \A d \in docs : \A k \in 1..Len(CleanupOrder) :
            Reported(d) /\ d.net \in cleaner.nets \ contactless /\ k < cleaner.at
                => d.kind # CleanupOrder[k]

ListedInv ==
    /\ Shape /\ ApiShape /\ HandlerShape
    /\ Logged /\ Cleaned
    /\ CopiedIsListed

-----------------------------------------------------------------------------
(* The commands of every handler.                                          *)
LEMMA HandlerCommands ==
    ASSUME NEW kind \in Kinds, NEW op \in {"update", "delete", "known"}
    PROVE  LET s == Handler[kind][op] IN
           /\ s \in Seq(Commands) /\ s # <<>>
           /\ \A k \in 1..Len(s) : /\ s[k] # "SaveLastContact"
                                   /\ s[k] \in Saves => op = "update"
<1> DEFINE Fit(s, o) ==
        /\ s \in Seq(Commands) /\ s # <<>>
        /\ \A k \in 1..Len(s) : s[k] # "SaveLastContact" /\ (s[k] \in Saves => o = "update")
<1> USE DEF Commands, Saves, SaveCommands
<1>1. /\ Fit(UpdateProcessDefinition, "update")
      /\ Fit(DeleteProcessDefinition, "delete")
      /\ Fit(DeleteUnknownProcessDefinitions, "known")
  BY DEF UpdateProcessDefinition, DeleteProcessDefinition, DeleteUnknownProcessDefinitions
<1>2. /\ Fit(UpdateProcessInstance, "update")
      /\ Fit(DeleteProcessInstance, "delete")
      /\ Fit(DeleteUnknownProcessInstances, "known")
  BY DEF UpdateProcessInstance, DeleteProcessInstance, DeleteUnknownProcessInstances
<1>3. /\ Fit(UpdateHistoricProcessInstance, "update")
      /\ Fit(DeleteHistoricProcessInstance, "delete")
      /\ Fit(DeleteUnknownHistoricProcessInstances, "known")
  BY DEF UpdateHistoricProcessInstance, DeleteHistoricProcessInstance, DeleteUnknownHistoricProcessInstances
<1>4. /\ Fit(UpdateIncident, "update")
      /\ Fit(DeleteIncident, "delete")
      /\ Fit(DeleteUnknownIncidents, "known")
  BY DEF UpdateIncident, DeleteIncident, DeleteUnknownIncidents
<1> HIDE DEF Fit, Commands, Saves, SaveCommands
<1>5. ASSUME kind = "definition" PROVE Fit(Handler[kind][op], op)
  <2>1. Handler[kind] = HandleProcessDefinition
    BY <1>5 DEF Handler
  <2> QED
    BY <1>1, <2>1 DEF HandleProcessDefinition
<1>6. ASSUME kind = "instance" PROVE Fit(Handler[kind][op], op)
  <2>1. Handler[kind] = HandleProcessInstance
    BY <1>6 DEF Handler
  <2> QED
    BY <1>2, <2>1 DEF HandleProcessInstance
<1>7. ASSUME kind = "history" PROVE Fit(Handler[kind][op], op)
  <2>1. Handler[kind] = HandleHistoricProcessInstance
    BY <1>7 DEF Handler
  <2> QED
    BY <1>3, <2>1 DEF HandleHistoricProcessInstance
<1>8. ASSUME kind = "incident" PROVE Fit(Handler[kind][op], op)
  <2>1. Handler[kind] = HandleIncident
    BY <1>8 DEF Handler
  <2> QED
    BY <1>4, <2>1 DEF HandleIncident
<1>9. Fit(Handler[kind][op], op)
  BY <1>5, <1>6, <1>7, <1>8 DEF Kinds
<1> QED
  BY <1>9 DEF Fit

(* What a message carries.                                                 *)
LEMMA MessageShape ==
    ASSUME NEW m \in Message
    PROVE  /\ m.net \in Networks /\ m.kind \in Kinds /\ m.op \in {"update", "delete", "known"}
           /\ m.op = "update" => m.entity \in Entity /\ m.entity.kind \in Kinds
BY DEF Message, Entity

(* What follows the first element of a longer sequence.                    *)
LEMMA TailShape ==
    ASSUME NEW S, NEW s \in Seq(S), s # <<>>, Len(s) # 1
    PROVE  /\ Tail(s) \in Seq(S) /\ Tail(s) # <<>>
           /\ Len(Tail(s)) = Len(s) - 1 /\ Len(s) \in Nat /\ Len(s) > 1
           /\ \A k \in 1..Len(Tail(s)) : Tail(s)[k] = s[k + 1]
<1>1. Len(s) \in Nat /\ (Len(s) = 0 <=> s = <<>>)
  BY EmptySeq, LenProperties
<1>2. Tail(s) \in Seq(S) /\ Len(Tail(s)) = Len(s) - 1
  BY HeadTailProperties
<1>3. \A k \in 1..Len(Tail(s)) : Tail(s)[k] = s[k + 1]
  BY HeadTailProperties
<1>4. Len(Tail(s)) # 0
  BY <1>1, <1>2
<1>5. Tail(s) # <<>>
  BY <1>2, <1>4, EmptySeq
<1> QED
  BY <1>1, <1>2, <1>3, <1>5

(* The rest of a list of commands.                                         *)
LEMMA RestShape ==
    ASSUME HandlerShape, NEW C, Executes(C)
    PROVE  /\ HandlerShape'
           /\ Head(handler.todo) \in C /\ handler # Idle
           /\ handler' # Idle => /\ handler'.msg = handler.msg
                                 /\ Head(handler'.todo) # "SaveLastContact"
<1>1. handler # Idle /\ Head(handler.todo) \in C
  BY DEF Executes
<1> DEFINE s == handler.todo
<1>2. s \in Seq(Commands) /\ s # <<>>
  BY <1>1 DEF HandlerShape
<1>3. CASE Len(s) = 1
  BY <1>1, <1>3 DEF Executes, HandlerShape
<1>4. CASE Len(s) # 1
  <2>1. handler' = [handler EXCEPT !.todo = Tail(s)]
    BY <1>4 DEF Executes
  <2>2. handler \in [at : {"message"}, msg : Message, todo : Seq(Commands)]
    BY <1>1 DEF HandlerShape
  <2>4. /\ Tail(s) \in Seq(Commands) /\ Tail(s) # <<>>
        /\ Len(Tail(s)) = Len(s) - 1 /\ Len(s) \in Nat /\ Len(s) > 1
        /\ \A k \in 1..Len(Tail(s)) : Tail(s)[k] = s[k + 1]
    <3> HIDE DEF s
    <3> QED
      BY <1>2, <1>4, TailShape
  <2>3. /\ handler' \in [at : {"message"}, msg : Message, todo : Seq(Commands)]
        /\ handler'.todo = Tail(s) /\ handler'.msg = handler.msg
    BY <2>1, <2>2, <2>4
  <2>5. Head(Tail(s)) = s[2] /\ 2 \in 2..Len(s)
    BY <1>2, <1>4, <2>4
  <2>6. s[2] # "SaveLastContact"
    BY <1>1, <2>5 DEF HandlerShape
  <2>7. \A k \in 2..Len(Tail(s)) : Tail(s)[k] # "SaveLastContact"
    <3> TAKE k \in 2..Len(Tail(s))
    <3>1. k + 1 \in 2..Len(s) /\ Tail(s)[k] = s[k + 1]
      BY <2>4
    <3> QED
      BY <1>1, <3>1 DEF HandlerShape
  <2>8. \A k \in 1..Len(Tail(s)) : Tail(s)[k] \in Saves => handler.msg.op = "update"
    <3> TAKE k \in 1..Len(Tail(s))
    <3>1. k + 1 \in 1..Len(s) /\ Tail(s)[k] = s[k + 1]
      BY <2>4
    <3> QED
      BY <1>1, <3>1 DEF HandlerShape
  <2> QED
    BY <1>1, <2>3, <2>4, <2>5, <2>6, <2>7, <2>8 DEF HandlerShape
<1> QED
  BY <1>3, <1>4

-----------------------------------------------------------------------------
(* Messages                                                                *)

LEMMA UpdateIsMessage ==
    ASSUME NEW n \in Networks, NEW e \in Entity
    PROVE  UpdateMessage(n, e) \in Message
BY DEF UpdateMessage, Message, Entity

LEMMA DeleteIsMessage ==
    ASSUME NEW n \in Networks, NEW e \in Entity
    PROVE  DeleteMessage(n, e) \in Message
BY DEF DeleteMessage, Message, Entity

LEMMA KnownIsMessage ==
    ASSUME engine \in [Networks -> SUBSET Entity], NEW n \in Networks, NEW kind \in Kinds
    PROVE  KnownMessage(n, kind) \in Message
<1>1. {e.id : e \in {x \in engine[n] : x.kind = kind}} \in SUBSET EntityIds
  BY DEF Entity
<1> QED
  BY <1>1 DEF KnownMessage, Message

(* A finite set of messages is sent as a sequence of messages.             *)
LEMMA OrdersAreSequences ==
    ASSUME NEW S \in SUBSET Message, IsFiniteSet(S), NEW s \in Orders(S)
    PROVE  s \in Seq(Message)
<1>1. Cardinality(S) \in Nat
  BY FS_CardinalityType
<1>2. s \in [1..Cardinality(S) -> Message]
  BY DEF Orders
<1> QED
  BY <1>1, <1>2

(* What is reported of a change is a finite set of messages.               *)
LEMMA ChangesAreMessages ==
    ASSUME Shape, NEW n \in Networks, NEW new \in SUBSET Entity, IsFiniteSet(new)
    PROVE  Changes(n, new) \in SUBSET Message /\ IsFiniteSet(Changes(n, new))
<1> DEFINE fresh == new \ engine[n]
           gone == {x \in engine[n] : \A y \in new : ~(y.kind = x.kind /\ y.id = x.id)}
           updates == {UpdateMessage(n, e) : e \in fresh}
           deletes == {DeleteMessage(n, e) : e \in gone}
<1>1. engine[n] \in SUBSET Entity /\ IsFiniteSet(engine[n])
  BY DEF Shape
<1>2. IsFiniteSet(fresh) /\ IsFiniteSet(gone)
  BY <1>1, FS_Subset
<1>3. IsFiniteSet(updates)
  <2> DEFINE f == [e \in fresh |-> UpdateMessage(n, e)]
  <2>1. f \in Surjection(fresh, updates)
    BY Fun_IsSurj
  <2> HIDE DEF fresh, updates, f
  <2> QED
    BY <1>2, <2>1, FS_Surjection
<1>4. IsFiniteSet(deletes)
  <2> DEFINE f == [e \in gone |-> DeleteMessage(n, e)]
  <2>1. f \in Surjection(gone, deletes)
    BY Fun_IsSurj
  <2> HIDE DEF gone, deletes, f
  <2> QED
    BY <1>2, <2>1, FS_Surjection
<1>5. updates \in SUBSET Message
  BY <1>1, UpdateIsMessage
<1>6. deletes \in SUBSET Message
  BY <1>1, DeleteIsMessage
<1>7. Changes(n, new) = updates \cup deletes
  BY DEF Changes
<1> HIDE DEF updates, deletes
<1> QED
  BY <1>3, <1>4, <1>5, <1>6, <1>7, FS_Union

-----------------------------------------------------------------------------
(* Steps that write no document and change no contact                      *)

LEMMA ChannelStep ==
    ASSUME ListedInv, msgs' \in Seq(Message), alive' \in SUBSET Networks,
           engine' \in [Networks -> SUBSET Entity], \A n \in Networks : IsFiniteSet(engine'[n]),
           UNCHANGED <<docs, contact, handler, api, cleaner, contactless>>
    PROVE  ListedInv'
BY DEF ListedInv, Shape, ApiShape, HandlerShape, Logged, Cleaned, CopiedIsListed,
       ApiListNetworks, BeingCleaned, Reported

(* An engine changes and its client reports it.                            *)
LEMMA BecomesStep ==
    ASSUME ListedInv, NEW n \in Networks, NEW new \in SUBSET Entity, IsFiniteSet(new),
           Becomes(n, new)
    PROVE  ListedInv'
<1>1. Shape
  BY DEF ListedInv
<1>2. PICK s \in Orders(Changes(n, new)) : msgs' = msgs \o s
  BY DEF Becomes, Report
<1>3. s \in Seq(Message)
  BY <1>1, ChangesAreMessages, OrdersAreSequences
<1>4. msgs' \in Seq(Message)
  BY <1>1, <1>2, <1>3, ConcatProperties DEF Shape
<1>5. engine' = [engine EXCEPT ![n] = new]
  BY DEF Becomes
<1>6. engine' \in [Networks -> SUBSET Entity]
  BY <1>1, <1>5 DEF Shape
<1>7. \A m \in Networks : IsFiniteSet(engine'[m])
  BY <1>1, <1>5 DEF Shape
<1>8. UNCHANGED <<docs, contact, handler, api, cleaner, contactless>>
  BY DEF Becomes
<1>9. alive' \in SUBSET Networks
  BY <1>1 DEF Becomes, Shape
<1> QED
  BY <1>4, <1>6, <1>7, <1>8, <1>9, ChannelStep

LEMMA ClientChangesStep ==
    ASSUME ListedInv, ClientChanges
    PROVE  ListedInv'
<1> DEFINE Finite(T) == T \in SUBSET Entity /\ IsFiniteSet(T)
<1>1. \A n \in Networks : Finite(engine[n])
  BY DEF ListedInv, Shape
<1>2. \A kind \in Kinds, i \in EntityIds, ended \in BOOLEAN : Finite({Thing(kind, i, ended)})
  <2>1. \A kind \in Kinds, i \in EntityIds, ended \in BOOLEAN : Thing(kind, i, ended) \in Entity
    BY DEF Thing, Entity
  <2> QED
    BY <2>1, FS_Singleton
<1>3. \A T, U : Finite(T) /\ Finite(U) => Finite(T \cup U)
  BY FS_Union
<1>4. \A T, U : Finite(T) /\ U \subseteq T => Finite(U)
  BY FS_Subset
<1>5. \A n \in Networks : \A new : Finite(new) /\ Becomes(n, new) => ListedInv'
  BY BecomesStep
<1> HIDE DEF Finite
<1>6. ASSUME NEW n \in Networks, NEW d \in Definitions, Deploys(n, d) PROVE ListedInv'
  <2>1. Finite(engine[n] \cup {Thing("definition", d, FALSE)})
    BY <1>1, <1>2, <1>3 DEF Kinds, EntityIds
  <2> QED
    BY <1>5, <1>6, <2>1 DEF Deploys
<1>7. ASSUME NEW n \in Networks, NEW d \in Definitions, Undeploys(n, d) PROVE ListedInv'
  <2>1. PICK new \in SUBSET engine[n] : Becomes(n, new)
    BY <1>7 DEF Undeploys
  <2> QED
    BY <1>1, <1>4, <1>5, <2>1
<1>8. ASSUME NEW n \in Networks, NEW i \in Instances, Runs(n, i) PROVE ListedInv'
  <2>1. Finite({Thing("instance", i, FALSE)} \cup {Thing("history", i, FALSE)})
    BY <1>2, <1>3 DEF Kinds, EntityIds
  <2>2. {Thing("instance", i, FALSE), Thing("history", i, FALSE)}
          = {Thing("instance", i, FALSE)} \cup {Thing("history", i, FALSE)}
    OBVIOUS
  <2>3. Finite(engine[n] \cup {Thing("instance", i, FALSE), Thing("history", i, FALSE)})
    BY <1>1, <1>3, <2>1, <2>2
  <2> QED
    BY <1>5, <1>8, <2>3 DEF Runs
<1>9. ASSUME NEW n \in Networks, NEW i \in Instances, Ends(n, i) PROVE ListedInv'
  <2>1. PICK rest \in SUBSET engine[n] : Becomes(n, rest \cup {Thing("history", i, TRUE)})
    BY <1>9 DEF Ends
  <2>2. Finite(rest \cup {Thing("history", i, TRUE)})
    BY <1>1, <1>2, <1>3, <1>4, <2>1 DEF Kinds, EntityIds
  <2> QED
    BY <1>5, <2>1, <2>2
<1>10. ASSUME NEW n \in Networks, NEW x \in Incidents, Fails(n, x) PROVE ListedInv'
  <2>1. Finite(engine[n] \cup {Thing("incident", x, FALSE)})
    BY <1>1, <1>2, <1>3 DEF Kinds, EntityIds
  <2> QED
    BY <1>5, <1>10, <2>1 DEF Fails
<1> QED
  BY <1>6, <1>7, <1>8, <1>9, <1>10 DEF ClientChanges

LEMMA ClientAnswersStep ==
    ASSUME ListedInv, ClientAnswers
    PROVE  ListedInv'
<1>1. Shape
  BY DEF ListedInv
<1>2. ASSUME NEW c \in cmds, ObeysHistoryDelete(c) PROVE ListedInv'
  <2>1. PICK new \in SUBSET engine[c.net] : Becomes(c.net, new)
    BY <1>2 DEF ObeysHistoryDelete
  <2>2. c.net \in Networks
    BY <1>1, <2>1 DEF Becomes, Shape
  <2>3. new \in SUBSET Entity /\ IsFiniteSet(new)
    BY <1>1, <2>1, <2>2, FS_Subset DEF Shape
  <2> QED
    BY <2>1, <2>2, <2>3, BecomesStep
<1>3. ASSUME NEW n \in Networks, FullReport(n) PROVE ListedInv'
  <2> DEFINE all == {UpdateMessage(n, e) : e \in engine[n]}
             lists == [k \in 1..4 |-> KnownMessage(n, ReportOrder[k])]
  <2>1. PICK s \in Orders(all) : msgs' = msgs \o (lists \o s)
    BY <1>3 DEF FullReport, Report
  <2>2. engine[n] \in SUBSET Entity /\ IsFiniteSet(engine[n])
    BY <1>1 DEF Shape
  <2>3. IsFiniteSet(all)
    <3> DEFINE f == [e \in engine[n] |-> UpdateMessage(n, e)]
    <3>1. f \in Surjection(engine[n], all)
      BY Fun_IsSurj
    <3> HIDE DEF all, f
    <3> QED
      BY <2>2, <3>1, FS_Surjection
  <2>4. all \in SUBSET Message
    BY <2>2, UpdateIsMessage
  <2>5. s \in Seq(Message)
    <3> HIDE DEF all
    <3> QED
      BY <2>1, <2>3, <2>4, OrdersAreSequences
  <2>6. \A k \in 1..4 : KnownMessage(n, ReportOrder[k]) \in Message
    <3>1. \A k \in 1..4 : ReportOrder[k] \in Kinds
      BY DEF ReportOrder, Kinds
    <3> QED
      BY <1>1, <3>1, KnownIsMessage DEF Shape
  <2>7. lists \in Seq(Message)
    BY <2>6
  <2>8. msgs' \in Seq(Message)
    <3> HIDE DEF all, lists
    <3> QED
      BY <1>1, <2>1, <2>5, <2>7, ConcatProperties DEF Shape
  <2> QED
    BY <1>1, <1>3, <2>8, ChannelStep DEF FullReport, clientVars, Shape
<1> QED
  BY <1>2, <1>3 DEF ClientAnswers

(* Losses on the way, and clients that come and go.                        *)
LEMMA ChannelSteps ==
    ASSUME ListedInv, LosesMessages \/ Presence \/ Notifications \/ NotificationsFail
    PROVE  ListedInv'
<1>1. Shape
  BY DEF ListedInv
<1>2. ASSUME LosesMessages PROVE ListedInv'
  <2>1. msgs' \in Seq(Message)
    BY <1>2 DEF LosesMessages
  <2> QED
    BY <1>1, <1>2, <2>1, ChannelStep DEF LosesMessages, clientVars, Shape
<1>3. ASSUME Presence PROVE ListedInv'
  BY <1>1, <1>3, ChannelStep DEF Presence, FallsSilent, Returns, Shape
<1>4. ASSUME Notifications \/ NotificationsFail PROVE ListedInv'
  BY <1>1, <1>4, ChannelStep
  DEF Notifications, NotificationSent, NotificationsFail, NotificationFails, clientVars, Shape
<1> QED
  BY <1>2, <1>3, <1>4

-----------------------------------------------------------------------------
(* Steps of the requests                                                   *)

(* A step that writes nothing of what the clients report.                  *)
LEMMA NothingReported ==
    ASSUME ListedInv, ApiShape',
           \A d \in docs' : d \in docs \/ (d \in Document /\ ~Reported(d)),
           UNCHANGED <<contact, msgs, engine, alive, handler, cleaner, contactless>>
    PROVE  ListedInv'
BY DEF ListedInv, Shape, HandlerShape, Logged, Cleaned, CopiedIsListed,
       ApiListNetworks, BeingCleaned, Reported

LEMMA RequestsStep ==
    ASSUME ListedInv, Requests
    PROVE  ListedInv'
<1>1. Shape /\ ApiShape
  BY DEF ListedInv
<1>2. ASSUME NEW n \in Networks, NEW p \in Placeholders, StartSavesPlaceholders(n, p)
      PROVE ListedInv'
  <2>1. \A d \in docs' : d \in docs \/ (d \in Document /\ ~Reported(d))
    <3> DEFINE x(k) == [net |-> n, kind |-> k, id |-> p, ended |-> FALSE, placeholder |-> TRUE,
                        marked |-> FALSE]
    <3>1. \A k \in {"instance", "history"} : x(k) \in Document /\ ~Reported(x(k))
      BY DEF Document, Kinds, Reported
    <3>2. docs' = docs \cup {x(k) : k \in {"instance", "history"}}
      BY <1>2 DEF StartSavesPlaceholders
    <3> HIDE DEF x
    <3> QED
      BY <3>1, <3>2
  <2>2. ApiShape'
    BY <1>1, <1>2 DEF StartSavesPlaceholders, ApiShape
  <2> QED
    BY <1>2, <2>1, <2>2, NothingReported DEF StartSavesPlaceholders, clientVars
<1>3. ASSUME NEW n \in Networks, NEW i \in Incidents, ApiDeleteIncident(n, i) PROVE ListedInv'
  BY <1>1, <1>3, NothingReported DEF ApiDeleteIncident, clientVars, ApiShape
<1>4. ASSUME NEW d \in docs, DeleteHistoryReads(d) PROVE ListedInv'
  <2>1. d \in Document
    BY <1>1 DEF Shape
  <2>2. ApiShape'
    BY <1>4, <2>1 DEF DeleteHistoryReads, ApiShape, Idle
  <2> QED
    BY <1>4, <2>2, NothingReported DEF DeleteHistoryReads, clientVars
<1> QED
  BY <1>2, <1>3, <1>4 DEF Requests

LEMMA ApiStep ==
    ASSUME ListedInv, ApiSteps
    PROVE  ListedInv'
<1>1. Shape /\ ApiShape
  BY DEF ListedInv
<1>2. api # Idle /\ api \in [at : {"remove", "send", "save"}, doc : Document]
  BY <1>1 DEF ApiSteps, DeleteHistoryRemoves, DeleteHistorySends, DeleteHistorySaves, Idle, ApiShape
<1>3. ASSUME DeleteHistoryRemoves PROVE ListedInv'
  BY <1>1, <1>3, NothingReported DEF DeleteHistoryRemoves, clientVars, ApiShape
<1>4. ASSUME DeleteHistorySends PROVE ListedInv'
  <2>1. ApiShape'
    BY <1>2, <1>4 DEF DeleteHistorySends, ApiShape
  <2> QED
    BY <1>4, <2>1, NothingReported DEF DeleteHistorySends, clientVars
<1>5. ASSUME DeleteHistorySaves PROVE ListedInv'
  <2> DEFINE d == [api.doc EXCEPT !.marked = TRUE]
  <2>1. d \in Document /\ ~Reported(d)
    BY <1>2 DEF Document, Reported
  <2>2. \A x \in docs' : x \in docs \/ x = d
    BY <1>5 DEF DeleteHistorySaves, Save
  <2> HIDE DEF d
  <2> QED
    BY <1>1, <1>5, <2>1, <2>2, NothingReported DEF DeleteHistorySaves, clientVars, ApiShape
<1> QED
  BY <1>3, <1>4, <1>5 DEF ApiSteps

-----------------------------------------------------------------------------
(* Steps of the handlers                                                   *)

LEMMA ReceiveStep ==
    ASSUME ListedInv, Receive
    PROVE  ListedInv'
<1>1. Shape
  BY DEF ListedInv
<1> DEFINE m == Head(msgs)
           s == Handler[m.kind][m.op]
<1>2. msgs # <<>> /\ m \in Message /\ Tail(msgs) \in Seq(Message)
  BY <1>1, HeadTailProperties DEF Receive, Shape
<1>3. m.net \in Networks /\ m.kind \in Kinds /\ m.op \in {"update", "delete", "known"}
  <2> HIDE DEF m
  <2> QED
    BY <1>2, MessageShape
<1>4. /\ s \in Seq(Commands)
      /\ \A k \in 1..Len(s) : s[k] # "SaveLastContact" /\ (s[k] \in Saves => m.op = "update")
  <2> HIDE DEF m
  <2> QED
    BY <1>3, HandlerCommands
<1>5. handler' = [at |-> "message", msg |-> m, todo |-> <<"SaveLastContact">> \o s]
  BY DEF Receive
<1>6. ASSUME NEW t \in Seq(Commands), t = <<"SaveLastContact">> \o s
      PROVE  /\ t # <<>> /\ Head(t) = "SaveLastContact"
             /\ \A k \in 2..Len(t) : t[k] # "SaveLastContact"
             /\ \A k \in 1..Len(t) : t[k] \in Saves => m.op = "update"
  <2> HIDE DEF s, m
  <2>1. <<"SaveLastContact">> \in Seq(Commands) /\ Len(<<"SaveLastContact">>) = 1
    BY DEF Commands
  <2>2. /\ Len(t) = 1 + Len(s) /\ Len(s) \in Nat /\ t[1] = "SaveLastContact"
        /\ \A k \in 2..Len(t) : t[k] = s[k - 1] /\ k - 1 \in 1..Len(s)
    BY <1>4, <1>6, <2>1, ConcatProperties
  <2>3. "SaveLastContact" \notin Saves
    BY DEF Saves, SaveCommands
  <2>4. \A k \in 1..Len(t) : t[k] \in Saves => k \in 2..Len(t)
    BY <2>2, <2>3
  <2>5. t # <<>> /\ Head(t) = t[1]
    BY <2>2
  <2> QED
    BY <1>4, <2>2, <2>4, <2>5
<1>7. <<"SaveLastContact">> \o s \in Seq(Commands)
  <2>1. <<"SaveLastContact">> \in Seq(Commands)
    BY DEF Commands
  <2> HIDE DEF s
  <2> QED
    BY <1>4, <2>1, ConcatProperties
<1>8. /\ HandlerShape'
      /\ Head(handler'.todo) = "SaveLastContact"
  <2> DEFINE t == <<"SaveLastContact">> \o s
  <2>1. /\ t \in Seq(Commands) /\ t # <<>> /\ Head(t) = "SaveLastContact"
        /\ \A k \in 2..Len(t) : t[k] # "SaveLastContact"
        /\ \A k \in 1..Len(t) : t[k] \in Saves => m.op = "update"
    BY <1>6, <1>7
  <2>2. handler' = [at |-> "message", msg |-> m, todo |-> t]
    BY <1>5
  <2> HIDE DEF s, m, t
  <2> QED
    BY <1>2, <2>1, <2>2 DEF HandlerShape
<1>9. Shape'
  BY <1>1, <1>2 DEF Receive, Shape, clientVars
<1> QED
  BY <1>8, <1>9 DEF ListedInv, ApiShape, Logged, Cleaned, CopiedIsListed, Receive, clientVars,
       ApiListNetworks

(* The contact is logged: it may be missing if a cleanup has the network.  *)
LEMMA SaveLastContactStep ==
    ASSUME ListedInv, SaveLastContact
    PROVE  ListedInv'
<1> DEFINE n == handler.msg.net
<1>1. Shape /\ HandlerShape /\ handler # Idle
  BY DEF ListedInv, SaveLastContact, Executes
<1>2. HandlerShape' /\ (handler' # Idle => handler'.msg = handler.msg)
  BY <1>1, RestShape DEF SaveLastContact
<1>3. n \in Networks
  <2>1. handler.msg \in Message
    BY <1>1 DEF HandlerShape
  <2> QED
    BY <2>1, MessageShape
<1>4. contact' = [contact EXCEPT ![n] = "recent"]
  BY DEF SaveLastContact
<1>5. contactless' = IF BeingCleaned(n) THEN contactless \cup {n} ELSE contactless \ {n}
  BY DEF SaveLastContact
<1>6. UNCHANGED <<docs, msgs, engine, alive, api, cleaner>>
  BY DEF SaveLastContact, clientVars
<1>7. Shape'
  BY <1>1, <1>4, <1>6 DEF Shape
<1>8. Logged'
  BY <1>1, <1>2, <1>3, <1>4, <1>5, <1>6 DEF Logged, BeingCleaned, Shape
<1>9. Cleaned'
  BY <1>5, <1>6 DEF ListedInv, Cleaned, BeingCleaned, Reported
<1>10. CopiedIsListed'
  BY <1>1, <1>3, <1>4, <1>5, <1>6 DEF ListedInv, Shape, CopiedIsListed, ApiListNetworks, Reported
<1> QED
  BY <1>2, <1>6, <1>7, <1>8, <1>9, <1>10 DEF ListedInv, ApiShape

(* A handler that saves a document has logged its contact.                 *)
LEMMA SaveStep ==
    ASSUME ListedInv, SaveDocument \/ SaveIncident
    PROVE  ListedInv'
<1> DEFINE n == handler.msg.net
           d == DocumentOf(n, handler.msg.entity)
<1>1. Shape /\ HandlerShape /\ Logged /\ handler # Idle
  BY DEF ListedInv, SaveDocument, SaveIncident, Executes
<1>2. /\ HandlerShape' /\ Head(handler.todo) \in Saves
      /\ handler' # Idle => handler'.msg = handler.msg
  BY <1>1, RestShape DEF SaveDocument, SaveIncident, Saves
<1>3. handler.msg \in Message /\ handler.msg.op = "update"
  <2>1. Head(handler.todo) = handler.todo[1] /\ 1 \in 1..Len(handler.todo)
    BY <1>1, EmptySeq, LenProperties DEF HandlerShape
  <2> QED
    BY <1>1, <1>2, <2>1 DEF HandlerShape
<1>4. n \in Networks /\ d \in Document
  <2>1. handler.msg.entity \in Entity
    BY <1>3, MessageShape
  <2>2. n \in Networks
    BY <1>3, MessageShape
  <2> QED
    BY <2>1, <2>2 DEF DocumentOf, Entity, Document
<1>5. \A x \in docs' : x \in docs \/ x = d
  BY DEF SaveDocument, SaveIncident, SaveReported, Save
<1>6. d.net = n
  BY DEF DocumentOf
<1>7. UNCHANGED <<contact, msgs, engine, alive, api, cleaner, contactless>>
  BY DEF SaveDocument, SaveIncident, clientVars, noticeVars
<1>8. n \in contactless \/ (contact[n] = "recent" /\ ~BeingCleaned(n))
  BY <1>1, <1>2 DEF Logged, Saves, SaveCommands
<1> HIDE DEF d
<1>9. Shape'
  BY <1>1, <1>4, <1>5, <1>7 DEF Shape
<1>10. Logged'
  BY <1>2, <1>7, <1>8 DEF Logged, BeingCleaned
<1>11. Cleaned'
  BY <1>5, <1>6, <1>7, <1>8 DEF ListedInv, Cleaned, BeingCleaned, Reported
<1>12. CopiedIsListed'
  BY <1>4, <1>5, <1>6, <1>7, <1>8 DEF ListedInv, CopiedIsListed, ApiListNetworks, Reported
<1> QED
  BY <1>2, <1>7, <1>9, <1>10, <1>11, <1>12 DEF ListedInv, ApiShape

LEMMA RemoveDocumentsStep ==
    ASSUME ListedInv, RemoveDocuments
    PROVE  ListedInv'
<1>1. HandlerShape /\ Logged /\ handler # Idle
  BY DEF ListedInv, RemoveDocuments, Executes
<1>2. /\ HandlerShape' /\ Head(handler.todo) \in RemoveCommands
      /\ handler' # Idle => handler'.msg = handler.msg
  BY <1>1, RestShape DEF RemoveDocuments
<1>3. docs' \in SUBSET docs
  BY DEF RemoveDocuments
<1>4. UNCHANGED <<contact, msgs, engine, alive, api, cleaner, contactless>>
  BY DEF RemoveDocuments, clientVars
<1>5. Logged'
  BY <1>1, <1>2, <1>4 DEF Logged, BeingCleaned, RemoveCommands
<1> QED
  BY <1>2, <1>3, <1>4, <1>5 DEF ListedInv, Shape, ApiShape, Cleaned, CopiedIsListed, ApiListNetworks

(* A command fails. The network counts as contactless if it was the first. *)
LEMMA CommandFailsStep ==
    ASSUME ListedInv, CommandFails
    PROVE  ListedInv'
<1>1. HandlerShape /\ Logged /\ handler # Idle
  BY DEF ListedInv, CommandFails, Executes
<1>2. HandlerShape' /\ (handler' # Idle => handler'.msg = handler.msg)
  BY <1>1, RestShape DEF CommandFails
<1>3. UNCHANGED <<docs, contact, msgs, engine, alive, api, cleaner>>
  BY DEF CommandFails, clientVars
<1>4. /\ contactless \subseteq contactless'
      /\ Head(handler.todo) = "SaveLastContact" => handler.msg.net \in contactless'
  BY DEF CommandFails
<1>5. Logged'
  BY <1>1, <1>2, <1>3, <1>4 DEF Logged, BeingCleaned
<1> QED
  BY <1>2, <1>3, <1>4, <1>5 DEF ListedInv, Shape, ApiShape, Cleaned, CopiedIsListed, ApiListNetworks

LEMMA StopsStep ==
    ASSUME ListedInv, Stops
    PROVE  ListedInv'
<1>1. handler' = Idle /\ api' = Idle /\ cleaner' = Idle /\ msgs' = <<>>
  BY DEF Stops
<1>2. UNCHANGED <<docs, contact, engine, alive, contactless>>
  BY DEF Stops, clientVars
<1>3. cleaner' \in CleanerCall /\ msgs' \in Seq(Message)
  BY <1>1 DEF CleanerCall, Idle
<1> QED
  BY <1>1, <1>2, <1>3 DEF ListedInv, Shape, ApiShape, HandlerShape, Logged, Cleaned,
       CopiedIsListed, ApiListNetworks

-----------------------------------------------------------------------------
(* Steps of the cleanup                                                    *)

LEMMA CleanerShape ==
    ASSUME Shape, cleaner # Idle
    PROVE  cleaner \in [at : 1..5, nets : SUBSET Networks]
BY DEF Shape, CleanerCall, CleanupOrder, Idle

(* It lists networks whose contact is old: no handler has just logged it.  *)
LEMMA BeginCleanupStep ==
    ASSUME ListedInv, BeginCleanup
    PROVE  ListedInv'
<1> DEFINE olds == {n \in Networks : contact[n] = "old"}
<1>1. cleaner' = [at |-> 1, nets |-> olds]
  BY DEF BeginCleanup
<1>2. UNCHANGED <<docs, contact, msgs, engine, alive, handler, api, contactless>>
  BY DEF BeginCleanup, clientVars
<1>3. Shape'
  <2>1. cleaner' \in CleanerCall
    BY <1>1 DEF CleanerCall, CleanupOrder
  <2> QED
    BY <1>2, <2>1 DEF ListedInv, Shape
<1>4. Logged'
  BY <1>1, <1>2 DEF ListedInv, Logged, BeingCleaned
<1>5. Cleaned'
  BY <1>1 DEF Cleaned, CleanupOrder
<1> QED
  BY <1>2, <1>3, <1>4, <1>5 DEF ListedInv, ApiShape, HandlerShape, CopiedIsListed, ApiListNetworks

LEMMA RemoveOldDocumentsStep ==
    ASSUME ListedInv, RemoveOldDocuments
    PROVE  ListedInv'
<1>1. Shape /\ Logged /\ Cleaned /\ cleaner # Idle
  BY DEF ListedInv, RemoveOldDocuments
<1>2. cleaner \in [at : 1..5, nets : SUBSET Networks]
  BY <1>1, CleanerShape
<1>3. cleaner.at \in 1..4
  BY <1>2 DEF RemoveOldDocuments, CleanupOrder
<1>4. /\ cleaner' = [cleaner EXCEPT !.at = @ + 1]
      /\ cleaner' # Idle
      /\ cleaner'.at = cleaner.at + 1 /\ cleaner'.nets = cleaner.nets
      /\ cleaner' \in [at : 1..5, nets : SUBSET Networks]
  BY <1>2, <1>3 DEF RemoveOldDocuments, CleanupOrder, Idle
<1>5. \A d \in docs' : d \in docs /\ (d.net \notin cleaner.nets \/ d.kind # CleanupOrder[cleaner.at])
  BY DEF RemoveOldDocuments
<1>6. UNCHANGED <<contact, msgs, engine, alive, handler, api, contactless>>
  BY DEF RemoveOldDocuments, clientVars
<1>7. Shape'
  <2>1. cleaner' \in CleanerCall
    BY <1>4 DEF CleanerCall, CleanupOrder
  <2> QED
    BY <1>1, <1>5, <1>6, <2>1 DEF Shape
<1>8. Logged'
  BY <1>1, <1>4, <1>6 DEF Logged, BeingCleaned
<1>9. Cleaned'
  <2> SUFFICES ASSUME NEW d \in docs', NEW k \in 1..5, Reported(d), k < cleaner.at + 1,
                      d.net \in cleaner.nets \ contactless
               PROVE  d.kind # CleanupOrder[k]
    BY <1>4, <1>6 DEF Cleaned, CleanupOrder, Reported
  <2>1. k < cleaner.at \/ k = cleaner.at
    BY <1>3
  <2>2. CASE k < cleaner.at
    <3>1. k \in 1..Len(CleanupOrder)
      BY DEF CleanupOrder
    <3> QED
      BY <1>1, <1>5, <2>2, <3>1 DEF Cleaned
  <2> QED
    BY <1>5, <2>1, <2>2
<1> QED
  BY <1>5, <1>6, <1>7, <1>8, <1>9 DEF ListedInv, ApiShape, HandlerShape, CopiedIsListed, ApiListNetworks

(* By then all documents of the networks are gone, but of contactless ones. *)
LEMMA RemoveOldContactsStep ==
    ASSUME ListedInv, RemoveOldContacts
    PROVE  ListedInv'
<1>1. Shape /\ Logged /\ Cleaned /\ cleaner # Idle
  BY DEF ListedInv, RemoveOldContacts
<1>2. cleaner \in [at : 1..5, nets : SUBSET Networks]
  BY <1>1, CleanerShape
<1>3. cleaner.at = 5
  BY <1>2 DEF RemoveOldContacts, CleanupOrder
<1>4. cleaner' = Idle
  BY <1>3 DEF RemoveOldContacts, CleanupOrder
<1>5. contact' = [n \in Networks |-> IF n \in cleaner.nets THEN "none" ELSE contact[n]]
  BY DEF RemoveOldContacts
<1>6. UNCHANGED <<docs, msgs, engine, alive, handler, api, contactless>>
  BY DEF RemoveOldContacts, clientVars
<1>7. Shape'
  <2>1. cleaner' \in CleanerCall
    BY <1>4 DEF CleanerCall, Idle
  <2> QED
    BY <1>1, <1>5, <1>6, <2>1 DEF Shape
<1>8. \A d \in docs : Reported(d) => d.net \notin cleaner.nets \ contactless
  <2> SUFFICES ASSUME NEW d \in docs, Reported(d), d.net \in cleaner.nets \ contactless
               PROVE  FALSE
    OBVIOUS
  <2>1. d.kind \in Kinds
    BY <1>1 DEF Shape, Document
  <2>2. \A k \in 1..4 : d.kind # CleanupOrder[k]
    <3>1. \A k \in 1..4 : k \in 1..Len(CleanupOrder) /\ k < cleaner.at
      BY <1>3 DEF CleanupOrder
    <3> QED
      BY <1>1, <3>1 DEF Cleaned
  <2> QED
    BY <2>1, <2>2 DEF Kinds, CleanupOrder
<1>9. \A d \in docs : d.net \in Networks
  BY <1>1 DEF Shape, Document
<1>10. CopiedIsListed'
  BY <1>5, <1>6, <1>8, <1>9 DEF ListedInv, CopiedIsListed, ApiListNetworks, Reported
<1>11. Logged'
  <2> SUFFICES ASSUME handler # Idle, Head(handler.todo) # "SaveLastContact",
                      handler.msg.net \notin contactless
               PROVE  contact'[handler.msg.net] = "recent"
    BY <1>4, <1>6 DEF Logged, BeingCleaned
  <2>1. contact[handler.msg.net] = "recent" /\ handler.msg.net \notin cleaner.nets
    BY <1>1 DEF Logged, BeingCleaned
  <2>2. handler.msg.net \in Networks
    BY MessageShape DEF ListedInv, HandlerShape
  <2> QED
    BY <1>5, <2>1, <2>2
<1> QED
  BY <1>4, <1>6, <1>7, <1>10, <1>11 DEF ListedInv, ApiShape, HandlerShape, Cleaned

LEMMA CleanupFailsStep ==
    ASSUME ListedInv, CleanupFails
    PROVE  ListedInv'
<1>1. cleaner' = Idle /\ cleaner' \in CleanerCall
  BY DEF CleanupFails, CleanerCall, Idle
<1>2. UNCHANGED <<docs, contact, msgs, engine, alive, handler, api, contactless>>
  BY DEF CleanupFails, clientVars
<1> QED
  BY <1>1, <1>2 DEF ListedInv, Shape, ApiShape, HandlerShape, Logged, Cleaned, BeingCleaned,
       CopiedIsListed, ApiListNetworks

(* No contact ages under a handler.                                        *)
LEMMA TimeStep ==
    ASSUME ListedInv, Time
    PROVE  ListedInv'
<1>1. PICK n \in Networks : ContactAges(n)
  BY DEF Time
<1>2. contact' = [contact EXCEPT ![n] = "old"] /\ ~BeingHandled(n)
  BY <1>1 DEF ContactAges
<1>3. UNCHANGED <<docs, msgs, engine, alive, handler, api, cleaner, contactless>>
  BY <1>1 DEF ContactAges, clientVars
<1>4. Shape'
  BY <1>2, <1>3 DEF ListedInv, Shape
<1>5. Logged'
  BY <1>2, <1>3 DEF ListedInv, Shape, Logged, BeingCleaned, BeingHandled
<1>6. CopiedIsListed'
  BY <1>2, <1>3 DEF ListedInv, Shape, CopiedIsListed, ApiListNetworks, Reported
<1> QED
  BY <1>3, <1>4, <1>5, <1>6 DEF ListedInv, ApiShape, HandlerShape, Cleaned, Reported

-----------------------------------------------------------------------------

LEMMA ListedInvInit ==
    ASSUME Init
    PROVE  ListedInv
<1>1. engine \in [Networks -> SUBSET Entity] /\ \A n \in Networks : IsFiniteSet(engine[n])
  BY FS_EmptySet DEF Init
<1>2. cleaner \in CleanerCall
  BY DEF Init, Idle, CleanerCall
<1> QED
  BY <1>1, <1>2 DEF Init, ListedInv, Shape, ApiShape, HandlerShape, Logged, Cleaned, CopiedIsListed

LEMMA ListedInvStep ==
    ASSUME ListedInv, [Next]_vars
    PROVE  ListedInv'
<1>1. CASE Next
  <2>1. ASSUME HandlerSteps PROVE ListedInv'
    BY <2>1, ReceiveStep, SaveLastContactStep, SaveStep, RemoveDocumentsStep DEF HandlerSteps
  <2>2. ASSUME CleanupSteps PROVE ListedInv'
    BY <2>2, RemoveOldDocumentsStep, RemoveOldContactsStep DEF CleanupSteps
  <2>3. ASSUME Failures PROVE ListedInv'
    BY <2>3, CommandFailsStep, StopsStep, CleanupFailsStep, ChannelSteps
    DEF Failures, SaveIncidentFails
  <2> QED
    BY <1>1, <2>1, <2>2, <2>3, ChannelSteps, RequestsStep, ApiStep, BeginCleanupStep, TimeStep,
       ClientChangesStep, ClientAnswersStep DEF Next
<1>2. CASE UNCHANGED vars
  BY <1>2 DEF vars, clientVars, ListedInv, Shape, ApiShape, HandlerShape, Logged, Cleaned,
     CopiedIsListed, ApiListNetworks, BeingCleaned, Reported
<1> QED
  BY <1>1, <1>2

(* A network whose client has reported documents is listed, or its last    *)
(* contact may be missing, whatever handlers, cleanups, failures and stops *)
(* interleave: controller/networks.go, mongo/lastnetworkcontacts.go.       *)
THEOREM CopiedListed == Spec => []CopiedIsListed
<1>1. Init => ListedInv
  BY ListedInvInit
<1>2. ListedInv /\ [Next]_vars => ListedInv'
  BY ListedInvStep
<1>3. ListedInv => CopiedIsListed
  BY DEF ListedInv
<1> QED
  BY <1>1, <1>2, <1>3, PTL DEF Spec

=============================================================================
