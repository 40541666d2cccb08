---------------------- MODULE NetworkCopyEngine_proofs ----------------------
(***************************************************************************)
(* Further proofs about NetworkCopy, for any networks, engines and bounds: *)
(* type correctness, that users are notified once of an incident, and that *)
(* the copy is the client's engine once everything is handled.             *)
(***************************************************************************)
EXTENDS NetworkCopy_proofs

(* What an engine can hold, and what a document can be of.                 *)
IdsOf(kind) ==
    CASE kind = "definition" -> Definitions
      [] kind = "incident"   -> Incidents
      [] OTHER               -> Instances

Things == {e \in Entity : e.id \in IdsOf(e.kind) /\ (e.ended => e.kind = "history")}

(* An engine holds one version of a thing, and with it what it belongs to. *)
OneVersion(S) == \A e, f \in S : e.kind = f.kind /\ e.id = f.id => e = f

Closed(S) ==
    \A e \in S :
        /\ e.kind = "instance" => \E f \in S : f.kind = "definition" /\ f.id = DefinitionOf[e.id]
        /\ e.kind = "incident" => \E f \in S : f.kind = "instance" /\ f.id = InstanceOf[e.id]

Sound(S) == S \subseteq Things /\ OneVersion(S) /\ Closed(S)

EngineSound ==
    \A n \in Networks :
        /\ Sound(engine[n])
        /\ \A e \in engine[n] : <<n, e.id>> \in used

(* An engine's next contents: what is new has a new id, or is the history  *)
(* of an instance that ended.                                              *)
Evolves(n, new) ==
    /\ Sound(new)
    /\ IsFiniteSet(new)
    /\ \A e \in new \ engine[n] : <<n, e.id>> \notin used \/ (e.kind = "history" /\ e.ended)

(* What the commands delete of what was reported, and the messages that    *)
(* lead to such a command.                                                 *)
Deletes(c, m, kind, i) ==
    \/ c = "RemoveProcessDefinition" /\ kind = "definition" /\ i = m.id
    \/ c = "RemoveProcessInstance" /\ kind = "instance" /\ i = m.id
    \/ c = "RemoveHistoricProcessInstance" /\ kind = "history" /\ i = m.id
    \/ c = "RemoveIncident" /\ kind = "incident" /\ i = m.id
    \/ c = "RemoveUnknownProcessDefinitions" /\ kind = "definition" /\ i \notin m.ids
    \/ c = "RemoveUnknownProcessInstances" /\ kind = "instance" /\ i \notin m.ids
    \/ c = "RemoveUnknownHistoricProcessInstances" /\ kind = "history" /\ i \notin m.ids
    \/ c = "RemoveUnknownIncidents" /\ kind = "incident" /\ i \notin m.ids
    \/ c = "RemoveProcessInstancesByDefinitionId" /\ kind = "instance" /\ DefinitionOf[i] = m.id
    \/ c = "RemoveIncidentOfInstance" /\ kind = "incident" /\ InstanceOf[i] = m.id
    \/ c = "RemoveIncidentOfNotInstances" /\ kind = "incident" /\ InstanceOf[i] \notin m.ids
    \/ c = "RemoveIncidentOfDefinition" /\ kind = "incident" /\ DefinitionOf[InstanceOf[i]] = m.id
    \/ c = "RemoveIncidentOfNotDefinitions" /\ kind = "incident" /\ DefinitionOf[InstanceOf[i]] \notin m.ids

Kills(m, n, kind, i) ==
    /\ m.net = n
    /\ \/ /\ m.op = "delete"
          /\ \/ m.kind = kind /\ i = m.id
             \/ m.kind = "definition" /\ kind = "instance" /\ DefinitionOf[i] = m.id
             \/ m.kind = "definition" /\ kind = "incident" /\ DefinitionOf[InstanceOf[i]] = m.id
             \/ m.kind = "instance" /\ kind = "incident" /\ InstanceOf[i] = m.id
       \/ /\ m.op = "known"
          /\ \/ m.kind = kind /\ i \notin m.ids
             \/ m.kind = "definition" /\ kind = "incident" /\ DefinitionOf[InstanceOf[i]] \notin m.ids
             \/ m.kind = "instance" /\ kind = "incident" /\ InstanceOf[i] \notin m.ids

(* An update brings a thing of its kind.                                   *)
Fit(m) == m.op = "update" => m.entity \in Things /\ m.entity.kind = m.kind

(* The commands s fit the message m: an update ends with its only save,    *)
(* and what they delete is what the message is about.                      *)
CommandsFit(s, m) ==
    /\ s \in Seq(Commands) /\ s # <<>>
    /\ \A k \in 1..Len(s) : s[k] \in Saves => m.op = "update" /\ k = Len(s)
    /\ \A k \in 1..Len(s) : s[k] = "SaveIncident" => m.kind = "incident"
    /\ \A k \in 1..Len(s) : s[k] \in SaveCommands => m.kind # "incident"
    /\ m.op = "update" => s[Len(s)] \in Saves
    /\ \A k \in 1..Len(s) : \A kind \in Kinds : \A i \in IdsOf(kind) :
          Deletes(s[k], m, kind, i) => Kills(m, m.net, kind, i)

HandlerFits ==
    handler # Idle =>
        /\ Fit(handler.msg)
        /\ CommandsFit(handler.todo, handler.msg)
        /\ handler.todo[1] = "SaveLastContact" =>
              /\ Len(handler.todo) > 1
              /\ \A kind \in Kinds : \A i \in IdsOf(kind) :
                    Kills(handler.msg, handler.msg.net, kind, i) =>
                        \E k \in 2..Len(handler.todo) : Deletes(handler.todo[k], handler.msg, kind, i)

MessagesFit == \A j \in DOMAIN msgs : Fit(msgs[j])

DocFits(d) ==
    /\ ~d.placeholder => Thing(d.kind, d.id, d.ended) \in Things
    /\ d.placeholder => d.id \in Placeholders

DocsFit == \A d \in docs : DocFits(d)

ApiFits ==
    api # Idle =>
        /\ DocFits(api.doc) /\ api.doc.kind = "history"
        /\ api.at = "remove" => api.doc.placeholder
        /\ api.at # "remove" => ~api.doc.placeholder /\ api.doc.ended

RestOK ==
    /\ cmds \subseteq [net : Networks, id : EntityIds \cup Placeholders]
    /\ used \subseteq Networks \X EntityIds
    /\ notifying \subseteq Notices /\ begun \subseteq Notices
    /\ told \subseteq Notices /\ lost \subseteq Notices /\ waived \subseteq Notices
    /\ broken \subseteq Networks
    /\ contactless \subseteq Networks

FitInv == EngineSound /\ HandlerFits /\ MessagesFit /\ DocsFit /\ ApiFits /\ RestOK

BaseInv == ListedInv /\ FitInv

-----------------------------------------------------------------------------
(* The line of messages                                                    *)

(* The message at work, and those in flight behind it.                     *)
Line == IF handler = Idle THEN msgs ELSE <<handler.msg>> \o msgs

Updates(m, n, kind, i) == m.net = n /\ m.op = "update" /\ m.entity.kind = kind /\ m.entity.id = i

HasIncident(n, x) == \E d \in docs : d.net = n /\ d.kind = "incident" /\ d.id = x

InEngine(n, x) == \E e \in engine[n] : e.kind = "incident" /\ e.id = x

(* An incident of the past: no engine will have it again, and no report of *)
(* it is under way.                                                        *)
Past(n, x) == <<n, x>> \in used /\ ~InEngine(n, x)

BegunWithoutDocument ==
    \A p \in begun : ~HasIncident(p[1], p[2]) =>
        /\ Past(p[1], p[2])
        /\ \A j \in DOMAIN Line : ~Updates(Line[j], p[1], "incident", p[2])

(* What removes the document of an incident is behind all reports of it,   *)
(* or before the first one.                                                *)
RemovedBehind ==
    \A n \in Networks, x \in Incidents : \A j \in DOMAIN Line :
        Kills(Line[j], n, "incident", x) =>
            \/ Past(n, x) /\ \A k \in DOMAIN Line : k > j => ~Updates(Line[k], n, "incident", x)
            \/ <<n, x>> \notin begun /\ \A k \in DOMAIN Line : k < j => ~Updates(Line[k], n, "incident", x)

FirstSeen ==
    \A n \in Networks, x \in Incidents : <<n, x>> \notin used =>
        /\ <<n, x>> \notin begun
        /\ \A j \in DOMAIN Line : ~Updates(Line[j], n, "incident", x)

BegunCore == BegunWithoutDocument /\ RemovedBehind /\ FirstSeen

-----------------------------------------------------------------------------
(* The copy                                                                *)

Brings(m, n, e) == m.net = n /\ m.op = "update" /\ m.entity = e

Concerns(m, n, kind, i) == Kills(m, n, kind, i) \/ Updates(m, n, kind, i)

IsCopy(d, n, e) == d.net = n /\ ~d.placeholder /\ Thing(d.kind, d.id, d.ended) = e

(* What an engine holds is copied, or reported in the line.                *)
HeldIsCopied(n) ==
    \A e \in engine[n] : ~(e.kind = "incident" /\ <<n, e.id>> \in waived) =>
        \/ \E d \in docs : IsCopy(d, n, e)
        \/ \E j \in DOMAIN Line : Brings(Line[j], n, e)

(* Whatever else concerns it in the line is before its report.             *)
HeldIsReportedLast(n) ==
    \A e \in engine[n] : \A j \in DOMAIN Line :
        Concerns(Line[j], n, e.kind, e.id) /\ ~Brings(Line[j], n, e) =>
            \E k \in DOMAIN Line : k > j /\ Brings(Line[k], n, e)

(* The message at position j still concerns what is copied.                *)
StillConcerns(j, n, kind, i) ==
    /\ Concerns(Line[j], n, kind, i)
    /\ j = 1 /\ handler # Idle /\ handler.msg.op # "update" =>
          \E k \in 1..Len(handler.todo) : Deletes(handler.todo[k], handler.msg, kind, i)

(* A copy of what the engine does not hold is concerned by the line.       *)
AbsentIsLeaving(n) ==
    \A d \in docs :
        d.net = n /\ Reported(d) /\ Thing(d.kind, d.id, d.ended) \notin engine[n] =>
            \E j \in DOMAIN Line : StillConcerns(j, n, d.kind, d.id)

(* So is a report of what the engine does not hold, behind it.             *)
StaleIsConcerned(n) ==
    \A j \in DOMAIN Line :
        Line[j].net = n /\ Line[j].op = "update" /\ Line[j].entity \notin engine[n] =>
            \E k \in DOMAIN Line : k > j /\ Concerns(Line[k], n, Line[j].entity.kind, Line[j].entity.id)

Copied(n) ==
    HeldIsCopied(n) /\ HeldIsReportedLast(n) /\ AbsentIsLeaving(n) /\ StaleIsConcerned(n)

(* A history that was reported as ended: the engine holds it as such, or   *)
(* no more.                                                                *)
EndedForGood(n, i) == Thing("history", i, FALSE) \notin engine[n] /\ <<n, i>> \in used

EndedStaysEnded ==
    /\ \A d \in docs : ~d.placeholder /\ d.ended => EndedForGood(d.net, d.id)
    /\ \A j \in DOMAIN Line :
          Line[j].op = "update" /\ Line[j].entity.ended => EndedForGood(Line[j].net, Line[j].entity.id)
    /\ api # Idle /\ ~api.doc.placeholder => EndedForGood(api.doc.net, api.doc.id)

CopyCore == EndedStaysEnded /\ \A n \in Networks \ broken : Copied(n)

-----------------------------------------------------------------------------
(* The commands of the handlers                                            *)

(* What a command of a handler for m must be; last: there is none behind.  *)
Apt(c, m, last) ==
    /\ c \in Commands
    /\ c \in Saves => m.op = "update" /\ last
    /\ c = "SaveIncident" => m.kind = "incident"
    /\ c \in SaveCommands => m.kind # "incident"
    /\ m.op = "update" /\ last => c \in Saves
    /\ \A kind \in Kinds : \A i \in IdsOf(kind) : Deletes(c, m, kind, i) => Kills(m, m.net, kind, i)

(* The lists that the handlers have.                                       *)
LEMMA ShortLists ==
    ASSUME NEW m
    PROVE  /\ \A a : Apt(a, m, TRUE) => CommandsFit(<<a>>, m)
           /\ \A a, b : Apt(a, m, FALSE) /\ Apt(b, m, TRUE) => CommandsFit(<<a, b>>, m)
           /\ \A a, b, c : Apt(a, m, FALSE) /\ Apt(b, m, FALSE) /\ Apt(c, m, TRUE)
                              => CommandsFit(<<a, b, c>>, m)
<1> DEFINE Spares(c) ==
        \A kind \in Kinds : \A i \in IdsOf(kind) : Deletes(c, m, kind, i) => Kills(m, m.net, kind, i)
<1>1. ASSUME NEW s \in Seq(Commands), s # <<>>, \A k \in 1..Len(s) : Apt(s[k], m, k = Len(s))
      PROVE  CommandsFit(s, m)
  <2> HIDE DEF Spares
  <2>1. Len(s) \in 1..Len(s)
    BY <1>1
  <2>2. \A k \in 1..Len(s) : Spares(s[k])
    BY <1>1 DEF Apt, Spares
  <2> QED
    BY <1>1, <2>1, <2>2 DEF Apt, CommandsFit, Spares
<1>2. ASSUME NEW a, Apt(a, m, TRUE) PROVE CommandsFit(<<a>>, m)
  <2> DEFINE s == <<a>>
  <2>1. s \in Seq(Commands) /\ s # <<>> /\ Len(s) = 1 /\ s[1] = a
    BY <1>2 DEF Apt
  <2> HIDE DEF s
  <2>2. \A k \in 1..Len(s) : Apt(s[k], m, k = Len(s))
    <3>1. (1 = Len(s)) = TRUE
      BY <2>1
    <3>2. Apt(s[1], m, 1 = Len(s))
      BY <1>2, <2>1, <3>1
    <3> QED
      BY <2>1, <3>2
  <2>3. CommandsFit(s, m)
    BY <1>1, <2>1, <2>2
  <2> QED
    BY <2>3 DEF s
<1>3. ASSUME NEW a, NEW b, Apt(a, m, FALSE), Apt(b, m, TRUE) PROVE CommandsFit(<<a, b>>, m)
  <2> DEFINE s == <<a, b>>
  <2>1. s \in Seq(Commands) /\ s # <<>> /\ Len(s) = 2 /\ s[1] = a /\ s[2] = b
    BY <1>3 DEF Apt
  <2> HIDE DEF s
  <2>2. \A k \in 1..Len(s) : Apt(s[k], m, k = Len(s))
    <3>1. (1 = Len(s)) = FALSE /\ (2 = Len(s)) = TRUE
      BY <2>1
    <3>2. Apt(s[1], m, 1 = Len(s)) /\ Apt(s[2], m, 2 = Len(s))
      BY <1>3, <2>1, <3>1
    <3> QED
      BY <2>1, <3>2
  <2>3. CommandsFit(s, m)
    BY <1>1, <2>1, <2>2
  <2> QED
    BY <2>3 DEF s
<1>4. ASSUME NEW a, NEW b, NEW c, Apt(a, m, FALSE), Apt(b, m, FALSE), Apt(c, m, TRUE)
      PROVE  CommandsFit(<<a, b, c>>, m)
  <2> DEFINE s == <<a, b, c>>
  <2>1. s \in Seq(Commands) /\ s # <<>> /\ Len(s) = 3 /\ s[1] = a /\ s[2] = b /\ s[3] = c
    BY <1>4 DEF Apt
  <2> HIDE DEF s
  <2>2. \A k \in 1..Len(s) : Apt(s[k], m, k = Len(s))
    <3>1. (1 = Len(s)) = FALSE /\ (2 = Len(s)) = FALSE /\ (3 = Len(s)) = TRUE
      BY <2>1
    <3>2. Apt(s[1], m, 1 = Len(s)) /\ Apt(s[2], m, 2 = Len(s)) /\ Apt(s[3], m, 3 = Len(s))
      BY <1>4, <2>1, <3>1
    <3> QED
      BY <2>1, <3>2
  <2>3. CommandsFit(s, m)
    BY <1>1, <2>1, <2>2
  <2> QED
    BY <2>3 DEF s
<1> QED
  BY <1>2, <1>3, <1>4

(* The commands of every handler fit its message, and delete all that the  *)
(* message is about.                                                       *)
LEMMA PlanFits ==
    ASSUME NEW m \in Message
    PROVE  LET s == Handler[m.kind][m.op] IN
           /\ CommandsFit(s, m)
           /\ \A kind \in Kinds : \A i \in IdsOf(kind) :
                 Kills(m, m.net, kind, i) => \E k \in 1..Len(s) : Deletes(s[k], m, kind, i)
<1> DEFINE Complete(s) ==
        \A kind \in Kinds : \A i \in IdsOf(kind) :
            Kills(m, m.net, kind, i) => \E k \in 1..Len(s) : Deletes(s[k], m, kind, i)
           Fits(s) == CommandsFit(s, m) /\ Complete(s)
<1>0. m.kind \in Kinds /\ m.op \in {"update", "delete", "known"}
  BY MessageShape
<1>1. ASSUME m.op = "update"
      PROVE  /\ m.kind = "definition" => Fits(UpdateProcessDefinition)
             /\ m.kind = "instance" => Fits(UpdateProcessInstance)
             /\ m.kind = "history" => Fits(UpdateHistoricProcessInstance)
             /\ m.kind = "incident" => Fits(UpdateIncident)
  <2>1. \A s : Complete(s)
    BY <1>1 DEF Kills
  <2>2. /\ Apt("RemovePlaceholderProcessInstances", m, FALSE)
        /\ Apt("RemovePlaceholderHistoricProcessInstances", m, FALSE)
        /\ m.kind = "definition" => Apt("SaveProcessDefinition", m, TRUE)
        /\ m.kind = "instance" => Apt("SaveProcessInstance", m, TRUE)
        /\ m.kind = "history" => Apt("SaveHistoricProcessInstance", m, TRUE)
        /\ m.kind = "incident" => Apt("SaveIncident", m, TRUE)
    BY <1>1 DEF Apt, Deletes, Commands, Saves, SaveCommands
  <2> QED
    BY <2>1, <2>2, ShortLists
    DEF UpdateProcessDefinition, UpdateProcessInstance, UpdateHistoricProcessInstance, UpdateIncident
<1>2. ASSUME m.op = "delete"
      PROVE  /\ m.kind = "definition" => Fits(DeleteProcessDefinition)
             /\ m.kind = "instance" => Fits(DeleteProcessInstance)
             /\ m.kind = "history" => Fits(DeleteHistoricProcessInstance)
             /\ m.kind = "incident" => Fits(DeleteIncident)
  <2>1. /\ m.kind = "definition" => /\ Apt("RemoveProcessDefinition", m, FALSE)
                                    /\ Apt("RemoveProcessInstancesByDefinitionId", m, FALSE)
                                    /\ Apt("RemoveIncidentOfDefinition", m, TRUE)
        /\ m.kind = "instance" => /\ Apt("RemoveProcessInstance", m, FALSE)
                                  /\ Apt("RemoveIncidentOfInstance", m, TRUE)
        /\ m.kind = "history" => Apt("RemoveHistoricProcessInstance", m, TRUE)
        /\ m.kind = "incident" => Apt("RemoveIncident", m, TRUE)
    BY <1>2 DEF Apt, Deletes, Kills, Commands, Saves, SaveCommands
  <2>2. /\ m.kind = "definition" => Complete(DeleteProcessDefinition)
        /\ m.kind = "instance" => Complete(DeleteProcessInstance)
        /\ m.kind = "history" => Complete(DeleteHistoricProcessInstance)
        /\ m.kind = "incident" => Complete(DeleteIncident)
    BY <1>2 DEF Kills, Deletes, DeleteProcessDefinition, DeleteProcessInstance,
                DeleteHistoricProcessInstance, DeleteIncident, Kinds
  <2> QED
    BY <2>1, <2>2, ShortLists
    DEF DeleteProcessDefinition, DeleteProcessInstance, DeleteHistoricProcessInstance, DeleteIncident
<1>3. ASSUME m.op = "known"
      PROVE  /\ m.kind = "definition" => Fits(DeleteUnknownProcessDefinitions)
             /\ m.kind = "instance" => Fits(DeleteUnknownProcessInstances)
             /\ m.kind = "history" => Fits(DeleteUnknownHistoricProcessInstances)
             /\ m.kind = "incident" => Fits(DeleteUnknownIncidents)
  <2>1. /\ m.kind = "definition" => /\ Apt("RemoveUnknownProcessDefinitions", m, FALSE)
                                    /\ Apt("RemoveIncidentOfNotDefinitions", m, TRUE)
        /\ m.kind = "instance" => /\ Apt("RemoveUnknownProcessInstances", m, FALSE)
                                  /\ Apt("RemoveIncidentOfNotInstances", m, TRUE)
        /\ m.kind = "history" => Apt("RemoveUnknownHistoricProcessInstances", m, TRUE)
        /\ m.kind = "incident" => Apt("RemoveUnknownIncidents", m, TRUE)
    BY <1>3 DEF Apt, Deletes, Kills, Commands, Saves, SaveCommands
  <2>2. /\ m.kind = "definition" => Complete(DeleteUnknownProcessDefinitions)
        /\ m.kind = "instance" => Complete(DeleteUnknownProcessInstances)
        /\ m.kind = "history" => Complete(DeleteUnknownHistoricProcessInstances)
        /\ m.kind = "incident" => Complete(DeleteUnknownIncidents)
    BY <1>3 DEF Kills, Deletes, DeleteUnknownProcessDefinitions, DeleteUnknownProcessInstances,
                DeleteUnknownHistoricProcessInstances, DeleteUnknownIncidents, Kinds
  <2> QED
    BY <2>1, <2>2, ShortLists
    DEF DeleteUnknownProcessDefinitions, DeleteUnknownProcessInstances,
        DeleteUnknownHistoricProcessInstances, DeleteUnknownIncidents
<1> HIDE DEF Fits
<1>4. CASE m.kind = "definition"
  <2>1. Handler[m.kind] = HandleProcessDefinition
    BY <1>4 DEF Handler
  <2>2. Fits(Handler[m.kind][m.op])
    BY <1>0, <1>1, <1>2, <1>3, <1>4, <2>1 DEF HandleProcessDefinition
  <2> QED
    BY <2>2 DEF Fits
<1>5. CASE m.kind = "instance"
  <2>1. Handler[m.kind] = HandleProcessInstance
    BY <1>5 DEF Handler
  <2>2. Fits(Handler[m.kind][m.op])
    BY <1>0, <1>1, <1>2, <1>3, <1>5, <2>1 DEF HandleProcessInstance
  <2> QED
    BY <2>2 DEF Fits
<1>6. CASE m.kind = "history"
  <2>1. Handler[m.kind] = HandleHistoricProcessInstance
    BY <1>6 DEF Handler
  <2>2. Fits(Handler[m.kind][m.op])
    BY <1>0, <1>1, <1>2, <1>3, <1>6, <2>1 DEF HandleHistoricProcessInstance
  <2> QED
    BY <2>2 DEF Fits
<1>7. CASE m.kind = "incident"
  <2>1. Handler[m.kind] = HandleIncident
    BY <1>7 DEF Handler
  <2>2. Fits(Handler[m.kind][m.op])
    BY <1>0, <1>1, <1>2, <1>3, <1>7, <2>1 DEF HandleIncident
  <2> QED
    BY <2>2 DEF Fits
<1> QED
  BY <1>0, <1>4, <1>5, <1>6, <1>7 DEF Kinds

(* A command that is executed leaves commands that fit, and the line of    *)
(* messages as it is; the last one takes the message off the line.         *)
LEMMA ExecutedFits ==
    ASSUME HandlerShape, HandlerFits, NEW C, Executes(C)
    PROVE  /\ HandlerFits'
           /\ handler # Idle /\ handler.msg \in Message
           /\ CommandsFit(handler.todo, handler.msg) /\ Head(handler.todo) = handler.todo[1]
           /\ handler.todo[1] \in C
           /\ 1 \in 1..Len(handler.todo)
           /\ \/ Len(handler.todo) = 1 /\ handler' = Idle
              \/ /\ Len(handler.todo) > 1 /\ handler' # Idle /\ handler'.msg = handler.msg
                 /\ handler'.todo = Tail(handler.todo)
                 /\ \A k \in 2..Len(handler.todo) :
                       k - 1 \in 1..Len(handler'.todo) /\ handler'.todo[k - 1] = handler.todo[k]
<1> DEFINE s == handler.todo
           m == handler.msg
<1>1. /\ handler # Idle /\ Head(s) \in C
      /\ handler \in [at : {"message"}, msg : Message, todo : Seq(Commands)]
      /\ s \in Seq(Commands) /\ s # <<>> /\ m \in Message /\ CommandsFit(s, m) /\ Fit(m)
      /\ \A k \in 2..Len(s) : s[k] # "SaveLastContact"
  BY DEF Executes, HandlerShape, HandlerFits
<1>2. Head(s) = s[1] /\ Len(s) \in Nat /\ 1 \in 1..Len(s)
  BY <1>1
<1>3. CASE Len(s) = 1
  BY <1>1, <1>2, <1>3 DEF Executes, HandlerFits
<1>4. CASE Len(s) # 1
  <2> DEFINE t == Tail(s)
  <2>1. handler' = [handler EXCEPT !.todo = t]
    BY <1>4 DEF Executes
  <2>2. /\ t \in Seq(Commands) /\ t # <<>>
        /\ Len(t) = Len(s) - 1 /\ Len(s) \in Nat /\ Len(s) > 1
        /\ \A k \in 1..Len(t) : t[k] = s[k + 1]
    <3> HIDE DEF s
    <3> QED
      BY <1>1, <1>4, TailShape
  <2> HIDE DEF t
  <2>3. handler' # Idle /\ handler'.msg = m /\ handler'.todo = t
    <3>1. handler' = [at |-> "message", msg |-> m, todo |-> t]
      BY <1>1, <2>1
    <3> QED
      BY <3>1 DEF Idle
  <2> HIDE DEF s, m
  <2>4. \A k \in 1..Len(t) : k + 1 \in 1..Len(s) /\ k + 1 \in 2..Len(s) /\ (k = Len(t) <=> k + 1 = Len(s))
    BY <2>2
  <2>5. CommandsFit(t, m)
    <3>1. \A k \in 1..Len(t) :
             /\ t[k] \in Saves => m.op = "update" /\ k = Len(t)
             /\ t[k] = "SaveIncident" => m.kind = "incident"
             /\ t[k] \in SaveCommands => m.kind # "incident"
      BY <1>1, <2>2, <2>4 DEF CommandsFit
    <3>2. m.op = "update" => t[Len(t)] \in Saves
      <4>1. Len(t) \in 1..Len(t)
        BY <2>2
      <4>2. t[Len(t)] = s[Len(s)]
        BY <2>2, <2>4, <4>1
      <4> QED
        BY <1>1, <4>2 DEF CommandsFit
    <3>3. \A k \in 1..Len(t) : \A kind \in Kinds : \A i \in IdsOf(kind) :
             Deletes(t[k], m, kind, i) => Kills(m, m.net, kind, i)
      BY <1>1, <2>2, <2>4 DEF CommandsFit
    <3> QED
      BY <2>2, <3>1, <3>2, <3>3 DEF CommandsFit
  <2>6. t[1] # "SaveLastContact"
    BY <1>1, <2>2, <2>4
  <2>7. HandlerFits'
    BY <1>1, <2>3, <2>5, <2>6 DEF HandlerFits
  <2>8. \A k \in 2..Len(s) : k - 1 \in 1..Len(t) /\ t[k - 1] = s[k]
    BY <2>2
  <2> QED
    BY <1>1, <1>2, <2>2, <2>3, <2>7, <2>8 DEF s, m, t
<1> QED
  BY <1>3, <1>4

(* A handler starts with the contact and the commands that fit its message. *)
LEMMA ReceivedFits ==
    ASSUME Shape, MessagesFit, Receive
    PROVE  /\ HandlerFits' /\ MessagesFit'
           /\ handler = Idle /\ handler' # Idle /\ msgs # <<>>
           /\ handler'.msg = Head(msgs) /\ handler'.todo[1] = "SaveLastContact" /\ msgs' = Tail(msgs)
<1> DEFINE m == Head(msgs)
           s == Handler[m.kind][m.op]
           t == <<"SaveLastContact">> \o s
<1>1. /\ msgs \in Seq(Message) /\ msgs # <<>> /\ m \in Message /\ 1 \in DOMAIN msgs /\ m = msgs[1]
      /\ handler = Idle /\ handler' = [at |-> "message", msg |-> m, todo |-> t] /\ msgs' = Tail(msgs)
  BY DEF Receive, Shape
<1>2. CommandsFit(s, m)
      /\ \A kind \in Kinds : \A i \in IdsOf(kind) :
            Kills(m, m.net, kind, i) => \E k \in 1..Len(s) : Deletes(s[k], m, kind, i)
  <2> HIDE DEF m
  <2> QED
    BY <1>1, PlanFits
<1>3. Fit(m) /\ MessagesFit'
  BY <1>1 DEF MessagesFit
<1> HIDE DEF m, s
<1>4. s \in Seq(Commands) /\ s # <<>> /\ Len(s) \in Nat /\ Len(s) > 0
  BY <1>2 DEF CommandsFit
<1>5. /\ t \in Seq(Commands) /\ Len(t) = Len(s) + 1 /\ t[1] = "SaveLastContact" /\ t # <<>>
      /\ \A k \in 2..Len(t) : k - 1 \in 1..Len(s) /\ t[k] = s[k - 1] /\ (k = Len(t) <=> k - 1 = Len(s))
      /\ \A k \in 1..Len(s) : k + 1 \in 2..Len(t) /\ t[k + 1] = s[k]
  <2>1. <<"SaveLastContact">> \in Seq(Commands)
    BY DEF Commands
  <2> QED
    BY <1>4, <2>1, ConcatProperties
<1> HIDE DEF t
<1>6. CommandsFit(t, m)
  <2>1. \A k \in 1..Len(t) : k = 1 \/ k \in 2..Len(t)
    BY <1>4, <1>5
  <2>2. /\ "SaveLastContact" \notin Saves /\ "SaveLastContact" \notin SaveCommands
        /\ \A kind, i : ~Deletes("SaveLastContact", m, kind, i)
    BY DEF Saves, SaveCommands, Deletes
  <2> DEFINE Right(c) ==
          /\ c = "SaveIncident" => m.kind = "incident"
          /\ c \in SaveCommands => m.kind # "incident"
          /\ \A kind \in Kinds : \A i \in IdsOf(kind) : Deletes(c, m, kind, i) => Kills(m, m.net, kind, i)
  <2>3. \A k \in 1..Len(t) : t[k] \in Saves => m.op = "update" /\ k = Len(t)
    <3>1. \A k \in 1..Len(s) : s[k] \in Saves => m.op = "update" /\ k = Len(s)
      BY <1>2 DEF CommandsFit
    <3> QED
      BY <1>5, <2>1, <2>2, <3>1
  <2>4. \A k \in 1..Len(t) : Right(t[k])
    <3>1. \A k \in 1..Len(s) : Right(s[k])
      BY <1>2 DEF CommandsFit
    <3>2. Right("SaveLastContact")
      BY <2>2
    <3> HIDE DEF Right
    <3> QED
      BY <1>5, <2>1, <3>1, <3>2
  <2>5. m.op = "update" => t[Len(t)] \in Saves
    <3>1. Len(t) \in 2..Len(t) /\ t[Len(t)] = s[Len(s)]
      BY <1>4, <1>5
    <3> QED
      BY <1>2, <3>1 DEF CommandsFit
  <2> QED
    BY <1>5, <2>3, <2>4, <2>5 DEF CommandsFit
<1>7. handler' # Idle /\ handler'.msg = m /\ handler'.todo = t
  BY <1>1 DEF Idle
<1>8. \A kind \in Kinds : \A i \in IdsOf(kind) :
         Kills(m, m.net, kind, i) => \E k \in 2..Len(t) : Deletes(t[k], m, kind, i)
  BY <1>2, <1>5
<1>9. HandlerFits'
  <2>1. Len(t) > 1
    BY <1>4, <1>5
  <2> QED
    BY <1>3, <1>6, <1>7, <1>8, <2>1 DEF HandlerFits
<1> QED
  BY <1>1, <1>3, <1>5, <1>7, <1>9 DEF m

-----------------------------------------------------------------------------
(* The engines                                                             *)

LEMMA ThingIs ==
    ASSUME NEW e \in Things
    PROVE  /\ e.kind \in Kinds /\ e.id \in IdsOf(e.kind) /\ e \in Entity /\ e.ended \in BOOLEAN
           /\ e = Thing(e.kind, e.id, e.ended)
           /\ e.kind # "history" => e = Thing(e.kind, e.id, FALSE) /\ ~e.ended
BY DEF Thing, Things, Entity

LEMMA ThingsOfKinds ==
    /\ \A i \in Definitions :
          LET t == Thing("definition", i, FALSE) IN
          t \in Things /\ t.kind = "definition" /\ t.id = i
    /\ \A i \in Instances :
          LET t == Thing("instance", i, FALSE) IN
          t \in Things /\ t.kind = "instance" /\ t.id = i
    /\ \A i \in Instances : \A ended \in BOOLEAN :
          LET t == Thing("history", i, ended) IN
          t \in Things /\ t.kind = "history" /\ t.id = i /\ t.ended = ended
    /\ \A i \in Incidents :
          LET t == Thing("incident", i, FALSE) IN
          t \in Things /\ t.kind = "incident" /\ t.id = i
BY DEF Thing, Things, Entity, Kinds, IdsOf, EntityIds

(* What an engine may take up.                                             *)
LEMMA Grows ==
    ASSUME NEW S, Sound(S), NEW t \in Things,
           \A e \in S : ~(e.kind = t.kind /\ e.id = t.id),
           t.kind = "instance" => \E f \in S : f.kind = "definition" /\ f.id = DefinitionOf[t.id],
           t.kind = "incident" => \E f \in S : f.kind = "instance" /\ f.id = InstanceOf[t.id]
    PROVE  Sound(S \cup {t})
<1>1. OneVersion(S \cup {t})
  BY DEF Sound, OneVersion
<1>2. ASSUME NEW e \in S \cup {t}
      PROVE  /\ e.kind = "instance" =>
                   \E f \in S : f.kind = "definition" /\ f.id = DefinitionOf[e.id]
             /\ e.kind = "incident" => \E f \in S : f.kind = "instance" /\ f.id = InstanceOf[e.id]
  BY <1>2 DEF Sound, Closed
<1>3. Closed(S \cup {t})
  BY <1>2 DEF Closed
<1> QED
  BY <1>1, <1>3 DEF Sound

(* What it may give up.                                                    *)
LEMMA Shrinks ==
    ASSUME NEW S, Sound(S), NEW T \in SUBSET S, Closed(T)
    PROVE  Sound(T)
BY DEF Sound, OneVersion

(* Every change of an engine makes another engine of it.                   *)
LEMMA ChangesEvolve ==
    ASSUME ListedInv, EngineSound, NEW n \in Networks
    PROVE  /\ \A d \in Definitions : Deploys(n, d) => \E new : Evolves(n, new) /\ Becomes(n, new)
           /\ \A d \in Definitions : Undeploys(n, d) => \E new : Evolves(n, new) /\ Becomes(n, new)
           /\ \A i \in Instances : Runs(n, i) => \E new : Evolves(n, new) /\ Becomes(n, new)
           /\ \A i \in Instances : Ends(n, i) => \E new : Evolves(n, new) /\ Becomes(n, new)
           /\ \A x \in Incidents : Fails(n, x) => \E new : Evolves(n, new) /\ Becomes(n, new)
<1>1. IsFiniteSet(engine[n]) /\ Sound(engine[n]) /\ \A e \in engine[n] : <<n, e.id>> \in used
  BY DEF ListedInv, Shape, EngineSound
<1>2. ASSUME NEW d \in Definitions, Deploys(n, d)
      PROVE  \E new : Evolves(n, new) /\ Becomes(n, new)
  <2> DEFINE t == Thing("definition", d, FALSE)
             new == engine[n] \cup {t}
  <2>1. <<n, d>> \notin used /\ Becomes(n, new)
    BY <1>2 DEF Deploys
  <2>2. t \in Things /\ t.kind = "definition" /\ t.id = d
    BY ThingsOfKinds
  <2> HIDE DEF t
  <2>3. IsFiniteSet(new)
    BY <1>1, FS_AddElement
  <2>4. Sound(new)
    BY <1>1, <2>1, <2>2, Grows
  <2>5. \A e \in new \ engine[n] : <<n, e.id>> \notin used
    BY <2>1, <2>2
  <2> QED
    BY <2>1, <2>3, <2>4, <2>5 DEF Evolves
<1>3. ASSUME NEW d \in Definitions, Undeploys(n, d)
      PROVE  \E new : Evolves(n, new) /\ Becomes(n, new)
  <2> DEFINE Stays(e) == CASE e.kind = "definition" -> e.id # d
                           [] e.kind = "incident"   -> DefinitionOf[InstanceOf[e.id]] # d
                           [] OTHER                 -> DefinitionOf[e.id] # d
             new == {e \in engine[n] : Stays(e)}
  <2>1. Becomes(n, new)
    BY <1>3 DEF Undeploys
  <2>2. IsFiniteSet(new)
    BY <1>1, FS_Subset
  <2>3. \A e \in new : e \in engine[n] /\ Stays(e)
    OBVIOUS
  <2>4. ASSUME NEW e \in new
        PROVE  /\ e.kind = "instance" => \E f \in new : f.kind = "definition" /\ f.id = DefinitionOf[e.id]
               /\ e.kind = "incident" => \E f \in new : f.kind = "instance" /\ f.id = InstanceOf[e.id]
    <3>1. ASSUME e.kind = "instance"
          PROVE  \E f \in new : f.kind = "definition" /\ f.id = DefinitionOf[e.id]
      <4>1. PICK f \in engine[n] : f.kind = "definition" /\ f.id = DefinitionOf[e.id]
        BY <1>1, <2>4, <3>1 DEF Sound, Closed
      <4> QED
        BY <2>4, <3>1, <4>1
    <3>2. ASSUME e.kind = "incident"
          PROVE  \E f \in new : f.kind = "instance" /\ f.id = InstanceOf[e.id]
      <4>1. PICK f \in engine[n] : f.kind = "instance" /\ f.id = InstanceOf[e.id]
        BY <1>1, <2>4, <3>2 DEF Sound, Closed
      <4> QED
        BY <2>4, <3>2, <4>1
    <3> QED
      BY <3>1, <3>2
  <2> HIDE DEF new
  <2>5. Closed(new)
    BY <2>4 DEF Closed
  <2>6. new \in SUBSET engine[n]
    BY <2>3
  <2> QED
    BY <1>1, <2>1, <2>2, <2>5, <2>6, Shrinks DEF Evolves
<1>4. ASSUME NEW i \in Instances, Runs(n, i)
      PROVE  \E new : Evolves(n, new) /\ Becomes(n, new)
  <2> DEFINE f == Thing("definition", DefinitionOf[i], FALSE)
             s == Thing("instance", i, FALSE)
             t == Thing("history", i, FALSE)
             new == (engine[n] \cup {s}) \cup {t}
  <2>1. <<n, i>> \notin used /\ Becomes(n, engine[n] \cup {s, t}) /\ f \in engine[n]
    BY <1>4 DEF Runs, Holds
  <2>2. engine[n] \cup {s, t} = new
    OBVIOUS
  <2>3. /\ s \in Things /\ s.kind = "instance" /\ s.id = i
        /\ t \in Things /\ t.kind = "history" /\ t.id = i
        /\ f.kind = "definition" /\ f.id = DefinitionOf[i]
    BY ThingsOfKinds, RelationsAssumption
  <2> HIDE DEF f, s, t
  <2>4. IsFiniteSet(new)
    BY <1>1, FS_AddElement
  <2>5. Sound(engine[n] \cup {s})
    BY <1>1, <2>1, <2>3, Grows
  <2>6. Sound(new)
    BY <1>1, <2>1, <2>3, <2>5, Grows
  <2>7. \A e \in new \ engine[n] : <<n, e.id>> \notin used
    BY <2>1, <2>3
  <2> QED
    BY <2>1, <2>2, <2>4, <2>6, <2>7 DEF Evolves
<1>5. ASSUME NEW i \in Instances, Ends(n, i)
      PROVE  \E new : Evolves(n, new) /\ Becomes(n, new)
  <2> DEFINE s == Thing("instance", i, FALSE)
             t == Thing("history", i, FALSE)
             u == Thing("history", i, TRUE)
             rest == engine[n] \ ({s, t} \cup IncidentsOf(n, i))
             new == rest \cup {u}
  <2>1. Becomes(n, new)
    BY <1>5 DEF Ends
  <2>2. /\ u \in Things /\ u.kind = "history" /\ u.id = i /\ u.ended
        /\ s.kind = "instance" /\ s.id = i /\ t.kind = "history" /\ t.id = i
    BY ThingsOfKinds
  <2>3. \A e \in Things : /\ e.kind = "instance" /\ e.id = i => e = s
                          /\ e.kind = "history" /\ e.id = i => e = t \/ e = u
    BY ThingIs
  <2> HIDE DEF s, t, u
  <2>4. IsFiniteSet(rest)
    BY <1>1, FS_Subset
  <2>5. IsFiniteSet(new)
    BY <2>4, FS_AddElement
  <2>6. /\ rest \in SUBSET engine[n] /\ rest \subseteq Things
        /\ \A e \in engine[n] : e \in rest <=>
              e # s /\ e # t /\ ~(e.kind = "incident" /\ InstanceOf[e.id] = i)
    BY <1>1 DEF IncidentsOf, Sound
  <2> HIDE DEF rest
  <2>7. ASSUME NEW e \in rest
        PROVE  /\ e.kind = "instance" => \E f \in rest : f.kind = "definition" /\ f.id = DefinitionOf[e.id]
               /\ e.kind = "incident" => \E f \in rest : f.kind = "instance" /\ f.id = InstanceOf[e.id]
    <3>1. ASSUME e.kind = "instance"
          PROVE  \E f \in rest : f.kind = "definition" /\ f.id = DefinitionOf[e.id]
      <4>1. PICK f \in engine[n] : f.kind = "definition" /\ f.id = DefinitionOf[e.id]
        BY <1>1, <2>6, <2>7, <3>1 DEF Sound, Closed
      <4> QED
        BY <2>2, <2>6, <4>1
    <3>2. ASSUME e.kind = "incident"
          PROVE  \E f \in rest : f.kind = "instance" /\ f.id = InstanceOf[e.id]
      <4>1. PICK f \in engine[n] : f.kind = "instance" /\ f.id = InstanceOf[e.id]
        BY <1>1, <2>6, <2>7, <3>2 DEF Sound, Closed
      <4>2. InstanceOf[e.id] # i
        BY <2>6, <2>7, <3>2
      <4>3. f # s /\ f # t
        BY <2>2, <4>1, <4>2
      <4> QED
        BY <2>6, <4>1, <4>3
    <3> QED
      BY <3>1, <3>2
  <2>8. Closed(rest)
    BY <2>7 DEF Closed
  <2>9. Sound(rest)
    BY <1>1, <2>6, <2>8, Shrinks
  <2>10. CASE u \in rest
    <3>1. new = rest
      BY <2>10
    <3> QED
      BY <2>1, <2>4, <2>6, <2>9, <3>1 DEF Evolves
  <2>11. CASE u \notin rest
    <3>1. \A e \in rest : ~(e.kind = u.kind /\ e.id = u.id)
      BY <2>2, <2>3, <2>6, <2>11
    <3>2. Sound(new)
      BY <2>2, <2>9, <3>1, Grows
    <3>3. \A e \in new \ engine[n] : e.kind = "history" /\ e.ended
      BY <2>2, <2>6
    <3> QED
      BY <2>1, <2>5, <3>2, <3>3 DEF Evolves
  <2> QED
    BY <2>10, <2>11
<1>6. ASSUME NEW x \in Incidents, Fails(n, x)
      PROVE  \E new : Evolves(n, new) /\ Becomes(n, new)
  <2> DEFINE f == Thing("instance", InstanceOf[x], FALSE)
             t == Thing("incident", x, FALSE)
             new == engine[n] \cup {t}
  <2>1. <<n, x>> \notin used /\ Becomes(n, new) /\ f \in engine[n]
    BY <1>6 DEF Fails, Holds
  <2>2. /\ t \in Things /\ t.kind = "incident" /\ t.id = x
        /\ f.kind = "instance" /\ f.id = InstanceOf[x]
    BY ThingsOfKinds, RelationsAssumption
  <2> HIDE DEF f, t
  <2>3. IsFiniteSet(new)
    BY <1>1, FS_AddElement
  <2>4. Sound(new)
    BY <1>1, <2>1, <2>2, Grows
  <2>5. \A e \in new \ engine[n] : <<n, e.id>> \notin used
    BY <2>1, <2>2
  <2> QED
    BY <2>1, <2>3, <2>4, <2>5 DEF Evolves
<1> QED
  BY <1>2, <1>3, <1>4, <1>5, <1>6

(* So does an answer to a command.                                         *)
LEMMA AnswersEvolve ==
    ASSUME ListedInv, EngineSound, RestOK, NEW c \in cmds, ObeysHistoryDelete(c)
    PROVE  c.net \in Networks /\ \E new : Evolves(c.net, new) /\ Becomes(c.net, new)
<1> DEFINE n == c.net
           t == Thing("history", c.id, TRUE)
           new == engine[n] \ {t}
<1>1. Becomes(n, new) /\ n \in Networks
  BY DEF ObeysHistoryDelete, RestOK
<1>2. IsFiniteSet(engine[n]) /\ Sound(engine[n])
  BY <1>1 DEF ListedInv, Shape, EngineSound
<1>3. t.kind = "history"
  BY DEF Thing
<1> HIDE DEF t
<1>4. IsFiniteSet(new)
  BY <1>2, FS_Subset
<1>5. ASSUME NEW e \in new
      PROVE  /\ e.kind = "instance" => \E f \in new : f.kind = "definition" /\ f.id = DefinitionOf[e.id]
             /\ e.kind = "incident" => \E f \in new : f.kind = "instance" /\ f.id = InstanceOf[e.id]
  BY <1>2, <1>3, <1>5 DEF Sound, Closed
<1>6. new \in SUBSET engine[n]
  OBVIOUS
<1> HIDE DEF new
<1>7. Closed(new)
  BY <1>5 DEF Closed
<1>8. Sound(new)
  BY <1>2, <1>6, <1>7, Shrinks
<1> QED
  BY <1>1, <1>4, <1>6, <1>8 DEF Evolves

(* A finite set is sent completely.                                        *)
LEMMA OrdersAreComplete ==
    ASSUME NEW S, IsFiniteSet(S), NEW s \in Orders(S)
    PROVE  /\ \A k \in DOMAIN s : s[k] \in S
           /\ \A x \in S : \E k \in DOMAIN s : s[k] = x
<1>1. Cardinality(S) \in Nat
  BY FS_CardinalityType
<1> DEFINE D == 1..Cardinality(S)
<1>2. s \in [D -> S] /\ \A m, n \in D : s[m] = s[n] => m = n
  BY DEF Orders
<1>3. s \in Injection(D, S)
  BY <1>2 DEF Injection, IsInjective
<1>4. Cardinality(D) = Cardinality(S)
  BY <1>1, FS_Interval
<1> HIDE DEF D
<1>5. s \in Surjection(D, S)
  BY <1>3, <1>4, FS_Injection
<1> QED
  BY <1>2, <1>5 DEF Surjection

-----------------------------------------------------------------------------
(* What is reported, and the line                                          *)

(* The positions in two sequences put together.                            *)
LEMMA Appended ==
    ASSUME NEW S, NEW s \in Seq(S), NEW r \in Seq(S)
    PROVE  /\ s \o r \in Seq(S) /\ Len(s) \in Nat
           /\ DOMAIN s \subseteq Nat /\ DOMAIN r \subseteq Nat /\ DOMAIN (s \o r) \subseteq Nat
           /\ \A j \in DOMAIN s : j \in DOMAIN (s \o r) /\ (s \o r)[j] = s[j]
           /\ \A k \in DOMAIN r : Len(s) + k \in DOMAIN (s \o r) /\ (s \o r)[Len(s) + k] = r[k]
           /\ \A j \in DOMAIN (s \o r) : j \in DOMAIN s \/ \E k \in DOMAIN r : j = Len(s) + k
           /\ \A j \in DOMAIN s, k \in DOMAIN r : j < Len(s) + k
<1>1. DOMAIN s = 1..Len(s) /\ DOMAIN r = 1..Len(r) /\ Len(s) \in Nat /\ Len(r) \in Nat
  BY LenProperties
<1>2. s \o r \in Seq(S) /\ DOMAIN (s \o r) = 1..(Len(s) + Len(r))
  BY ConcatProperties, LenProperties
<1>3. \A j \in 1..Len(s) + Len(r) : (s \o r)[j] = IF j <= Len(s) THEN s[j] ELSE r[j - Len(s)]
  BY ConcatProperties
<1> DEFINE t == s \o r
<1> HIDE DEF t
<1>4. \A j \in 1..Len(s) + Len(r) : t[j] = IF j <= Len(s) THEN s[j] ELSE r[j - Len(s)]
  BY <1>3 DEF t
<1>5. \A j \in 1..Len(s) : t[j] = s[j]
  BY <1>1, <1>4
<1>6. \A k \in 1..Len(r) : t[Len(s) + k] = r[k]
  <2> TAKE k \in 1..Len(r)
  <2>1. Len(s) + k \in 1..Len(s) + Len(r) /\ ~(Len(s) + k <= Len(s)) /\ (Len(s) + k) - Len(s) = k
    BY <1>1
  <2> QED
    BY <1>4, <2>1
<1>7. \A j \in 1..(Len(s) + Len(r)) : j \in 1..Len(s) \/ \E k \in 1..Len(r) : j = Len(s) + k
  <2> SUFFICES ASSUME NEW j \in 1..(Len(s) + Len(r)), j \notin 1..Len(s)
               PROVE  \E k \in 1..Len(r) : j = Len(s) + k
    OBVIOUS
  <2>1. j - Len(s) \in 1..Len(r) /\ j = Len(s) + (j - Len(s))
    BY <1>1
  <2> QED
    BY <2>1
<1>8. /\ \A j \in 1..Len(s) : j \in 1..(Len(s) + Len(r))
      /\ \A k \in 1..Len(r) : Len(s) + k \in 1..(Len(s) + Len(r))
      /\ \A j \in 1..Len(s), k \in 1..Len(r) : j < Len(s) + k
  BY <1>1
<1>9. /\ 1..Len(s) \subseteq Nat /\ 1..Len(r) \subseteq Nat /\ 1..(Len(s) + Len(r)) \subseteq Nat
  BY <1>1
<1> QED
  BY <1>1, <1>2, <1>5, <1>6, <1>7, <1>8, <1>9 DEF t

Sends(r, S) ==
    /\ \A k \in DOMAIN r : r[k] \in S
    /\ \A m \in S : \E k \in DOMAIN r : r[k] = m

(* A client reports all changes of its engine, and nothing else.           *)
LEMMA BecomesReports ==
    ASSUME ListedInv, NEW n \in Networks, NEW new, Evolves(n, new), Becomes(n, new)
    PROVE  \E r \in Seq(Message) : msgs' = msgs \o r /\ Sends(r, Changes(n, new))
<1>1. PICK r \in Orders(Changes(n, new)) : msgs' = msgs \o r
  BY DEF Becomes, Report
<1>2. new \in SUBSET Entity /\ IsFiniteSet(new) /\ Shape
  BY DEF Evolves, Sound, Things, ListedInv
<1>3. Changes(n, new) \in SUBSET Message /\ IsFiniteSet(Changes(n, new))
  BY <1>2, ChangesAreMessages
<1>4. r \in Seq(Message)
  BY <1>3, OrdersAreSequences
<1> QED
  BY <1>1, <1>3, <1>4, OrdersAreComplete DEF Sends

(* A full report: what the client knows, then all it has.                  *)
LEMMA FullReports ==
    ASSUME ListedInv, NEW n \in Networks, FullReport(n)
    PROVE  \E r \in Seq(Message) :
              /\ msgs' = msgs \o r
              /\ \A k \in DOMAIN r : k \in 1..4 => \E kind \in Kinds : r[k] = KnownMessage(n, kind)
              /\ \A kind \in Kinds : \E k \in DOMAIN r : k \in 1..4 /\ r[k] = KnownMessage(n, kind)
              /\ \A k \in DOMAIN r : k \notin 1..4 => k > 4 /\ \E e \in engine[n] : r[k] = UpdateMessage(n, e)
              /\ \A e \in engine[n] : \E k \in DOMAIN r : k > 4 /\ r[k] = UpdateMessage(n, e)
<1> DEFINE all == {UpdateMessage(n, e) : e \in engine[n]}
           lists == [k \in 1..4 |-> KnownMessage(n, ReportOrder[k])]
<1>1. PICK s \in Orders(all) : msgs' = msgs \o (lists \o s)
  BY DEF FullReport, Report
<1>2. engine[n] \in SUBSET Entity /\ IsFiniteSet(engine[n]) /\ Shape
  BY DEF ListedInv, Shape
<1>3. IsFiniteSet(all)
  <2> DEFINE f == [e \in engine[n] |-> UpdateMessage(n, e)]
  <2>1. f \in Surjection(engine[n], all)
    BY Fun_IsSurj
  <2> HIDE DEF all, f
  <2> QED
    BY <1>2, <2>1, FS_Surjection
<1>4. all \in SUBSET Message
  BY <1>2, UpdateIsMessage
<1>5. s \in Seq(Message) /\ (\A k \in DOMAIN s : s[k] \in all) /\ \A x \in all : \E k \in DOMAIN s : s[k] = x
  <2> HIDE DEF all
  <2> QED
    BY <1>1, <1>3, <1>4, OrdersAreSequences, OrdersAreComplete
<1>6. /\ \A k \in 1..4 : ReportOrder[k] \in Kinds
      /\ \A kind \in Kinds : \E k \in 1..4 : ReportOrder[k] = kind
  <2>1. /\ ReportOrder[1] = "definition" /\ ReportOrder[2] = "instance"
        /\ ReportOrder[3] = "history" /\ ReportOrder[4] = "incident"
    BY DEF ReportOrder
  <2>2. \A k \in 1..4 : k = 1 \/ k = 2 \/ k = 3 \/ k = 4
    OBVIOUS
  <2>3. 1 \in 1..4 /\ 2 \in 1..4 /\ 3 \in 1..4 /\ 4 \in 1..4
    OBVIOUS
  <2> QED
    BY <2>1, <2>2, <2>3 DEF Kinds
<1>7. /\ lists \in Seq(Message) /\ DOMAIN lists = 1..4 /\ Len(lists) = 4
      /\ \A k \in 1..4 : lists[k] = KnownMessage(n, ReportOrder[k])
  <2>1. \A k \in 1..4 : KnownMessage(n, ReportOrder[k]) \in Message
    BY <1>2, <1>6, KnownIsMessage DEF Shape
  <2> QED
    BY <2>1
<1> DEFINE r == lists \o s
<1> HIDE DEF all, lists
<1>8. /\ r \in Seq(Message)
      /\ \A k \in 1..4 : k \in DOMAIN r /\ r[k] = lists[k]
      /\ \A k \in DOMAIN s : 4 + k \in DOMAIN r /\ r[4 + k] = s[k] /\ 4 + k > 4
      /\ \A j \in DOMAIN r : j \notin 1..4 => \E k \in DOMAIN s : j = 4 + k
  <2>0. lists \in Seq(Message) /\ s \in Seq(Message)
    BY <1>5, <1>7
  <2>1. /\ r \in Seq(Message)
        /\ \A j \in DOMAIN lists : j \in DOMAIN r /\ r[j] = lists[j]
        /\ \A k \in DOMAIN s : Len(lists) + k \in DOMAIN r /\ r[Len(lists) + k] = s[k]
        /\ \A j \in DOMAIN r : j \in DOMAIN lists \/ \E k \in DOMAIN s : j = Len(lists) + k
        /\ \A j \in DOMAIN lists, k \in DOMAIN s : j < Len(lists) + k
    BY <2>0, Appended
  <2> HIDE DEF r
  <2>2. \A k \in DOMAIN s : 4 + k > 4
    <3> TAKE k \in DOMAIN s
    <3>1. 4 < Len(lists) + k
      BY <1>7, <2>1
    <3> QED
      BY <1>5, <1>7, <3>1
  <2> QED
    BY <1>7, <2>1, <2>2
<1> HIDE DEF r
<1>9. \A k \in DOMAIN r : k \notin 1..4 => k > 4 /\ \E e \in engine[n] : r[k] = UpdateMessage(n, e)
  <2> SUFFICES ASSUME NEW k \in DOMAIN r, k \notin 1..4
               PROVE  k > 4 /\ \E e \in engine[n] : r[k] = UpdateMessage(n, e)
    OBVIOUS
  <2>1. PICK j \in DOMAIN s : k = 4 + j
    BY <1>8
  <2> QED
    BY <1>5, <1>8, <2>1 DEF all
<1>10. \A e \in engine[n] : \E k \in DOMAIN r : k > 4 /\ r[k] = UpdateMessage(n, e)
  <2> TAKE e \in engine[n]
  <2>1. PICK k \in DOMAIN s : s[k] = UpdateMessage(n, e)
    BY <1>5 DEF all
  <2> QED
    BY <1>8, <2>1
<1>11. /\ \A k \in DOMAIN r : k \in 1..4 => \E kind \in Kinds : r[k] = KnownMessage(n, kind)
       /\ \A kind \in Kinds : \E k \in DOMAIN r : k \in 1..4 /\ r[k] = KnownMessage(n, kind)
  BY <1>6, <1>7, <1>8
<1>12. msgs' = msgs \o r
  BY <1>1 DEF r
<1> QED
  BY <1>8, <1>9, <1>10, <1>11, <1>12

LEMMA UpdateFits ==
    ASSUME NEW n, NEW e \in Things
    PROVE  Fit(UpdateMessage(n, e))
BY DEF Fit, UpdateMessage

LEMMA OthersFit ==
    /\ \A n, e : Fit(DeleteMessage(n, e))
    /\ \A n, kind : Fit(KnownMessage(n, kind))
BY DEF Fit, DeleteMessage, KnownMessage

-----------------------------------------------------------------------------
(* Types: steps of the clients                                             *)

LEMMA AppendFits ==
    ASSUME ListedInv, MessagesFit, NEW r \in Seq(Message), \A k \in DOMAIN r : Fit(r[k]),
           msgs' = msgs \o r
    PROVE  MessagesFit'
<1>1. msgs \in Seq(Message)
  BY DEF ListedInv, Shape
<1>2. \A j \in DOMAIN msgs' : (j \in DOMAIN msgs /\ msgs'[j] = msgs[j]) \/ \E k \in DOMAIN r : msgs'[j] = r[k]
  BY <1>1, Appended
<1> QED
  BY <1>2 DEF MessagesFit

LEMMA BecomesFits ==
    ASSUME BaseInv, NEW n \in Networks, NEW new, Evolves(n, new), Becomes(n, new),
           cmds' \in SUBSET cmds
    PROVE  FitInv'
<1>1. Sound(new) /\ new \subseteq Things
  BY DEF Evolves, Sound
<1> PICK r \in Seq(Message) : msgs' = msgs \o r /\ Sends(r, Changes(n, new))
  BY BecomesReports DEF BaseInv
<1>2. msgs' = msgs \o r /\ \A k \in DOMAIN r : r[k] \in Changes(n, new)
  BY DEF Sends
<1>3. \A m \in Changes(n, new) : Fit(m)
  BY <1>1, UpdateFits, OthersFit DEF Changes
<1>4. MessagesFit'
  BY <1>2, <1>3, AppendFits DEF BaseInv, FitInv
<1>5. engine \in [Networks -> SUBSET Entity] /\ engine' = [engine EXCEPT ![n] = new]
      /\ used' = used \cup {<<n, e.id>> : e \in new}
  BY DEF BaseInv, ListedInv, Shape, Becomes
<1>6. EngineSound'
  <2> SUFFICES ASSUME NEW k \in Networks
               PROVE  Sound(engine'[k]) /\ \A e \in engine'[k] : <<k, e.id>> \in used'
    BY DEF EngineSound
  <2>1. CASE k = n
    BY <1>1, <1>5, <2>1
  <2>2. CASE k # n
    BY <1>5, <2>2 DEF BaseInv, FitInv, EngineSound
  <2> QED
    BY <2>1, <2>2
<1>7. UNCHANGED <<docs, handler, api, noticeVars, broken, contactless>>
  BY DEF Becomes
<1>8. used' \subseteq Networks \X EntityIds
  BY <1>1, <1>5 DEF BaseInv, FitInv, RestOK, Things, Entity
<1>9. RestOK'
  BY <1>7, <1>8 DEF BaseInv, FitInv, RestOK, noticeVars
<1> QED
  BY <1>4, <1>6, <1>7, <1>9 DEF BaseInv, FitInv, HandlerFits, DocsFit, ApiFits

(* A step that leaves the engines and what was reported.                   *)
LEMMA ClientAnswersFit ==
    ASSUME BaseInv, ClientChanges \/ ClientAnswers
    PROVE  FitInv'
<1>1. ListedInv /\ EngineSound /\ RestOK
  BY DEF BaseInv, FitInv
<1>2. ASSUME NEW n \in Networks, NEW d \in Definitions, Deploys(n, d) \/ Undeploys(n, d) PROVE FitInv'
  <2>1. PICK new : Evolves(n, new) /\ Becomes(n, new)
    BY <1>1, <1>2, ChangesEvolve
  <2>2. cmds' \in SUBSET cmds
    BY <1>2 DEF Deploys, Undeploys
  <2> QED
    BY <2>1, <2>2, BecomesFits
<1>3. ASSUME NEW n \in Networks, NEW i \in Instances, Runs(n, i) \/ Ends(n, i) PROVE FitInv'
  <2>1. PICK new : Evolves(n, new) /\ Becomes(n, new)
    BY <1>1, <1>3, ChangesEvolve
  <2>2. cmds' \in SUBSET cmds
    BY <1>3 DEF Runs, Ends
  <2> QED
    BY <2>1, <2>2, BecomesFits
<1>4. ASSUME NEW n \in Networks, NEW x \in Incidents, Fails(n, x) PROVE FitInv'
  <2>1. PICK new : Evolves(n, new) /\ Becomes(n, new)
    BY <1>1, <1>4, ChangesEvolve
  <2>2. cmds' \in SUBSET cmds
    BY <1>4 DEF Fails
  <2> QED
    BY <2>1, <2>2, BecomesFits
<1>5. ASSUME NEW c \in cmds, ObeysHistoryDelete(c) PROVE FitInv'
  <2>1. c.net \in Networks
    BY <1>1, <1>5, AnswersEvolve
  <2>2. PICK new : Evolves(c.net, new) /\ Becomes(c.net, new)
    BY <1>1, <1>5, AnswersEvolve
  <2>3. cmds' \in SUBSET cmds
    BY <1>5 DEF ObeysHistoryDelete
  <2> QED
    BY <2>1, <2>2, <2>3, BecomesFits
<1>6. ASSUME NEW n \in Networks, FullReport(n) PROVE FitInv'
  <2>1. PICK r \in Seq(Message) :
           /\ msgs' = msgs \o r
           /\ \A k \in DOMAIN r : k \in 1..4 => \E kind \in Kinds : r[k] = KnownMessage(n, kind)
           /\ \A k \in DOMAIN r : k \notin 1..4 => k > 4 /\ \E e \in engine[n] : r[k] = UpdateMessage(n, e)
    BY <1>1, <1>6, FullReports
  <2>2. engine[n] \subseteq Things
    BY <1>1 DEF EngineSound, Sound
  <2>3. \A k \in DOMAIN r : Fit(r[k])
    BY <2>1, <2>2, UpdateFits, OthersFit
  <2>4. MessagesFit'
    BY <2>1, <2>3, AppendFits DEF BaseInv, FitInv
  <2>5. UNCHANGED <<docs, cmds, engine, used, handler, api, noticeVars, contactless>>
        /\ broken' \subseteq broken
    BY <1>6 DEF FullReport, clientVars
  <2> QED
    BY <2>4, <2>5 DEF BaseInv, FitInv, EngineSound, HandlerFits, DocsFit, ApiFits, RestOK, noticeVars
<1> QED
  BY <1>2, <1>3, <1>4, <1>5, <1>6 DEF ClientChanges, ClientAnswers

-----------------------------------------------------------------------------
(* Types: steps of the handlers                                            *)

LEMMA SaveFits ==
    ASSUME BaseInv, SaveDocument \/ SaveIncident
    PROVE  /\ FitInv'
           /\ handler # Idle /\ handler.msg \in Message
           /\ handler.msg.op = "update" /\ handler.msg.entity \in Things
           /\ handler.msg.entity.kind = handler.msg.kind
           /\ Len(handler.todo) = 1 /\ handler' = Idle
           /\ docs' = Save(docs, DocumentOf(handler.msg.net, handler.msg.entity))
           /\ SaveIncident => handler.msg.kind = "incident"
           /\ SaveDocument => handler.msg.kind # "incident"
<1> DEFINE m == handler.msg
           d == DocumentOf(m.net, m.entity)
<1>1. HandlerShape /\ HandlerFits
  BY DEF BaseInv, ListedInv, FitInv
<1>2. /\ HandlerFits' /\ handler # Idle /\ m \in Message /\ Fit(m)
      /\ CommandsFit(handler.todo, m) /\ 1 \in 1..Len(handler.todo)
      /\ handler.todo[1] \in Saves
      /\ SaveIncident => handler.todo[1] = "SaveIncident"
      /\ SaveDocument => handler.todo[1] \in SaveCommands
      /\ Len(handler.todo) = 1 => handler' = Idle
  <2>1. CASE SaveDocument
    <3>1. Executes(SaveCommands)
      BY <2>1 DEF SaveDocument
    <3> QED
      BY <1>1, <2>1, <3>1, ExecutedFits DEF HandlerFits, Saves, SaveIncident, SaveCommands, Executes
  <2>2. CASE SaveIncident
    <3>1. Executes({"SaveIncident"})
      BY <2>2 DEF SaveIncident
    <3> QED
      BY <1>1, <2>2, <3>1, ExecutedFits DEF HandlerFits, Saves, SaveDocument, SaveCommands, Executes
  <2> QED
    BY <2>1, <2>2
<1>3. /\ m.op = "update" /\ Len(handler.todo) = 1
      /\ handler.todo[1] = "SaveIncident" => m.kind = "incident"
      /\ handler.todo[1] \in SaveCommands => m.kind # "incident"
  <2>1. 1 = Len(handler.todo) /\ m.op = "update"
    BY <1>2 DEF CommandsFit
  <2> QED
    BY <1>2, <2>1 DEF CommandsFit
<1>4. m.entity \in Things /\ m.entity.kind = m.kind
  BY <1>2, <1>3 DEF Fit
<1>5. docs' = Save(docs, d)
  BY DEF SaveDocument, SaveIncident, SaveReported
<1>6. DocFits(d)
  <2>1. Thing(d.kind, d.id, d.ended) = m.entity /\ ~d.placeholder
    BY <1>4, ThingIs DEF DocumentOf
  <2> QED
    BY <1>4, <2>1 DEF DocFits
<1>7. DocsFit'
  BY <1>5, <1>6 DEF DocsFit, Save, BaseInv, FitInv
<1>8. UNCHANGED <<msgs, cmds, engine, used, api, told, waived, broken, contactless>>
  BY DEF SaveDocument, SaveIncident, clientVars, noticeVars
<1>9. notifying' \subseteq Notices /\ begun' \subseteq Notices /\ lost' \subseteq Notices
  <2>1. notifying \subseteq Notices /\ begun \subseteq Notices /\ lost \subseteq Notices
    BY DEF BaseInv, FitInv, RestOK
  <2>2. CASE SaveDocument
    BY <2>1, <2>2 DEF SaveDocument, noticeVars
  <2>3. CASE SaveIncident
    <3>1. m.kind = "incident" /\ m.net \in Networks
      BY <1>2, <1>3, <2>3, MessageShape
    <3>2. m.entity.id \in Incidents
      BY <1>4, <3>1, ThingIs DEF IdsOf
    <3>3. <<m.net, m.entity.id>> \in Notices
      BY <3>1, <3>2 DEF Notices
    <3> QED
      BY <2>1, <2>3, <3>3 DEF SaveIncident
  <2> QED
    BY <2>2, <2>3
<1>10. FitInv'
  BY <1>2, <1>7, <1>8, <1>9 DEF BaseInv, FitInv, EngineSound, MessagesFit, ApiFits, RestOK
<1> QED
  BY <1>2, <1>3, <1>4, <1>5, <1>10

LEMMA HandlerFit ==
    ASSUME BaseInv, HandlerSteps \/ CommandFails
    PROVE  FitInv'
<1>1. ListedInv /\ Shape /\ HandlerShape /\ HandlerFits /\ MessagesFit
  BY DEF BaseInv, ListedInv, FitInv
<1>2. ASSUME Receive PROVE FitInv'
  BY <1>1, <1>2, ReceivedFits
  DEF Receive, clientVars, noticeVars, BaseInv, FitInv, EngineSound, DocsFit, ApiFits, RestOK
<1>3. ASSUME SaveLastContact PROVE FitInv'
  <2>1. HandlerFits' /\ handler.msg \in Message
    BY <1>1, <1>3, ExecutedFits DEF SaveLastContact
  <2>2. contactless' \subseteq Networks
    BY <1>3, <2>1, MessageShape DEF SaveLastContact, BaseInv, FitInv, RestOK
  <2> QED
    BY <1>3, <2>1, <2>2
    DEF SaveLastContact, clientVars, noticeVars, BaseInv, FitInv, EngineSound, MessagesFit, DocsFit, ApiFits, RestOK
<1>4. ASSUME RemoveDocuments PROVE FitInv'
  <2>1. HandlerFits'
    BY <1>1, <1>4, ExecutedFits DEF RemoveDocuments
  <2>2. docs' \subseteq docs
    BY <1>4 DEF RemoveDocuments
  <2> QED
    BY <1>4, <2>1, <2>2
    DEF RemoveDocuments, clientVars, noticeVars, BaseInv, FitInv, EngineSound, MessagesFit, DocsFit, ApiFits, RestOK
<1>5. ASSUME CommandFails PROVE FitInv'
  <2>1. HandlerFits' /\ handler.msg \in Message
    BY <1>1, <1>5, ExecutedFits DEF CommandFails
  <2>2. contactless' \subseteq Networks /\ broken' \subseteq Networks
    BY <1>5, <2>1, MessageShape DEF CommandFails, BaseInv, FitInv, RestOK
  <2> QED
    BY <1>5, <2>1, <2>2
    DEF CommandFails, clientVars, noticeVars, BaseInv, FitInv, EngineSound, MessagesFit, DocsFit, ApiFits, RestOK
<1> QED
  BY <1>2, <1>3, <1>4, <1>5, SaveFits DEF HandlerSteps

-----------------------------------------------------------------------------
(* Types: the other steps                                                  *)

LEMMA RequestsFit ==
    ASSUME BaseInv, Requests \/ ApiSteps
    PROVE  FitInv'
<1>1. ApiShape /\ ApiFits /\ DocsFit /\ RestOK
  BY DEF BaseInv, ListedInv, FitInv
<1>2. ASSUME NEW n \in Networks, NEW p \in Placeholders, StartSavesPlaceholders(n, p) PROVE FitInv'
  <2>1. \A d \in docs' : d \in docs \/ (d.placeholder /\ d.id = p)
    BY <1>2 DEF StartSavesPlaceholders
  <2>2. DocsFit'
    BY <1>1, <2>1 DEF DocsFit, DocFits
  <2> QED
    BY <1>2, <2>2
    DEF StartSavesPlaceholders, clientVars, noticeVars, BaseInv, FitInv, EngineSound, HandlerFits, MessagesFit, ApiFits, RestOK
<1>3. ASSUME NEW n \in Networks, NEW i \in Incidents, ApiDeleteIncident(n, i) PROVE FitInv'
  <2>1. docs' \subseteq docs /\ waived' \subseteq Notices /\ begun' \subseteq Notices
    BY <1>1, <1>3 DEF ApiDeleteIncident, RestOK, Notices
  <2> QED
    BY <1>3, <2>1
    DEF ApiDeleteIncident, clientVars, BaseInv, FitInv, EngineSound, HandlerFits, MessagesFit, DocsFit, ApiFits, RestOK
<1>4. ASSUME NEW d \in docs, DeleteHistoryReads(d) PROVE FitInv'
  <2>1. /\ api'.doc = d /\ d.kind = "history"
        /\ \/ api'.at = "remove" /\ d.placeholder
           \/ api'.at = "send" /\ ~d.placeholder /\ d.ended
    BY <1>4 DEF DeleteHistoryReads
  <2>2. ApiFits'
    BY <1>1, <2>1 DEF ApiFits, DocsFit
  <2> QED
    BY <1>4, <2>2
    DEF DeleteHistoryReads, clientVars, noticeVars, BaseInv, FitInv, EngineSound, HandlerFits, MessagesFit, DocsFit, RestOK
<1>5. ASSUME DeleteHistoryRemoves PROVE FitInv'
  <2>1. docs' \subseteq docs /\ api' = Idle
    BY <1>5 DEF DeleteHistoryRemoves
  <2> QED
    BY <1>5, <2>1
    DEF DeleteHistoryRemoves, clientVars, noticeVars, BaseInv, FitInv, EngineSound, HandlerFits, MessagesFit, DocsFit, ApiFits, RestOK
<1>6. ASSUME api.at \in {"send", "save"}
      PROVE  /\ api # Idle /\ api \in [at : {"remove", "send", "save"}, doc : Document]
             /\ DocFits(api.doc) /\ api.doc.kind = "history" /\ ~api.doc.placeholder /\ api.doc.ended
  <2>1. api # Idle
    BY <1>6 DEF Idle
  <2> QED
    BY <1>1, <1>6, <2>1 DEF ApiShape, ApiFits
<1>7. ASSUME DeleteHistorySends PROVE FitInv'
  <2>1. /\ api' = [api EXCEPT !.at = "save"] /\ cmds' = cmds \cup {[net |-> api.doc.net, id |-> api.doc.id]}
        /\ api.at = "send"
    BY <1>7 DEF DeleteHistorySends
  <2>2. api'.doc = api.doc /\ api'.at = "save"
    BY <1>6, <2>1
  <2>3. ApiFits'
    BY <1>6, <2>1, <2>2 DEF ApiFits, DocFits
  <2>4. cmds' \subseteq [net : Networks, id : EntityIds \cup Placeholders]
    <3>1. api.doc \in Document
      BY <1>6, <2>1
    <3> QED
      BY <1>1, <2>1, <3>1 DEF RestOK, Document
  <2> QED
    BY <1>7, <2>3, <2>4
    DEF DeleteHistorySends, clientVars, noticeVars, BaseInv, FitInv, EngineSound, HandlerFits, MessagesFit, DocsFit, RestOK
<1>8. ASSUME DeleteHistorySaves PROVE FitInv'
  <2> DEFINE d == [api.doc EXCEPT !.marked = TRUE]
  <2>1. docs' = Save(docs, d) /\ api' = Idle /\ api.at = "save"
    BY <1>8 DEF DeleteHistorySaves
  <2>2. api.doc \in Document /\ DocFits(api.doc)
    BY <1>6, <2>1
  <2>3. DocFits(d)
    BY <2>2 DEF DocFits, Document
  <2>4. DocsFit'
    BY <1>1, <2>1, <2>3 DEF DocsFit, Save
  <2> QED
    BY <1>8, <2>1, <2>4
    DEF DeleteHistorySaves, clientVars, noticeVars, BaseInv, FitInv, EngineSound, HandlerFits, MessagesFit, ApiFits, RestOK
<1> QED
  BY <1>2, <1>3, <1>4, <1>5, <1>7, <1>8 DEF Requests, ApiSteps

LEMMA CleanupFits ==
    ASSUME BaseInv, BeginCleanup \/ CleanupSteps \/ CleanupFails \/ Time
    PROVE  FitInv'
<1>1. /\ docs' \subseteq docs
      /\ UNCHANGED <<msgs, cmds, engine, used, handler, api, notifying, told, lost, waived, contactless>>
  BY DEF BeginCleanup, CleanupSteps, RemoveOldDocuments, RemoveOldContacts, CleanupFails, Time,
         ContactAges, clientVars, noticeVars
<1>2. begun' \subseteq begun
  BY DEF BeginCleanup, CleanupSteps, RemoveOldDocuments, RemoveOldContacts, CleanupFails, Time,
         ContactAges, noticeVars
<1>3. broken' \subseteq Networks
  <2>1. broken \subseteq Networks /\ Shape
    BY DEF BaseInv, ListedInv, FitInv, RestOK
  <2>2. CASE RemoveOldDocuments
    <3>1. cleaner.nets \in SUBSET Networks
      BY <2>1, <2>2, CleanerShape DEF RemoveOldDocuments
    <3> QED
      BY <2>1, <2>2, <3>1 DEF RemoveOldDocuments
  <2>3. CASE ~RemoveOldDocuments
    BY <2>1, <2>3 DEF BeginCleanup, CleanupSteps, RemoveOldContacts, CleanupFails, Time, ContactAges
  <2> QED
    BY <2>2, <2>3
<1> QED
  BY <1>1, <1>2, <1>3 DEF BaseInv, FitInv, EngineSound, HandlerFits, MessagesFit, DocsFit, ApiFits, RestOK

LEMMA LossesFit ==
    ASSUME BaseInv, Stops \/ LosesMessages \/ Presence \/ Notifications \/ NotificationsFail
    PROVE  FitInv'
<1>1. /\ handler' = handler \/ handler' = Idle
      /\ api' = api \/ api' = Idle
      /\ msgs' = msgs \/ msgs' = <<>>
      /\ notifying' \subseteq notifying
      /\ told' \subseteq told \cup notifying /\ lost' \subseteq lost \cup notifying
      /\ UNCHANGED <<docs, cmds, engine, used, begun, waived, contactless>>
  BY DEF Stops, LosesMessages, Presence, FallsSilent, Returns, Notifications, NotificationSent,
         NotificationsFail, NotificationFails,
         clientVars, noticeVars
<1>2. broken' \subseteq Networks
  <2>1. broken \subseteq Networks /\ msgs \in Seq(Message)
    BY DEF BaseInv, ListedInv, Shape, FitInv, RestOK
  <2>2. \A k \in DOMAIN msgs : msgs[k].net \in Networks
    <3>1. \A k \in DOMAIN msgs : msgs[k] \in Message
      BY <2>1
    <3> QED
      BY <3>1, MessageShape
  <2> QED
    BY <2>1, <2>2 DEF Stops, LosesMessages, Presence, FallsSilent, Returns, Notifications, NotificationSent,
                      NotificationsFail, NotificationFails
<1> QED
  BY <1>1, <1>2 DEF BaseInv, FitInv, EngineSound, HandlerFits, MessagesFit, DocsFit, ApiFits, RestOK

LEMMA BaseInvInit ==
    ASSUME Init
    PROVE  BaseInv
BY ListedInvInit DEF Init, BaseInv, FitInv, EngineSound, Sound, OneVersion, Closed, HandlerFits,
   MessagesFit, DocsFit, ApiFits, RestOK

LEMMA BaseInvStep ==
    ASSUME BaseInv, [Next]_vars
    PROVE  BaseInv'
<1>1. ListedInv'
  BY ListedInvStep DEF BaseInv
<1>2. FitInv'
  <2>1. CASE Next
    BY <2>1, HandlerFit, RequestsFit, CleanupFits, LossesFit, ClientAnswersFit
    DEF Next, Failures, SaveIncidentFails
  <2>2. CASE UNCHANGED vars
    BY <2>2 DEF vars, clientVars, noticeVars, BaseInv, FitInv, EngineSound, HandlerFits, MessagesFit,
       DocsFit, ApiFits, RestOK
  <2> QED
    BY <2>1, <2>2
<1> QED
  BY <1>1, <1>2 DEF BaseInv

(* All state keeps its type.                                               *)
THEOREM TypeCorrect == Spec => []TypeOK
<1>1. Init => BaseInv
  BY BaseInvInit
<1>2. BaseInv /\ [Next]_vars => BaseInv'
  BY BaseInvStep
<1>3. BaseInv => TypeOK
  <2> SUFFICES ASSUME BaseInv PROVE TypeOK
    OBVIOUS
  <2>1. Shape /\ ApiShape /\ HandlerShape /\ RestOK
    BY DEF BaseInv, ListedInv, FitInv
  <2>2. handler \in HandlerCall
    BY <2>1 DEF HandlerShape, HandlerCall, Idle
  <2>3. api \in ApiCall
    BY <2>1 DEF ApiShape, ApiCall, Idle
  <2> QED
    BY <2>1, <2>2, <2>3 DEF TypeOK, Shape, RestOK
<1> QED
  BY <1>1, <1>2, <1>3, PTL DEF Spec

-----------------------------------------------------------------------------
(* The line in every step                                                  *)

(* The first message is at work, the others are in flight.                 *)
LEMMA LineShape ==
    ASSUME BaseInv
    PROVE  /\ Line \in Seq(Message) /\ DOMAIN Line \subseteq Nat
           /\ \A j \in DOMAIN Line : j >= 1 /\ Line[j] \in Message /\ Fit(Line[j])
           /\ handler = Idle => Line = msgs
           /\ handler # Idle =>
                 /\ handler.msg \in Message
                 /\ 1 \in DOMAIN Line /\ Line[1] = handler.msg
                 /\ \A j \in DOMAIN msgs : j + 1 \in DOMAIN Line /\ Line[j + 1] = msgs[j]
                 /\ \A j \in DOMAIN Line : j = 1 \/ (j > 1 /\ j - 1 \in DOMAIN msgs)
<1>1. msgs \in Seq(Message) /\ MessagesFit /\ HandlerFits /\ HandlerShape
  BY DEF BaseInv, ListedInv, Shape, FitInv
<1>2. CASE handler = Idle
  <2>1. Line = msgs
    BY <1>2 DEF Line
  <2>2. DOMAIN msgs = 1..Len(msgs) /\ Len(msgs) \in Nat /\ \A j \in 1..Len(msgs) : msgs[j] \in Message
    BY <1>1
  <2>3. DOMAIN msgs \subseteq Nat /\ \A j \in DOMAIN msgs : j >= 1
    BY <2>2
  <2> QED
    BY <1>1, <1>2, <2>1, <2>2, <2>3 DEF MessagesFit
<1>3. CASE handler # Idle
  <2> DEFINE m == handler.msg
             t == <<m>> \o msgs
  <2>1. m \in Message /\ Fit(m) /\ Line = t
    BY <1>1, <1>3 DEF HandlerShape, HandlerFits, Line
  <2> HIDE DEF m
  <2>2. <<m>> \in Seq(Message) /\ Len(<<m>>) = 1 /\ DOMAIN <<m>> = {1} /\ <<m>>[1] = m
    BY <2>1
  <2> DEFINE h == <<m>>
  <2> HIDE DEF h
  <2>3. h \in Seq(Message) /\ Len(h) = 1 /\ DOMAIN h = {1} /\ h[1] = m
    BY <2>2 DEF h
  <2>0. h \in Seq(Message) /\ msgs \in Seq(Message)
    BY <1>1, <2>3
  <2> HIDE DEF t
  <2>4. /\ h \o msgs \in Seq(Message) /\ DOMAIN msgs \subseteq Nat /\ DOMAIN (h \o msgs) \subseteq Nat
        /\ \A j \in DOMAIN h : j \in DOMAIN (h \o msgs) /\ (h \o msgs)[j] = h[j]
        /\ \A k \in DOMAIN msgs : Len(h) + k \in DOMAIN (h \o msgs) /\ (h \o msgs)[Len(h) + k] = msgs[k]
        /\ \A j \in DOMAIN (h \o msgs) : j \in DOMAIN h \/ \E k \in DOMAIN msgs : j = Len(h) + k
        /\ \A j \in DOMAIN h, k \in DOMAIN msgs : j < Len(h) + k
    BY <2>0, Appended
  <2>5. t = h \o msgs
    BY DEF h, t
  <2>6. /\ t \in Seq(Message) /\ DOMAIN t \subseteq Nat /\ 1 \in DOMAIN t /\ t[1] = m
        /\ \A k \in DOMAIN msgs : k \in Nat /\ 1 + k \in DOMAIN t /\ t[1 + k] = msgs[k] /\ 1 < 1 + k
        /\ \A j \in DOMAIN t : j = 1 \/ \E k \in DOMAIN msgs : j = 1 + k
    BY <2>3, <2>4, <2>5
  <2>7. \A k \in DOMAIN msgs : 1 + k = k + 1 /\ (k + 1) - 1 = k
    BY <2>6
  <2>8. \A j \in DOMAIN t : j = 1 \/ (j > 1 /\ j - 1 \in DOMAIN msgs)
    BY <2>6, <2>7
  <2>9. \A j \in DOMAIN t : j >= 1 /\ t[j] \in Message /\ Fit(t[j])
    <3>1. \A j \in DOMAIN msgs : msgs[j] \in Message /\ Fit(msgs[j])
      BY <1>1 DEF MessagesFit
    <3> TAKE j \in DOMAIN t
    <3>2. CASE j = 1
      BY <2>1, <2>6, <3>2
    <3>3. CASE j # 1
      <4>1. PICK k \in DOMAIN msgs : j = 1 + k
        BY <2>6, <3>3
      <4> QED
        BY <2>6, <3>1, <4>1
    <3> QED
      BY <3>2, <3>3
  <2>10. \A j \in DOMAIN msgs : j + 1 \in DOMAIN t /\ t[j + 1] = msgs[j]
    BY <2>6, <2>7
  <2> QED
    BY <1>3, <2>1, <2>6, <2>8, <2>9, <2>10 DEF m
<1> QED
  BY <1>2, <1>3

(* A message that is received stays at the head of the line.               *)
LEMMA LineReceived ==
    ASSUME BaseInv, Receive
    PROVE  Line' = Line
<1>1. Shape /\ MessagesFit
  BY DEF BaseInv, ListedInv, FitInv
<1>2. /\ handler = Idle /\ handler' # Idle /\ msgs # <<>>
      /\ handler'.msg = Head(msgs) /\ msgs' = Tail(msgs) /\ msgs \in Seq(Message)
  BY <1>1, ReceivedFits DEF Shape
<1>3. Line' = <<Head(msgs)>> \o Tail(msgs) /\ Line = msgs
  BY <1>2 DEF Line
<1>4. <<Head(msgs)>> \o Tail(msgs) = msgs
  <2>1. Head(msgs) \in Message /\ Tail(msgs) \in Seq(Message) /\ Len(Tail(msgs)) = Len(msgs) - 1
        /\ (\A i \in 1..Len(Tail(msgs)) : Tail(msgs)[i] = msgs[i + 1]) /\ Head(msgs) = msgs[1]
        /\ Len(msgs) \in Nat
    BY <1>2, HeadTailProperties
  <2> DEFINE h == <<Head(msgs)>>
             t == Tail(msgs)
  <2>2. h \in Seq(Message) /\ Len(h) = 1 /\ h[1] = msgs[1]
    BY <2>1
  <2>3. t \in Seq(Message) /\ Len(t) = Len(msgs) - 1 /\ \A i \in 1..Len(t) : t[i] = msgs[i + 1]
    BY <2>1
  <2> HIDE DEF h, t
  <2>0. h \in Seq(Message) /\ t \in Seq(Message)
    BY <2>2, <2>3
  <2>4. /\ h \o t \in Seq(Message) /\ Len(h \o t) = Len(h) + Len(t)
        /\ \A i \in 1..Len(h) + Len(t) : (h \o t)[i] = IF i <= Len(h) THEN h[i] ELSE t[i - Len(h)]
    BY <2>0, ConcatProperties
  <2> DEFINE u == h \o t
  <2> HIDE DEF u
  <2>5. u \in Seq(Message) /\ Len(u) = Len(msgs)
        /\ \A i \in 1..Len(msgs) : u[i] = IF i <= 1 THEN h[i] ELSE t[i - 1]
    BY <2>1, <2>2, <2>3, <2>4 DEF u
  <2>6. \A i \in 1..Len(msgs) : u[i] = msgs[i]
    <3> TAKE i \in 1..Len(msgs)
    <3>1. CASE i = 1
      BY <2>2, <2>5, <3>1
    <3>2. CASE i # 1
      <4>1. i - 1 \in 1..Len(t) /\ (i - 1) + 1 = i /\ ~(i <= 1)
        BY <2>1, <2>3, <3>2
      <4>2. t[i - 1] = msgs[(i - 1) + 1]
        BY <2>3, <4>1
      <4> QED
        BY <2>5, <4>1, <4>2
    <3> QED
      BY <3>1, <3>2
  <2>7. u = msgs
    BY <1>2, <2>5, <2>6, SeqEqual
  <2> QED
    BY <2>7 DEF u, h, t
<1> QED
  BY <1>3, <1>4

(* The line has nothing new, and the first d messages no more.             *)
Keeps(d) ==
    /\ DOMAIN Line' \subseteq Nat
    /\ \A j \in DOMAIN Line' : j >= 1 /\ j + d \in DOMAIN Line /\ Line'[j] = Line[j + d]

(* It has all others.                                                      *)
Drops(d) ==
    /\ Keeps(d)
    /\ \A j \in DOMAIN Line : j > d => j - d \in DOMAIN Line' /\ Line'[j - d] = Line[j]

(* A command leaves the line, but for the last one, which ends the message. *)
LEMMA LineExecuted ==
    ASSUME BaseInv, NEW C, Executes(C), UNCHANGED msgs
    PROVE  /\ Len(handler.todo) # 1 => Line' = Line /\ handler' # Idle
           /\ Len(handler.todo) = 1 => Drops(1) /\ handler' = Idle
<1>1. HandlerShape /\ HandlerFits
  BY DEF BaseInv, ListedInv, FitInv
<1>2. CASE Len(handler.todo) # 1
  <2>1. handler # Idle /\ handler' # Idle /\ handler'.msg = handler.msg
    BY <1>1, <1>2, ExecutedFits
  <2> QED
    BY <1>2, <2>1 DEF Line
<1>3. CASE Len(handler.todo) = 1
  <2>1. handler # Idle /\ handler' = Idle
    BY <1>3 DEF Executes
  <2>2. Line' = msgs
    BY <2>1 DEF Line
  <2>3. DOMAIN msgs \subseteq Nat /\ \A j \in DOMAIN msgs : j >= 1
    <3>1. msgs \in Seq(Message)
      BY DEF BaseInv, ListedInv, Shape
    <3>2. DOMAIN msgs = 1..Len(msgs) /\ Len(msgs) \in Nat
      BY <3>1
    <3> QED
      BY <3>2
  <2>4. /\ \A j \in DOMAIN msgs : j + 1 \in DOMAIN Line /\ Line[j + 1] = msgs[j]
        /\ \A j \in DOMAIN Line : j = 1 \/ (j > 1 /\ j - 1 \in DOMAIN msgs)
        /\ DOMAIN Line \subseteq Nat
    BY <2>1, LineShape
  <2>5. \A j \in DOMAIN Line : j > 1 => j - 1 \in DOMAIN msgs /\ msgs[j - 1] = Line[j]
    <3> SUFFICES ASSUME NEW j \in DOMAIN Line, j > 1
                 PROVE  j - 1 \in DOMAIN msgs /\ msgs[j - 1] = Line[j]
      OBVIOUS
    <3>1. j - 1 \in DOMAIN msgs /\ (j - 1) + 1 = j
      BY <2>4
    <3> QED
      BY <2>4, <3>1
  <2> QED
    BY <1>3, <2>1, <2>2, <2>3, <2>4, <2>5 DEF Drops, Keeps
<1> QED
  BY <1>2, <1>3

LEMMA SameLine ==
    ASSUME BaseInv, Line' = Line
    PROVE  Drops(0)
<1>1. DOMAIN Line \subseteq Nat /\ \A j \in DOMAIN Line : j >= 1
  BY LineShape
<1>2. \A j \in DOMAIN Line : j + 0 = j /\ j - 0 = j
  BY <1>1
<1> QED
  BY <1>1, <1>2 DEF Drops, Keeps

(* A report is put behind the line.                                        *)
LEMMA LineReported ==
    ASSUME BaseInv, NEW r \in Seq(Message), msgs' = msgs \o r, UNCHANGED handler
    PROVE  /\ Line' = Line \o r
           /\ DOMAIN Line \subseteq Nat /\ DOMAIN r \subseteq Nat /\ Len(Line) \in Nat
           /\ \A j \in DOMAIN Line : j \in DOMAIN Line' /\ Line'[j] = Line[j]
           /\ \A k \in DOMAIN r : Len(Line) + k \in DOMAIN Line' /\ Line'[Len(Line) + k] = r[k]
           /\ \A j \in DOMAIN Line' : j \in DOMAIN Line \/ \E k \in DOMAIN r : j = Len(Line) + k
           /\ \A j \in DOMAIN Line, k \in DOMAIN r : j < Len(Line) + k
<1>1. msgs \in Seq(Message) /\ Line \in Seq(Message)
  BY LineShape DEF BaseInv, ListedInv, Shape
<1>2. Line' = Line \o r
  <2>1. CASE handler = Idle
    BY <2>1 DEF Line
  <2>2. CASE handler # Idle
    <3>1. <<handler.msg>> \in Seq(Message)
      BY <2>2, LineShape
    <3>2. Line' = <<handler.msg>> \o (msgs \o r) /\ Line = <<handler.msg>> \o msgs
      BY <2>2 DEF Line
    <3> QED
      BY <1>1, <3>1, <3>2, ConcatAssociative
  <2> QED
    BY <2>1, <2>2
<1>3. DOMAIN Line \subseteq Nat /\ DOMAIN r \subseteq Nat /\ Len(Line) \in Nat
  BY <1>1, Appended
<1>4. \A j \in DOMAIN Line : j \in DOMAIN (Line \o r) /\ (Line \o r)[j] = Line[j]
  BY <1>1, Appended
<1>5. \A k \in DOMAIN r : Len(Line) + k \in DOMAIN (Line \o r) /\ (Line \o r)[Len(Line) + k] = r[k]
  BY <1>1, Appended
<1>6. \A j \in DOMAIN (Line \o r) : j \in DOMAIN Line \/ \E k \in DOMAIN r : j = Len(Line) + k
  BY <1>1, Appended
<1>7. \A j \in DOMAIN Line, k \in DOMAIN r : j < Len(Line) + k
  BY <1>1, Appended
<1> QED
  BY <1>2, <1>3, <1>4, <1>5, <1>6, <1>7

LEMMA LineLost ==
    ASSUME BaseInv, Stops \/ LosesMessages
    PROVE  Keeps(0)
<1>1. CASE Stops
  <2>1. Line' = <<>>
    BY <1>1 DEF Stops, Line
  <2> QED
    BY <2>1 DEF Keeps
<1>2. CASE LosesMessages
  <2>1. msgs' = <<>> /\ handler' = handler
    BY <1>2 DEF LosesMessages
  <2>2. CASE handler = Idle
    <3>1. Line' = <<>>
      BY <2>1, <2>2 DEF Line
    <3> QED
      BY <3>1 DEF Keeps
  <2>3. CASE handler # Idle
    <3>1. handler.msg \in Message /\ 1 \in DOMAIN Line /\ Line[1] = handler.msg
      BY <2>3, LineShape
    <3>2. Line' = <<handler.msg>> \o <<>>
      BY <2>1, <2>3 DEF Line
    <3>3. DOMAIN Line' = {1} /\ Line'[1] = handler.msg
      BY <3>1, <3>2
    <3> QED
      BY <3>1, <3>3 DEF Keeps
  <2> QED
    BY <2>2, <2>3
<1> QED
  BY <1>1, <1>2 

(* What a command deletes.                                                 *)
LEMMA RemovedIsDeleted ==
    ASSUME NEW c, NEW m, NEW d
    PROVE  /\ d \in Removed(c, m) => /\ d \in docs /\ d.net = m.net
                                     /\ d.kind = "incident" \/ ~d.placeholder => Deletes(c, m, d.kind, d.id)
           /\ d \in docs /\ d.net = m.net /\ ~d.placeholder /\ Deletes(c, m, d.kind, d.id) => d \in Removed(c, m)
BY DEF Removed, Deletes, Of, RemoveProcessDefinition, RemoveProcessInstance,
   RemoveHistoricProcessInstance, RemoveIncident, RemoveUnknownProcessDefinitions,
   RemoveUnknownProcessInstances, RemoveUnknownHistoricProcessInstances, RemoveUnknownIncidents,
   RemovePlaceholderProcessInstances, RemovePlaceholderHistoricProcessInstances,
   RemoveProcessInstancesByDefinitionId, RemoveIncidentOfInstance, RemoveIncidentOfNotInstances,
   RemoveIncidentOfDefinition, RemoveIncidentOfNotDefinitions

-----------------------------------------------------------------------------
(* The notifications                                                       *)

(* Steps with nothing new in the line and in the engines, which keep the   *)
(* documents of incidents whose notification was begun, but for those past. *)
LEMMA ToldKept ==
    ASSUME BegunCore, NEW d \in Nat, Keeps(d), UNCHANGED <<engine, used>>, begun' \subseteq begun,
           \A p \in begun' : HasIncident(p[1], p[2]) =>
              \/ HasIncident(p[1], p[2])'
              \/ /\ Past(p[1], p[2])
                 /\ \A j \in DOMAIN Line : ~Updates(Line[j], p[1], "incident", p[2])
    PROVE  BegunCore'
<1>1. \A j \in DOMAIN Line' : j \in Nat /\ j + d \in DOMAIN Line /\ Line'[j] = Line[j + d]
  BY DEF Keeps
<1>2. \A j, k \in DOMAIN Line' : (j < k <=> j + d < k + d) /\ (j > k <=> j + d > k + d)
  BY <1>1
<1>3. \A n, x : Past(n, x)' <=> Past(n, x)
  BY DEF Past, InEngine
<1>4. BegunWithoutDocument'
  <2> SUFFICES ASSUME NEW p \in begun', ~HasIncident(p[1], p[2])'
               PROVE  /\ Past(p[1], p[2])'
                      /\ \A j \in DOMAIN Line' : ~Updates(Line'[j], p[1], "incident", p[2])
    BY DEF BegunWithoutDocument, Updates
  <2>1. Past(p[1], p[2]) /\ \A j \in DOMAIN Line : ~Updates(Line[j], p[1], "incident", p[2])
    <3>1. p \in begun
      OBVIOUS
    <3> QED
      BY <3>1 DEF BegunCore, BegunWithoutDocument
  <2> QED
    BY <1>1, <1>3, <2>1
<1>5. RemovedBehind'
  <2> SUFFICES ASSUME NEW n \in Networks, NEW x \in Incidents, NEW j \in DOMAIN Line',
                      Kills(Line'[j], n, "incident", x)
               PROVE  \/ Past(n, x)' /\ \A k \in DOMAIN Line' : k > j => ~Updates(Line'[k], n, "incident", x)
                      \/ <<n, x>> \notin begun' /\ \A k \in DOMAIN Line' : k < j => ~Updates(Line'[k], n, "incident", x)
    BY DEF RemovedBehind, Updates, Kills
  <2>1. Kills(Line[j + d], n, "incident", x) /\ j + d \in DOMAIN Line
    BY <1>1
  <2>2. CASE Past(n, x) /\ \A k \in DOMAIN Line : k > j + d => ~Updates(Line[k], n, "incident", x)
    BY <1>1, <1>2, <1>3, <2>2
  <2>3. CASE <<n, x>> \notin begun /\ \A k \in DOMAIN Line : k < j + d => ~Updates(Line[k], n, "incident", x)
    BY <1>1, <1>2, <2>3
  <2> QED
    BY <2>1, <2>2, <2>3 DEF BegunCore, RemovedBehind
<1>6. FirstSeen'
  BY <1>1 DEF BegunCore, FirstSeen, Updates
<1> QED
  BY <1>4, <1>5, <1>6 DEF BegunCore

(* What a report must be for the notifications.                            *)
LEMMA ToldReported ==
    ASSUME BaseInv, BegunCore, NEW r \in Seq(Message), msgs' = msgs \o r,
           UNCHANGED <<handler, docs, begun>>, used \subseteq used',
           \A n \in Networks, x \in Incidents : \A k \in DOMAIN r :
              /\ Updates(r[k], n, "incident", x) => InEngine(n, x)'
              /\ Kills(r[k], n, "incident", x) => ~InEngine(n, x)',
           \A n \in Networks, x \in Incidents :
              InEngine(n, x)' => <<n, x>> \in used' /\ (InEngine(n, x) \/ <<n, x>> \notin used)
    PROVE  BegunCore'
<1>1. /\ \A j \in DOMAIN Line : j \in Nat /\ j \in DOMAIN Line' /\ Line'[j] = Line[j]
      /\ \A j \in DOMAIN Line' : j \in DOMAIN Line \/ \E k \in DOMAIN r : Line'[j] = r[k] /\ \A i \in DOMAIN Line : i < j
  <2>1. /\ \A j \in DOMAIN Line : j \in DOMAIN Line' /\ Line'[j] = Line[j]
        /\ \A k \in DOMAIN r : Len(Line) + k \in DOMAIN Line' /\ Line'[Len(Line) + k] = r[k]
        /\ \A j \in DOMAIN Line' : j \in DOMAIN Line \/ \E k \in DOMAIN r : j = Len(Line) + k
        /\ \A j \in DOMAIN Line, k \in DOMAIN r : j < Len(Line) + k
        /\ DOMAIN Line \subseteq Nat
    BY LineReported
  <2> QED
    BY <2>1
<1>2. \A n \in Networks, x \in Incidents : Past(n, x) => Past(n, x)'
  BY DEF Past
<1>3. begun \subseteq Notices /\ \A p \in begun : p[1] \in Networks /\ p[2] \in Incidents
  BY DEF BaseInv, FitInv, RestOK, Notices
<1>4. BegunWithoutDocument'
  <2> SUFFICES ASSUME NEW p \in begun, ~HasIncident(p[1], p[2])
               PROVE  /\ Past(p[1], p[2])'
                      /\ \A j \in DOMAIN Line' : ~Updates(Line'[j], p[1], "incident", p[2])
    BY DEF BegunWithoutDocument, Updates, HasIncident
  <2>1. Past(p[1], p[2]) /\ \A j \in DOMAIN Line : ~Updates(Line[j], p[1], "incident", p[2])
    BY DEF BegunCore, BegunWithoutDocument
  <2>2. Past(p[1], p[2])'
    BY <1>2, <1>3, <2>1
  <2>3. \A j \in DOMAIN Line' : ~Updates(Line'[j], p[1], "incident", p[2])
    BY <1>1, <1>3, <2>1, <2>2 DEF Past
  <2> QED
    BY <2>2, <2>3
<1>5. FirstSeen'
  <2> SUFFICES ASSUME NEW n \in Networks, NEW x \in Incidents, <<n, x>> \notin used'
               PROVE  <<n, x>> \notin begun /\ \A j \in DOMAIN Line' : ~Updates(Line'[j], n, "incident", x)
    BY DEF FirstSeen, Updates
  <2> QED
    BY <1>1 DEF BegunCore, FirstSeen
<1>6. RemovedBehind'
  <2> SUFFICES ASSUME NEW n \in Networks, NEW x \in Incidents, NEW j \in DOMAIN Line',
                      Kills(Line'[j], n, "incident", x)
               PROVE  \/ Past(n, x)' /\ \A k \in DOMAIN Line' : k > j => ~Updates(Line'[k], n, "incident", x)
                      \/ <<n, x>> \notin begun /\ \A k \in DOMAIN Line' : k < j => ~Updates(Line'[k], n, "incident", x)
    BY DEF RemovedBehind, Updates, Kills
  <2>1. CASE j \in DOMAIN Line
    <3>1. Kills(Line[j], n, "incident", x) /\ j \in Nat
      BY <1>1, <2>1
    <3>2. CASE Past(n, x) /\ \A k \in DOMAIN Line : k > j => ~Updates(Line[k], n, "incident", x)
      <4>1. Past(n, x)' /\ ~InEngine(n, x)'
        BY <1>2, <3>2 DEF Past
      <4> QED
        BY <1>1, <3>2, <4>1
    <3>3. CASE <<n, x>> \notin begun /\ \A k \in DOMAIN Line : k < j => ~Updates(Line[k], n, "incident", x)
      <4>1. \A k \in DOMAIN Line' : k < j => k \in DOMAIN Line
        <5> SUFFICES ASSUME NEW k \in DOMAIN Line', k < j, k \notin DOMAIN Line PROVE FALSE
          OBVIOUS
        <5>1. j < k
          BY <1>1, <2>1
        <5>2. k \in Nat
          BY LineReported
        <5> QED
          BY <3>1, <5>1, <5>2
      <4> QED
        BY <1>1, <3>3, <4>1
    <3> QED
      BY <2>1, <3>1, <3>2, <3>3 DEF BegunCore, RemovedBehind
  <2>2. CASE j \notin DOMAIN Line
    <3>1. ~InEngine(n, x)'
      BY <1>1, <2>2
    <3>2. \A k \in DOMAIN Line' : k \notin DOMAIN Line => ~Updates(Line'[k], n, "incident", x)
      BY <1>1, <3>1
    <3>3. CASE <<n, x>> \in used'
      <4>1. \A k \in DOMAIN Line' : k > j => k \notin DOMAIN Line
        <5> SUFFICES ASSUME NEW k \in DOMAIN Line', k > j, k \in DOMAIN Line PROVE FALSE
          OBVIOUS
        <5>1. k < j
          BY <1>1, <2>2
        <5>2. k \in Nat /\ j \in Nat
          BY <1>1, LineReported
        <5> QED
          BY <5>1, <5>2
      <4> QED
        BY <3>1, <3>2, <3>3, <4>1 DEF Past
    <3>4. CASE <<n, x>> \notin used'
      BY <1>5, <3>4 DEF FirstSeen, Updates
    <3> QED
      BY <3>3, <3>4
  <2> QED
    BY <2>1, <2>2
<1> QED
  BY <1>4, <1>5, <1>6 DEF BegunCore

(* No report of a change removes what the engine has then.                 *)
LEMMA ChangesSpare ==
    ASSUME NEW n, NEW new, Sound(new), NEW m \in Changes(n, new), NEW f \in new
    PROVE  ~Kills(m, n, f.kind, f.id)
<1> SUFFICES ASSUME Kills(m, n, f.kind, f.id) PROVE FALSE
  OBVIOUS
<1>1. PICK e \in engine[n] : m = DeleteMessage(n, e) /\ \A y \in new : ~(y.kind = e.kind /\ y.id = e.id)
  <2>1. m.op # "update"
    BY DEF Kills
  <2> QED
    BY <2>1 DEF Changes, UpdateMessage
<1>2. m.kind = e.kind /\ m.id = e.id /\ m.op = "delete"
  BY <1>1 DEF DeleteMessage
<1>3. /\ \A y \in new : y.kind = "instance" => \E z \in new : z.kind = "definition" /\ z.id = DefinitionOf[y.id]
      /\ \A y \in new : y.kind = "incident" => \E z \in new : z.kind = "instance" /\ z.id = InstanceOf[y.id]
  BY DEF Sound, Closed
<1> QED
  BY <1>1, <1>2, <1>3 DEF Kills

(* No list of what a client knows removes what its engine has.             *)
LEMMA KnownSpares ==
    ASSUME NEW n, Sound(engine[n]), NEW kind, NEW f \in engine[n]
    PROVE  ~Kills(KnownMessage(n, kind), n, f.kind, f.id)
<1> DEFINE m == KnownMessage(n, kind)
<1>1. m.op = "known" /\ m.kind = kind /\ m.ids = {e.id : e \in {x \in engine[n] : x.kind = kind}}
  BY DEF KnownMessage
<1>2. \A e \in engine[n] : e.kind = kind => e.id \in m.ids
  BY <1>1
<1>3. /\ \A y \in engine[n] : y.kind = "instance" => \E z \in engine[n] : z.kind = "definition" /\ z.id = DefinitionOf[y.id]
      /\ \A y \in engine[n] : y.kind = "incident" => \E z \in engine[n] : z.kind = "instance" /\ z.id = InstanceOf[y.id]
  BY DEF Sound, Closed
<1> HIDE DEF m
<1> QED
  BY <1>1, <1>2, <1>3 DEF Kills, m

LEMMA ToldBecomes ==
    ASSUME BaseInv, BegunCore, NEW n \in Networks, NEW new, Evolves(n, new), Becomes(n, new)
    PROVE  BegunCore'
<1> PICK r \in Seq(Message) : msgs' = msgs \o r /\ Sends(r, Changes(n, new))
  BY BecomesReports DEF BaseInv
<1>1. msgs' = msgs \o r /\ \A k \in DOMAIN r : r[k] \in Changes(n, new)
  BY DEF Sends
<1>2. UNCHANGED <<handler, docs, begun>> /\ used' = used \cup {<<n, e.id>> : e \in new}
  BY DEF Becomes, noticeVars
<1>3. Sound(new) /\ \A e \in new \ engine[n] : <<n, e.id>> \notin used \/ e.kind = "history"
  BY DEF Evolves
<1>4. engine' = [engine EXCEPT ![n] = new] /\ engine \in [Networks -> SUBSET Entity]
  BY DEF Becomes, BaseInv, ListedInv, Shape
<1>5. engine'[n] = new /\ \A k \in Networks : k # n => engine'[k] = engine[k]
  BY <1>4
<1>6. EngineSound
  BY DEF BaseInv, FitInv
<1>7. ASSUME NEW k \in Networks, NEW x \in Incidents, InEngine(k, x)'
      PROVE  <<k, x>> \in used' /\ (InEngine(k, x) \/ <<k, x>> \notin used)
  <2>1. PICK e \in engine'[k] : e.kind = "incident" /\ e.id = x
    BY <1>7 DEF InEngine
  <2>2. CASE k = n
    BY <1>2, <1>3, <1>5, <2>1, <2>2 DEF InEngine
  <2>3. CASE k # n
    BY <1>2, <1>5, <1>6, <2>1, <2>3 DEF InEngine, EngineSound
  <2> QED
    BY <2>2, <2>3
<1>8. ASSUME NEW k \in Networks, NEW x \in Incidents, NEW j \in DOMAIN r
      PROVE  /\ Updates(r[j], k, "incident", x) => InEngine(k, x)'
             /\ Kills(r[j], k, "incident", x) => ~InEngine(k, x)'
  <2>1. r[j] \in Changes(n, new)
    BY <1>1
  <2>2. r[j].net = n
    BY <2>1 DEF Changes, UpdateMessage, DeleteMessage
  <2>3. ASSUME Updates(r[j], k, "incident", x) PROVE InEngine(k, x)'
    <3>1. r[j].op = "update" /\ k = n
      BY <2>2, <2>3 DEF Updates
    <3>2. \E e \in new : r[j] = UpdateMessage(n, e)
      BY <2>1, <3>1 DEF Changes, DeleteMessage
    <3>3. r[j].entity \in new
      BY <3>2 DEF UpdateMessage
    <3> QED
      BY <1>5, <2>3, <3>1, <3>3 DEF Updates, InEngine
  <2>4. ASSUME Kills(r[j], k, "incident", x), InEngine(k, x)' PROVE FALSE
    <3>1. k = n
      BY <2>2, <2>4 DEF Kills
    <3>2. PICK e \in new : e.kind = "incident" /\ e.id = x
      BY <1>5, <2>4, <3>1 DEF InEngine
    <3> QED
      BY <1>3, <2>1, <2>4, <3>1, <3>2, ChangesSpare
  <2> QED
    BY <2>3, <2>4
<1> QED
  BY <1>1, <1>2, <1>7, <1>8, ToldReported

LEMMA ToldFullReport ==
    ASSUME BaseInv, BegunCore, NEW n \in Networks, FullReport(n)
    PROVE  BegunCore'
<1>1. PICK r \in Seq(Message) :
         /\ msgs' = msgs \o r
         /\ \A k \in DOMAIN r : k \in 1..4 => \E kind \in Kinds : r[k] = KnownMessage(n, kind)
         /\ \A k \in DOMAIN r : k \notin 1..4 => k > 4 /\ \E e \in engine[n] : r[k] = UpdateMessage(n, e)
  BY FullReports DEF BaseInv
<1>2. UNCHANGED <<handler, docs, begun, engine, used>>
  BY DEF FullReport, noticeVars, clientVars
<1>3. EngineSound /\ Sound(engine[n])
  BY DEF BaseInv, FitInv, EngineSound
<1>4. \A k \in Networks, x \in Incidents : InEngine(k, x)' => <<k, x>> \in used' /\ InEngine(k, x)
  BY <1>2, <1>3 DEF EngineSound, InEngine
<1>5. ASSUME NEW k \in Networks, NEW x \in Incidents, NEW j \in DOMAIN r
      PROVE  /\ Updates(r[j], k, "incident", x) => InEngine(k, x)'
             /\ Kills(r[j], k, "incident", x) => ~InEngine(k, x)'
  <2>1. CASE j \in 1..4
    <3>1. PICK kind \in Kinds : r[j] = KnownMessage(n, kind)
      BY <1>1, <2>1
    <3>2. r[j].op = "known" /\ r[j].net = n
      BY <3>1 DEF KnownMessage
    <3>3. ASSUME Kills(r[j], k, "incident", x), InEngine(k, x) PROVE FALSE
      <4>1. k = n
        BY <3>2, <3>3 DEF Kills
      <4>2. PICK e \in engine[n] : e.kind = "incident" /\ e.id = x
        BY <3>3, <4>1 DEF InEngine
      <4> QED
        BY <1>3, <3>1, <3>3, <4>1, <4>2, KnownSpares
    <3>4. InEngine(k, x)' <=> InEngine(k, x)
      BY <1>2 DEF InEngine
    <3> QED
      BY <3>2, <3>3, <3>4 DEF Updates
  <2>2. CASE j \notin 1..4
    <3>1. PICK e \in engine[n] : r[j] = UpdateMessage(n, e)
      BY <1>1, <2>2
    <3>2. r[j].op = "update" /\ r[j].net = n /\ r[j].entity = e
      BY <3>1 DEF UpdateMessage
    <3> QED
      BY <1>2, <3>2 DEF Updates, Kills, InEngine
  <2> QED
    BY <2>1, <2>2
<1> QED
  BY <1>1, <1>2, <1>4, <1>5, ToldReported

(* The first message of the line, once it is done, is behind all others.   *)
LEMMA ToldSaveIncident ==
    ASSUME BaseInv, BegunCore, SaveIncident
    PROVE  /\ BegunCore'
           /\ \A p \in notifying' \ notifying : p \notin begun
<1> SUFFICES ASSUME NEW n, n = handler.msg.net, NEW x, x = handler.msg.entity.id
             PROVE  /\ BegunCore'
                    /\ \A p \in notifying' \ notifying : p \notin begun
  OBVIOUS
<1> DEFINE m == handler.msg
           d == DocumentOf(n, m.entity)
<1>1. /\ handler # Idle /\ m \in Message /\ m.op = "update" /\ m.entity \in Things
      /\ m.kind = "incident" /\ m.entity.kind = "incident" /\ Len(handler.todo) = 1
      /\ docs' = Save(docs, d)
  BY SaveFits
<1>2. n \in Networks /\ x \in Incidents
  BY <1>1, MessageShape, ThingIs DEF IdsOf
<1>3. Drops(1)
  BY <1>1, LineExecuted DEF SaveIncident
<1>4. 1 \in DOMAIN Line /\ Updates(Line[1], n, "incident", x)
  BY <1>1, LineShape DEF Updates
<1>5. UNCHANGED <<engine, used, waived>>
  BY DEF SaveIncident, clientVars
<1>6. \/ NewDocument(n, x) /\ notifying' = notifying \cup {<<n, x>>} /\ begun' = begun \cup {<<n, x>>}
      \/ UNCHANGED <<notifying, begun>>
  BY DEF SaveIncident
<1>7. NewDocument(n, x) => ~HasIncident(n, x)
  BY DEF NewDocument, RemoveIncident, Of, HasIncident
<1>8. NewDocument(n, x) => <<n, x>> \notin begun
  <2> SUFFICES ASSUME ~HasIncident(n, x), <<n, x>> \in begun PROVE FALSE
    BY <1>7
  <2> DEFINE p == <<n, x>>
  <2>1. p \in begun /\ p[1] = n /\ p[2] = x
    OBVIOUS
  <2> HIDE DEF p
  <2>2. ~Updates(Line[1], p[1], "incident", p[2])
    BY <1>4, <2>1 DEF BegunCore, BegunWithoutDocument
  <2> QED
    BY <1>4, <2>1, <2>2
<1>9. /\ \A k, i : HasIncident(k, i) => HasIncident(k, i)'
      /\ HasIncident(n, x)'
  <2>1. d.net = n /\ d.kind = "incident" /\ d.id = x
    BY <1>1 DEF DocumentOf
  <2> HIDE DEF d
  <2>2. d \in docs' /\ \A e \in docs : e \in docs' \/ (e.net = d.net /\ e.kind = d.kind /\ e.id = d.id)
    BY <1>1 DEF Save
  <2> QED
    BY <2>1, <2>2 DEF HasIncident
<1> HIDE DEF m, d
<1>10. /\ \A j \in DOMAIN Line' : j \in Nat /\ j + 1 \in DOMAIN Line /\ Line'[j] = Line[j + 1]
       /\ DOMAIN Line \subseteq Nat
  BY <1>3, LineShape DEF Drops, Keeps
<1>11. \A j, k \in DOMAIN Line' : (j < k <=> j + 1 < k + 1) /\ (j > k <=> j + 1 > k + 1)
  BY <1>10
<1>12. \A k, i : Past(k, i)' <=> Past(k, i)
  BY <1>5 DEF Past, InEngine
<1>13. <<n, x>> \in used
  BY <1>2, <1>4 DEF BegunCore, FirstSeen
<1>14. \A p \in begun' : p \in begun \/ p = <<n, x>>
  BY <1>6
<1>15. BegunWithoutDocument'
  <2> SUFFICES ASSUME NEW p \in begun', ~HasIncident(p[1], p[2])'
               PROVE  /\ Past(p[1], p[2])'
                      /\ \A j \in DOMAIN Line' : ~Updates(Line'[j], p[1], "incident", p[2])
    BY DEF BegunWithoutDocument, Updates
  <2>1. p # <<n, x>>
    <3> SUFFICES ASSUME p = <<n, x>> PROVE FALSE
      OBVIOUS
    <3>1. p[1] = n /\ p[2] = x
      OBVIOUS
    <3> QED
      BY <1>9, <3>1
  <2>2. p \in begun /\ ~HasIncident(p[1], p[2])
    BY <1>9, <1>14, <2>1
  <2> QED
    BY <1>10, <1>12, <2>2 DEF BegunCore, BegunWithoutDocument
<1>16. RemovedBehind'
  <2> SUFFICES ASSUME NEW k \in Networks, NEW i \in Incidents, NEW j \in DOMAIN Line',
                      Kills(Line'[j], k, "incident", i)
               PROVE  \/ Past(k, i)' /\ \A l \in DOMAIN Line' : l > j => ~Updates(Line'[l], k, "incident", i)
                      \/ <<k, i>> \notin begun' /\ \A l \in DOMAIN Line' : l < j => ~Updates(Line'[l], k, "incident", i)
    BY DEF RemovedBehind, Updates, Kills
  <2>1. Kills(Line[j + 1], k, "incident", i) /\ j + 1 \in DOMAIN Line /\ 1 < j + 1
    <3>1. j >= 1 /\ j \in Nat
      BY <1>3 DEF Drops, Keeps
    <3> QED
      BY <1>10, <3>1
  <2>2. CASE Past(k, i) /\ \A l \in DOMAIN Line : l > j + 1 => ~Updates(Line[l], k, "incident", i)
    BY <1>10, <1>11, <1>12, <2>2
  <2>3. CASE <<k, i>> \notin begun /\ \A l \in DOMAIN Line : l < j + 1 => ~Updates(Line[l], k, "incident", i)
    <3>1. ~Updates(Line[1], k, "incident", i)
      BY <1>4, <2>1, <2>3
    <3>2. <<k, i>> # <<n, x>>
      BY <1>4, <3>1
    <3> QED
      BY <1>10, <1>11, <1>14, <2>3, <3>2
  <2> QED
    BY <2>1, <2>2, <2>3 DEF BegunCore, RemovedBehind
<1>17. FirstSeen'
  <2> SUFFICES ASSUME NEW k \in Networks, NEW i \in Incidents, <<k, i>> \notin used
               PROVE  <<k, i>> \notin begun' /\ \A j \in DOMAIN Line' : ~Updates(Line'[j], k, "incident", i)
    BY <1>5 DEF FirstSeen, Updates
  <2>1. <<k, i>> # <<n, x>>
    BY <1>13
  <2> QED
    BY <1>10, <1>14, <2>1 DEF BegunCore, FirstSeen
<1>18. \A p \in notifying' \ notifying : p \notin begun
  BY <1>6, <1>8
<1> QED
  BY <1>15, <1>16, <1>17, <1>18 DEF BegunCore

(* A handler that removes the document of a begun notification's incident:  *)
(* the incident is of the past.                                            *)
LEMMA ToldRemoveDocuments ==
    ASSUME BaseInv, BegunCore, RemoveDocuments
    PROVE  BegunCore'
<1> DEFINE m == handler.msg
           c == handler.todo[1]
<1>1. HandlerShape /\ HandlerFits /\ Executes(RemoveCommands) /\ UNCHANGED <<msgs, engine, used, begun>>
  BY DEF BaseInv, ListedInv, FitInv, RemoveDocuments, clientVars, noticeVars
<1>2. /\ handler # Idle /\ m \in Message /\ CommandsFit(handler.todo, m)
      /\ Head(handler.todo) = c /\ 1 \in 1..Len(handler.todo)
  BY <1>1, ExecutedFits
<1>3. docs' = docs \ Removed(c, m)
  BY <1>2 DEF RemoveDocuments
<1>4. \E d \in {0, 1} : Keeps(d)
  BY <1>1, LineExecuted, SameLine DEF Drops
<1>5. 1 \in DOMAIN Line /\ Line[1] = m /\ DOMAIN Line \subseteq Nat /\ \A j \in DOMAIN Line : j >= 1
  BY <1>2, LineShape
<1> HIDE DEF c, m
<1>6. ASSUME NEW p \in begun, ~HasIncident(p[1], p[2])'
      PROVE  Past(p[1], p[2]) /\ \A j \in DOMAIN Line : ~Updates(Line[j], p[1], "incident", p[2])
  <2>1. CASE ~HasIncident(p[1], p[2])
    BY <2>1 DEF BegunCore, BegunWithoutDocument
  <2>2. CASE HasIncident(p[1], p[2])
    <3>1. PICK d \in docs : d.net = p[1] /\ d.kind = "incident" /\ d.id = p[2]
      BY <2>2 DEF HasIncident
    <3>2. d \in Removed(c, m)
      BY <1>3, <1>6, <3>1 DEF HasIncident
    <3>3. Deletes(c, m, "incident", p[2]) /\ m.net = p[1]
      BY <3>1, <3>2, RemovedIsDeleted
    <3>4. p[1] \in Networks /\ p[2] \in Incidents /\ p = <<p[1], p[2]>>
      BY DEF BaseInv, FitInv, RestOK, Notices
    <3>5. Kills(m, p[1], "incident", p[2])
      <4>1. "incident" \in Kinds /\ p[2] \in IdsOf("incident")
        BY <3>4 DEF Kinds, IdsOf
      <4> QED
        BY <1>2, <3>3, <4>1 DEF CommandsFit, c
    <3>6. Past(p[1], p[2]) /\ \A k \in DOMAIN Line : k > 1 => ~Updates(Line[k], p[1], "incident", p[2])
      BY <1>5, <3>4, <3>5 DEF BegunCore, RemovedBehind
    <3>7. ~Updates(Line[1], p[1], "incident", p[2])
      BY <1>5, <3>5 DEF Kills, Updates
    <3> QED
      BY <1>5, <3>6, <3>7
  <2> QED
    BY <2>1, <2>2
<1>7. PICK d \in {0, 1} : Keeps(d)
  BY <1>4
<1> QED
  BY <1>1, <1>6, <1>7, ToldKept

(* The other steps.                                                        *)
LEMMA ToldHandlerSteps ==
    ASSUME BaseInv, BegunCore, Receive \/ SaveLastContact \/ SaveDocument \/ CommandFails
    PROVE  BegunCore'
<1>1. UNCHANGED <<engine, used, begun>>
  BY DEF Receive, SaveLastContact, SaveDocument, CommandFails, clientVars, noticeVars
<1>2. \E d \in {0, 1} : Keeps(d)
  <2>1. CASE Receive
    BY <2>1, LineReceived, SameLine DEF Drops
  <2>2. ASSUME NEW C, Executes(C), UNCHANGED msgs PROVE \E d \in {0, 1} : Keeps(d)
    BY <2>2, LineExecuted, SameLine DEF Drops
  <2> QED
    BY <2>1, <2>2 DEF SaveLastContact, SaveDocument, CommandFails
<1>3. \A n, x : HasIncident(n, x) => HasIncident(n, x)'
  <2>1. CASE SaveDocument
    <3> DEFINE d == DocumentOf(handler.msg.net, handler.msg.entity)
    <3>1. docs' = Save(docs, d)
      BY <2>1, SaveFits
    <3> HIDE DEF d
    <3>2. d \in docs' /\ \A e \in docs : e \in docs' \/ (e.net = d.net /\ e.kind = d.kind /\ e.id = d.id)
      BY <3>1 DEF Save
    <3> QED
      BY <3>2 DEF HasIncident
  <2>2. CASE UNCHANGED docs
    BY <2>2 DEF HasIncident
  <2> QED
    BY <2>1, <2>2 DEF Receive, SaveLastContact, CommandFails
<1>4. PICK d \in {0, 1} : Keeps(d)
  BY <1>2
<1> QED
  BY <1>1, <1>3, <1>4, ToldKept

LEMMA ToldRequests ==
    ASSUME BaseInv, BegunCore, Requests \/ ApiSteps
    PROVE  BegunCore'
<1>1. UNCHANGED <<msgs, handler, engine, used>>
  BY DEF Requests, StartSavesPlaceholders, ApiDeleteIncident, DeleteHistoryReads, ApiSteps,
         DeleteHistoryRemoves, DeleteHistorySends, DeleteHistorySaves, clientVars
<1>2. Keeps(0)
  BY <1>1, SameLine DEF Line, Drops
<1>3. ASSUME UNCHANGED begun, \A d \in docs : d.kind = "incident" => d \in docs' PROVE BegunCore'
  BY <1>1, <1>2, <1>3, ToldKept DEF HasIncident
<1>4. ASSUME NEW n \in Networks, NEW i \in Incidents, ApiDeleteIncident(n, i) PROVE BegunCore'
  <2>1. begun' = begun \ {<<n, i>>} /\ docs' = docs \ RemoveIncident(n, i)
    BY <1>4 DEF ApiDeleteIncident
  <2>2. \A p \in begun' : p[1] # n \/ p[2] # i
    BY <2>1 DEF BaseInv, FitInv, RestOK, Notices
  <2>3. \A d \in docs : d.net # n \/ d.id # i => d \in docs'
    BY <2>1 DEF RemoveIncident, Of
  <2>4. \A p \in begun' : HasIncident(p[1], p[2]) => HasIncident(p[1], p[2])'
    BY <2>2, <2>3 DEF HasIncident
  <2> QED
    BY <1>1, <1>2, <2>1, <2>4, ToldKept
<1>5. ASSUME NEW n \in Networks, NEW p \in Placeholders, StartSavesPlaceholders(n, p) PROVE BegunCore'
  BY <1>3, <1>5 DEF StartSavesPlaceholders, noticeVars
<1>6. ASSUME NEW d \in docs, DeleteHistoryReads(d) PROVE BegunCore'
  BY <1>3, <1>6 DEF DeleteHistoryReads, noticeVars
<1>7. ASSUME DeleteHistoryRemoves PROVE BegunCore'
  BY <1>3, <1>7 DEF DeleteHistoryRemoves, RemoveHistoricProcessInstance, Of, noticeVars
<1>8. ASSUME DeleteHistorySends PROVE BegunCore'
  BY <1>3, <1>8 DEF DeleteHistorySends, noticeVars
<1>9. ASSUME DeleteHistorySaves PROVE BegunCore'
  <2> DEFINE d == [api.doc EXCEPT !.marked = TRUE]
  <2>1. api # Idle /\ docs' = Save(docs, d) /\ UNCHANGED begun
    BY <1>9 DEF DeleteHistorySaves, Idle, noticeVars
  <2>2. api.doc.kind = "history" /\ api.doc \in Document
    BY <2>1 DEF BaseInv, ListedInv, ApiShape, FitInv, ApiFits
  <2>3. d.kind = "history"
    BY <2>2 DEF Document
  <2> HIDE DEF d
  <2> QED
    BY <1>3, <2>1, <2>3 DEF Save
<1> QED
  BY <1>4, <1>5, <1>6, <1>7, <1>8, <1>9 DEF Requests, ApiSteps

LEMMA ToldOthers ==
    ASSUME BaseInv, BegunCore,
           BeginCleanup \/ CleanupSteps \/ CleanupFails \/ Time \/ Stops \/ LosesMessages \/ Presence
              \/ Notifications \/ NotificationsFail
    PROVE  BegunCore'
<1>1. UNCHANGED <<engine, used>>
  BY DEF BeginCleanup, CleanupSteps, RemoveOldDocuments, RemoveOldContacts, CleanupFails, Time,
         ContactAges, Stops, LosesMessages, Presence, FallsSilent, Returns, Notifications,
         NotificationSent, NotificationsFail, NotificationFails, clientVars
<1>2. Keeps(0)
  <2>1. CASE Stops \/ LosesMessages
    BY <2>1, LineLost
  <2>2. CASE UNCHANGED <<msgs, handler>>
    BY <2>2, SameLine DEF Line, Drops
  <2> QED
    BY <2>1, <2>2
    DEF BeginCleanup, CleanupSteps, RemoveOldDocuments, RemoveOldContacts, CleanupFails, Time,
        ContactAges, Presence, FallsSilent, Returns, Notifications, NotificationSent,
        NotificationsFail, NotificationFails
<1>3. CASE RemoveOldDocuments
  <2> DEFINE kind == CleanupOrder[cleaner.at]
  <2>1. docs' = {d \in docs : d.net \notin cleaner.nets \/ d.kind # kind}
        /\ begun' = IF kind = "incident" THEN {p \in begun : p[1] \notin cleaner.nets} ELSE begun
    BY <1>3 DEF RemoveOldDocuments
  <2> HIDE DEF kind
  <2>2. begun' \subseteq begun /\ \A p \in begun' : kind # "incident" \/ p[1] \notin cleaner.nets
    BY <2>1
  <2>3. \A p \in begun' : HasIncident(p[1], p[2]) => HasIncident(p[1], p[2])'
    BY <2>1, <2>2 DEF HasIncident
  <2> QED
    BY <1>1, <1>2, <2>2, <2>3, ToldKept
<1>4. CASE ~RemoveOldDocuments
  <2>1. UNCHANGED <<docs, begun>>
    BY <1>4 DEF BeginCleanup, CleanupSteps, RemoveOldContacts, CleanupFails, Time,
       ContactAges, Stops, LosesMessages, Presence, FallsSilent, Returns, Notifications,
       NotificationSent, NotificationsFail, NotificationFails, noticeVars
  <2> QED
    BY <1>1, <1>2, <2>1, ToldKept DEF HasIncident
<1> QED
  BY <1>3, <1>4

LEMMA ToldClients ==
    ASSUME BaseInv, BegunCore, ClientChanges \/ ClientAnswers
    PROVE  BegunCore'
<1>1. ListedInv /\ EngineSound /\ RestOK
  BY DEF BaseInv, FitInv
<1>2. ASSUME NEW n \in Networks, NEW d \in Definitions, Deploys(n, d) \/ Undeploys(n, d) PROVE BegunCore'
  BY <1>1, <1>2, ChangesEvolve, ToldBecomes
<1>3. ASSUME NEW n \in Networks, NEW i \in Instances, Runs(n, i) \/ Ends(n, i) PROVE BegunCore'
  BY <1>1, <1>3, ChangesEvolve, ToldBecomes
<1>4. ASSUME NEW n \in Networks, NEW x \in Incidents, Fails(n, x) PROVE BegunCore'
  BY <1>1, <1>4, ChangesEvolve, ToldBecomes
<1>5. ASSUME NEW c \in cmds, ObeysHistoryDelete(c) PROVE BegunCore'
  BY <1>1, <1>5, AnswersEvolve, ToldBecomes
<1> QED
  BY <1>2, <1>3, <1>4, <1>5, ToldFullReport DEF ClientChanges, ClientAnswers

LEMMA ToldStep ==
    ASSUME BaseInv, BegunCore, [Next]_vars
    PROVE  /\ BegunCore'
           /\ \A p \in notifying' \ notifying : p \notin begun
<1>1. CASE SaveIncident
  BY <1>1, ToldSaveIncident
<1>2. CASE ~SaveIncident /\ Next
  <2>1. notifying' \subseteq notifying
    BY <1>2 DEF Next, HandlerSteps, Receive, SaveLastContact, SaveDocument, RemoveDocuments,
       Notifications, NotificationSent,
       NotificationsFail, NotificationFails, Requests, StartSavesPlaceholders, ApiDeleteIncident,
       DeleteHistoryReads, ApiSteps, DeleteHistoryRemoves, DeleteHistorySends, DeleteHistorySaves,
       BeginCleanup, CleanupSteps, RemoveOldDocuments, RemoveOldContacts, Time, ContactAges,
       ClientChanges, Deploys, Undeploys, Runs, Ends, Fails, Becomes, ClientAnswers,
       ObeysHistoryDelete, FullReport, Failures, CommandFails, SaveIncidentFails, CleanupFails,
       Stops, LosesMessages, Presence, FallsSilent, Returns, noticeVars
  <2>2. BegunCore'
    BY <1>2, ToldHandlerSteps, ToldRemoveDocuments, ToldRequests, ToldOthers, ToldClients
    DEF Next, HandlerSteps, Failures, SaveIncidentFails
  <2> QED
    BY <2>1, <2>2
<1>3. CASE UNCHANGED vars
  <2>1. UNCHANGED <<docs, msgs, handler, engine, used, begun, notifying>>
    BY <1>3 DEF vars, clientVars, noticeVars
  <2>2. Keeps(0)
    BY <2>1, SameLine DEF Line, Drops
  <2> QED
    BY <2>1, <2>2, ToldKept DEF HasIncident
<1> QED
  BY <1>1, <1>2, <1>3

(* A user is notified once of an incident, whatever reports, removals,     *)
(* cleanups, losses and stops interleave, unless its document was removed  *)
(* by a user or by the cleanup in between: controller/incident.go.         *)
THEOREM NotifiedOnceOnly == Spec => NotifiedOnce
<1>1. Init => BaseInv /\ BegunCore
  <2> SUFFICES ASSUME Init PROVE BegunCore
    BY BaseInvInit
  <2>1. Line = <<>> /\ begun = {}
    BY DEF Init, Line
  <2> QED
    BY <2>1 DEF BegunCore, BegunWithoutDocument, RemovedBehind, FirstSeen
<1>2. BaseInv /\ BegunCore /\ [Next]_vars => (BaseInv /\ BegunCore)'
  BY BaseInvStep, ToldStep
<1>3. BaseInv /\ BegunCore /\ [Next]_vars => [\A p \in notifying' \ notifying : p \notin begun]_vars
  BY ToldStep
<1> QED
  BY <1>1, <1>2, <1>3, PTL DEF Spec, NotifiedOnce

-----------------------------------------------------------------------------
(* The copy in steps that only take from the line                          *)

(* The messages of n in the line, but for the first d, stay in it.         *)
Tracks(n, d) ==
    /\ d \in {0, 1} /\ Keeps(d)
    /\ \A j \in DOMAIN Line : j > d /\ Line[j].net = n => j - d \in DOMAIN Line' /\ Line'[j - d] = Line[j]

LEMMA ConcernsItsNetwork ==
    ASSUME NEW m, NEW n, NEW kind, NEW i
    PROVE  Concerns(m, n, kind, i) => m.net = n
BY DEF Concerns, Kills, Updates

LEMMA DropsTracks ==
    ASSUME NEW d \in {0, 1}, Drops(d), NEW n
    PROVE  Tracks(n, d)
BY DEF Drops, Tracks

(* What concerns something stays before its last report.                   *)
LEMMA LastKept ==
    ASSUME BaseInv, NEW n \in Networks, NEW d, Tracks(n, d), engine'[n] = engine[n]
    PROVE  /\ HeldIsReportedLast(n) => HeldIsReportedLast(n)'
           /\ StaleIsConcerned(n) => StaleIsConcerned(n)'
<1>1. /\ d \in {0, 1} /\ DOMAIN Line \subseteq Nat
      /\ \A j \in DOMAIN Line' : j \in Nat /\ j >= 1 /\ j + d \in DOMAIN Line /\ Line'[j] = Line[j + d]
      /\ \A j \in DOMAIN Line : j > d /\ Line[j].net = n => j - d \in DOMAIN Line' /\ Line'[j - d] = Line[j]
  BY LineShape DEF Tracks, Keeps
<1>2. \A j \in DOMAIN Line', k \in DOMAIN Line : k > j + d => k > d /\ k - d > j
  BY <1>1
<1>3. ASSUME HeldIsReportedLast(n) PROVE HeldIsReportedLast(n)'
  <2> SUFFICES ASSUME NEW e \in engine[n], NEW j \in DOMAIN Line',
                      Concerns(Line'[j], n, e.kind, e.id), ~Brings(Line'[j], n, e)
               PROVE  \E k \in DOMAIN Line' : k > j /\ Brings(Line'[k], n, e)
    BY DEF HeldIsReportedLast, Concerns, Kills, Updates, Brings
  <2>1. PICK k \in DOMAIN Line : k > j + d /\ Brings(Line[k], n, e)
    BY <1>1, <1>3 DEF HeldIsReportedLast
  <2>2. k - d > j /\ k > d /\ Line[k].net = n
    BY <1>2, <2>1 DEF Brings
  <2> QED
    BY <1>1, <2>1, <2>2
<1>4. ASSUME StaleIsConcerned(n) PROVE StaleIsConcerned(n)'
  <2> SUFFICES ASSUME NEW j \in DOMAIN Line',
                      Line'[j].net = n, Line'[j].op = "update", Line'[j].entity \notin engine[n]
               PROVE  \E k \in DOMAIN Line' :
                         k > j /\ Concerns(Line'[k], n, Line'[j].entity.kind, Line'[j].entity.id)
    BY DEF StaleIsConcerned, Concerns, Kills, Updates
  <2>1. PICK k \in DOMAIN Line :
               k > j + d /\ Concerns(Line[k], n, Line[j + d].entity.kind, Line[j + d].entity.id)
    BY <1>1, <1>4 DEF StaleIsConcerned
  <2>2. k - d > j /\ k > d /\ Line[k].net = n
    BY <1>2, <2>1, ConcernsItsNetwork
  <2> QED
    BY <1>1, <2>1, <2>2
<1> QED
  BY <1>3, <1>4

LEMMA HeldKept ==
    ASSUME BaseInv, NEW n \in Networks, NEW d, Tracks(n, d), engine'[n] = engine[n],
           HeldIsCopied(n), waived \subseteq waived',
           \A e \in engine[n] : \A x \in docs : IsCopy(x, n, e) =>
              \/ \E y \in docs' : IsCopy(y, n, e)
              \/ e.kind = "incident" /\ <<n, e.id>> \in waived'
              \/ \E j \in DOMAIN Line : j > d /\ Brings(Line[j], n, e),
           \A e \in engine[n] : \A j \in DOMAIN Line :
              ~(j > d) /\ Brings(Line[j], n, e) => \E y \in docs' : IsCopy(y, n, e)
    PROVE  HeldIsCopied(n)'
<1>1. \A j \in DOMAIN Line : j > d /\ Line[j].net = n => j - d \in DOMAIN Line' /\ Line'[j - d] = Line[j]
  BY DEF Tracks
<1> SUFFICES ASSUME NEW e \in engine[n], ~(e.kind = "incident" /\ <<n, e.id>> \in waived')
             PROVE  \/ \E y \in docs' : IsCopy(y, n, e)
                    \/ \E j \in DOMAIN Line' : Brings(Line'[j], n, e)
  BY DEF HeldIsCopied, IsCopy, Thing, Brings
<1>2. ~(e.kind = "incident" /\ <<n, e.id>> \in waived)
  OBVIOUS
<1>3. CASE \E j \in DOMAIN Line : j > d /\ Brings(Line[j], n, e)
  BY <1>1, <1>3 DEF Brings
<1> QED
  BY <1>2, <1>3 DEF HeldIsCopied

LEMMA AbsentKept ==
    ASSUME BaseInv, NEW n \in Networks, NEW d, Tracks(n, d), engine'[n] = engine[n],
           AbsentIsLeaving(n), d = 1 => handler' = Idle,
           \A x \in docs' : x.net = n /\ Reported(x) /\ Thing(x.kind, x.id, x.ended) \notin engine[n] =>
              \/ \E j \in DOMAIN Line : j > 1 /\ Concerns(Line[j], n, x.kind, x.id)
              \/ /\ x \in docs
                 /\ StillConcerns(1, n, x.kind, x.id) =>
                       /\ d = 0
                       /\ handler' # Idle /\ handler'.msg.op # "update" =>
                             \E k \in 1..Len(handler'.todo) : Deletes(handler'.todo[k], handler'.msg, x.kind, x.id)
    PROVE  AbsentIsLeaving(n)'
<1>1. /\ d \in {0, 1} /\ DOMAIN Line \subseteq Nat /\ \A j \in DOMAIN Line : j >= 1
      /\ \A j \in DOMAIN Line : j > d /\ Line[j].net = n => j - d \in DOMAIN Line' /\ Line'[j - d] = Line[j]
  BY LineShape DEF Tracks
<1> SUFFICES ASSUME NEW x \in docs', x.net = n, Reported(x), Thing(x.kind, x.id, x.ended) \notin engine[n]
             PROVE  \E j \in DOMAIN Line' :
                       /\ Concerns(Line'[j], n, x.kind, x.id)
                       /\ j = 1 /\ handler' # Idle /\ handler'.msg.op # "update" =>
                             \E k \in 1..Len(handler'.todo) : Deletes(handler'.todo[k], handler'.msg, x.kind, x.id)
  BY DEF AbsentIsLeaving, StillConcerns, Concerns, Kills, Updates, Deletes, Reported, Thing
<1>2. ASSUME NEW j \in DOMAIN Line, j > 1, Concerns(Line[j], n, x.kind, x.id)
      PROVE  \E k \in DOMAIN Line' :
                /\ Concerns(Line'[k], n, x.kind, x.id)
                /\ k = 1 => handler' = Idle
  <2>1. Line[j].net = n /\ j > d /\ (d = 0 => j - d # 1)
    BY <1>1, <1>2, ConcernsItsNetwork
  <2>2. j - d \in DOMAIN Line' /\ Line'[j - d] = Line[j]
    BY <1>1, <2>1
  <2> QED
    BY <1>1, <1>2, <2>1, <2>2
<1>3. CASE \E j \in DOMAIN Line : j > 1 /\ Concerns(Line[j], n, x.kind, x.id)
  BY <1>2, <1>3
<1>4. CASE ~\E j \in DOMAIN Line : j > 1 /\ Concerns(Line[j], n, x.kind, x.id)
  <2>1. x \in docs
    BY <1>4
  <2>2. PICK j \in DOMAIN Line : StillConcerns(j, n, x.kind, x.id)
    BY <2>1 DEF AbsentIsLeaving
  <2>3. Concerns(Line[j], n, x.kind, x.id)
    BY <2>2 DEF StillConcerns
  <2>4. j = 1
    BY <1>1, <1>4, <2>3
  <2>5. d = 0 /\ (handler' # Idle /\ handler'.msg.op # "update" =>
                    \E k \in 1..Len(handler'.todo) : Deletes(handler'.todo[k], handler'.msg, x.kind, x.id))
    BY <1>4, <2>2, <2>4
  <2>6. 1 \in DOMAIN Line' /\ Line'[1] = Line[1]
    <3>1. Line[1].net = n /\ 1 > d /\ 1 - d = 1
      BY <2>3, <2>4, <2>5, ConcernsItsNetwork
    <3> QED
      BY <1>1, <2>4, <3>1
  <2> QED
    BY <2>3, <2>4, <2>5, <2>6
<1> QED
  BY <1>3, <1>4

(* A command that deletes documents.                                       *)
LEMMA CopyRemoveDocuments ==
    ASSUME BaseInv, RemoveDocuments, NEW n \in Networks, Copied(n)
    PROVE  Copied(n)'
<1> DEFINE m == handler.msg
           c == handler.todo[1]
<1>1. /\ HandlerShape /\ HandlerFits /\ Executes(RemoveCommands) /\ UNCHANGED <<msgs, engine, waived>>
      /\ EngineSound
  BY DEF BaseInv, ListedInv, FitInv, RemoveDocuments, clientVars, noticeVars
<1>2. /\ handler # Idle /\ m \in Message /\ CommandsFit(handler.todo, m)
      /\ Head(handler.todo) = c /\ c \in RemoveCommands /\ 1 \in 1..Len(handler.todo)
      /\ \/ Len(handler.todo) = 1 /\ handler' = Idle
         \/ /\ Len(handler.todo) > 1 /\ handler' # Idle /\ handler'.msg = m
            /\ \A k \in 2..Len(handler.todo) :
                  k - 1 \in 1..Len(handler'.todo) /\ handler'.todo[k - 1] = handler.todo[k]
  BY <1>1, ExecutedFits
<1>3. docs' = docs \ Removed(c, m)
  BY <1>2 DEF RemoveDocuments
<1>4. \E d \in {0, 1} : Drops(d) /\ (d = 1 <=> Len(handler.todo) = 1)
  BY <1>1, LineExecuted, SameLine
<1>5. PICK d \in {0, 1} : Drops(d) /\ (d = 1 <=> Len(handler.todo) = 1)
  BY <1>4
<1>6. m.op = "update" => Len(handler.todo) # 1
  BY <1>2 DEF CommandsFit, RemoveCommands, Saves
<1>7. 1 \in DOMAIN Line /\ Line[1] = m /\ DOMAIN Line \subseteq Nat /\ \A j \in DOMAIN Line : j >= 1
  BY <1>2, LineShape
<1>8. \A kind \in Kinds : \A i \in IdsOf(kind) : Deletes(c, m, kind, i) => Kills(m, m.net, kind, i)
  BY <1>2 DEF CommandsFit
<1>9. Tracks(n, d) /\ engine'[n] = engine[n]
  BY <1>1, <1>5, DropsTracks
<1>10. d = 1 => handler' = Idle
  BY <1>2, <1>5
<1> HIDE DEF c, m
<1>11. HeldIsCopied(n)'
  <2>1. ASSUME NEW e \in engine[n], NEW x \in docs, IsCopy(x, n, e)
        PROVE  \/ \E y \in docs' : IsCopy(y, n, e)
               \/ \E j \in DOMAIN Line : j > d /\ Brings(Line[j], n, e)
    <3>1. CASE x \notin Removed(c, m)
      BY <1>3, <2>1, <3>1
    <3>2. CASE x \in Removed(c, m)
      <4>1. x.kind = e.kind /\ x.id = e.id /\ x.net = n /\ ~x.placeholder
        BY <2>1 DEF IsCopy, Thing
      <4>2. Deletes(c, m, e.kind, e.id) /\ m.net = n
        BY <3>2, <4>1, RemovedIsDeleted
      <4>3. e.kind \in Kinds /\ e.id \in IdsOf(e.kind)
        BY <1>1, ThingIs DEF EngineSound, Sound
      <4>4. Kills(m, n, e.kind, e.id)
        BY <1>8, <4>2, <4>3
      <4>5. Concerns(Line[1], n, e.kind, e.id) /\ ~Brings(Line[1], n, e)
        BY <1>7, <4>4 DEF Concerns, Kills, Brings
      <4>6. \E k \in DOMAIN Line : k > 1 /\ Brings(Line[k], n, e)
        BY <1>7, <4>5 DEF Copied, HeldIsReportedLast
      <4> QED
        BY <1>7, <4>6
    <3> QED
      BY <3>1, <3>2
  <2>2. ASSUME NEW e \in engine[n], NEW j \in DOMAIN Line, ~(j > d), Brings(Line[j], n, e)
        PROVE  FALSE
    <3>1. j = 1 /\ d = 1
      BY <1>7, <2>2
    <3> QED
      BY <1>5, <1>6, <1>7, <2>2, <3>1 DEF Brings
  <2>3. waived' = waived /\ HeldIsCopied(n)
    BY <1>1 DEF Copied
  <2> QED
    BY <1>9, <2>1, <2>2, <2>3, HeldKept
<1>12. AbsentIsLeaving(n)'
  <2>1. ASSUME NEW x \in docs', x.net = n, Reported(x), Thing(x.kind, x.id, x.ended) \notin engine[n]
        PROVE  /\ x \in docs
               /\ StillConcerns(1, n, x.kind, x.id) =>
                     /\ d = 0
                     /\ handler' # Idle /\ handler'.msg.op # "update" =>
                           \E k \in 1..Len(handler'.todo) : Deletes(handler'.todo[k], handler'.msg, x.kind, x.id)
    <3>1. x \in docs /\ x \notin Removed(c, m) /\ ~x.placeholder
      BY <1>3, <2>1 DEF Reported
    <3> SUFFICES ASSUME StillConcerns(1, n, x.kind, x.id)
                 PROVE  /\ d = 0
                        /\ handler' # Idle /\ handler'.msg.op # "update" =>
                              \E k \in 1..Len(handler'.todo) : Deletes(handler'.todo[k], handler'.msg, x.kind, x.id)
      BY <3>1
    <3>2. m.net = n
      BY <1>7, ConcernsItsNetwork DEF StillConcerns
    <3>3. CASE m.op = "update"
      BY <1>2, <1>5, <1>6, <3>3 DEF m
    <3>4. CASE m.op # "update"
      <4>1. PICK k \in 1..Len(handler.todo) : Deletes(handler.todo[k], m, x.kind, x.id)
        BY <1>2, <3>4 DEF StillConcerns, m
      <4>2. k # 1
        BY <2>1, <3>1, <3>2, <4>1, RemovedIsDeleted DEF c
      <4>3. Len(handler.todo) # 1 /\ k \in 2..Len(handler.todo)
        <5>1. Len(handler.todo) \in Nat
          BY <1>2 DEF CommandsFit
        <5>2. k \in 2..Len(handler.todo)
          BY <4>2, <5>1
        <5>3. \A l \in Nat : k \in 2..l => l # 1
          OBVIOUS
        <5> QED
          BY <5>1, <5>2, <5>3
      <4>4. handler'.msg = m /\ k - 1 \in 1..Len(handler'.todo) /\ handler'.todo[k - 1] = handler.todo[k]
        BY <1>2, <4>3 DEF m
      <4> QED
        BY <1>5, <4>1, <4>3, <4>4
    <3> QED
      BY <3>3, <3>4
  <2>2. AbsentIsLeaving(n)
    BY DEF Copied
  <2> QED
    BY <1>9, <1>10, <2>1, <2>2, AbsentKept
<1> QED
  BY <1>9, <1>11, <1>12, LastKept DEF Copied

(* A save: what it writes is the engine's version, or is still concerned   *)
(* by the line.                                                            *)
LEMMA CopySave ==
    ASSUME BaseInv, SaveDocument \/ SaveIncident, NEW n \in Networks, Copied(n)
    PROVE  Copied(n)'
<1> DEFINE m == handler.msg
           f == m.entity
           D == DocumentOf(m.net, f)
<1>1. /\ handler # Idle /\ m.op = "update" /\ f \in Things
      /\ Len(handler.todo) = 1 /\ handler' = Idle /\ docs' = Save(docs, D)
  BY SaveFits
<1>2. UNCHANGED <<msgs, engine, waived>> /\ EngineSound
  BY DEF SaveDocument, SaveIncident, clientVars, noticeVars, BaseInv, FitInv
<1>3. Drops(1)
  BY <1>1, <1>2, LineExecuted DEF SaveDocument, SaveIncident
<1>4. 1 \in DOMAIN Line /\ Line[1] = m /\ DOMAIN Line \subseteq Nat /\ \A j \in DOMAIN Line : j >= 1
  BY <1>1, LineShape
<1>5. Tracks(n, 1) /\ engine'[n] = engine[n]
  BY <1>2, <1>3, DropsTracks
<1>6. /\ D.net = m.net /\ D.kind = f.kind /\ D.id = f.id /\ ~D.placeholder /\ Reported(D)
      /\ Thing(D.kind, D.id, D.ended) = f /\ IsCopy(D, m.net, f)
  BY <1>1, ThingIs DEF DocumentOf, IsCopy, Reported
<1> HIDE DEF m, f, D
<1>7. /\ D \in docs'
      /\ \A x \in docs : x \in docs' \/ (x.net = m.net /\ x.kind = f.kind /\ x.id = f.id)
      /\ \A x \in docs' : x = D \/ (x \in docs /\ ~(x.net = m.net /\ x.kind = f.kind /\ x.id = f.id))
  BY <1>1, <1>6 DEF Save
<1>8. HeldIsCopied(n)'
  <2>1. ASSUME NEW e \in engine[n], NEW x \in docs, IsCopy(x, n, e)
        PROVE  \/ \E y \in docs' : IsCopy(y, n, e)
               \/ \E j \in DOMAIN Line : j > 1 /\ Brings(Line[j], n, e)
    <3>1. x.kind = e.kind /\ x.id = e.id /\ x.net = n
      BY <2>1 DEF IsCopy, Thing
    <3>2. CASE x \in docs'
      BY <2>1, <3>2
    <3>3. CASE x \notin docs' /\ f = e
      BY <1>6, <1>7, <3>1, <3>3
    <3>4. CASE x \notin docs' /\ f # e
      <4>1. Concerns(Line[1], n, e.kind, e.id) /\ ~Brings(Line[1], n, e)
        BY <1>1, <1>4, <1>7, <3>1, <3>4 DEF Concerns, Updates, Brings, f, m
      <4> QED
        BY <1>4, <4>1 DEF Copied, HeldIsReportedLast
    <3> QED
      BY <3>2, <3>3, <3>4
  <2>2. ASSUME NEW e \in engine[n], NEW j \in DOMAIN Line, ~(j > 1), Brings(Line[j], n, e)
        PROVE  \E y \in docs' : IsCopy(y, n, e)
    <3>1. j = 1
      BY <1>4, <2>2
    <3>2. m.net = n /\ f = e
      BY <1>4, <2>2, <3>1 DEF Brings, f
    <3> QED
      BY <1>6, <1>7, <3>2
  <2>3. waived' = waived /\ HeldIsCopied(n)
    BY <1>2 DEF Copied
  <2> QED
    BY <1>5, <2>1, <2>2, <2>3, HeldKept
<1>9. AbsentIsLeaving(n)'
  <2>1. ASSUME NEW x \in docs', x.net = n, Reported(x), Thing(x.kind, x.id, x.ended) \notin engine[n]
        PROVE  \/ \E j \in DOMAIN Line : j > 1 /\ Concerns(Line[j], n, x.kind, x.id)
               \/ x \in docs /\ ~StillConcerns(1, n, x.kind, x.id)
    <3>1. CASE x = D
      <4>1. Line[1].net = n /\ Line[1].op = "update" /\ Line[1].entity = f /\ f \notin engine[n]
        BY <1>1, <1>4, <1>6, <2>1, <3>1 DEF m, f
      <4>2. \E k \in DOMAIN Line : k > 1 /\ Concerns(Line[k], n, f.kind, f.id)
        BY <1>4, <4>1 DEF Copied, StaleIsConcerned
      <4> QED
        BY <1>6, <3>1, <4>2
    <3>2. CASE x # D
      <4>1. x \in docs /\ ~(x.net = m.net /\ x.kind = f.kind /\ x.id = f.id)
        BY <1>7, <3>2
      <4>2. ~Concerns(Line[1], n, x.kind, x.id)
        BY <1>1, <1>4, <2>1, <4>1 DEF Concerns, Kills, Updates, m, f
      <4> QED
        BY <4>1, <4>2 DEF StillConcerns
    <3> QED
      BY <3>1, <3>2
  <2>2. AbsentIsLeaving(n)
    BY DEF Copied
  <2> QED
    BY <1>1, <1>5, <2>1, <2>2, AbsentKept
<1> QED
  BY <1>5, <1>8, <1>9, LastKept DEF Copied

(* The next message comes to work: its handler has not begun.              *)
LEMMA CopyReceive ==
    ASSUME BaseInv, Receive, NEW n \in Networks, Copied(n)
    PROVE  Copied(n)'
<1>1. /\ HandlerFits' /\ handler' # Idle /\ handler'.todo[1] = "SaveLastContact"
      /\ handler = Idle /\ handler'.msg = Head(msgs) /\ msgs # <<>> /\ msgs \in Seq(Message)
  BY ReceivedFits DEF BaseInv, ListedInv, Shape, FitInv
<1>2. UNCHANGED <<docs, engine, waived>>
  BY DEF Receive, clientVars, noticeVars
<1>3. Tracks(n, 0)
  BY LineReceived, SameLine, DropsTracks
<1>4. Line[1] = handler'.msg
  BY <1>1 DEF Line
<1>5. HeldIsCopied(n)'
  <2>1. \A j \in DOMAIN Line : j > 0
    BY LineShape
  <2>2. waived' = waived /\ HeldIsCopied(n) /\ engine'[n] = engine[n] /\ docs' = docs
    BY <1>2 DEF Copied
  <2> QED
    BY <1>3, <2>1, <2>2, HeldKept
<1>6. AbsentIsLeaving(n)'
  <2>1. ASSUME NEW x \in docs', x.net = n, Reported(x), StillConcerns(1, n, x.kind, x.id),
               handler'.msg.op # "update"
        PROVE  \E k \in 1..Len(handler'.todo) : Deletes(handler'.todo[k], handler'.msg, x.kind, x.id)
    <3>1. x.kind \in Kinds /\ x.id \in IdsOf(x.kind)
      <4>1. Thing(x.kind, x.id, x.ended) \in Things
        BY <1>2, <2>1 DEF BaseInv, FitInv, DocsFit, DocFits, Reported
      <4> QED
        BY <4>1 DEF Things, Thing, Entity
    <3>2. Kills(handler'.msg, n, x.kind, x.id) /\ handler'.msg.net = n
      BY <1>4, <2>1, ConcernsItsNetwork DEF StillConcerns, Concerns, Updates
    <3>3. \E k \in 2..Len(handler'.todo) : Deletes(handler'.todo[k], handler'.msg, x.kind, x.id)
      BY <1>1, <3>1, <3>2 DEF HandlerFits
    <3> QED
      BY <3>3
  <2>2. AbsentIsLeaving(n) /\ docs' = docs /\ engine'[n] = engine[n]
    BY <1>2 DEF Copied
  <2> QED
    BY <1>3, <2>1, <2>2, AbsentKept
<1> QED
  BY <1>2, <1>3, <1>5, <1>6, LastKept DEF Copied

(* The contact is logged; no document is written.                          *)
LEMMA CopySaveLastContact ==
    ASSUME BaseInv, SaveLastContact, NEW n \in Networks, Copied(n)
    PROVE  Copied(n)'
<1> DEFINE m == handler.msg
<1>1. HandlerShape /\ HandlerFits /\ Executes({"SaveLastContact"}) /\ UNCHANGED <<docs, msgs, engine, waived>>
  BY DEF BaseInv, ListedInv, FitInv, SaveLastContact, clientVars, noticeVars
<1>2. /\ handler # Idle /\ handler.todo[1] = "SaveLastContact" /\ CommandsFit(handler.todo, m)
      /\ Len(handler.todo) > 1 /\ handler' # Idle /\ handler'.msg = m
      /\ \A k \in 2..Len(handler.todo) :
            k - 1 \in 1..Len(handler'.todo) /\ handler'.todo[k - 1] = handler.todo[k]
  <2>1. /\ handler # Idle /\ handler.todo[1] \in {"SaveLastContact"} /\ CommandsFit(handler.todo, m)
        /\ \/ Len(handler.todo) = 1 /\ handler' = Idle
           \/ /\ Len(handler.todo) > 1 /\ handler' # Idle /\ handler'.msg = m
              /\ \A k \in 2..Len(handler.todo) :
                    k - 1 \in 1..Len(handler'.todo) /\ handler'.todo[k - 1] = handler.todo[k]
    BY <1>1, ExecutedFits
  <2>2. Len(handler.todo) > 1 /\ Len(handler.todo) \in Nat
    BY <1>1, <2>1 DEF HandlerFits, CommandsFit
  <2>3. \A l \in Nat : l > 1 => l # 1
    OBVIOUS
  <2>4. Len(handler.todo) # 1
    BY <2>2, <2>3
  <2> QED
    BY <2>1, <2>2, <2>4
<1>3. Tracks(n, 0)
  BY <1>1, <1>2, LineExecuted, SameLine, DropsTracks
<1>4. HeldIsCopied(n)'
  <2>1. \A j \in DOMAIN Line : j > 0
    BY LineShape
  <2>2. waived' = waived /\ HeldIsCopied(n) /\ engine'[n] = engine[n] /\ docs' = docs
    BY <1>1 DEF Copied
  <2> QED
    BY <1>3, <2>1, <2>2, HeldKept
<1>5. AbsentIsLeaving(n)'
  <2>1. ASSUME NEW x \in docs', StillConcerns(1, n, x.kind, x.id), handler'.msg.op # "update"
        PROVE  \E k \in 1..Len(handler'.todo) : Deletes(handler'.todo[k], handler'.msg, x.kind, x.id)
    <3>1. PICK k \in 1..Len(handler.todo) : Deletes(handler.todo[k], m, x.kind, x.id)
      BY <1>2, <2>1 DEF StillConcerns
    <3>2. k # 1
      BY <1>2, <3>1 DEF Deletes
    <3>3. Len(handler.todo) \in Nat
      BY <1>2 DEF CommandsFit
    <3>4. k \in 2..Len(handler.todo)
      BY <3>2, <3>3
    <3> QED
      BY <1>2, <3>1, <3>4
  <2>2. AbsentIsLeaving(n) /\ docs' = docs /\ engine'[n] = engine[n]
    BY <1>1 DEF Copied
  <2> QED
    BY <1>3, <2>1, <2>2, AbsentKept
<1> QED
  BY <1>1, <1>3, <1>4, <1>5, LastKept DEF Copied

(* Steps that take nothing of n from the line and change nothing that is   *)
(* reported of n, but the documents of incidents that a user removes.      *)
LEMMA CopyUntouched ==
    ASSUME BaseInv, NEW n \in Networks, Copied(n), NEW d, Tracks(n, d), engine'[n] = engine[n],
           waived \subseteq waived',
           \A j \in DOMAIN Line : ~(j > d) => Line[j].net # n,
           d = 1 => handler' = Idle,
           1 \in DOMAIN Line /\ Line[1].net = n => handler' = handler,
           \A x \in docs : x.net = n /\ ~x.placeholder =>
              \/ x \in docs'
              \/ \E y \in docs' : /\ y.net = n /\ ~y.placeholder
                                  /\ Thing(y.kind, y.id, y.ended) = Thing(x.kind, x.id, x.ended)
              \/ x.kind = "incident" /\ <<n, x.id>> \in waived'
              \/ Thing(x.kind, x.id, x.ended) \notin engine[n],
           \A x \in docs' : x.net = n /\ Reported(x) => x \in docs
    PROVE  Copied(n)'
<1>1. HeldIsCopied(n)'
  <2>1. ASSUME NEW e \in engine[n], NEW x \in docs, IsCopy(x, n, e)
        PROVE  \/ \E y \in docs' : IsCopy(y, n, e)
               \/ e.kind = "incident" /\ <<n, e.id>> \in waived'
    <3>1. x.net = n /\ ~x.placeholder /\ Thing(x.kind, x.id, x.ended) = e /\ x.kind = e.kind /\ x.id = e.id
      BY <2>1 DEF IsCopy, Thing
    <3>2. CASE x \in docs'
      BY <2>1, <3>2
    <3>3. CASE x \notin docs'
      BY <3>1, <3>3 DEF IsCopy
    <3> QED
      BY <3>2, <3>3
  <2>2. \A e \in engine[n] : \A j \in DOMAIN Line : ~(j > d) => ~Brings(Line[j], n, e)
    BY DEF Brings
  <2>3. HeldIsCopied(n)
    BY DEF Copied
  <2> QED
    BY <2>1, <2>2, <2>3, HeldKept
<1>2. AbsentIsLeaving(n)'
  <2>1. ASSUME NEW x \in docs', x.net = n, Reported(x), Thing(x.kind, x.id, x.ended) \notin engine[n],
               StillConcerns(1, n, x.kind, x.id), AbsentIsLeaving(n), 1 \in DOMAIN Line
        PROVE  /\ d = 0
               /\ handler' # Idle /\ handler'.msg.op # "update" =>
                     \E k \in 1..Len(handler'.todo) : Deletes(handler'.todo[k], handler'.msg, x.kind, x.id)
    <3>1. Line[1].net = n
      BY <2>1, ConcernsItsNetwork DEF StillConcerns
    <3>2. handler' = handler /\ 1 > d
      BY <2>1, <3>1
    <3>3. d \in {0, 1}
      BY DEF Tracks
    <3> QED
      BY <2>1, <3>2, <3>3 DEF StillConcerns
  <2>2. AbsentIsLeaving(n)
    BY DEF Copied
  <2>3. CASE 1 \in DOMAIN Line
    BY <2>1, <2>2, <2>3, AbsentKept
  <2>4. CASE 1 \notin DOMAIN Line
    <3>1. \A j \in DOMAIN Line : j > 1
      BY <2>4, LineShape
    <3>2. \A x \in docs' : x.net = n /\ Reported(x) /\ Thing(x.kind, x.id, x.ended) \notin engine[n] =>
             \E j \in DOMAIN Line : j > 1 /\ Concerns(Line[j], n, x.kind, x.id)
      BY <2>2, <3>1 DEF AbsentIsLeaving, StillConcerns
    <3> QED
      BY <2>2, <3>2, AbsentKept
  <2> QED
    BY <2>3, <2>4
<1> QED
  BY <1>1, <1>2, LastKept DEF Copied

-----------------------------------------------------------------------------
(* The copy in reports                                                     *)

(* What a report must be when the engine of n changes.                     *)
LEMMA CopyReported ==
    ASSUME BaseInv, NEW n \in Networks, Copied(n), NEW r \in Seq(Message), msgs' = msgs \o r,
           UNCHANGED <<handler, docs, waived>>,
           \A e \in engine'[n] : e \in engine[n] \/ \E k \in DOMAIN r : Brings(r[k], n, e),
           \A e \in engine'[n] : \A k \in DOMAIN r : Concerns(r[k], n, e.kind, e.id) => Brings(r[k], n, e),
           \A t \in engine[n] : t \notin engine'[n] => \E k \in DOMAIN r : Concerns(r[k], n, t.kind, t.id),
           \A k \in DOMAIN r : r[k].net = n /\ r[k].op = "update" => r[k].entity \in engine'[n]
    PROVE  Copied(n)'
<1>1. /\ DOMAIN Line \subseteq Nat
      /\ \A j \in DOMAIN Line : j >= 1 /\ j \in DOMAIN Line' /\ Line'[j] = Line[j]
      /\ \A j \in DOMAIN Line' : j \in DOMAIN Line \/ \E k \in DOMAIN r : Line'[j] = r[k]
      /\ \A k \in DOMAIN r : \E j \in DOMAIN Line' : Line'[j] = r[k] /\ \A i \in DOMAIN Line : j > i
  <2>1. /\ \A j \in DOMAIN Line : j \in DOMAIN Line' /\ Line'[j] = Line[j]
        /\ \A k \in DOMAIN r : Len(Line) + k \in DOMAIN Line' /\ Line'[Len(Line) + k] = r[k]
        /\ \A j \in DOMAIN Line' : j \in DOMAIN Line \/ \E k \in DOMAIN r : j = Len(Line) + k
        /\ \A j \in DOMAIN Line, k \in DOMAIN r : j < Len(Line) + k
        /\ DOMAIN Line \subseteq Nat /\ DOMAIN r \subseteq Nat /\ Len(Line) \in Nat
    BY LineReported
  <2>2. \A j \in DOMAIN Line, k \in DOMAIN r : Len(Line) + k > j
    BY <2>1
  <2> QED
    BY <2>1, <2>2, LineShape
<1>2. handler # Idle => 1 \in DOMAIN Line
  BY LineShape
<1>3. HeldIsCopied(n)'
  <2> SUFFICES ASSUME NEW e \in engine'[n], ~(e.kind = "incident" /\ <<n, e.id>> \in waived)
               PROVE  \/ \E d \in docs : IsCopy(d, n, e)
                      \/ \E j \in DOMAIN Line' : Brings(Line'[j], n, e)
    BY DEF HeldIsCopied, IsCopy, Thing, Brings
  <2>1. CASE e \in engine[n]
    BY <1>1, <2>1 DEF Copied, HeldIsCopied
  <2>2. CASE e \notin engine[n]
    BY <1>1, <2>2
  <2> QED
    BY <2>1, <2>2
<1>4. HeldIsReportedLast(n)'
  <2> SUFFICES ASSUME NEW e \in engine'[n], NEW j \in DOMAIN Line',
                      Concerns(Line'[j], n, e.kind, e.id), ~Brings(Line'[j], n, e)
               PROVE  \E k \in DOMAIN Line' : k > j /\ Brings(Line'[k], n, e)
    BY DEF HeldIsReportedLast, Concerns, Kills, Updates, Brings
  <2>1. j \in DOMAIN Line /\ Line'[j] = Line[j]
    BY <1>1
  <2>2. CASE e \in engine[n]
    <3>1. \E k \in DOMAIN Line : k > j /\ Brings(Line[k], n, e)
      BY <2>1, <2>2 DEF Copied, HeldIsReportedLast
    <3> QED
      BY <1>1, <3>1
  <2>3. CASE e \notin engine[n]
    BY <1>1, <2>1, <2>3
  <2> QED
    BY <2>2, <2>3
<1>5. AbsentIsLeaving(n)'
  <2> SUFFICES ASSUME NEW x \in docs', x.net = n, Reported(x), Thing(x.kind, x.id, x.ended) \notin engine'[n]
               PROVE  \E j \in DOMAIN Line' :
                         /\ Concerns(Line'[j], n, x.kind, x.id)
                         /\ j = 1 /\ handler' # Idle /\ handler'.msg.op # "update" =>
                               \E k \in 1..Len(handler'.todo) : Deletes(handler'.todo[k], handler'.msg, x.kind, x.id)
    BY DEF AbsentIsLeaving, StillConcerns, Concerns, Kills, Updates, Deletes, Reported, Thing
  <2>0. handler' = handler /\ x \in docs
    OBVIOUS
  <2> DEFINE t == Thing(x.kind, x.id, x.ended)
  <2>1. t.kind = x.kind /\ t.id = x.id
    BY DEF Thing
  <2>2. CASE t \in engine[n]
    <3>1. PICK k \in DOMAIN r : Concerns(r[k], n, x.kind, x.id)
      BY <2>1, <2>2
    <3>2. PICK j \in DOMAIN Line' : Line'[j] = r[k] /\ \A i \in DOMAIN Line : j > i
      BY <1>1
    <3>3. ~(j = 1 /\ handler # Idle)
      <4> SUFFICES ASSUME j = 1, 1 \in DOMAIN Line PROVE FALSE
        BY <1>2
      <4>1. 1 > 1
        BY <3>2
      <4> QED
        BY <4>1
    <3> QED
      BY <2>0, <3>1, <3>2, <3>3
  <2>3. CASE t \notin engine[n]
    <3>1. PICK j \in DOMAIN Line : StillConcerns(j, n, x.kind, x.id)
      BY <2>0, <2>3 DEF Copied, AbsentIsLeaving
    <3> QED
      BY <1>1, <2>0, <3>1 DEF StillConcerns
  <2> QED
    BY <2>2, <2>3
<1>6. StaleIsConcerned(n)'
  <2> SUFFICES ASSUME NEW j \in DOMAIN Line',
                      Line'[j].net = n, Line'[j].op = "update", Line'[j].entity \notin engine'[n]
               PROVE  \E k \in DOMAIN Line' :
                         k > j /\ Concerns(Line'[k], n, Line'[j].entity.kind, Line'[j].entity.id)
    BY DEF StaleIsConcerned, Concerns, Kills, Updates
  <2>1. j \in DOMAIN Line /\ Line'[j] = Line[j]
    BY <1>1
  <2>2. CASE Line[j].entity \in engine[n]
    <3>1. PICK k \in DOMAIN r : Concerns(r[k], n, Line[j].entity.kind, Line[j].entity.id)
      BY <2>1, <2>2
    <3> QED
      BY <1>1, <2>1, <3>1
  <2>3. CASE Line[j].entity \notin engine[n]
    <3>1. \E k \in DOMAIN Line : k > j /\ Concerns(Line[k], n, Line[j].entity.kind, Line[j].entity.id)
      BY <2>1, <2>3 DEF Copied, StaleIsConcerned
    <3> QED
      BY <1>1, <2>1, <3>1
  <2> QED
    BY <2>2, <2>3
<1> QED
  BY <1>3, <1>4, <1>5, <1>6 DEF Copied

(* A client that reports a change of its engine.                           *)
LEMMA CopyBecomes ==
    ASSUME BaseInv, NEW c \in Networks, NEW new, Evolves(c, new), Becomes(c, new),
           NEW n \in Networks, Copied(n)
    PROVE  Copied(n)'
<1>0. PICK r \in Seq(Message) : msgs' = msgs \o r /\ Sends(r, Changes(c, new))
  BY BecomesReports DEF BaseInv
<1>1. /\ msgs' = msgs \o r
      /\ \A j \in DOMAIN r : r[j] \in Changes(c, new)
      /\ \A m \in Changes(c, new) : \E j \in DOMAIN r : r[j] = m
  BY <1>0 DEF Sends
<1>2. UNCHANGED <<handler, docs, waived>> /\ engine' = [engine EXCEPT ![c] = new]
      /\ engine \in [Networks -> SUBSET Entity]
  BY DEF Becomes, noticeVars, BaseInv, ListedInv, Shape
<1>3. Sound(new) /\ Sound(engine[c])
  BY DEF Evolves, BaseInv, FitInv, EngineSound
<1>4. \A j \in DOMAIN r : r[j].net = c
  BY <1>1 DEF Changes, UpdateMessage, DeleteMessage
<1>5. CASE c # n
  <2>1. engine'[n] = engine[n]
    BY <1>2, <1>5
  <2>2. \A j \in DOMAIN r : r[j].net # n /\ \A kind, i : ~Concerns(r[j], n, kind, i)
    BY <1>4, <1>5, ConcernsItsNetwork
  <2> QED
    BY <1>1, <1>2, <2>1, <2>2, CopyReported
<1>6. CASE c = n
  <2>1. engine'[n] = new
    BY <1>2, <1>6
  <2>2. ASSUME NEW e \in new, e \notin engine[n] PROVE \E j \in DOMAIN r : Brings(r[j], n, e)
    <3>1. UpdateMessage(n, e) \in Changes(n, new)
      BY <2>2 DEF Changes
    <3>2. PICK j \in DOMAIN r : r[j] = UpdateMessage(n, e)
      BY <1>1, <1>6, <3>1
    <3> QED
      BY <3>2 DEF Brings, UpdateMessage
  <2>3. ASSUME NEW j \in DOMAIN r, r[j].op = "update"
        PROVE  r[j].entity \in new
    <3>1. \E e \in new : r[j] = UpdateMessage(c, e)
      BY <1>1, <2>3 DEF Changes, DeleteMessage
    <3> QED
      BY <3>1 DEF UpdateMessage
  <2>4. ASSUME NEW e \in new, NEW j \in DOMAIN r, Concerns(r[j], n, e.kind, e.id)
        PROVE  Brings(r[j], n, e)
    <3>1. ~Kills(r[j], n, e.kind, e.id)
      BY <1>1, <1>3, <1>6, ChangesSpare
    <3>2. r[j].net = n /\ r[j].op = "update" /\ r[j].entity.kind = e.kind /\ r[j].entity.id = e.id
      BY <2>4, <3>1 DEF Concerns, Updates
    <3>3. r[j].entity = e
      BY <1>3, <2>3, <3>2 DEF Sound, OneVersion
    <3> QED
      BY <3>2, <3>3 DEF Brings
  <2>5. ASSUME NEW t \in engine[n], t \notin new
        PROVE  \E j \in DOMAIN r : Concerns(r[j], n, t.kind, t.id)
    <3>1. CASE \A y \in new : ~(y.kind = t.kind /\ y.id = t.id)
      <4>1. DeleteMessage(n, t) \in Changes(n, new)
        BY <3>1 DEF Changes
      <4>2. PICK j \in DOMAIN r : r[j] = DeleteMessage(n, t)
        BY <1>1, <1>6, <4>1
      <4> QED
        BY <4>2 DEF DeleteMessage, Concerns, Kills
    <3>2. CASE \E y \in new : y.kind = t.kind /\ y.id = t.id
      <4>1. PICK y \in new : y.kind = t.kind /\ y.id = t.id
        BY <3>2
      <4>2. y \notin engine[n]
        BY <1>3, <1>6, <2>5, <4>1 DEF Sound, OneVersion
      <4>3. PICK j \in DOMAIN r : Brings(r[j], n, y)
        BY <2>2, <4>2
      <4> QED
        BY <4>1, <4>3 DEF Brings, Concerns, Updates
    <3> QED
      BY <3>1, <3>2
  <2> QED
    BY <1>1, <1>2, <2>1, <2>2, <2>3, <2>4, <2>5, CopyReported
<1> QED
  BY <1>5, <1>6

(* A full report, however much was lost before it.                         *)
LEMMA CopyAnew ==
    ASSUME BaseInv, NEW n \in Networks, FullReport(n)
    PROVE  Copied(n)'
<1>1. PICK r \in Seq(Message) :
         /\ msgs' = msgs \o r
         /\ \A k \in DOMAIN r : k \in 1..4 => \E kind \in Kinds : r[k] = KnownMessage(n, kind)
         /\ \A kind \in Kinds : \E k \in DOMAIN r : k \in 1..4 /\ r[k] = KnownMessage(n, kind)
         /\ \A k \in DOMAIN r : k \notin 1..4 => k > 4 /\ \E e \in engine[n] : r[k] = UpdateMessage(n, e)
         /\ \A e \in engine[n] : \E k \in DOMAIN r : k > 4 /\ r[k] = UpdateMessage(n, e)
  BY FullReports DEF BaseInv
<1>2. UNCHANGED <<handler, docs, engine, waived>>
  BY DEF FullReport, noticeVars, clientVars
<1>3. Sound(engine[n])
  BY DEF BaseInv, FitInv, EngineSound
<1>4. /\ DOMAIN Line \subseteq Nat /\ DOMAIN r \subseteq Nat /\ Len(Line) \in Nat
      /\ \A j \in DOMAIN Line : j \in DOMAIN Line' /\ Line'[j] = Line[j]
      /\ \A k \in DOMAIN r : Len(Line) + k \in DOMAIN Line' /\ Line'[Len(Line) + k] = r[k]
      /\ \A j \in DOMAIN Line' : j \in DOMAIN Line \/ \E k \in DOMAIN r : j = Len(Line) + k
      /\ \A j \in DOMAIN Line, k \in DOMAIN r : j < Len(Line) + k
  BY <1>1, <1>2, LineReported DEF FullReport
<1>5. handler # Idle => 1 \in DOMAIN Line
  BY LineShape
<1>6. \A e \in engine[n] : \E j \in DOMAIN Line' :
         /\ Brings(Line'[j], n, e)
         /\ \A i \in DOMAIN Line : j > i
         /\ \A k \in 1..4 : j > Len(Line) + k
  <2> TAKE e \in engine[n]
  <2>1. PICK k \in DOMAIN r : k > 4 /\ r[k] = UpdateMessage(n, e)
    BY <1>1
  <2>2. Brings(r[k], n, e)
    BY <2>1 DEF Brings, UpdateMessage
  <2>3. \A i \in DOMAIN Line : Len(Line) + k > i
    BY <1>4
  <2>4. \A i \in 1..4 : Len(Line) + k > Len(Line) + i
    BY <1>4, <2>1
  <2> QED
    BY <1>4, <2>2, <2>3, <2>4
<1>7. ASSUME NEW k \in DOMAIN r
      PROVE  \/ /\ k \in 1..4 /\ r[k].op = "known"
                /\ \A e \in engine[n] : ~Kills(r[k], n, e.kind, e.id)
             \/ r[k].op = "update" /\ r[k].entity \in engine[n] /\ r[k].net = n
  <2>1. CASE k \in 1..4
    <3>1. PICK kind \in Kinds : r[k] = KnownMessage(n, kind)
      BY <1>1, <2>1
    <3> QED
      BY <1>3, <2>1, <3>1, KnownSpares DEF KnownMessage
  <2>2. CASE k \notin 1..4
    <3>1. PICK e \in engine[n] : r[k] = UpdateMessage(n, e)
      BY <1>1, <2>2
    <3> QED
      BY <3>1 DEF UpdateMessage
  <2> QED
    BY <2>1, <2>2
<1>8. HeldIsCopied(n)'
  BY <1>2, <1>6 DEF HeldIsCopied, Brings
<1>9. HeldIsReportedLast(n)'
  <2> SUFFICES ASSUME NEW e \in engine[n], NEW j \in DOMAIN Line',
                      Concerns(Line'[j], n, e.kind, e.id), ~Brings(Line'[j], n, e)
               PROVE  \E k \in DOMAIN Line' : k > j /\ Brings(Line'[k], n, e)
    BY <1>2 DEF HeldIsReportedLast, Concerns, Kills, Updates, Brings
  <2>1. CASE j \in DOMAIN Line
    BY <1>6, <2>1
  <2>2. CASE j \notin DOMAIN Line
    <3>1. PICK k \in DOMAIN r : j = Len(Line) + k /\ Line'[j] = r[k]
      BY <1>4, <2>2
    <3>2. CASE k \in 1..4
      BY <1>6, <3>1, <3>2
    <3>3. CASE k \notin 1..4
      <4>1. r[k].op = "update" /\ r[k].entity \in engine[n] /\ r[k].net = n
        BY <1>7, <3>3
      <4>2. r[k].entity = e
        BY <1>3, <3>1, <4>1 DEF Concerns, Kills, Updates, Sound, OneVersion
      <4> QED
        BY <3>1, <4>1, <4>2 DEF Brings
    <3> QED
      BY <3>2, <3>3
  <2> QED
    BY <2>1, <2>2
(* What the engine does not hold is listed as unknown or reported anew.    *)
<1>10. ASSUME NEW t \in Things, t \notin engine[n]
       PROVE  \E j \in DOMAIN Line' : Concerns(Line'[j], n, t.kind, t.id) /\ \A i \in DOMAIN Line : j > i
  <2>1. CASE \E e \in engine[n] : e.kind = t.kind /\ e.id = t.id
    <3>1. PICK e \in engine[n] : e.kind = t.kind /\ e.id = t.id
      BY <2>1
    <3>2. PICK j \in DOMAIN Line' : Brings(Line'[j], n, e) /\ \A i \in DOMAIN Line : j > i
      BY <1>6
    <3> QED
      BY <3>1, <3>2 DEF Brings, Concerns, Updates
  <2>2. CASE \A e \in engine[n] : ~(e.kind = t.kind /\ e.id = t.id)
    <3>1. t.kind \in Kinds
      BY ThingIs
    <3>2. PICK k \in DOMAIN r : k \in 1..4 /\ r[k] = KnownMessage(n, t.kind)
      BY <1>1, <3>1
    <3>3. Kills(r[k], n, t.kind, t.id)
      BY <2>2, <3>2 DEF Kills, KnownMessage
    <3>4. \A i \in DOMAIN Line : Len(Line) + k > i
      BY <1>4
    <3> QED
      BY <1>4, <3>3, <3>4 DEF Concerns
  <2> QED
    BY <2>1, <2>2
<1>11. AbsentIsLeaving(n)'
  <2> SUFFICES ASSUME NEW x \in docs, x.net = n, Reported(x), Thing(x.kind, x.id, x.ended) \notin engine[n]
               PROVE  \E j \in DOMAIN Line' :
                         /\ Concerns(Line'[j], n, x.kind, x.id)
                         /\ j = 1 /\ handler # Idle /\ handler.msg.op # "update" =>
                               \E k \in 1..Len(handler.todo) : Deletes(handler.todo[k], handler.msg, x.kind, x.id)
    BY <1>2 DEF AbsentIsLeaving, StillConcerns, Concerns, Kills, Updates, Deletes, Reported, Thing
  <2> DEFINE t == Thing(x.kind, x.id, x.ended)
  <2>1. t.kind = x.kind /\ t.id = x.id
    BY DEF Thing
  <2>2. t \in Things
    BY DEF BaseInv, FitInv, DocsFit, DocFits, Reported
  <2>3. PICK j \in DOMAIN Line' : Concerns(Line'[j], n, x.kind, x.id) /\ \A i \in DOMAIN Line : j > i
    BY <1>10, <2>1, <2>2
  <2>4. ~(j = 1 /\ handler # Idle)
    <3> SUFFICES ASSUME j = 1, 1 \in DOMAIN Line PROVE FALSE
      BY <1>5
    <3>1. 1 > 1
      BY <2>3
    <3> QED
      BY <3>1
  <2> QED
    BY <2>3, <2>4
<1>12. StaleIsConcerned(n)'
  <2> SUFFICES ASSUME NEW j \in DOMAIN Line',
                      Line'[j].net = n, Line'[j].op = "update", Line'[j].entity \notin engine[n]
               PROVE  \E k \in DOMAIN Line' :
                         k > j /\ Concerns(Line'[k], n, Line'[j].entity.kind, Line'[j].entity.id)
    BY <1>2 DEF StaleIsConcerned, Concerns, Kills, Updates
  <2>1. j \in DOMAIN Line /\ Line'[j] = Line[j]
    BY <1>4, <1>7
  <2>2. Line[j].entity \in Things
    BY <2>1, LineShape DEF Fit
  <2> QED
    BY <1>10, <2>1, <2>2
<1> QED
  BY <1>8, <1>9, <1>11, <1>12 DEF Copied

-----------------------------------------------------------------------------
(* A history that has ended                                                *)

(* Steps with nothing new in the line and in the engines.                  *)
LEMMA EndedKept ==
    ASSUME EndedStaysEnded, NEW d \in Nat, Keeps(d), UNCHANGED <<engine, used>>,
           \A x \in docs' : ~x.placeholder /\ x.ended => x \in docs \/ EndedForGood(x.net, x.id),
           api' # Idle /\ ~api'.doc.placeholder =>
              \/ api # Idle /\ api'.doc = api.doc
              \/ EndedForGood(api'.doc.net, api'.doc.id)
    PROVE  EndedStaysEnded'
<1>1. \A x \in docs' : ~x.placeholder /\ x.ended => EndedForGood(x.net, x.id)
  BY DEF EndedStaysEnded
<1>2. ASSUME NEW j \in DOMAIN Line', Line'[j].op = "update", Line'[j].entity.ended
      PROVE  EndedForGood(Line'[j].net, Line'[j].entity.id)
  <2>1. j + d \in DOMAIN Line /\ Line'[j] = Line[j + d]
    BY DEF Keeps
  <2> QED
    BY <1>2, <2>1 DEF EndedStaysEnded
<1>3. api' # Idle /\ ~api'.doc.placeholder => EndedForGood(api'.doc.net, api'.doc.id)
  BY DEF EndedStaysEnded
<1> QED
  BY <1>1, <1>2, <1>3 DEF EndedStaysEnded, EndedForGood, Thing, Idle

(* What a report must be for it.                                           *)
LEMMA EndedReported ==
    ASSUME BaseInv, EndedStaysEnded, NEW r \in Seq(Message), msgs' = msgs \o r,
           UNCHANGED <<handler, docs, api>>,
           \A n \in Networks, i \in Instances : EndedForGood(n, i) => EndedForGood(n, i)',
           \A k \in DOMAIN r : r[k].op = "update" /\ r[k].entity.ended =>
              /\ Thing("history", r[k].entity.id, FALSE) \notin engine'[r[k].net]
              /\ <<r[k].net, r[k].entity.id>> \in used'
    PROVE  EndedStaysEnded'
<1>1. /\ \A j \in DOMAIN Line : j \in DOMAIN Line' /\ Line'[j] = Line[j]
      /\ \A k \in DOMAIN r : Len(Line) + k \in DOMAIN Line' /\ Line'[Len(Line) + k] = r[k]
      /\ \A j \in DOMAIN Line' : j \in DOMAIN Line \/ \E k \in DOMAIN r : j = Len(Line) + k
  BY LineReported
<1>2. ASSUME NEW n \in Networks, NEW i \in Instances, EndedForGood(n, i)
      PROVE  Thing("history", i, FALSE) \notin engine'[n] /\ <<n, i>> \in used'
  BY <1>2 DEF EndedForGood, Thing
<1>3. \A t \in Things : t.ended => t.id \in Instances
  BY DEF Things, IdsOf
<1>4. ASSUME NEW x \in docs, ~x.placeholder, x.ended
      PROVE  Thing("history", x.id, FALSE) \notin engine'[x.net] /\ <<x.net, x.id>> \in used'
  <2>1. x \in Document /\ Thing(x.kind, x.id, x.ended) \in Things
    BY <1>4 DEF BaseInv, ListedInv, Shape, FitInv, DocsFit, DocFits
  <2>2. x.net \in Networks /\ x.id \in Instances
    BY <1>3, <1>4, <2>1 DEF Document, Thing
  <2> QED
    BY <1>2, <1>4, <2>2 DEF EndedStaysEnded
<1>5. ASSUME NEW j \in DOMAIN Line', Line'[j].op = "update", Line'[j].entity.ended
      PROVE  /\ Thing("history", Line'[j].entity.id, FALSE) \notin engine'[Line'[j].net]
             /\ <<Line'[j].net, Line'[j].entity.id>> \in used'
  <2>1. CASE j \in DOMAIN Line
    <3>1. Line[j] \in Message /\ Fit(Line[j]) /\ Line'[j] = Line[j]
      BY <1>1, <2>1, LineShape
    <3>2. Line[j].net \in Networks /\ Line[j].entity.id \in Instances
      BY <1>3, <1>5, <3>1, MessageShape DEF Fit
    <3> QED
      BY <1>2, <1>5, <2>1, <3>1, <3>2 DEF EndedStaysEnded
  <2>2. CASE j \notin DOMAIN Line
    BY <1>1, <1>5, <2>2
  <2> QED
    BY <2>1, <2>2
<1>6. ASSUME api # Idle, ~api.doc.placeholder
      PROVE  /\ Thing("history", api.doc.id, FALSE) \notin engine'[api.doc.net]
             /\ <<api.doc.net, api.doc.id>> \in used'
  <2>1. api.doc \in Document /\ DocFits(api.doc) /\ api.doc.kind = "history"
    BY <1>6 DEF BaseInv, ListedInv, ApiShape, FitInv, ApiFits
  <2>2. api.doc.net \in Networks /\ api.doc.id \in Instances
    <3>1. Thing(api.doc.kind, api.doc.id, api.doc.ended) \in Things
      BY <1>6, <2>1 DEF DocFits
    <3> QED
      BY <2>1, <3>1 DEF Document, Things, Thing, IdsOf
  <2> QED
    BY <1>2, <1>6, <2>2 DEF EndedStaysEnded
<1> QED
  BY <1>4, <1>5, <1>6 DEF EndedStaysEnded, EndedForGood, Thing, Idle

LEMMA EndedBecomes ==
    ASSUME BaseInv, EndedStaysEnded, NEW n \in Networks, NEW new, Evolves(n, new), Becomes(n, new)
    PROVE  EndedStaysEnded'
<1> PICK r \in Seq(Message) : msgs' = msgs \o r /\ Sends(r, Changes(n, new))
  BY BecomesReports DEF BaseInv
<1>1. UNCHANGED <<handler, docs, api>> /\ used' = used \cup {<<n, e.id>> : e \in new}
      /\ engine' = [engine EXCEPT ![n] = new] /\ engine \in [Networks -> SUBSET Entity]
  BY DEF Becomes, BaseInv, ListedInv, Shape
<1>2. Sound(new) /\ \A e \in new \ engine[n] : <<n, e.id>> \notin used \/ e.ended
  BY DEF Evolves
<1>3. engine'[n] = new /\ \A k \in Networks : k # n => engine'[k] = engine[k]
  BY <1>1
<1>4. ASSUME NEW k \in Networks, NEW i \in Instances, EndedForGood(k, i)
      PROVE  EndedForGood(k, i)'
  <2> DEFINE t == Thing("history", i, FALSE)
  <2>1. t \notin engine[k] /\ <<k, i>> \in used /\ t.id = i /\ ~t.ended
    BY <1>4 DEF EndedForGood, Thing
  <2> HIDE DEF t
  <2>2. t \notin engine'[k] /\ <<k, i>> \in used'
    BY <1>1, <1>2, <1>3, <2>1
  <2> QED
    BY <2>2 DEF EndedForGood, t, Thing
<1>5. ASSUME NEW j \in DOMAIN r, r[j].op = "update", r[j].entity.ended
      PROVE  /\ Thing("history", r[j].entity.id, FALSE) \notin engine'[r[j].net]
             /\ <<r[j].net, r[j].entity.id>> \in used'
  <2>1. r[j] \in Changes(n, new)
    BY DEF Sends
  <2>2. PICK e \in new : r[j] = UpdateMessage(n, e)
    BY <1>5, <2>1 DEF Changes, DeleteMessage
  <2>3. r[j].net = n /\ r[j].entity = e
    BY <2>2 DEF UpdateMessage
  <2> DEFINE t == Thing("history", e.id, FALSE)
  <2>4. t.kind = "history" /\ t.id = e.id /\ ~t.ended
    BY DEF Thing
  <2>5. e \in Things /\ e.kind = "history"
    BY <1>2, <1>5, <2>3 DEF Sound, Things
  <2> HIDE DEF t
  <2>6. t \notin new
    BY <1>2, <1>5, <2>3, <2>4, <2>5 DEF Sound, OneVersion
  <2> QED
    BY <1>1, <1>3, <2>3, <2>6 DEF t
<1> QED
  BY <1>1, <1>4, <1>5, EndedReported

LEMMA EndedFullReport ==
    ASSUME BaseInv, EndedStaysEnded, NEW n \in Networks, FullReport(n)
    PROVE  EndedStaysEnded'
<1>1. PICK r \in Seq(Message) :
         /\ msgs' = msgs \o r
         /\ \A k \in DOMAIN r : k \in 1..4 => \E kind \in Kinds : r[k] = KnownMessage(n, kind)
         /\ \A k \in DOMAIN r : k \notin 1..4 => k > 4 /\ \E e \in engine[n] : r[k] = UpdateMessage(n, e)
  BY FullReports DEF BaseInv
<1>2. UNCHANGED <<handler, docs, api, engine, used>>
  BY DEF FullReport, clientVars
<1>3. Sound(engine[n]) /\ \A e \in engine[n] : <<n, e.id>> \in used
  BY DEF BaseInv, FitInv, EngineSound
<1>4. ASSUME NEW j \in DOMAIN r, r[j].op = "update", r[j].entity.ended
      PROVE  /\ Thing("history", r[j].entity.id, FALSE) \notin engine'[r[j].net]
             /\ <<r[j].net, r[j].entity.id>> \in used'
  <2>1. j \notin 1..4
    BY <1>1, <1>4 DEF KnownMessage
  <2>2. PICK e \in engine[n] : r[j] = UpdateMessage(n, e)
    BY <1>1, <2>1
  <2>3. r[j].net = n /\ r[j].entity = e
    BY <2>2 DEF UpdateMessage
  <2> DEFINE t == Thing("history", e.id, FALSE)
  <2>4. t.kind = "history" /\ t.id = e.id /\ ~t.ended
    BY DEF Thing
  <2>5. e \in Things /\ e.kind = "history"
    BY <1>3, <1>4, <2>3 DEF Sound, Things
  <2> HIDE DEF t
  <2>6. t \notin engine[n]
    BY <1>3, <1>4, <2>3, <2>4, <2>5 DEF Sound, OneVersion
  <2> QED
    BY <1>2, <1>3, <2>3, <2>6 DEF t
<1>5. \A k, i : EndedForGood(k, i) => EndedForGood(k, i)'
  BY <1>2 DEF EndedForGood, Thing
<1> QED
  BY <1>1, <1>2, <1>4, <1>5, EndedReported

LEMMA EndedHandler ==
    ASSUME BaseInv, EndedStaysEnded, HandlerSteps \/ CommandFails
    PROVE  EndedStaysEnded'
<1>1. UNCHANGED <<engine, used, api>>
  BY DEF HandlerSteps, Receive, SaveLastContact, SaveDocument, RemoveDocuments, SaveIncident,
         CommandFails, clientVars
<1>2. \E d \in {0, 1} : Keeps(d)
  <2>1. CASE Receive
    BY <2>1, LineReceived, SameLine DEF Drops
  <2>2. ASSUME NEW C, Executes(C), UNCHANGED msgs PROVE \E d \in {0, 1} : Keeps(d)
    BY <2>2, LineExecuted, SameLine DEF Drops
  <2> QED
    BY <2>1, <2>2 DEF HandlerSteps, SaveLastContact, SaveDocument, RemoveDocuments, SaveIncident, CommandFails
<1>3. \A x \in docs' : ~x.placeholder /\ x.ended => x \in docs \/ EndedForGood(x.net, x.id)
  <2>1. CASE SaveDocument \/ SaveIncident
    <3> DEFINE D == DocumentOf(handler.msg.net, handler.msg.entity)
    <3>1. docs' = Save(docs, D) /\ handler # Idle /\ handler.msg.op = "update"
      BY <2>1, SaveFits
    <3>2. D.net = handler.msg.net /\ D.id = handler.msg.entity.id /\ D.ended = handler.msg.entity.ended
      BY DEF DocumentOf
    <3>3. 1 \in DOMAIN Line /\ Line[1] = handler.msg
      BY <3>1, LineShape
    <3>4. D.ended => EndedForGood(D.net, D.id)
      BY <3>1, <3>2, <3>3 DEF EndedStaysEnded
    <3> HIDE DEF D
    <3> QED
      BY <3>1, <3>4 DEF Save
  <2>2. CASE docs' \subseteq docs
    BY <2>2
  <2> QED
    BY <2>1, <2>2 DEF HandlerSteps, Receive, SaveLastContact, RemoveDocuments, CommandFails
<1>4. PICK d \in {0, 1} : Keeps(d)
  BY <1>2
<1> QED
  BY <1>1, <1>3, <1>4, EndedKept

LEMMA EndedRequests ==
    ASSUME BaseInv, EndedStaysEnded, Requests \/ ApiSteps
    PROVE  EndedStaysEnded'
<1>1. UNCHANGED <<msgs, handler, engine, used>>
  BY DEF Requests, StartSavesPlaceholders, ApiDeleteIncident, DeleteHistoryReads, ApiSteps,
         DeleteHistoryRemoves, DeleteHistorySends, DeleteHistorySaves, clientVars
<1>2. Keeps(0)
  BY <1>1, SameLine DEF Line, Drops
<1>3. ASSUME \A x \in docs' : ~x.placeholder => x \in docs, api' = api \/ api' = Idle
      PROVE  EndedStaysEnded'
  BY <1>1, <1>2, <1>3, EndedKept
<1>4. ASSUME NEW n \in Networks, NEW p \in Placeholders, StartSavesPlaceholders(n, p)
      PROVE  EndedStaysEnded'
  <2>1. \A x \in docs' : ~x.placeholder => x \in docs
    BY <1>4 DEF StartSavesPlaceholders
  <2> QED
    BY <1>3, <1>4, <2>1 DEF StartSavesPlaceholders
<1>5. ASSUME NEW n \in Networks, NEW i \in Incidents, ApiDeleteIncident(n, i) PROVE EndedStaysEnded'
  BY <1>3, <1>5 DEF ApiDeleteIncident
<1>6. ASSUME NEW x \in docs, DeleteHistoryReads(x) PROVE EndedStaysEnded'
  <2>1. api'.doc = x /\ (x.placeholder \/ x.ended) /\ docs' = docs
    BY <1>6 DEF DeleteHistoryReads
  <2>2. ~x.placeholder => EndedForGood(x.net, x.id)
    BY <2>1 DEF EndedStaysEnded
  <2> QED
    BY <1>1, <1>2, <2>1, <2>2, EndedKept
<1>7. ASSUME DeleteHistoryRemoves PROVE EndedStaysEnded'
  BY <1>3, <1>7 DEF DeleteHistoryRemoves
<1>8. ASSUME api.at \in {"send", "save"}
      PROVE  /\ api # Idle /\ api \in [at : {"remove", "send", "save"}, doc : Document]
             /\ ~api.doc.placeholder
  <2>1. api # Idle
    BY <1>8 DEF Idle
  <2> QED
    BY <1>8, <2>1 DEF BaseInv, ListedInv, ApiShape, FitInv, ApiFits
<1>9. ASSUME DeleteHistorySends PROVE EndedStaysEnded'
  <2>1. api' = [api EXCEPT !.at = "save"] /\ api.at = "send" /\ docs' = docs
    BY <1>9 DEF DeleteHistorySends
  <2>2. api # Idle /\ api'.doc = api.doc
    BY <1>8, <2>1
  <2> QED
    BY <1>1, <1>2, <2>1, <2>2, EndedKept
<1>10. ASSUME DeleteHistorySaves PROVE EndedStaysEnded'
  <2> DEFINE D == [api.doc EXCEPT !.marked = TRUE]
  <2>1. docs' = Save(docs, D) /\ api' = Idle /\ api.at = "save"
    BY <1>10 DEF DeleteHistorySaves
  <2>2. D.net = api.doc.net /\ D.id = api.doc.id
    BY <1>8, <2>1 DEF Document
  <2>3. EndedForGood(D.net, D.id)
    BY <1>8, <2>1, <2>2 DEF EndedStaysEnded
  <2> HIDE DEF D
  <2> QED
    BY <1>1, <1>2, <2>1, <2>3, EndedKept DEF Save
<1> QED
  BY <1>4, <1>5, <1>6, <1>7, <1>9, <1>10 DEF Requests, ApiSteps

LEMMA EndedOthers ==
    ASSUME BaseInv, EndedStaysEnded,
           BeginCleanup \/ CleanupSteps \/ CleanupFails \/ Time \/ Stops \/ LosesMessages \/ Presence
              \/ Notifications \/ NotificationsFail \/ UNCHANGED vars
    PROVE  EndedStaysEnded'
<1>1. UNCHANGED <<engine, used>> /\ docs' \subseteq docs /\ (api' = api \/ api' = Idle)
  BY DEF BeginCleanup, CleanupSteps, RemoveOldDocuments, RemoveOldContacts, CleanupFails, Time,
         ContactAges, Stops, LosesMessages, Presence, FallsSilent, Returns, Notifications,
         NotificationSent, NotificationsFail, NotificationFails, clientVars, vars
<1>2. Keeps(0)
  <2>1. CASE Stops \/ LosesMessages
    BY <2>1, LineLost
  <2>2. CASE UNCHANGED <<msgs, handler>>
    BY <2>2, SameLine DEF Line, Drops
  <2> QED
    BY <2>1, <2>2
    DEF BeginCleanup, CleanupSteps, RemoveOldDocuments, RemoveOldContacts, CleanupFails, Time,
        ContactAges, Presence, FallsSilent, Returns, Notifications, NotificationSent,
        NotificationsFail, NotificationFails, vars
<1> QED
  BY <1>1, <1>2, EndedKept

LEMMA EndedClients ==
    ASSUME BaseInv, EndedStaysEnded, ClientChanges \/ ClientAnswers
    PROVE  EndedStaysEnded'
<1>1. ListedInv /\ EngineSound /\ RestOK
  BY DEF BaseInv, FitInv
<1>2. ASSUME NEW n \in Networks, NEW d \in Definitions, Deploys(n, d) \/ Undeploys(n, d)
      PROVE  EndedStaysEnded'
  BY <1>1, <1>2, ChangesEvolve, EndedBecomes
<1>3. ASSUME NEW n \in Networks, NEW i \in Instances, Runs(n, i) \/ Ends(n, i) PROVE EndedStaysEnded'
  BY <1>1, <1>3, ChangesEvolve, EndedBecomes
<1>4. ASSUME NEW n \in Networks, NEW x \in Incidents, Fails(n, x) PROVE EndedStaysEnded'
  BY <1>1, <1>4, ChangesEvolve, EndedBecomes
<1>5. ASSUME NEW c \in cmds, ObeysHistoryDelete(c) PROVE EndedStaysEnded'
  BY <1>1, <1>5, AnswersEvolve, EndedBecomes
<1> QED
  BY <1>2, <1>3, <1>4, <1>5, EndedFullReport DEF ClientChanges, ClientAnswers

LEMMA EndedStep ==
    ASSUME BaseInv, EndedStaysEnded, [Next]_vars
    PROVE  EndedStaysEnded'
BY EndedHandler, EndedRequests, EndedOthers, EndedClients DEF Next, Failures, SaveIncidentFails

-----------------------------------------------------------------------------
(* The copy in the other steps                                             *)

(* Steps of the requests, of the cleanup, and of time.                     *)
LEMMA CopySameLine ==
    ASSUME BaseInv, NEW n \in Networks, Copied(n), UNCHANGED <<msgs, handler, engine>>,
           waived \subseteq waived',
           \A x \in docs : x.net = n /\ ~x.placeholder =>
              \/ x \in docs'
              \/ \E y \in docs' : /\ y.net = n /\ ~y.placeholder
                                  /\ Thing(y.kind, y.id, y.ended) = Thing(x.kind, x.id, x.ended)
              \/ x.kind = "incident" /\ <<n, x.id>> \in waived'
              \/ Thing(x.kind, x.id, x.ended) \notin engine[n],
           \A x \in docs' : x.net = n /\ Reported(x) => x \in docs
    PROVE  Copied(n)'
<1>1. Tracks(n, 0) /\ engine'[n] = engine[n]
  BY SameLine, DropsTracks DEF Line
<1>2. \A j \in DOMAIN Line : ~(j > 0) => Line[j].net # n
  <2>1. \A j \in DOMAIN Line : j > 0
    BY LineShape
  <2> QED
    BY <2>1
<1>3. 1 \in DOMAIN Line /\ Line[1].net = n => handler' = handler
  OBVIOUS
<1>4. ~(0 = 1)
  OBVIOUS
<1> QED
  BY <1>1, <1>2, <1>3, <1>4, CopyUntouched

(* A command of another network's handler fails.                           *)
LEMMA CopyCommandFails ==
    ASSUME BaseInv, CommandFails, NEW n \in Networks, Copied(n), n \notin broken'
    PROVE  Copied(n)'
<1>1. UNCHANGED <<docs, msgs, engine, waived>> /\ handler # Idle /\ n # handler.msg.net
  BY DEF CommandFails, Executes, clientVars, noticeVars
<1>2. PICK d \in {0, 1} : Drops(d) /\ (d = 1 => handler' = Idle)
  BY <1>1, LineExecuted, SameLine DEF CommandFails
<1>3. 1 \in DOMAIN Line /\ Line[1].net # n /\ DOMAIN Line \subseteq Nat /\ \A j \in DOMAIN Line : j >= 1
  BY <1>1, LineShape
<1>4. \A j \in DOMAIN Line : ~(j > d) => Line[j].net # n
  <2>1. \A j \in DOMAIN Line : ~(j > d) => j = 1
    BY <1>3
  <2> QED
    BY <1>3, <2>1
<1>5. Tracks(n, d) /\ engine'[n] = engine[n]
  BY <1>1, <1>2, DropsTracks
<1> QED
  BY <1>1, <1>2, <1>3, <1>4, <1>5, CopyUntouched

(* Losses in which nothing of n is lost.                                   *)
LEMMA CopyLosses ==
    ASSUME BaseInv, Stops \/ LosesMessages, NEW n \in Networks, Copied(n), n \notin broken'
    PROVE  Copied(n)'
<1>1. UNCHANGED <<docs, engine, waived>>
  BY DEF Stops, LosesMessages, clientVars, noticeVars
<1>2. \A k \in DOMAIN msgs : msgs[k].net # n
  BY DEF Stops, LosesMessages
<1>3. /\ DOMAIN Line \subseteq Nat /\ \A j \in DOMAIN Line : j >= 1
      /\ handler = Idle => Line = msgs
      /\ handler # Idle =>
            /\ handler.msg \in Message /\ 1 \in DOMAIN Line /\ Line[1] = handler.msg
            /\ \A j \in DOMAIN msgs : j + 1 \in DOMAIN Line /\ Line[j + 1] = msgs[j]
            /\ \A j \in DOMAIN Line : j = 1 \/ (j > 1 /\ j - 1 \in DOMAIN msgs)
  BY LineShape
<1>4. \A j \in DOMAIN Line : Line[j].net = n => j = 1 /\ handler # Idle
  <2> SUFFICES ASSUME NEW j \in DOMAIN Line, Line[j].net = n PROVE j = 1 /\ handler # Idle
    OBVIOUS
  <2>1. handler # Idle
    BY <1>2, <1>3
  <2>2. ASSUME j # 1 PROVE FALSE
    <3>1. j - 1 \in DOMAIN msgs /\ (j - 1) + 1 = j
      BY <1>3, <2>1, <2>2
    <3>2. Line[j] = msgs[j - 1]
      BY <1>3, <2>1, <3>1
    <3> QED
      BY <1>2, <3>1, <3>2
  <2> QED
    BY <2>1, <2>2
<1>5. \A j \in DOMAIN Line : Line[j].net = n => handler' = handler /\ j - 0 \in DOMAIN Line' /\ Line'[j - 0] = Line[j]
  <2> SUFFICES ASSUME NEW j \in DOMAIN Line, Line[j].net = n
               PROVE  handler' = handler /\ j - 0 \in DOMAIN Line' /\ Line'[j - 0] = Line[j]
    OBVIOUS
  <2>1. j = 1 /\ handler # Idle /\ handler.msg.net = n
    BY <1>3, <1>4
  <2>2. CASE Stops
    BY <2>1, <2>2 DEF Stops, BeingHandled
  <2>3. CASE LosesMessages
    <3>1. msgs' = <<>> /\ handler' = handler
      BY <2>3 DEF LosesMessages
    <3>2. Line' = <<handler.msg>> \o <<>>
      BY <2>1, <3>1 DEF Line
    <3>3. DOMAIN Line' = {1} /\ Line'[1] = handler.msg
      BY <1>3, <2>1, <3>2
    <3> QED
      BY <1>3, <2>1, <3>1, <3>3
  <2> QED
    BY <2>2, <2>3
<1>6. Tracks(n, 0)
  BY <1>5, LineLost DEF Tracks
<1>7. /\ \A j \in DOMAIN Line : ~(j > 0) => Line[j].net # n
      /\ 1 \in DOMAIN Line /\ Line[1].net = n => handler' = handler
      /\ ~(0 = 1)
  BY <1>3, <1>5
<1> QED
  BY <1>1, <1>6, <1>7, CopyUntouched

(* The cleanup of other networks, time, and clients that come and go.      *)
LEMMA CopyTime ==
    ASSUME BaseInv,
           BeginCleanup \/ CleanupSteps \/ CleanupFails \/ Time \/ Presence \/
           Notifications \/ NotificationsFail \/ UNCHANGED vars,
           NEW n \in Networks, Copied(n), n \notin broken'
    PROVE  Copied(n)'
<1>1. UNCHANGED <<msgs, handler, engine, waived>>
  BY DEF BeginCleanup, CleanupSteps, RemoveOldDocuments, RemoveOldContacts, CleanupFails, Time,
         ContactAges, Presence, FallsSilent, Returns, Notifications, NotificationSent,
         NotificationsFail, NotificationFails, clientVars,
         noticeVars, vars
<1>2. docs' \subseteq docs /\ \A x \in docs : x.net = n => x \in docs'
  <2>1. CASE RemoveOldDocuments
    <3>1. n \notin cleaner.nets
      BY <2>1 DEF RemoveOldDocuments
    <3> QED
      BY <2>1, <3>1 DEF RemoveOldDocuments
  <2>2. CASE ~RemoveOldDocuments
    BY <2>2 DEF BeginCleanup, CleanupSteps, RemoveOldContacts, CleanupFails, Time, ContactAges,
       Presence, FallsSilent, Returns, Notifications, NotificationSent,
       NotificationsFail, NotificationFails, clientVars, vars
  <2> QED
    BY <2>1, <2>2
<1> QED
  BY <1>1, <1>2, CopySameLine

(* The requests of users: a history is marked only once it has ended, and  *)
(* what is removed are placeholders and incidents.                         *)
LEMMA CopyRequests ==
    ASSUME BaseInv, EndedStaysEnded, Requests \/ ApiSteps, NEW n \in Networks, Copied(n)
    PROVE  Copied(n)'
<1>1. UNCHANGED <<msgs, handler, engine>> /\ waived \subseteq waived'
  BY DEF Requests, StartSavesPlaceholders, ApiDeleteIncident, DeleteHistoryReads, ApiSteps,
         DeleteHistoryRemoves, DeleteHistorySends, DeleteHistorySaves, clientVars, noticeVars
<1>2. docs \in SUBSET Document /\ DocsFit
  BY DEF BaseInv, ListedInv, Shape, FitInv
<1>3. ASSUME NEW k \in Networks, NEW p \in Placeholders, StartSavesPlaceholders(k, p)
      PROVE  Copied(n)'
  <2>1. docs \subseteq docs' /\ \A x \in docs' : x \in docs \/ ~Reported(x)
    BY <1>3 DEF StartSavesPlaceholders, Reported
  <2> QED
    BY <1>1, <2>1, CopySameLine
<1>4. ASSUME NEW k \in Networks, NEW i \in Incidents, ApiDeleteIncident(k, i) PROVE Copied(n)'
  <2>1. docs' = docs \ RemoveIncident(k, i) /\ <<k, i>> \in waived'
    BY <1>4 DEF ApiDeleteIncident
  <2>2. \A x \in docs : x.net = n => x \in docs' \/ (x.kind = "incident" /\ <<n, x.id>> \in waived')
    BY <2>1 DEF RemoveIncident, Of
  <2> QED
    BY <1>1, <2>1, <2>2, CopySameLine
<1>5. ASSUME NEW x \in docs, DeleteHistoryReads(x) PROVE Copied(n)'
  BY <1>1, <1>5, CopySameLine DEF DeleteHistoryReads
<1>6. ASSUME DeleteHistoryRemoves PROVE Copied(n)'
  <2>1. /\ docs' = docs \ RemoveHistoricProcessInstance(api.doc.net, api.doc.id)
        /\ api # Idle /\ api.at = "remove"
    BY <1>6 DEF DeleteHistoryRemoves, Idle
  <2>2. api.doc.id \in Placeholders
    BY <2>1 DEF BaseInv, FitInv, ApiFits, DocFits
  <2>3. \A x \in docs : ~x.placeholder => x.id \in EntityIds
    BY <1>2 DEF DocsFit, DocFits, Things, Thing, Entity
  <2>4. \A x \in docs : ~x.placeholder => x \in docs'
    BY <2>1, <2>2, <2>3, PlaceholdersAssumption DEF RemoveHistoricProcessInstance, Of
  <2> QED
    BY <1>1, <2>1, <2>4, CopySameLine
<1>7. ASSUME DeleteHistorySends PROVE Copied(n)'
  BY <1>1, <1>7, CopySameLine DEF DeleteHistorySends
<1>8. ASSUME DeleteHistorySaves PROVE Copied(n)'
  <2> DEFINE D == [api.doc EXCEPT !.marked = TRUE]
  <2>1. docs' = Save(docs, D) /\ api # Idle /\ api.at = "save"
    BY <1>8 DEF DeleteHistorySaves, Idle
  <2>2. api.doc \in Document /\ api.doc.kind = "history" /\ ~api.doc.placeholder /\ api.doc.ended
    BY <2>1 DEF BaseInv, ListedInv, ApiShape, FitInv, ApiFits
  <2>3. /\ D.net = api.doc.net /\ D.kind = "history" /\ D.id = api.doc.id /\ ~D.placeholder
        /\ D.ended = TRUE /\ ~Reported(D)
    BY <2>2 DEF Document, Reported
  <2>4. EndedForGood(D.net, D.id)
    BY <2>1, <2>2, <2>3 DEF EndedStaysEnded
  <2> HIDE DEF D
  <2>5. ASSUME NEW x \in docs, x.net = n, ~x.placeholder, x \notin docs'
        PROVE  \/ \E y \in docs' : /\ y.net = n /\ ~y.placeholder
                                   /\ Thing(y.kind, y.id, y.ended) = Thing(x.kind, x.id, x.ended)
               \/ Thing(x.kind, x.id, x.ended) \notin engine[n]
    <3>1. x.net = D.net /\ x.kind = D.kind /\ x.id = D.id /\ D \in docs'
      BY <2>1, <2>5 DEF Save
    <3>2. x.ended \in BOOLEAN
      BY <1>2 DEF Document
    <3>3. CASE x.ended = TRUE
      BY <2>3, <2>5, <3>1, <3>3
    <3>4. CASE x.ended = FALSE
      BY <2>3, <2>4, <2>5, <3>1, <3>4 DEF EndedForGood
    <3> QED
      BY <3>2, <3>3, <3>4
  <2>6. \A x \in docs' : Reported(x) => x \in docs
    BY <2>1, <2>3 DEF Save
  <2> QED
    BY <1>1, <2>5, <2>6, CopySameLine
<1> QED
  BY <1>3, <1>4, <1>5, <1>6, <1>7, <1>8 DEF Requests, ApiSteps

(* A full report of another network.                                       *)
LEMMA CopyOthersReport ==
    ASSUME BaseInv, NEW c \in Networks, FullReport(c), NEW n \in Networks, n # c, Copied(n)
    PROVE  Copied(n)'
<1>1. PICK r \in Seq(Message) :
         /\ msgs' = msgs \o r
         /\ \A k \in DOMAIN r : k \in 1..4 => \E kind \in Kinds : r[k] = KnownMessage(c, kind)
         /\ \A k \in DOMAIN r : k \notin 1..4 => k > 4 /\ \E e \in engine[c] : r[k] = UpdateMessage(c, e)
  BY FullReports DEF BaseInv
<1>2. UNCHANGED <<handler, docs, engine, waived>>
  BY DEF FullReport, noticeVars, clientVars
<1>3. \A j \in DOMAIN r : r[j].net # n
  <2> TAKE j \in DOMAIN r
  <2>1. CASE j \in 1..4
    BY <1>1, <2>1 DEF KnownMessage
  <2>2. CASE j \notin 1..4
    BY <1>1, <2>2 DEF UpdateMessage
  <2> QED
    BY <2>1, <2>2
<1>4. \A j \in DOMAIN r : \A kind, i : ~Concerns(r[j], n, kind, i)
  BY <1>3, ConcernsItsNetwork
<1> QED
  BY <1>1, <1>2, <1>3, <1>4, CopyReported

LEMMA CopyClients ==
    ASSUME BaseInv, ClientChanges \/ ClientAnswers,
           NEW n \in Networks, n \notin broken', n \notin broken => Copied(n)
    PROVE  Copied(n)'
<1>1. ListedInv /\ EngineSound /\ RestOK
  BY DEF BaseInv, FitInv
<1>2. ASSUME NEW c \in Networks, NEW new, Evolves(c, new), Becomes(c, new) PROVE Copied(n)'
  <2>1. Copied(n)
    BY <1>2 DEF Becomes
  <2> QED
    BY <1>2, <2>1, CopyBecomes
<1>3. ASSUME NEW c \in Networks, NEW d \in Definitions, Deploys(c, d) \/ Undeploys(c, d)
      PROVE  Copied(n)'
  BY <1>1, <1>2, <1>3, ChangesEvolve
<1>4. ASSUME NEW c \in Networks, NEW i \in Instances, Runs(c, i) \/ Ends(c, i) PROVE Copied(n)'
  BY <1>1, <1>2, <1>4, ChangesEvolve
<1>5. ASSUME NEW c \in Networks, NEW x \in Incidents, Fails(c, x) PROVE Copied(n)'
  BY <1>1, <1>2, <1>5, ChangesEvolve
<1>6. ASSUME NEW c \in cmds, ObeysHistoryDelete(c) PROVE Copied(n)'
  BY <1>1, <1>2, <1>6, AnswersEvolve
<1>7. ASSUME NEW c \in Networks, FullReport(c) PROVE Copied(n)'
  <2>1. CASE c = n
    BY <1>7, <2>1, CopyAnew
  <2>2. CASE c # n
    <3>1. Copied(n)
      BY <1>7, <2>2 DEF FullReport
    <3> QED
      BY <1>7, <2>2, <3>1, CopyOthersReport
  <2> QED
    BY <2>1, <2>2
<1> QED
  BY <1>3, <1>4, <1>5, <1>6, <1>7 DEF ClientChanges, ClientAnswers

LEMMA CopyStep ==
    ASSUME BaseInv, EndedStaysEnded, [Next]_vars,
           NEW n \in Networks, n \notin broken', n \notin broken => Copied(n)
    PROVE  Copied(n)'
<1>1. CASE ClientChanges \/ ClientAnswers
  BY <1>1, CopyClients
<1>2. CASE ~(ClientChanges \/ ClientAnswers)
  <2>1. broken \subseteq broken'
    BY <1>2 DEF Next, HandlerSteps, Receive, SaveLastContact, SaveDocument, RemoveDocuments,
       SaveIncident, Notifications, NotificationSent,
       NotificationsFail, NotificationFails, Requests, StartSavesPlaceholders,
       ApiDeleteIncident, DeleteHistoryReads, ApiSteps, DeleteHistoryRemoves, DeleteHistorySends,
       DeleteHistorySaves, BeginCleanup, CleanupSteps, RemoveOldDocuments, RemoveOldContacts, Time,
       ContactAges, Failures, CommandFails, SaveIncidentFails, CleanupFails, Stops, LosesMessages,
       Presence, FallsSilent, Returns, vars
  <2>2. Copied(n)
    BY <2>1
  <2>3. CASE HandlerSteps
    BY <2>2, <2>3, CopyReceive, CopySaveLastContact, CopySave, CopyRemoveDocuments DEF HandlerSteps
  <2>4. CASE Requests \/ ApiSteps
    BY <2>2, <2>4, CopyRequests
  <2>5. CASE CommandFails \/ SaveIncidentFails \/ Stops \/ LosesMessages
    BY <2>2, <2>5, CopyCommandFails, CopyLosses DEF SaveIncidentFails
  <2>6. CASE BeginCleanup \/ CleanupSteps \/ CleanupFails \/ Time \/ Presence \/ Notifications \/ NotificationsFail \/ UNCHANGED vars
    BY <2>2, <2>6, CopyTime
  <2> QED
    BY <1>2, <2>3, <2>4, <2>5, <2>6 DEF Next, Failures
<1> QED
  BY <1>1, <1>2

(* Once everything is handled, and nothing was lost since the last full    *)
(* report, the copy is the client's engine, whatever was reordered by the  *)
(* handlers, users and cleanups: pkg/controller, pkg/database/mongo.       *)
THEOREM CopyIsTheEngine == Spec => []CopyIsEngine
<1>1. Init => BaseInv /\ CopyCore
  <2> SUFFICES ASSUME Init PROVE CopyCore
    BY BaseInvInit
  <2>1. Line = <<>> /\ docs = {} /\ api = Idle /\ \A n \in Networks : engine[n] = {}
    BY DEF Init, Line
  <2> QED
    BY <2>1 DEF CopyCore, EndedStaysEnded, Copied, HeldIsCopied, HeldIsReportedLast,
                AbsentIsLeaving, StaleIsConcerned
<1>2. BaseInv /\ CopyCore /\ [Next]_vars => (BaseInv /\ CopyCore)'
  <2> SUFFICES ASSUME BaseInv, CopyCore, [Next]_vars PROVE (BaseInv /\ CopyCore)'
    OBVIOUS
  <2>1. EndedStaysEnded /\ \A n \in Networks \ broken : Copied(n)
    BY DEF CopyCore
  <2>2. BaseInv' /\ EndedStaysEnded'
    BY <2>1, BaseInvStep, EndedStep
  <2>3. ASSUME NEW n \in Networks \ broken' PROVE Copied(n)'
    BY <2>1, <2>3, CopyStep
  <2> QED
    BY <2>2, <2>3 DEF CopyCore
<1>3. BaseInv /\ CopyCore => CopyIsEngine
  <2> SUFFICES ASSUME BaseInv, CopyCore, NEW n \in Networks, Quiet(n)
               PROVE  /\ Copy(n, {d \in docs : ~d.marked}) \subseteq engine[n]
                      /\ \A e \in engine[n] \ Copy(n, docs) :
                            e.kind = "incident" /\ <<n, e.id>> \in waived
    BY DEF CopyIsEngine
  <2>1. Copied(n)
    BY DEF CopyCore, Quiet
  <2>2. \A j \in DOMAIN Line : Line[j].net # n
    BY LineShape DEF Quiet
  <2>3. ASSUME NEW x \in docs, x.net = n, ~x.placeholder, ~x.marked
        PROVE  Thing(x.kind, x.id, x.ended) \in engine[n]
    <3> SUFFICES ASSUME Thing(x.kind, x.id, x.ended) \notin engine[n] PROVE FALSE
      OBVIOUS
    <3>1. PICK j \in DOMAIN Line : Concerns(Line[j], n, x.kind, x.id)
      BY <2>1, <2>3 DEF Copied, AbsentIsLeaving, Reported, StillConcerns
    <3> QED
      BY <2>2, <3>1, ConcernsItsNetwork
  <2>4. ASSUME NEW e \in engine[n], e \notin Copy(n, docs)
        PROVE  e.kind = "incident" /\ <<n, e.id>> \in waived
    <3>1. ~\E x \in docs : IsCopy(x, n, e)
      BY <2>4 DEF IsCopy, Copy
    <3>2. ~\E j \in DOMAIN Line : Brings(Line[j], n, e)
      BY <2>2 DEF Brings
    <3> QED
      BY <2>1, <3>1, <3>2 DEF Copied, HeldIsCopied
  <2> QED
    BY <2>3, <2>4 DEF Copy
<1> QED
  BY <1>1, <1>2, <1>3, PTL DEF Spec
=============================================================================
