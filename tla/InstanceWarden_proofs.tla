----------------------- MODULE InstanceWarden_proofs ------------------------
(***************************************************************************)
(* Proofs about InstanceWarden, for any sets of keys and any bounds: type  *)
(* correctness, that a key whose guard a user removed is started by the    *)
(* warden at most once more, and of the prompt behaviours of               *)
(* MCInstanceWarden that a key never has two runs under way, that the      *)
(* warden stops no instance without a cause, and that it drops the guard   *)
(* of a key only after a run of the key ended.                             *)
(***************************************************************************)
EXTENDS MCInstanceWarden, FiniteSetTheorems, WellFoundedInduction, TLAPS

USE DEF AllKeys, Ids, Ages, Saves, Startable

(* What a message of each type carries.                                    *)
LEMMA MessageFields ==
    ASSUME NEW m \in Message
    PROVE  /\ m.type \in {"instance", "history"} => m.id \in Ids /\ m.key \in AllKeys
           /\ m.type \in {"instance-delete", "history-delete", "incident"} => m.id \in Ids
           /\ m.type \in {"instance-known", "history-known"} => m.ids \subseteq Ids
BY DEF Message

(* Taking the first message leaves a sequence of messages.                 *)
LEMMA ReceiveType ==
    ASSUME msgs \in Seq(Message), NEW type, Receive(type)
    PROVE  Head(msgs) \in Message /\ Head(msgs).type = type /\ msgs' \in Seq(Message)
BY DEF Receive

(* Sending appends messages.                                               *)
LEMMA SendsType ==
    ASSUME msgs \in Seq(Message), NEW s \in Seq(Message), ClientSends(s)
    PROVE  msgs' \in Seq(Message)
BY DEF ClientSends

(* The messages of a run are messages.                                     *)
LEMMA RunMessages ==
    ASSUME NEW r \in Run
    PROVE  /\ InstanceMessage(r) \in Message /\ HistoryMessage(r) \in Message
           /\ EndMessage(r.id) \in Message /\ IncidentMessage(r.id) \in Message
BY DEF Run, Message, InstanceMessage, HistoryMessage, EndMessage, IncidentMessage

(* The placeholder documents of a start have the type of documents.        *)
LEMMA SavePlaceholdersType ==
    ASSUME TypeOK, NEW insts \in SUBSET Instance, NEW hists \in SUBSET History,
           NEW k \in AllKeys, NEW saved, SavePlaceholders(insts, hists, k, saved)
    PROVE  instances' \subseteq Instance /\ histories' \subseteq History /\ fresh' \subseteq Ids
<1>1. PICK i \in Ids :
          /\ instances' = IF saved = "none" THEN insts
                                            ELSE insts \cup {PlaceholderInstance(i, k)}
          /\ histories' = IF saved = "both" THEN hists \cup {PlaceholderHistory(i, k)} ELSE hists
          /\ fresh' = IF saved = "both" THEN fresh \cup {i} ELSE fresh
  BY DEF SavePlaceholders
<1>2. PlaceholderInstance(i, k) \in Instance /\ PlaceholderHistory(i, k) \in History
  BY DEF PlaceholderInstance, PlaceholderHistory, Instance, History
<1> QED
  BY <1>1, <1>2 DEF TypeOK

(* A start command stays below its bound.                                  *)
LEMMA SendStartType ==
    ASSUME TypeOK, NEW k \in AllKeys, NEW d, SendDeploymentStartCommand(d, k)
    PROVE  starts' \in [AllKeys -> 0..MaxStarts]
BY BoundsAssumption DEF SendDeploymentStartCommand, TypeOK

(* A start by the warden over well-typed documents keeps the types.        *)
LEMMA WardenStartType ==
    ASSUME TypeOK, NEW insts \in SUBSET Instance, NEW hists \in SUBSET History,
           NEW k \in Keys, NEW d, StartDeploymentWithoutWardenHandling(insts, hists, d, k)
    PROVE  /\ instances' \subseteq Instance /\ histories' \subseteq History /\ fresh' \subseteq Ids
           /\ starts' \in [AllKeys -> 0..MaxStarts]
           /\ late' \in [Keys -> Nat]
<1>1. CASE /\ d \in Startable
           /\ SendDeploymentStartCommand(d, k)
           /\ \E saved \in SaveOutcomes : SavePlaceholders(insts, hists, k, saved)
           /\ late' = IF k \in cleared THEN [late EXCEPT ![k] = @ + 1] ELSE late
  <2>1. instances' \subseteq Instance /\ histories' \subseteq History /\ fresh' \subseteq Ids
    BY <1>1, SavePlaceholdersType
  <2>2. starts' \in [AllKeys -> 0..MaxStarts]
    BY <1>1, SendStartType
  <2>3. late' \in [Keys -> Nat]
    BY <1>1 DEF TypeOK
  <2> QED
    BY <2>1, <2>2, <2>3
<1>2. CASE instances' = insts /\ histories' = hists /\ UNCHANGED <<starts, fresh, late>>
  BY <1>2 DEF TypeOK
<1> QED
  BY <1>1, <1>2 DEF StartDeploymentWithoutWardenHandling

(* Stopping instances, also ones read earlier, keeps the types.            *)
LEMMA StopType ==
    ASSUME TypeOK, NEW S \in SUBSET Instance
    PROVE  /\ InstancesAfterStop(S) \in SUBSET Instance
           /\ HistoriesAfterStop(S) \in SUBSET History
           /\ IdsOf({x \in S : ~x.placeholder}) \subseteq Ids
BY DEF TypeOK, InstancesAfterStop, HistoriesAfterStop, Without, IdsOf, Instance

-----------------------------------------------------------------------------
(* The initial states are well-typed.                                      *)
LEMMA InitTypeOK == Init => TypeOK
BY BoundsAssumption DEF Init, TypeOK, DeploymentStates

(* The steps of the REST API keep the types.                               *)
LEMMA ApiTypeOK ==
    ASSUME TypeOK, ApiSteps \/ UserRequests \/ DeploymentRequests
    PROVE  TypeOK'
<1>1. ASSUME NEW k \in Keys, AddInstanceWarden(k) PROVE TypeOK'
  BY <1>1 DEF AddInstanceWarden, TypeOK, deplVars, docVars, cmdVars, clientVars, loopVars
<1>2. ASSUME NEW k \in Keys, ApiSendStart(k) PROVE TypeOK'
  <2>1. starts' \in [AllKeys -> 0..MaxStarts]
    BY <1>2, SendStartType DEF ApiSendStart
  <2> QED
    BY <1>2, <2>1
    DEF ApiSendStart, TypeOK, deplVars, docVars, clientVars, loopVars, ghostVars
<1>3. ASSUME NEW k \in Keys, ApiRefuseStart(k) PROVE TypeOK'
  BY <1>3 DEF ApiRefuseStart, RollBackGuard, TypeOK, deplVars, docVars, cmdVars, clientVars, loopVars
<1>4. ASSUME NEW k \in Keys, ApiSavePlaceholders(k) PROVE TypeOK'
  <2>1. PICK saved \in SaveOutcomes :
           /\ SavePlaceholders(instances, histories, k, saved)
           /\ IF saved = "both"
              THEN /\ starting' = [starting EXCEPT ![k] = "idle"]
                   /\ UNCHANGED <<warden, ghostVars>>
              ELSE RollBackGuard(k)
    BY <1>4 DEF ApiSavePlaceholders
  <2>2. instances' \subseteq Instance /\ histories' \subseteq History /\ fresh' \subseteq Ids
    BY <2>1, SavePlaceholdersType DEF TypeOK
  <2>3. /\ starting' \in [Keys -> {"idle", "guarded", "sent"}] /\ warden' \in [Keys -> Ages]
        /\ cleared' \subseteq Keys /\ late' \in [Keys -> Nat]
    <3>1. CASE saved = "both"
      BY <2>1, <3>1 DEF TypeOK, ghostVars
    <3>2. CASE saved # "both"
      <4>1. RollBackGuard(k)
        BY <2>1, <3>2
      <4> QED
        BY <4>1 DEF RollBackGuard, TypeOK
    <3> QED
      BY <3>1, <3>2
  <2>4. UNCHANGED <<deplVars, incidents, cmdVars, clientVars, loopVars>>
    BY <1>4 DEF ApiSavePlaceholders
  <2> QED
    BY <2>2, <2>3, <2>4 DEF TypeOK, deplVars, cmdVars, clientVars, loopVars
<1>5. ASSUME NEW x \in instances, ApiDeleteProcessInstance(x) PROVE TypeOK'
  <2>1. /\ InstancesAfterStop({x}) \in SUBSET Instance
        /\ HistoriesAfterStop({x}) \in SUBSET History
        /\ IdsOf({y \in {x} : ~y.placeholder}) \subseteq Ids
    BY <1>5, StopType DEF TypeOK
  <2> QED
    BY <1>5, <2>1
    DEF ApiDeleteProcessInstance, ClearGuards, StopProcessInstancesWithoutWardenHandling,
        TypeOK, deplVars, clientVars, loopVars
<1>6. ASSUME NEW k \in AllKeys, DeleteProcessInstanceByBusinessKey(k) PROVE TypeOK'
  <2>1. /\ InstancesAfterStop(InstancesOf(k)) \in SUBSET Instance
        /\ HistoriesAfterStop(InstancesOf(k)) \in SUBSET History
        /\ IdsOf({x \in InstancesOf(k) : ~x.placeholder}) \subseteq Ids
    <3>1. InstancesOf(k) \in SUBSET Instance
      BY DEF InstancesOf, TypeOK
    <3> QED
      BY <3>1, StopType
  <2> QED
    BY <1>6, <2>1
    DEF DeleteProcessInstanceByBusinessKey, ClearGuards,
        StopProcessInstancesWithoutWardenHandling, TypeOK, deplVars, clientVars, loopVars
<1>7. ASSUME NEW h \in histories, ApiDeletePlaceholderHistory(h) PROVE TypeOK'
  BY <1>7 DEF ApiDeletePlaceholderHistory, Without, TypeOK, deplVars, cmdVars, clientVars,
              loopVars, ghostVars
<1>8. CASE ApiCreateDeployment
  BY <1>8 DEF ApiCreateDeployment, DeploymentStates, TypeOK, docVars, cmdVars, clientVars,
              loopVars, ghostVars
<1>9. CASE ApiDeleteDeployment
  <2>1. instances' \subseteq Instance
    BY <1>9 DEF ApiDeleteDeployment, TypeOK
  <2>2. deployment' \in DeploymentStates
    BY <1>9 DEF ApiDeleteDeployment, DeploymentStates
  <2> QED
    BY <1>9, <2>1, <2>2
    DEF ApiDeleteDeployment, ClearGuards, TypeOK, cmdVars, clientVars, loopVars
<1> QED
  BY <1>1, <1>2, <1>3, <1>4, <1>5, <1>6, <1>7, <1>8, <1>9
  DEF ApiSteps, UserRequests, DeploymentRequests

(* The MQTT handlers keep the types.                                       *)
LEMMA HandlersTypeOK ==
    ASSUME TypeOK, Handlers \/ DeploymentHandlers
    PROVE  TypeOK'
<1>1. CASE UpdateProcessInstance
  <2> DEFINE m == Head(msgs)
  <2>1. m \in Message /\ m.type = "instance" /\ msgs' \in Seq(Message)
    BY <1>1, ReceiveType DEF UpdateProcessInstance, TypeOK
  <2>2. m.id \in Ids /\ m.key \in AllKeys
    BY <2>1, MessageFields
  <2> DEFINE doc == [id |-> m.id, key |-> m.key, placeholder |-> FALSE, young |-> TRUE]
  <2>3. doc \in Instance
    BY <2>2 DEF Instance
  <2>4. instances' = Save(WithoutPlaceholders(instances), doc)
    BY <1>1 DEF UpdateProcessInstance
  <2> HIDE DEF m, doc
  <2>5. instances' \subseteq Instance
    BY <2>3, <2>4 DEF Save, WithoutPlaceholders, TypeOK
  <2> QED
    BY <1>1, <2>1, <2>5
    DEF UpdateProcessInstance, TypeOK, deplVars, cmdVars, loopVars, ghostVars
<1>2. CASE DeleteProcessInstance
  <2>1. msgs' \in Seq(Message)
    BY <1>2, ReceiveType DEF DeleteProcessInstance, TypeOK
  <2> QED
    BY <1>2, <2>1
    DEF DeleteProcessInstance, Without, WithoutIncidents, TypeOK, deplVars, cmdVars, loopVars, ghostVars
<1>3. CASE DeleteUnknownProcessInstances
  <2>1. msgs' \in Seq(Message)
    BY <1>3, ReceiveType DEF DeleteUnknownProcessInstances, TypeOK
  <2> QED
    BY <1>3, <2>1
    DEF DeleteUnknownProcessInstances, WithoutIncidents, TypeOK, deplVars, cmdVars, loopVars, ghostVars
<1>4. CASE UpdateHistoricProcessInstance
  <2> DEFINE m == Head(msgs)
  <2>1. m \in Message /\ m.type = "history" /\ msgs' \in Seq(Message)
    BY <1>4, ReceiveType DEF UpdateHistoricProcessInstance, TypeOK
  <2>2. m.id \in Ids /\ m.key \in AllKeys
    BY <2>1, MessageFields
  <2> DEFINE doc == [id |-> m.id, key |-> m.key, placeholder |-> FALSE]
  <2>3. doc \in History
    BY <2>2 DEF History
  <2>4. histories' = Save(WithoutPlaceholders(histories), doc)
        /\ instances' = WithoutPlaceholders(instances)
    BY <1>4 DEF UpdateHistoricProcessInstance
  <2> HIDE DEF m, doc
  <2>5. histories' \subseteq History /\ instances' \subseteq Instance
    BY <2>3, <2>4 DEF Save, WithoutPlaceholders, TypeOK
  <2> QED
    BY <1>4, <2>1, <2>5
    DEF UpdateHistoricProcessInstance, TypeOK, deplVars, cmdVars, loopVars, ghostVars
<1>5. CASE DeleteHistoricProcessInstance
  <2>1. msgs' \in Seq(Message)
    BY <1>5, ReceiveType DEF DeleteHistoricProcessInstance, TypeOK
  <2> QED
    BY <1>5, <2>1
    DEF DeleteHistoricProcessInstance, Without, TypeOK, deplVars, cmdVars, loopVars, ghostVars
<1>6. CASE DeleteUnknownHistoricProcessInstances
  <2>1. msgs' \in Seq(Message)
    BY <1>6, ReceiveType DEF DeleteUnknownHistoricProcessInstances, TypeOK
  <2> QED
    BY <1>6, <2>1
    DEF DeleteUnknownHistoricProcessInstances, TypeOK, deplVars, cmdVars, loopVars, ghostVars
<1>7. CASE UpdateIncident
  <2>1. msgs' \in Seq(Message)
    BY <1>7, ReceiveType DEF UpdateIncident, TypeOK
  <2> QED
    BY <1>7, <2>1 DEF UpdateIncident, TypeOK, deplVars, cmdVars, loopVars, ghostVars
<1>8. CASE DeploymentHandlers
  <2>1. deployment' \in DeploymentStates
    BY <1>8 DEF DeploymentHandlers, UpdateDeploymentSteps, DeleteDeploymentSteps,
                DeploymentStates, TypeOK
  <2> QED
    BY <1>8, <2>1 DEF DeploymentHandlers, TypeOK, docVars, cmdVars, clientVars, loopVars, ghostVars
<1> QED
  BY <1>1, <1>2, <1>3, <1>4, <1>5, <1>6, <1>7, <1>8 DEF Handlers

(* The steps of the warden loop keep the types.                            *)
LEMMA LoopTypeOK ==
    ASSUME TypeOK, BeginLoopWardenDb \/ CheckSteps
    PROVE  TypeOK'
<1>1. CASE BeginLoopWardenDb
  <2>1. deployment' \in DeploymentStates /\ deplGuarded' \in BOOLEAN
    BY <1>1 DEF BeginLoopWardenDb, Redeploy, DeploymentStates, TypeOK, deplVars
  <2> QED
    BY <1>1, <2>1 DEF BeginLoopWardenDb, TypeOK, docVars, cmdVars, clientVars, ghostVars
<1>2. ASSUME NEW k \in Keys, ImmatureInfo(k) PROVE TypeOK'
  BY <1>2 DEF ImmatureInfo, Checked, NoAction, TypeOK, deplVars, cmdVars, clientVars
<1>3. ASSUME NEW k \in Keys, ExpectedInstance(k) PROVE TypeOK'
  BY <1>3 DEF ExpectedInstance, Checked, NoAction, TypeOK, deplVars, cmdVars, clientVars
<1>4. ASSUME NEW k \in Keys, OldPlaceholderInstance(k) PROVE TypeOK'
  <2>1. PICK x \in instances :
           StartDeploymentWithoutWardenHandling(InstancesAfterStop({x}),
                                                HistoriesAfterStop({x}), deployment, k)
    BY <1>4 DEF OldPlaceholderInstance
  <2>2. /\ InstancesAfterStop({x}) \in SUBSET Instance
        /\ HistoriesAfterStop({x}) \in SUBSET History
    BY StopType DEF TypeOK
  <2>3. /\ instances' \subseteq Instance /\ histories' \subseteq History /\ fresh' \subseteq Ids
        /\ starts' \in [AllKeys -> 0..MaxStarts]
        /\ late' \in [Keys -> Nat]
    BY <2>1, <2>2, WardenStartType
  <2> QED
    BY <1>4, <2>3 DEF OldPlaceholderInstance, Checked, TypeOK, deplVars, clientVars
<1>5. ASSUME NEW k \in Keys, DuplicateInstances(k) PROVE TypeOK'
  <2>1. PICK x \in CanComeFirst(InstancesOf(k)) :
           IF InstanceIsYoung(x) THEN UNCHANGED <<instances, histories, stops>>
           ELSE StopProcessInstancesWithoutWardenHandling(AllBut(x, InstancesOf(k)))
    BY <1>5 DEF DuplicateInstances
  <2>2. AllBut(x, InstancesOf(k)) \in SUBSET Instance
    BY DEF AllBut, InstancesOf, TypeOK
  <2>3. instances' \subseteq Instance /\ histories' \subseteq History /\ stops' \subseteq Ids
    <3>1. CASE InstanceIsYoung(x)
      BY <2>1, <3>1 DEF TypeOK
    <3>2. CASE ~InstanceIsYoung(x)
      <4> DEFINE S == AllBut(x, InstancesOf(k))
      <4>1. /\ InstancesAfterStop(S) \in SUBSET Instance
            /\ HistoriesAfterStop(S) \in SUBSET History
            /\ IdsOf({y \in S : ~y.placeholder}) \subseteq Ids
        BY <2>2, StopType
      <4>2. StopProcessInstancesWithoutWardenHandling(S)
        BY <2>1, <3>2
      <4> HIDE DEF S
      <4> QED
        BY <4>1, <4>2 DEF StopProcessInstancesWithoutWardenHandling, TypeOK
    <3> QED
      BY <3>1, <3>2
  <2> QED
    BY <1>5, <2>3 DEF DuplicateInstances, Checked, TypeOK, deplVars, clientVars
<1>6. ASSUME NEW k \in Keys, NEW d, WardenStart(k, d), Checked(k),
             deployment' \in DeploymentStates, deplGuarded' \in BOOLEAN
      PROVE  TypeOK'
  <2>1. /\ instances' \subseteq Instance /\ histories' \subseteq History /\ fresh' \subseteq Ids
        /\ starts' \in [AllKeys -> 0..MaxStarts]
        /\ late' \in [Keys -> Nat]
    <3>1. instances \in SUBSET Instance /\ histories \in SUBSET History
      BY DEF TypeOK
    <3>2. StartDeploymentWithoutWardenHandling(instances, histories, d, k)
      BY <1>6 DEF WardenStart
    <3> QED
      BY <3>1, <3>2, WardenStartType
  <2> QED
    BY <1>6, <2>1 DEF WardenStart, Checked, TypeOK, clientVars
<1>7. ASSUME NEW k \in Keys, RemoveInstanceWarden(k), Checked(k),
             deployment' \in DeploymentStates, deplGuarded' \in BOOLEAN
      PROVE  TypeOK'
  BY <1>7 DEF RemoveInstanceWarden, Checked, TypeOK, cmdVars, clientVars
<1>8. ASSUME NEW k \in Keys, NoAction, Checked(k) PROVE TypeOK'
  BY <1>8 DEF NoAction, Checked, TypeOK, deplVars, cmdVars, clientVars
<1>9. ASSUME NEW k \in Keys, MissingWithoutHistory(k) PROVE TypeOK'
  <2>1. Checked(k)
    BY <1>9 DEF MissingWithoutHistory, StartNeverSeen, RedeployNeverSeen, ForgetNeverSeen,
                NeverSeen, Missing
  <2>2. CASE StartNeverSeen(k)
    BY <1>6, <2>1, <2>2 DEF StartNeverSeen, TypeOK, deplVars
  <2>3. CASE RedeployNeverSeen(k)
    <3>1. CASE /\ deployment' = "placeholder"
               /\ WardenStart(k, "placeholder")
               /\ UNCHANGED deplGuarded
      BY <1>6, <2>1, <3>1 DEF TypeOK, DeploymentStates
    <3>2. CASE NoAction
      BY <1>8, <2>1, <3>2
    <3> QED
      BY <2>3, <3>1, <3>2 DEF RedeployNeverSeen
  <2>4. CASE ForgetNeverSeen(k)
    BY <1>7, <2>1, <2>4 DEF ForgetNeverSeen, TypeOK
  <2> QED
    BY <1>9, <2>2, <2>3, <2>4 DEF MissingWithoutHistory
<1>10. ASSUME NEW k \in Keys, MissingWithHistory(k) PROVE TypeOK'
  <2>1. Checked(k)
    BY <1>10 DEF MissingWithHistory, EndIsImmature, EndedWithoutIncident, EndedWithIncident,
                 Ended, Missing
  <2>2. CASE EndIsImmature(k)
    BY <1>8, <2>1, <2>2 DEF EndIsImmature
  <2>3. CASE EndedWithoutIncident(k)
    BY <1>7, <2>1, <2>3 DEF EndedWithoutIncident, TypeOK, deplVars
  <2>4. CASE EndedWithIncident(k)
    BY <1>6, <2>1, <2>4 DEF EndedWithIncident, TypeOK, deplVars
  <2> QED
    BY <1>10, <2>2, <2>3, <2>4 DEF MissingWithHistory
<1>11. CASE BeginLoopProcesses
  BY <1>11 DEF BeginLoopProcesses, TypeOK, deplVars, docVars, cmdVars, clientVars, ghostVars
<1>12. ASSUME NEW x \in instTodo, CheckProcessInstance(x) PROVE TypeOK'
  <2>1. /\ InstancesAfterStop({x}) \in SUBSET Instance
        /\ HistoriesAfterStop({x}) \in SUBSET History
        /\ IdsOf({y \in {x} : ~y.placeholder}) \subseteq Ids
    BY StopType DEF TypeOK
  <2>2. instances' \subseteq Instance /\ histories' \subseteq History /\ stops' \subseteq Ids
    BY <1>12, <2>1
    DEF CheckProcessInstance, StopProcessInstancesWithoutWardenHandling, TypeOK
  <2> QED
    BY <1>12, <2>2 DEF CheckProcessInstance, TypeOK, deplVars, clientVars, ghostVars
<1>13. CASE EndLoop
  BY <1>13 DEF EndLoop, TypeOK, deplVars, docVars, cmdVars, clientVars, ghostVars
<1> QED
  BY <1>1, <1>2, <1>3, <1>4, <1>5, <1>9, <1>10, <1>11, <1>12, <1>13
  DEF CheckSteps, CheckWardenInfo

(* The steps of the client and the losses keep the types.                  *)
LEMMA ClientRunsType ==
    ASSUME TypeOK, NEW k \in AllKeys, ClientRuns(k)
    PROVE  engine' \subseteq Run /\ fresh' \subseteq Ids /\ msgs' \in Seq(Message)
<1>1. PICK i \in Ids :
         LET r == [id |-> i, key |-> k] IN
         /\ engine' = engine \cup {r}
         /\ fresh' = fresh \cup {i}
         /\ \/ ClientSends(<<InstanceMessage(r), HistoryMessage(r)>>)
            \/ ClientSends(<<HistoryMessage(r), InstanceMessage(r)>>)
  BY DEF ClientRuns
<1> DEFINE r == [id |-> i, key |-> k]
<1>2. r \in Run
  BY DEF Run
<1>3. msgs' \in Seq(Message)
  <2> HIDE DEF r
  <2>1. InstanceMessage(r) \in Message /\ HistoryMessage(r) \in Message
    BY <1>2, RunMessages
  <2>2. /\ <<InstanceMessage(r), HistoryMessage(r)>> \in Seq(Message)
        /\ <<HistoryMessage(r), InstanceMessage(r)>> \in Seq(Message)
    BY <2>1
  <2>3. msgs \in Seq(Message)
    BY DEF TypeOK
  <2>4. CASE ClientSends(<<InstanceMessage(r), HistoryMessage(r)>>)
    BY <2>2, <2>3, <2>4, SendsType
  <2>5. CASE ClientSends(<<HistoryMessage(r), InstanceMessage(r)>>)
    BY <2>2, <2>3, <2>5, SendsType
  <2> QED
    BY <1>1, <2>4, <2>5 DEF r
<1> QED
  BY <1>1, <1>2, <1>3 DEF TypeOK

LEMMA RunEndsType ==
    ASSUME TypeOK, NEW r \in engine, RunEnds(r)
    PROVE  engine' \subseteq Run /\ msgs' \in Seq(Message)
<1>1. <<EndMessage(r.id), HistoryMessage(r)>> \in Seq(Message)
  BY RunMessages DEF TypeOK
<1> QED
  BY <1>1, SendsType DEF RunEnds, TypeOK

LEMMA ClientTypeOK ==
    ASSUME TypeOK, ClientObeys \/ RunsEnd \/ ClientSpeaks \/ CommandLosses \/ LoseMessages
                   \/ ClientReset
    PROVE  TypeOK'
<1>1. ASSUME NEW k \in AllKeys, ClientStart(k) PROVE TypeOK'
  <2>1. engine' \subseteq Run /\ fresh' \subseteq Ids /\ msgs' \in Seq(Message)
    BY <1>1, ClientRunsType DEF ClientStart
  <2>2. starts' \in [AllKeys -> 0..MaxStarts]
    BY <1>1, BoundsAssumption DEF ClientStart, TypeOK
  <2> QED
    BY <1>1, <2>1, <2>2 DEF ClientStart, TypeOK, deplVars, loopVars, ghostVars
<1>2. ASSUME NEW i \in stops, ClientStop(i) PROVE TypeOK'
  <2>1. CASE i \in IdsOf(engine)
    <3>1. PICK r \in engine : RunEnds(r)
      BY <1>2, <2>1 DEF ClientStop
    <3>2. engine' \subseteq Run /\ msgs' \in Seq(Message)
      BY <3>1, RunEndsType
    <3> QED
      BY <1>2, <3>1, <3>2
      DEF ClientStop, RunEnds, TypeOK, deplVars, docVars, loopVars, ghostVars
  <2>2. CASE i \notin IdsOf(engine)
    BY <1>2, <2>2 DEF ClientStop, TypeOK, deplVars, docVars, clientVars, loopVars, ghostVars
  <2> QED
    BY <2>1, <2>2
<1>3. ASSUME NEW r \in engine, RunFinishes(r) PROVE TypeOK'
  <2>1. engine' \subseteq Run /\ msgs' \in Seq(Message)
    BY <1>3, RunEndsType DEF RunFinishes
  <2> QED
    BY <1>3, <2>1 DEF RunFinishes, RunEnds, TypeOK, deplVars, docVars, cmdVars, loopVars, ghostVars
<1>4. ASSUME NEW r \in engine, RunFails(r) PROVE TypeOK'
  <2>1. EndMessage(r.id) \in Message /\ IncidentMessage(r.id) \in Message
    BY RunMessages DEF TypeOK
  <2>2. msgs' \in Seq(Message)
    <3>1. /\ <<EndMessage(r.id), IncidentMessage(r.id)>> \in Seq(Message)
          /\ <<IncidentMessage(r.id), EndMessage(r.id)>> \in Seq(Message)
      BY <2>1
    <3>2. msgs \in Seq(Message)
      BY DEF TypeOK
    <3>3. CASE ClientSends(<<EndMessage(r.id), IncidentMessage(r.id)>>)
      BY <3>1, <3>2, <3>3, SendsType
    <3>4. CASE ClientSends(<<IncidentMessage(r.id), EndMessage(r.id)>>)
      BY <3>1, <3>2, <3>4, SendsType
    <3> QED
      BY <1>4, <3>3, <3>4 DEF RunFails
  <2> QED
    BY <1>4, <2>2 DEF RunFails, TypeOK, deplVars, docVars, cmdVars, loopVars, ghostVars
<1>5. ASSUME NEW r \in engine, ClientReports(r) PROVE TypeOK'
  <2>1. <<InstanceMessage(r)>> \in Seq(Message) /\ <<HistoryMessage(r)>> \in Seq(Message)
    BY RunMessages DEF TypeOK
  <2>2. msgs' \in Seq(Message)
    BY <1>5, <2>1, SendsType DEF ClientReports, TypeOK
  <2> QED
    BY <1>5, <2>2 DEF ClientReports, TypeOK, deplVars, docVars, cmdVars, loopVars, ghostVars
<1>6. CASE ClientListsInstances
  <2>1. [type |-> "instance-known", ids |-> IdsOf(engine)] \in Message
    BY DEF IdsOf, Run, Message, TypeOK
  <2>2. <<[type |-> "instance-known", ids |-> IdsOf(engine)]>> \in Seq(Message)
    BY <2>1
  <2>3. msgs' \in Seq(Message)
    BY <1>6, <2>2, SendsType DEF ClientListsInstances, TypeOK
  <2> QED
    BY <1>6, <2>3 DEF ClientListsInstances, TypeOK, deplVars, docVars, cmdVars, loopVars, ghostVars
<1>7. ASSUME NEW h \in histories, ClientDeletesHistory(h) PROVE TypeOK'
  <2>1. <<[type |-> "history-delete", id |-> h.id]>> \in Seq(Message)
    BY DEF Message, History, TypeOK
  <2>2. msgs' \in Seq(Message)
    BY <1>7, <2>1, SendsType DEF ClientDeletesHistory, TypeOK
  <2> QED
    BY <1>7, <2>2 DEF ClientDeletesHistory, TypeOK, deplVars, docVars, cmdVars, loopVars, ghostVars
<1>8. ASSUME NEW k \in LegacyKeys, ClientStartsLegacy(k) PROVE TypeOK'
  <2>1. engine' \subseteq Run /\ fresh' \subseteq Ids /\ msgs' \in Seq(Message)
    BY <1>8, ClientRunsType DEF ClientStartsLegacy
  <2> QED
    BY <1>8, <2>1 DEF ClientStartsLegacy, TypeOK, deplVars, cmdVars, loopVars, ghostVars
<1>9. ASSUME NEW k \in AllKeys, LoseStart(k) PROVE TypeOK'
  <2>1. starts' \in [AllKeys -> 0..MaxStarts]
    BY <1>9, BoundsAssumption DEF LoseStart, TypeOK
  <2> QED
    BY <1>9, <2>1 DEF LoseStart, TypeOK, deplVars, docVars, clientVars, loopVars, ghostVars
<1>10. ASSUME NEW i \in stops, LoseStop(i) PROVE TypeOK'
  BY <1>10 DEF LoseStop, TypeOK, deplVars, docVars, clientVars, loopVars, ghostVars
<1>11. CASE LoseMessages
  BY <1>11 DEF LoseMessages, TypeOK, deplVars, docVars, cmdVars, loopVars, ghostVars
<1>12. CASE ClientReset
  <2>1. <<[type |-> "instance-known", ids |-> {}], [type |-> "history-known", ids |-> {}]>>
           \in Seq(Message)
    BY DEF Message
  <2>2. msgs' \in Seq(Message)
    BY <1>12, <2>1, SendsType DEF ClientReset, TypeOK
  <2> QED
    BY <1>12, <2>2 DEF ClientReset, TypeOK, deplVars, docVars, cmdVars, loopVars, ghostVars
<1> QED
  BY <1>1, <1>2, <1>3, <1>4, <1>5, <1>6, <1>7, <1>8, <1>9, <1>10, <1>11, <1>12
  DEF ClientObeys, RunsEnd, ClientSpeaks, CommandLosses

(* Time and restarts keep the types.                                       *)
LEMMA TimeTypeOK ==
    ASSUME TypeOK, AgeGatePasses \/ Restart
    PROVE  TypeOK'
<1>1. CASE AgeGatePasses
  <2>1. SyncedLongAgo(instances) \subseteq Instance /\ SyncedLongAgo(instTodo) \subseteq Instance
    BY DEF SyncedLongAgo, Instance, TypeOK
  <2>2. /\ Aged(warden) \in [Keys -> Ages] /\ Aged(infoTodo) \in [Keys -> Ages]
        /\ Aged(incidents) \in [Ids -> Ages]
    BY DEF Aged, TypeOK
  <2> QED
    BY <1>1, <2>1, <2>2
    DEF AgeGatePasses, TypeOK, deplVars, cmdVars, clientVars, ghostVars
<1>2. CASE Restart
  BY <1>2 DEF Restart, TypeOK, deplVars, docVars, cmdVars, clientVars, ghostVars
<1> QED
  BY <1>1, <1>2

LEMMA NextTypeOK == TypeOK /\ [Next]_vars => TypeOK'
<1> SUFFICES ASSUME TypeOK, [Next]_vars PROVE TypeOK'
  OBVIOUS
<1>1. CASE Next
  BY <1>1, ApiTypeOK, HandlersTypeOK, LoopTypeOK, ClientTypeOK, TimeTypeOK DEF Next
<1>2. CASE UNCHANGED vars
  BY <1>2 DEF vars, deplVars, docVars, cmdVars, clientVars, loopVars, ghostVars, TypeOK
<1> QED
  BY <1>1, <1>2

(* Every reachable state is well-typed: no handler, request or check, with *)
(* whatever the other goroutines did before, leaves a document or command  *)
(* the others cannot read.                                                 *)
THEOREM TypeCorrect == Spec => []TypeOK
BY InitTypeOK, NextTypeOK, PTL DEF Spec

-----------------------------------------------------------------------------
(* The guard of a key that was deleted by a user stays away.               *)

(* Nothing to show where guards, the list and the counts stay the same.    *)
LEMMA ClearedFrame ==
    ASSUME ClearedKeysStayCleared, UNCHANGED <<warden, infoTodo, cleared, late>>
    PROVE  ClearedKeysStayCleared'
BY DEF ClearedKeysStayCleared, ClearedKeysStartAtMostOnce

(* Removing guards on behalf of a user starts the count of their keys anew.*)
LEMMA ClearedByUser ==
    ASSUME TypeOK, ClearedKeysStayCleared, NEW ks \in SUBSET Keys, ClearGuards(ks),
           UNCHANGED infoTodo
    PROVE  ClearedKeysStayCleared'
BY DEF TypeOK, ClearGuards, ClearedKeysStayCleared, ClearedKeysStartAtMostOnce

LEMMA ClearedByRollBack ==
    ASSUME TypeOK, ClearedKeysStayCleared, NEW k \in Keys, RollBackGuard(k),
           UNCHANGED infoTodo
    PROVE  ClearedKeysStayCleared'
BY DEF TypeOK, RollBackGuard, ClearedKeysStayCleared, ClearedKeysStartAtMostOnce

(* A check uses up the entry of its key before it may count a start.       *)
LEMMA ClearedByCheck ==
    ASSUME TypeOK, ClearedKeysStayCleared, NEW k \in Keys, Checked(k),
           \/ UNCHANGED warden
           \/ warden' = [warden EXCEPT ![k] = "none"],
           \/ UNCHANGED late
           \/ k \in cleared /\ late' = [late EXCEPT ![k] = @ + 1]
    PROVE  ClearedKeysStayCleared'
<1> SUFFICES ASSUME NEW c \in cleared
             PROVE  /\ warden'[c] = "none"
                    /\ infoTodo'[c] # "none" => late'[c] = 0
                    /\ late'[c] <= 1
  BY DEF ClearedKeysStayCleared, ClearedKeysStartAtMostOnce, Checked
<1>1. c \in Keys /\ late[c] \in Nat
  BY DEF TypeOK
<1>2. warden[c] = "none" /\ (infoTodo[c] # "none" => late[c] = 0) /\ late[c] <= 1
  BY DEF ClearedKeysStayCleared, ClearedKeysStartAtMostOnce
<1>3. warden'[c] = "none"
  BY <1>1, <1>2 DEF TypeOK
<1>4. CASE c = k
  <2>1. late[c] = 0 /\ infoTodo'[c] = "none"
    BY <1>1, <1>2, <1>4 DEF Checked, TypeOK
  <2>2. late'[c] <= 1
    BY <1>1, <1>4, <2>1 DEF TypeOK
  <2> QED
    BY <1>3, <2>1, <2>2
<1>5. CASE c # k
  BY <1>1, <1>2, <1>3, <1>5 DEF Checked, TypeOK
<1> QED
  BY <1>4, <1>5

(* Every check does what ClearedByCheck asks for.                          *)
LEMMA CheckEffect ==
    ASSUME NEW k \in Keys, CheckWardenInfo(k)
    PROVE  /\ Checked(k)
           /\ \/ UNCHANGED warden
              \/ warden' = [warden EXCEPT ![k] = "none"]
           /\ \/ UNCHANGED late
              \/ k \in cleared /\ late' = [late EXCEPT ![k] = @ + 1]
<1>1. ASSUME NEW insts, NEW hists, NEW d,
             StartDeploymentWithoutWardenHandling(insts, hists, d, k)
      PROVE  \/ UNCHANGED late
             \/ k \in cleared /\ late' = [late EXCEPT ![k] = @ + 1]
  BY <1>1 DEF StartDeploymentWithoutWardenHandling
<1>2. CASE ImmatureInfo(k)
  BY <1>2 DEF ImmatureInfo, NoAction
<1>3. CASE ExpectedInstance(k)
  BY <1>3 DEF ExpectedInstance, NoAction
<1>4. CASE OldPlaceholderInstance(k)
  BY <1>1, <1>4 DEF OldPlaceholderInstance
<1>5. CASE DuplicateInstances(k)
  BY <1>5 DEF DuplicateInstances
<1>6. CASE MissingWithoutHistory(k)
  BY <1>1, <1>6
  DEF MissingWithoutHistory, StartNeverSeen, RedeployNeverSeen, ForgetNeverSeen, NeverSeen,
      Missing, WardenStart, NoAction, RemoveInstanceWarden
<1>7. CASE MissingWithHistory(k)
  BY <1>1, <1>7
  DEF MissingWithHistory, EndIsImmature, EndedWithoutIncident, EndedWithIncident, Ended,
      Missing, WardenStart, NoAction, RemoveInstanceWarden
<1> QED
  BY <1>2, <1>3, <1>4, <1>5, <1>6, <1>7 DEF CheckWardenInfo

(* No step brings back a guard that a user deleted, or starts its process  *)
(* a second time.                                                          *)
LEMMA ClearedStep ==
    ASSUME TypeOK, ClearedKeysStayCleared, [Next]_vars
    PROVE  ClearedKeysStayCleared'
<1>1. CASE ApiSteps
  <2>1. ASSUME NEW k \in Keys, ApiSendStart(k) PROVE ClearedKeysStayCleared'
    BY <2>1, ClearedFrame DEF ApiSendStart, loopVars, ghostVars
  <2>2. ASSUME NEW k \in Keys, ApiRefuseStart(k) PROVE ClearedKeysStayCleared'
    BY <2>2, ClearedByRollBack DEF ApiRefuseStart, loopVars
  <2>3. ASSUME NEW k \in Keys, ApiSavePlaceholders(k) PROVE ClearedKeysStayCleared'
    <3>1. UNCHANGED infoTodo
      BY <2>3 DEF ApiSavePlaceholders, loopVars
    <3>2. UNCHANGED <<warden, ghostVars>> \/ RollBackGuard(k)
      BY <2>3 DEF ApiSavePlaceholders
    <3>3. CASE UNCHANGED <<warden, ghostVars>>
      BY <3>1, <3>3, ClearedFrame DEF ghostVars
    <3>4. CASE RollBackGuard(k)
      BY <3>1, <3>4, ClearedByRollBack
    <3> QED
      BY <3>2, <3>3, <3>4
  <2> QED
    BY <1>1, <2>1, <2>2, <2>3 DEF ApiSteps
<1>2. CASE UserRequests
  <2>1. ASSUME NEW k \in Keys, AddInstanceWarden(k) PROVE ClearedKeysStayCleared'
    BY <2>1 DEF AddInstanceWarden, loopVars, TypeOK, ClearedKeysStayCleared,
                ClearedKeysStartAtMostOnce
  <2>2. ASSUME NEW k \in AllKeys, DeleteProcessInstanceByBusinessKey(k)
        PROVE  ClearedKeysStayCleared'
    <3>1. ClearGuards({k} \cap Keys) /\ UNCHANGED infoTodo
      BY <2>2 DEF DeleteProcessInstanceByBusinessKey, loopVars
    <3> QED
      BY <3>1, ClearedByUser
  <2>3. ASSUME NEW x \in instances, ApiDeleteProcessInstance(x) PROVE ClearedKeysStayCleared'
    <3>1. ClearGuards({x.key} \cap Keys) /\ UNCHANGED infoTodo
      BY <2>3 DEF ApiDeleteProcessInstance, loopVars
    <3> QED
      BY <3>1, ClearedByUser
  <2>4. ASSUME NEW h \in histories, ApiDeletePlaceholderHistory(h) PROVE ClearedKeysStayCleared'
    BY <2>4, ClearedFrame DEF ApiDeletePlaceholderHistory, loopVars, ghostVars
  <2> QED
    BY <1>2, <2>1, <2>2, <2>3, <2>4 DEF UserRequests
<1>3. CASE DeploymentRequests
  <2>1. CASE ApiCreateDeployment
    BY <2>1, ClearedFrame DEF ApiCreateDeployment, loopVars, ghostVars
  <2>2. CASE ApiDeleteDeployment
    <3>1. ClearGuards({k \in Keys : warden[k] # "none"}) /\ UNCHANGED infoTodo
      BY <2>2 DEF ApiDeleteDeployment, loopVars
    <3> QED
      BY <3>1, ClearedByUser
  <2> QED
    BY <1>3, <2>1, <2>2 DEF DeploymentRequests
<1>4. CASE Handlers \/ DeploymentHandlers
  BY <1>4, ClearedFrame
  DEF Handlers, DeploymentHandlers, UpdateProcessInstance, DeleteProcessInstance,
      DeleteUnknownProcessInstances, UpdateHistoricProcessInstance, DeleteHistoricProcessInstance,
      DeleteUnknownHistoricProcessInstances, UpdateIncident, loopVars, ghostVars
<1>5. CASE BeginLoopWardenDb
  BY <1>5 DEF BeginLoopWardenDb, ghostVars, TypeOK, ClearedKeysStayCleared,
              ClearedKeysStartAtMostOnce
<1>6. CASE CheckSteps
  <2>1. ASSUME NEW k \in Keys, CheckWardenInfo(k) PROVE ClearedKeysStayCleared'
    BY <2>1, CheckEffect, ClearedByCheck
  <2>2. ASSUME BeginLoopProcesses \/ EndLoop \/ \E x \in instTodo : CheckProcessInstance(x)
        PROVE  ClearedKeysStayCleared'
    BY <2>2, ClearedFrame DEF BeginLoopProcesses, EndLoop, CheckProcessInstance, ghostVars
  <2> QED
    BY <1>6, <2>1, <2>2 DEF CheckSteps
<1>7. CASE AgeGatePasses
  <2>1. /\ \A k \in Keys : warden[k] = "none" => warden'[k] = "none"
        /\ \A k \in Keys : infoTodo[k] = "none" => infoTodo'[k] = "none"
    BY <1>7 DEF AgeGatePasses, Aged, TypeOK
  <2> QED
    BY <1>7, <2>1 DEF AgeGatePasses, ghostVars, TypeOK, ClearedKeysStayCleared,
                      ClearedKeysStartAtMostOnce
<1>8. CASE Restart
  BY <1>8 DEF Restart, ghostVars, TypeOK, ClearedKeysStayCleared, ClearedKeysStartAtMostOnce
<1>9. CASE ClientObeys
  BY <1>9, ClearedFrame DEF ClientObeys, ClientStart, ClientStop, RunEnds, loopVars, ghostVars
<1>10. CASE RunsEnd \/ ClientSpeaks
  BY <1>10, ClearedFrame
  DEF RunsEnd, RunFinishes, RunEnds, RunFails, ClientSpeaks, ClientReports, ClientListsInstances,
      ClientDeletesHistory, ClientStartsLegacy, loopVars, ghostVars
<1>11. CASE CommandLosses \/ LoseMessages \/ ClientReset
  BY <1>11, ClearedFrame
  DEF CommandLosses, LoseStart, LoseStop, LoseMessages, ClientReset, loopVars, ghostVars
<1>12. CASE UNCHANGED vars
  BY <1>12, ClearedFrame DEF vars, loopVars, ghostVars
<1> QED
  BY <1>1, <1>2, <1>3, <1>4, <1>5, <1>6, <1>7, <1>8, <1>9, <1>10, <1>11, <1>12 DEF Next

(* In every behaviour a key whose guard the API removed keeps no guard     *)
(* until a user starts it again, and the warden loop, which works on the   *)
(* list of guards it read before, starts it at most once in between.       *)
THEOREM ClearedOnce == Spec => []ClearedKeysStayCleared
<1>1. Init => ClearedKeysStayCleared
  BY DEF Init, ClearedKeysStayCleared, ClearedKeysStartAtMostOnce
<1>2. TypeOK /\ ClearedKeysStayCleared /\ [Next]_vars => ClearedKeysStayCleared'
  BY ClearedStep
<1> QED
  BY <1>1, <1>2, TypeCorrect, PTL DEF Spec

-----------------------------------------------------------------------------
(* The invariant behind NoDuplicateRuns.                                   *)

Shown(r) == r.id \in IdsOf(instances)

(* Every document under the id of the run r is its own.                    *)
Right(r, S) == \A x \in S : x.id = r.id => x.key = r.key /\ ~x.placeholder

(* The run r has its instance document, or its report is on the way, after *)
(* every list of the client's that does not have it yet.                   *)
RunReported(r) ==
    /\ Right(r, instances) /\ Right(r, instTodo)
    /\ \A n \in DOMAIN msgs :
          /\ msgs[n].type = "instance" /\ msgs[n].id = r.id => msgs[n].key = r.key
          /\ msgs[n].type = "instance-delete" => msgs[n].id # r.id
          /\ msgs[n].type = "instance-known" =>
                \/ r.id \in msgs[n].ids
                \/ \E m \in DOMAIN msgs : m > n /\ msgs[m] = InstanceMessage(r)
    /\ Shown(r) \/ \E n \in DOMAIN msgs : msgs[n] = InstanceMessage(r)

RunsReported ==
    /\ \A r, s \in engine : r.id = s.id => r = s
    /\ \A r \in engine : RunReported(r)

(* The warden may start k again if its documents tell it to.               *)
Candidate(k) == infoTodo[k] = "old" \/ (rested /\ warden[k] = "old")

Listed(r) == \A n \in DOMAIN msgs : msgs[n].type = "instance-known" => r.id \in msgs[n].ids

(* A key has one run or one command, and the warden may start it again     *)
(* only if the documents show its run, if it has one.                      *)
OneStart(k) ==
    /\ starts[k] <= 1
    /\ starts[k] = 1 => RunsOf(k) = {}
    /\ \A r, s \in RunsOf(k) : r = s
    /\ starting[k] = "guarded" => starts[k] = 0 /\ RunsOf(k) = {}
    /\ starting[k] # "idle" => infoTodo[k] # "old" /\ warden[k] # "old"
    /\ Candidate(k) => starts[k] = 0 /\ \A r \in RunsOf(k) : Shown(r) /\ Listed(r)

LoopRests ==
    /\ \A k \in Keys : infoTodo[k] # "none" => phase = "infos"
    /\ phase # "idle" => ~rested

SingleInv == TypeOK /\ RunsReported /\ LoopRests /\ \A k \in Keys : OneStart(k)

(* What is in the queue after the first message is taken.                  *)
LEMMA TakenQueue ==
    ASSUME msgs \in Seq(Message), NEW type, Receive(type)
    PROVE  /\ 1 \in DOMAIN msgs /\ msgs[1] = Head(msgs)
           /\ DOMAIN msgs \subseteq Nat /\ DOMAIN msgs' \subseteq Nat
           /\ \A n \in DOMAIN msgs : n # 1 => n > 1 /\ n - 1 \in DOMAIN msgs' /\ msgs'[n - 1] = msgs[n]
           /\ \A n \in DOMAIN msgs' : n + 1 \in DOMAIN msgs /\ msgs'[n] = msgs[n + 1]
BY DEF Receive

(* What is in the queue after the client sent the messages s.              *)
LEMMA SentQueue ==
    ASSUME msgs \in Seq(Message), NEW s \in Seq(Message), ClientSends(s)
    PROVE  /\ DOMAIN msgs \subseteq Nat /\ DOMAIN s \subseteq Nat
           /\ \A n \in DOMAIN msgs : n \in DOMAIN msgs' /\ msgs'[n] = msgs[n]
           /\ \A k \in DOMAIN s : Len(msgs) + k \in DOMAIN msgs' /\ msgs'[Len(msgs) + k] = s[k]
           /\ \A n \in DOMAIN msgs' : n \in DOMAIN msgs \/ \E k \in DOMAIN s : n = Len(msgs) + k
           /\ \A n \in DOMAIN msgs, k \in DOMAIN s : Len(msgs) + k > n
<1>1. msgs' = msgs \o s /\ DOMAIN msgs = 1..Len(msgs) /\ DOMAIN s = 1..Len(s)
  BY DEF ClientSends
<1>2. Len(msgs) \in Nat /\ Len(s) \in Nat
  OBVIOUS
<1>3. DOMAIN msgs' = 1..(Len(msgs) + Len(s))
  BY <1>1, <1>2
<1>4. \A n \in 1..Len(msgs) : msgs'[n] = msgs[n]
  BY <1>1, <1>2
<1>5. \A k \in 1..Len(s) : msgs'[Len(msgs) + k] = s[k]
  BY <1>1, <1>2
<1>6. \A n \in DOMAIN msgs' : n \in DOMAIN msgs \/ \E k \in DOMAIN s : n = Len(msgs) + k
  <2> SUFFICES ASSUME NEW n \in DOMAIN msgs', n \notin DOMAIN msgs
               PROVE  \E k \in DOMAIN s : n = Len(msgs) + k
    OBVIOUS
  <2>1. n - Len(msgs) \in DOMAIN s /\ n = Len(msgs) + (n - Len(msgs))
    BY <1>1, <1>2, <1>3
  <2> QED
    BY <2>1
<1>7. \A k \in 1..Len(s) : Len(msgs) + k \in DOMAIN msgs'
  BY <1>2, <1>3
<1>8. \A n \in DOMAIN msgs, k \in DOMAIN s : Len(msgs) + k > n
  BY <1>1, <1>2
<1>9. \A n \in DOMAIN msgs : n \in DOMAIN msgs'
  BY <1>1, <1>2, <1>3
<1> QED
  BY <1>1, <1>4, <1>5, <1>6, <1>7, <1>8, <1>9

(* A run stays reported if the documents spare it.                         *)
LEMMA SparedReported ==
    ASSUME NEW r, RunReported(r), UNCHANGED msgs,
           Right(r, instances'), Right(r, instTodo'), Shown(r) => Shown(r)'
    PROVE  RunReported(r)'
BY DEF RunReported, Right, Shown

(* A run stays reported when a message is taken that spares it.            *)
LEMMA TakenReported ==
    ASSUME TypeOK, NEW r, RunReported(r), NEW type, Receive(type),
           Right(r, instances'), Right(r, instTodo'),
           Shown(r) /\ (type = "instance-known" => r.id \in Head(msgs).ids) => Shown(r)',
           Head(msgs) = InstanceMessage(r) => Shown(r)'
    PROVE  RunReported(r)'
<1>0. msgs \in Seq(Message) /\ Head(msgs).type = type
  BY DEF TypeOK, Receive
<1>1. ASSUME NEW m \in DOMAIN msgs, m # 1, msgs[m] = InstanceMessage(r)
      PROVE  m - 1 \in DOMAIN msgs' /\ msgs'[m - 1] = InstanceMessage(r)
  BY <1>0, <1>1, TakenQueue
<1>2. Shown(r)' \/ \E n \in DOMAIN msgs' : msgs'[n] = InstanceMessage(r)
  <2>1. CASE \E n \in DOMAIN msgs : msgs[n] = InstanceMessage(r)
    BY <1>0, <1>1, <2>1, TakenQueue
  <2>2. CASE Shown(r)
    <3>1. CASE type = "instance-known" /\ r.id \notin Head(msgs).ids
      <4>1. \E m \in DOMAIN msgs : m > 1 /\ msgs[m] = InstanceMessage(r)
        BY <1>0, <3>1, TakenQueue DEF RunReported
      <4> QED
        BY <1>1, <4>1
    <3> QED
      BY <2>2, <3>1
  <2> QED
    BY <2>1, <2>2 DEF RunReported
<1>3. ASSUME NEW n \in DOMAIN msgs', msgs'[n].type = "instance-known", r.id \notin msgs'[n].ids
      PROVE  \E m \in DOMAIN msgs' : m > n /\ msgs'[m] = InstanceMessage(r)
  <2>1. n \in Nat /\ n + 1 \in DOMAIN msgs /\ msgs[n + 1] = msgs'[n]
    BY <1>0, TakenQueue
  <2>2. PICK m \in DOMAIN msgs : m > n + 1 /\ msgs[m] = InstanceMessage(r)
    BY <1>3, <2>1 DEF RunReported
  <2>3. m \in Nat /\ m # 1 /\ m - 1 > n
    BY <1>0, <2>1, <2>2, TakenQueue
  <2> QED
    BY <1>1, <2>2, <2>3
<1>4. \A n \in DOMAIN msgs' :
         /\ msgs'[n].type = "instance" /\ msgs'[n].id = r.id => msgs'[n].key = r.key
         /\ msgs'[n].type = "instance-delete" => msgs'[n].id # r.id
  BY <1>0, TakenQueue DEF RunReported
<1> QED
  BY <1>2, <1>3, <1>4 DEF RunReported, Right

(* What a message says of other runs, or of r what is so.                  *)
Spares(m, r) ==
    /\ m.type = "instance" /\ m.id = r.id => m.key = r.key
    /\ m.type = "instance-delete" => m.id # r.id
    /\ m.type = "instance-known" => r.id \in m.ids

(* A run stays reported when messages are sent that spare it.              *)
LEMMA SentReported ==
    ASSUME TypeOK, NEW r, RunReported(r), UNCHANGED <<instances, instTodo>>,
           NEW s \in Seq(Message), ClientSends(s), \A k \in DOMAIN s : Spares(s[k], r)
    PROVE  RunReported(r)' /\ (Listed(r) => Listed(r)')
<1>0. msgs \in Seq(Message)
  BY DEF TypeOK
<1>1. \A n \in DOMAIN msgs : n \in DOMAIN msgs' /\ msgs'[n] = msgs[n]
  BY <1>0, SentQueue
<1>2. \A n \in DOMAIN msgs' : n \in DOMAIN msgs \/ \E k \in DOMAIN s : msgs'[n] = s[k]
  BY <1>0, SentQueue
<1>3. RunReported(r)'
  BY <1>1, <1>2 DEF RunReported, Right, Shown, Spares
<1>4. Listed(r) => Listed(r)'
  BY <1>1, <1>2 DEF Listed, Spares
<1> QED
  BY <1>3, <1>4

LEMMA SentTwo ==
    ASSUME TypeOK, NEW r, RunReported(r), UNCHANGED <<instances, instTodo>>,
           NEW a \in Message, NEW b \in Message, Spares(a, r), Spares(b, r),
           ClientSends(<<a, b>>) \/ ClientSends(<<b, a>>)
    PROVE  RunReported(r)' /\ (Listed(r) => Listed(r)')
<1>1. ASSUME NEW x \in Message, NEW y \in Message, Spares(x, r), Spares(y, r), ClientSends(<<x, y>>)
      PROVE  RunReported(r)' /\ (Listed(r) => Listed(r)')
  <2> DEFINE s == <<x, y>>
  <2>1. s \in Seq(Message) /\ DOMAIN s = {1, 2} /\ s[1] = x /\ s[2] = y /\ ClientSends(s)
    BY <1>1
  <2> HIDE DEF s
  <2>2. \A k \in DOMAIN s : Spares(s[k], r)
    BY <1>1, <2>1
  <2> QED
    BY <2>1, <2>2, SentReported
<1> QED
  BY <1>1

LEMMA SentOne ==
    ASSUME TypeOK, NEW r, RunReported(r), UNCHANGED <<instances, instTodo>>,
           NEW a \in Message, Spares(a, r), ClientSends(<<a>>)
    PROVE  RunReported(r)' /\ (Listed(r) => Listed(r)')
<1> DEFINE s == <<a>>
<1>1. s \in Seq(Message) /\ DOMAIN s = {1} /\ s[1] = a /\ ClientSends(s)
  OBVIOUS
<1> HIDE DEF s
<1>2. \A k \in DOMAIN s : Spares(s[k], r)
  BY <1>1
<1> QED
  BY <1>1, <1>2, SentReported

(* No one uses the next id.                                                *)
LEMMA NextIdIsNew ==
    ASSUME NEW i \in Ids, IsNext(i)
    PROVE  i \notin UsedIds
<1>1. i \in Nat /\ ~(i < i)
  BY BoundsAssumption
<1>2. \A j \in UsedIds : j < i
  BY DEF IsNext
<1> QED
  BY <1>1, <1>2

(* A new run is reported, under an id nothing else has.                    *)
LEMMA BegunReported ==
    ASSUME TypeOK, NEW i \in Ids, IsNext(i), NEW r \in Run, r.id = i,
           UNCHANGED <<instances, instTodo>>,
           NEW s \in Seq(Message), ClientSends(s), NEW h,
           h.type = "history", s \in {<<InstanceMessage(r), h>>, <<h, InstanceMessage(r)>>}
    PROVE  RunReported(r)'
<1>0. msgs \in Seq(Message)
  BY DEF TypeOK
<1>1. i \notin UsedIds
  BY NextIdIsNew
<1>2. /\ \A x \in instances \cup instTodo : x.id # i
      /\ \A n \in DOMAIN msgs : i \notin Mentioned(msgs[n])
  BY <1>1 DEF UsedIds, IdsOf
<1>3. \A n \in DOMAIN msgs : n \in DOMAIN msgs' /\ msgs'[n] = msgs[n]
  BY <1>0, SentQueue
<1>4. PICK k \in DOMAIN s : s[k] = InstanceMessage(r)
  <2>1. \E k \in {1, 2} : k \in DOMAIN s /\ s[k] = InstanceMessage(r)
    OBVIOUS
  <2> QED
    BY <2>1
<1>5. /\ Len(msgs) + k \in DOMAIN msgs' /\ msgs'[Len(msgs) + k] = InstanceMessage(r)
      /\ \A n \in DOMAIN msgs : Len(msgs) + k > n
  BY <1>0, <1>4, SentQueue
<1>6. \A n \in DOMAIN msgs' : n \in DOMAIN msgs \/ msgs'[n] \in {InstanceMessage(r), h}
  <2>1. \A j \in DOMAIN s : s[j] \in {InstanceMessage(r), h}
    OBVIOUS
  <2> QED
    BY <1>0, <2>1, SentQueue
<1>7. /\ InstanceMessage(r).type = "instance" /\ InstanceMessage(r).key = r.key
      /\ InstanceMessage(r).id = r.id
  BY DEF InstanceMessage
<1>8. \A n \in DOMAIN msgs : /\ msgs[n].type \in {"instance", "instance-delete"} => msgs[n].id # i
                             /\ msgs[n].type = "instance-known" => i \notin msgs[n].ids
  BY <1>2 DEF Mentioned
<1>9. \A n \in DOMAIN msgs' :
         /\ msgs'[n].type = "instance" /\ msgs'[n].id = r.id => msgs'[n].key = r.key
         /\ msgs'[n].type = "instance-delete" => msgs'[n].id # r.id
  BY <1>3, <1>6, <1>7, <1>8
<1>10. ASSUME NEW n \in DOMAIN msgs', msgs'[n].type = "instance-known"
       PROVE  \E m \in DOMAIN msgs' : m > n /\ msgs'[m] = InstanceMessage(r)
  BY <1>5, <1>6, <1>7, <1>10
<1>11. Right(r, instances') /\ Right(r, instTodo')
  BY <1>2 DEF Right
<1> QED
  BY <1>5, <1>9, <1>10, <1>11 DEF RunReported, Right

(* Stopping instances leaves the documents of a run: it marks real ones.   *)
LEMMA StopSpares ==
    ASSUME NEW r, RunReported(r), NEW S, S \subseteq instances \cup instTodo
    PROVE  /\ Right(r, InstancesAfterStop(S))
           /\ Shown(r) => r.id \in IdsOf(InstancesAfterStop(S))
<1>1. \A x \in S : x.id = r.id => x.key = r.key /\ ~x.placeholder
  BY DEF RunReported, Right
<1>2. \A x \in InstancesAfterStop(S) : x \in instances \/ x \in S
  BY DEF InstancesAfterStop, Without
<1>3. Right(r, InstancesAfterStop(S))
  BY <1>1, <1>2 DEF RunReported, Right
<1>4. ASSUME Shown(r) PROVE r.id \in IdsOf(InstancesAfterStop(S))
  <2>1. PICK x \in instances : x.id = r.id
    BY <1>4 DEF Shown, IdsOf
  <2>2. CASE \E y \in S : y.id = r.id
    BY <1>1, <2>2 DEF InstancesAfterStop, IdsOf
  <2>3. CASE \A y \in S : y.id # r.id
    BY <2>1, <2>3 DEF InstancesAfterStop, Without, IdsOf
  <2> QED
    BY <2>2, <2>3
<1> QED
  BY <1>3, <1>4

(* So does saving a placeholder: its id is nobody's.                       *)
LEMMA SaveSpares ==
    ASSUME TypeOK, NEW r \in engine, NEW insts, Right(r, insts),
           Shown(r) => r.id \in IdsOf(insts),
           NEW hists, NEW k, NEW saved, SavePlaceholders(insts, hists, k, saved)
    PROVE  Right(r, instances') /\ (Shown(r) => Shown(r)')
<1>1. PICK i \in Ids : /\ IsNext(i)
                       /\ instances' = insts \/ instances' = insts \cup {PlaceholderInstance(i, k)}
  BY DEF SavePlaceholders
<1>2. i \notin UsedIds
  BY <1>1, NextIdIsNew
<1>3. r.id # i
  BY <1>2 DEF UsedIds, IdsOf
<1>4. PlaceholderInstance(i, k).id = i
  BY DEF PlaceholderInstance
<1> QED
  BY <1>1, <1>3, <1>4 DEF Right, Shown, IdsOf

(* The warden's start saves at most a placeholder.                         *)
LEMMA StartSpares ==
    ASSUME TypeOK, NEW r \in engine, NEW insts, Right(r, insts),
           Shown(r) => r.id \in IdsOf(insts),
           NEW hists, NEW d, NEW k, StartDeploymentWithoutWardenHandling(insts, hists, d, k)
    PROVE  Right(r, instances') /\ (Shown(r) => Shown(r)')
<1>1. CASE instances' = insts
  BY <1>1 DEF Right, Shown
<1>2. ASSUME NEW saved, SavePlaceholders(insts, hists, k, saved)
      PROVE  Right(r, instances') /\ (Shown(r) => Shown(r)')
  BY <1>2, SaveSpares
<1> QED
  BY <1>1, <1>2 DEF StartDeploymentWithoutWardenHandling

(* No check of the warden touches the document of a run.                   *)
LEMMA CheckSpares ==
    ASSUME TypeOK, NEW r \in engine, RunReported(r), NEW k \in Keys, CheckWardenInfo(k)
    PROVE  Right(r, instances') /\ (Shown(r) => Shown(r)')
<1>1. CASE UNCHANGED instances
  BY <1>1 DEF RunReported, Right, Shown
<1>2. ASSUME NEW d, WardenStart(k, d) PROVE Right(r, instances') /\ (Shown(r) => Shown(r)')
  BY <1>2, StartSpares DEF WardenStart, RunReported, Shown
<1>3. ASSUME OldPlaceholderInstance(k) PROVE Right(r, instances') /\ (Shown(r) => Shown(r)')
  <2>1. PICK x \in instances :
           StartDeploymentWithoutWardenHandling(InstancesAfterStop({x}),
                                                HistoriesAfterStop({x}), deployment, k)
    BY <1>3 DEF OldPlaceholderInstance
  <2>2. /\ Right(r, InstancesAfterStop({x}))
        /\ Shown(r) => r.id \in IdsOf(InstancesAfterStop({x}))
    <3>1. {x} \subseteq instances \cup instTodo
      OBVIOUS
    <3> QED
      BY <3>1, StopSpares
  <2> QED
    BY <2>1, <2>2, StartSpares
<1>4. ASSUME DuplicateInstances(k) PROVE Right(r, instances') /\ (Shown(r) => Shown(r)')
  <2>1. PICK x : \/ UNCHANGED instances
                 \/ instances' = InstancesAfterStop(AllBut(x, InstancesOf(k)))
    BY <1>4 DEF DuplicateInstances, StopProcessInstancesWithoutWardenHandling
  <2>2. AllBut(x, InstancesOf(k)) \subseteq instances \cup instTodo
    BY DEF AllBut, InstancesOf
  <2>3. /\ Right(r, InstancesAfterStop(AllBut(x, InstancesOf(k))))
        /\ Shown(r) => r.id \in IdsOf(InstancesAfterStop(AllBut(x, InstancesOf(k))))
    BY <2>2, StopSpares
  <2> QED
    BY <1>1, <2>1, <2>3 DEF Right, Shown
<1> QED
  BY <1>1, <1>2, <1>3, <1>4
  DEF CheckWardenInfo, ImmatureInfo, ExpectedInstance, NoAction, MissingWithoutHistory,
      StartNeverSeen, RedeployNeverSeen, ForgetNeverSeen, RemoveInstanceWarden,
      MissingWithHistory, EndIsImmature, EndedWithoutIncident, EndedWithIncident

(* Documents keep what they are when they grow older.                      *)
LEMMA AgedDocs ==
    ASSUME NEW S \in SUBSET Instance
    PROVE  /\ \A y \in SyncedLongAgo(S) : \E x \in S :
                 y.id = x.id /\ y.key = x.key /\ y.placeholder = x.placeholder
           /\ \A x \in S : \E y \in SyncedLongAgo(S) :
                 y.id = x.id /\ y.key = x.key /\ y.placeholder = x.placeholder
<1>1. ASSUME NEW x \in S
      PROVE  /\ [x EXCEPT !.young = FALSE] \in SyncedLongAgo(S)
             /\ [x EXCEPT !.young = FALSE].id = x.id
             /\ [x EXCEPT !.young = FALSE].key = x.key
             /\ [x EXCEPT !.young = FALSE].placeholder = x.placeholder
  BY <1>1 DEF SyncedLongAgo, Instance
<1>2. ASSUME NEW y \in SyncedLongAgo(S)
      PROVE  \E x \in S : y.id = x.id /\ y.key = x.key /\ y.placeholder = x.placeholder
  <2>1. PICK x \in S : y = [x EXCEPT !.young = FALSE]
    BY DEF SyncedLongAgo
  <2> QED
    BY <1>1, <2>1
<1>3. ASSUME NEW x \in S
      PROVE  \E y \in SyncedLongAgo(S) : y.id = x.id /\ y.key = x.key /\ y.placeholder = x.placeholder
  <2> DEFINE y == [x EXCEPT !.young = FALSE]
  <2>1. y \in SyncedLongAgo(S) /\ y.id = x.id /\ y.key = x.key /\ y.placeholder = x.placeholder
    BY <1>1
  <2> HIDE DEF y
  <2> QED
    BY <2>1
<1> QED
  BY <1>2, <1>3

(* The steps of the platform that take no message and delete no deployment.*)
PlatformSteps ==
    ApiSteps \/ UserRequests \/ BeginLoopWardenDb \/ CheckSteps \/ AgeGatePasses \/ Restart

(* None of them touches the documents of a run.                            *)
LEMMA PlatformSpares ==
    ASSUME TypeOK, NEW r \in engine, RunReported(r), PlatformSteps
    PROVE  /\ Right(r, instances') /\ Right(r, instTodo')
           /\ Shown(r) => Shown(r)'
<1> USE DEF loopVars, docVars
<1>0. Right(r, instances) /\ Right(r, instTodo)
  BY DEF RunReported
<1>1. CASE UNCHANGED instances /\ instTodo' \in {instTodo, instances, {}}
  BY <1>0, <1>1 DEF Right, Shown
<1>2. ASSUME NEW k \in Keys, ApiSavePlaceholders(k)
      PROVE  Right(r, instances') /\ Right(r, instTodo') /\ (Shown(r) => Shown(r)')
  <2>1. PICK saved : SavePlaceholders(instances, histories, k, saved)
    BY <1>2 DEF ApiSavePlaceholders
  <2> QED
    BY <1>0, <1>2, <2>1, SaveSpares DEF ApiSavePlaceholders, Right, Shown
<1>3. ASSUME NEW S, S \subseteq instances \cup instTodo, instances' = InstancesAfterStop(S),
             instTodo' \subseteq instTodo
      PROVE  Right(r, instances') /\ Right(r, instTodo') /\ (Shown(r) => Shown(r)')
  BY <1>0, <1>3, StopSpares DEF Right, Shown
<1>4. CASE UserRequests
  <2>1. \/ UNCHANGED <<instances, instTodo>>
        \/ \E S \in SUBSET (instances \cup instTodo) :
              instances' = InstancesAfterStop(S) /\ UNCHANGED instTodo
    BY <1>4 DEF UserRequests, AddInstanceWarden, DeleteProcessInstanceByBusinessKey,
                ApiDeleteProcessInstance, ApiDeletePlaceholderHistory, InstancesOf,
                StopProcessInstancesWithoutWardenHandling
  <2> QED
    BY <1>1, <1>3, <2>1
<1>5. CASE ApiSteps
  BY <1>1, <1>2, <1>5 DEF ApiSteps, ApiSendStart, ApiRefuseStart
<1>6. CASE CheckSteps
  <2>1. ASSUME NEW k \in Keys, CheckWardenInfo(k)
        PROVE  Right(r, instances') /\ Right(r, instTodo') /\ (Shown(r) => Shown(r)')
    <3>1. UNCHANGED instTodo
      BY <2>1, CheckEffect DEF Checked
    <3> QED
      BY <1>0, <2>1, <3>1, CheckSpares DEF Right
  <2>2. ASSUME NEW x \in instTodo, CheckProcessInstance(x)
        PROVE  Right(r, instances') /\ Right(r, instTodo') /\ (Shown(r) => Shown(r)')
    <3>1. /\ instTodo' \subseteq instTodo
          /\ UNCHANGED instances \/ instances' = InstancesAfterStop({x})
      BY <2>2 DEF CheckProcessInstance, StopProcessInstancesWithoutWardenHandling
    <3>2. CASE UNCHANGED instances
      BY <1>0, <3>1, <3>2 DEF Right, Shown
    <3>3. CASE instances' = InstancesAfterStop({x})
      BY <1>3, <3>1, <3>3
    <3> QED
      BY <3>1, <3>2, <3>3
  <2> QED
    BY <1>1, <1>6, <2>1, <2>2 DEF CheckSteps, BeginLoopProcesses, EndLoop
<1>7. CASE AgeGatePasses
  <2>1. /\ instances' = SyncedLongAgo(instances) /\ instTodo' = SyncedLongAgo(instTodo)
        /\ instances \in SUBSET Instance /\ instTodo \in SUBSET Instance
    BY <1>7 DEF AgeGatePasses, TypeOK
  <2>3. /\ \A y \in instances' : \E x \in instances : y.id = x.id /\ y.key = x.key /\ y.placeholder = x.placeholder
        /\ \A x \in instances : \E y \in instances' : y.id = x.id
        /\ \A y \in instTodo' : \E x \in instTodo : y.id = x.id /\ y.key = x.key /\ y.placeholder = x.placeholder
    BY <2>1, AgedDocs
  <2>4. Right(r, instances') /\ Right(r, instTodo')
    BY <1>0, <2>3 DEF Right
  <2> QED
    BY <2>3, <2>4 DEF Shown, IdsOf
<1> QED
  BY <1>1, <1>4, <1>5, <1>6, <1>7 DEF PlatformSteps, BeginLoopWardenDb, Restart

(* The MQTT handlers touch the document of a run only with what is said of *)
(* it.                                                                     *)
LEMMA HandlersReport ==
    ASSUME TypeOK, NEW r \in engine, RunReported(r), Handlers
    PROVE  /\ RunReported(r)'
           /\ Shown(r) /\ Listed(r) => Shown(r)' /\ Listed(r)'
<1> DEFINE h == Head(msgs)
<1>0. /\ msgs \in Seq(Message) /\ Right(r, instances) /\ Right(r, instTodo)
      /\ UNCHANGED <<instTodo, engine>>
  BY DEF Handlers, UpdateProcessInstance, DeleteProcessInstance, DeleteUnknownProcessInstances,
         UpdateHistoricProcessInstance, DeleteHistoricProcessInstance,
         DeleteUnknownHistoricProcessInstances, UpdateIncident, TypeOK, RunReported, loopVars
<1>1. PICK type : Receive(type) /\ type = h.type
  BY DEF Handlers, UpdateProcessInstance, DeleteProcessInstance, DeleteUnknownProcessInstances,
         UpdateHistoricProcessInstance, DeleteHistoricProcessInstance,
         DeleteUnknownHistoricProcessInstances, UpdateIncident, Receive
<1>2. 1 \in DOMAIN msgs /\ msgs[1] = h
  BY <1>0, <1>1, TakenQueue
<1>3. /\ h.type = "instance" /\ h.id = r.id => h.key = r.key
      /\ h.type = "instance-delete" => h.id # r.id
  BY <1>2 DEF RunReported
<1>4. InstanceMessage(r).type = "instance" /\ InstanceMessage(r).id = r.id
  BY DEF InstanceMessage
<1>5. /\ Right(r, instances')
      /\ Shown(r) /\ (h.type = "instance-known" => r.id \in h.ids) => Shown(r)'
      /\ h = InstanceMessage(r) => Shown(r)'
  <2>1. CASE UpdateProcessInstance
    <3> DEFINE d == [id |-> h.id, key |-> h.key, placeholder |-> FALSE, young |-> TRUE]
    <3>1. /\ instances' = Save(WithoutPlaceholders(instances), d)
          /\ h.type = "instance" /\ d.id = h.id /\ d.key = h.key /\ ~d.placeholder
      BY <2>1 DEF UpdateProcessInstance, Receive
    <3> HIDE DEF d, h
    <3>2. /\ d \in instances'
          /\ \A x \in instances' : x = d \/ x \in instances
          /\ \A x \in instances : ~x.placeholder => x \in instances' \/ x.id = d.id
      BY <3>1 DEF Save, WithoutPlaceholders
    <3>3. Right(r, instances')
      BY <1>0, <1>3, <3>1, <3>2 DEF Right
    <3>4. Shown(r) => Shown(r)'
      BY <1>0, <3>1, <3>2 DEF Right, Shown, IdsOf
    <3>5. h = InstanceMessage(r) => Shown(r)'
      BY <1>4, <3>1, <3>2 DEF Shown, IdsOf
    <3> QED
      BY <3>3, <3>4, <3>5
  <2>2. CASE DeleteProcessInstance
    BY <1>0, <1>3, <1>4, <2>2 DEF DeleteProcessInstance, Receive, Without, Right, Shown, IdsOf
  <2>3. CASE DeleteUnknownProcessInstances
    BY <1>0, <1>4, <2>3 DEF DeleteUnknownProcessInstances, Receive, Right, Shown, IdsOf
  <2>4. CASE UpdateHistoricProcessInstance
    BY <1>0, <1>4, <2>4
    DEF UpdateHistoricProcessInstance, Receive, WithoutPlaceholders, Right, Shown, IdsOf
  <2>5. CASE DeleteHistoricProcessInstance \/ DeleteUnknownHistoricProcessInstances \/ UpdateIncident
    BY <1>0, <1>4, <2>5
    DEF DeleteHistoricProcessInstance, DeleteUnknownHistoricProcessInstances, UpdateIncident,
        Receive, Right, Shown
  <2> QED
    BY <2>1, <2>2, <2>3, <2>4, <2>5 DEF Handlers
<1> HIDE DEF h
<1>6. RunReported(r)'
  BY <1>0, <1>1, <1>5, TakenReported DEF h, Right
<1>7. Listed(r) => Listed(r)' /\ (h.type = "instance-known" => r.id \in h.ids)
  BY <1>0, <1>1, <1>2, TakenQueue DEF Listed
<1> QED
  BY <1>5, <1>6, <1>7

(* What a run's messages say spares the other runs.                        *)
LEMMA OwnMessages ==
    ASSUME NEW r, NEW t
    PROVE  /\ t.id # r.id => Spares(InstanceMessage(t), r) /\ Spares(EndMessage(t.id), r)
           /\ Spares(InstanceMessage(r), r)
           /\ Spares(HistoryMessage(t), r) /\ Spares(IncidentMessage(t.id), r)
BY DEF Spares, InstanceMessage, EndMessage, HistoryMessage, IncidentMessage

(* The steps of the client and the losses of commands.                     *)
ClientSteps == ClientObeys \/ RunsEnd \/ ClientSpeaks \/ CommandLosses \/ ClientReset

(* A run that goes on stays reported whatever the client says of others.   *)
LEMMA ClientReportsOn ==
    ASSUME TypeOK, RunsReported, NEW r \in engine, r \in engine', ClientSteps
    PROVE  RunReported(r)' /\ (Listed(r) => Listed(r)')
<1> USE DEF loopVars, docVars, clientVars
<1>0. RunReported(r) /\ \A t \in engine : t # r => t.id # r.id
  BY DEF RunsReported
<1>1. UNCHANGED <<instances, instTodo>>
  BY DEF ClientSteps, ClientObeys, ClientStart, ClientStop, RunsEnd, RunFinishes, RunFails, RunEnds,
         ClientSpeaks, ClientReports, ClientListsInstances, ClientDeletesHistory, ClientStartsLegacy,
         CommandLosses, LoseStart, LoseStop, ClientReset
<1>2. CASE UNCHANGED msgs
  BY <1>0, <1>1, <1>2, SparedReported DEF RunReported, Right, Shown, Listed
<1>3. ASSUME NEW t \in engine, RunEnds(t) \/ RunFails(t)
      PROVE  RunReported(r)' /\ (Listed(r) => Listed(r)')
  <2>1. t # r
    BY <1>3 DEF RunEnds, RunFails
  <2>2. /\ EndMessage(t.id) \in Message /\ HistoryMessage(t) \in Message
        /\ IncidentMessage(t.id) \in Message
    BY RunMessages DEF TypeOK
  <2>3. Spares(EndMessage(t.id), r) /\ Spares(HistoryMessage(t), r) /\ Spares(IncidentMessage(t.id), r)
    BY <1>0, <2>1, OwnMessages
  <2>4. CASE RunEnds(t)
    BY <1>0, <1>1, <2>2, <2>3, <2>4, SentTwo DEF RunEnds
  <2>5. CASE RunFails(t)
    BY <1>0, <1>1, <2>2, <2>3, <2>5, SentTwo DEF RunFails
  <2> QED
    BY <1>3, <2>4, <2>5
<1>4. ASSUME NEW k \in AllKeys, ClientRuns(k)
      PROVE  RunReported(r)' /\ (Listed(r) => Listed(r)')
  <2>1. PICK t \in Run : /\ IsNext(t.id)
                         /\ \/ ClientSends(<<InstanceMessage(t), HistoryMessage(t)>>)
                            \/ ClientSends(<<HistoryMessage(t), InstanceMessage(t)>>)
    <3>1. PICK i \in Ids :
             LET t == [id |-> i, key |-> k] IN
             /\ IsNext(i)
             /\ \/ ClientSends(<<InstanceMessage(t), HistoryMessage(t)>>)
                \/ ClientSends(<<HistoryMessage(t), InstanceMessage(t)>>)
      BY <1>4 DEF ClientRuns
    <3>2. [id |-> i, key |-> k] \in Run /\ [id |-> i, key |-> k].id = i
      BY DEF Run
    <3> QED
      BY <3>1, <3>2
  <2>2. t.id # r.id
    BY <2>1, NextIdIsNew DEF Run, UsedIds, IdsOf
  <2>3. InstanceMessage(t) \in Message /\ HistoryMessage(t) \in Message
    BY RunMessages
  <2>4. Spares(InstanceMessage(t), r) /\ Spares(HistoryMessage(t), r)
    BY <2>2, OwnMessages
  <2> QED
    BY <1>0, <1>1, <2>1, <2>3, <2>4, SentTwo
<1>5. ASSUME NEW t \in engine, ClientReports(t)
      PROVE  RunReported(r)' /\ (Listed(r) => Listed(r)')
  <2>1. InstanceMessage(t) \in Message /\ HistoryMessage(t) \in Message
    BY RunMessages DEF TypeOK
  <2>2. Spares(InstanceMessage(t), r) /\ Spares(HistoryMessage(t), r)
    BY <1>0, OwnMessages
  <2> QED
    BY <1>0, <1>1, <1>5, <2>1, <2>2, SentOne DEF ClientReports
<1>6. ASSUME ClientListsInstances
      PROVE  RunReported(r)' /\ (Listed(r) => Listed(r)')
  <2> DEFINE m == [type |-> "instance-known", ids |-> IdsOf(engine)]
  <2>1. m \in Message /\ Spares(m, r) /\ ClientSends(<<m>>)
    BY <1>6 DEF ClientListsInstances, Message, TypeOK, Run, IdsOf, Spares
  <2> HIDE DEF m
  <2> QED
    BY <1>0, <1>1, <2>1, SentOne
<1>7. ASSUME NEW h \in histories, ClientDeletesHistory(h)
      PROVE  RunReported(r)' /\ (Listed(r) => Listed(r)')
  <2> DEFINE m == [type |-> "history-delete", id |-> h.id]
  <2>1. m \in Message /\ Spares(m, r) /\ ClientSends(<<m>>)
    BY <1>7 DEF ClientDeletesHistory, Message, TypeOK, History, Spares
  <2> HIDE DEF m
  <2> QED
    BY <1>0, <1>1, <2>1, SentOne
<1>8. \/ UNCHANGED msgs
      \/ \E t \in engine : RunEnds(t) \/ RunFails(t) \/ ClientReports(t)
      \/ \E k \in AllKeys : ClientRuns(k)
      \/ ClientListsInstances \/ \E h \in histories : ClientDeletesHistory(h)
  BY DEF ClientSteps, ClientObeys, ClientStart, ClientStop, RunsEnd, RunFinishes, ClientSpeaks,
         ClientStartsLegacy, CommandLosses, LoseStart, LoseStop, ClientReset
<1> QED
  BY <1>2, <1>3, <1>4, <1>5, <1>6, <1>7, <1>8

(* A run that begins is the only one under its id, and reported.           *)
LEMMA ClientBegins ==
    ASSUME TypeOK, ClientSteps, NEW r \in engine', r \notin engine
    PROVE  /\ RunReported(r)' /\ \A t \in engine : t.id # r.id
           /\ engine' = engine \cup {r}
           /\ ClientStart(r.key) \/ r.key \in LegacyKeys
<1> USE DEF loopVars, docVars, clientVars
<1>1. PICK k \in AllKeys : ClientRuns(k) /\ (ClientStart(k) \/ k \in LegacyKeys)
  BY DEF ClientSteps, ClientObeys, ClientStart, ClientStop, RunsEnd, RunFinishes, RunFails, RunEnds,
         ClientSpeaks, ClientReports, ClientListsInstances, ClientDeletesHistory, ClientStartsLegacy,
         CommandLosses, LoseStart, LoseStop, ClientReset
<1>2. UNCHANGED <<instances, instTodo>>
  BY <1>1 DEF ClientSteps, ClientObeys, ClientStart, ClientStop, RunsEnd, RunFinishes, RunFails,
         RunEnds, ClientSpeaks, ClientReports, ClientListsInstances, ClientDeletesHistory,
         ClientStartsLegacy, CommandLosses, LoseStart, LoseStop, ClientReset
<1>3. PICK i \in Ids :
         LET t == [id |-> i, key |-> k] IN
         /\ IsNext(i) /\ engine' = engine \cup {t}
         /\ \/ ClientSends(<<InstanceMessage(t), HistoryMessage(t)>>)
            \/ ClientSends(<<HistoryMessage(t), InstanceMessage(t)>>)
  BY <1>1 DEF ClientRuns
<1>4. r = [id |-> i, key |-> k]
  BY <1>3
<1>5. r \in Run /\ r.id = i /\ r.key = k
  BY <1>4 DEF Run
<1>6. /\ engine' = engine \cup {r}
      /\ \/ ClientSends(<<InstanceMessage(r), HistoryMessage(r)>>)
         \/ ClientSends(<<HistoryMessage(r), InstanceMessage(r)>>)
  BY <1>3, <1>4
<1>7. \A t \in engine : t.id # r.id
  BY <1>3, <1>5, NextIdIsNew DEF UsedIds, IdsOf
<1>8. /\ HistoryMessage(r).type = "history"
      /\ <<InstanceMessage(r), HistoryMessage(r)>> \in Seq(Message)
      /\ <<HistoryMessage(r), InstanceMessage(r)>> \in Seq(Message)
  BY <1>5, RunMessages DEF HistoryMessage
<1>9. RunReported(r)'
  BY <1>2, <1>3, <1>5, <1>6, <1>8, BegunReported
<1> QED
  BY <1>1, <1>5, <1>6, <1>7, <1>9

(* Every step but a loss of messages and what happens to the deployment.   *)
CalmSteps == PlatformSteps \/ Handlers \/ ClientSteps

(* Every run stays reported.                                               *)
LEMMA RunsStayReported ==
    ASSUME TypeOK, RunsReported, CalmSteps
    PROVE  /\ RunsReported'
           /\ \A r \in engine \cap engine' : Shown(r) /\ Listed(r) => Shown(r)' /\ Listed(r)'
<1>1. CASE PlatformSteps
  <2>1. UNCHANGED <<engine, msgs>>
    BY <1>1, CheckEffect
    DEF PlatformSteps, ApiSteps, ApiSendStart, ApiRefuseStart, ApiSavePlaceholders, UserRequests,
        AddInstanceWarden, DeleteProcessInstanceByBusinessKey, ApiDeleteProcessInstance,
        ApiDeletePlaceholderHistory, BeginLoopWardenDb, CheckSteps, Checked, BeginLoopProcesses,
        CheckProcessInstance, EndLoop, AgeGatePasses, Restart, clientVars
  <2>2. ASSUME NEW r \in engine
        PROVE  RunReported(r)' /\ (Shown(r) => Shown(r)') /\ (Listed(r) => Listed(r)')
    <3>1. RunReported(r)
      BY DEF RunsReported
    <3> QED
      BY <1>1, <2>1, <3>1, PlatformSpares, SparedReported DEF Listed
  <2> QED
    BY <2>1, <2>2 DEF RunsReported
<1>2. CASE Handlers
  <2>1. UNCHANGED engine
    BY <1>2 DEF Handlers, UpdateProcessInstance, DeleteProcessInstance,
         DeleteUnknownProcessInstances, UpdateHistoricProcessInstance,
         DeleteHistoricProcessInstance, DeleteUnknownHistoricProcessInstances, UpdateIncident
  <2> QED
    BY <1>2, <2>1, HandlersReport DEF RunsReported
<1>3. CASE ClientSteps
  <2>1. ASSUME NEW r \in engine' PROVE RunReported(r)'
    BY <1>3, <2>1, ClientReportsOn, ClientBegins
  <2>2. ASSUME NEW r \in engine', NEW t \in engine', r.id = t.id PROVE r = t
    BY <1>3, <2>2, ClientBegins DEF RunsReported
  <2>3. \A r \in engine \cap engine' : Listed(r) => Listed(r)'
    BY <1>3, ClientReportsOn
  <2>4. UNCHANGED instances
    BY <1>3 DEF ClientSteps, ClientObeys, ClientStart, ClientStop, RunsEnd, RunFinishes, RunFails,
         RunEnds, ClientSpeaks, ClientReports, ClientListsInstances, ClientDeletesHistory,
         ClientStartsLegacy, CommandLosses, LoseStart, LoseStop, ClientReset, docVars
  <2> QED
    BY <2>1, <2>2, <2>3, <2>4 DEF RunsReported, Shown
<1> QED
  BY <1>1, <1>2, <1>3 DEF CalmSteps

-----------------------------------------------------------------------------
(* Commands and runs of one key                                            *)

(* Fewer commands and runs and entries of lists change nothing.            *)
LEMMA StaysOneStart ==
    ASSUME TypeOK, TypeOK', NEW k \in Keys, OneStart(k), starts'[k] <= starts[k],
           \A r \in engine' : r.key = k => r \in engine,
           starting'[k] \in {starting[k], "idle"},
           warden'[k] \in {warden[k], "none"}, infoTodo'[k] \in {infoTodo[k], "none"},
           UNCHANGED rested,
           \A r \in engine \cap engine' : Shown(r) /\ Listed(r) => Shown(r)' /\ Listed(r)'
    PROVE  OneStart(k)'
<1>1. starts[k] \in Nat /\ starts'[k] \in Nat
  BY BoundsAssumption DEF TypeOK
<1>2. RunsOf(k)' \subseteq RunsOf(k) /\ \A r \in RunsOf(k)' : r \in engine \cap engine'
  BY DEF RunsOf
<1>3. Candidate(k)' => Candidate(k)
  BY DEF Candidate
<1>4. Candidate(k)' => starts'[k] = 0 /\ \A r \in RunsOf(k)' : Shown(r)' /\ Listed(r)'
  BY <1>1, <1>2, <1>3 DEF OneStart
<1>5. /\ starts'[k] <= 1
      /\ starts'[k] = 1 => RunsOf(k)' = {}
      /\ \A r, s \in RunsOf(k)' : r = s
      /\ starting'[k] = "guarded" => starts'[k] = 0 /\ RunsOf(k)' = {}
      /\ starting'[k] # "idle" => infoTodo'[k] # "old" /\ warden'[k] # "old"
  BY <1>1, <1>2 DEF OneStart
<1> QED
  BY <1>4, <1>5 DEF OneStart

(* A check starts its key only if its documents show no run.               *)
LEMMA CheckStarts ==
    ASSUME NEW k \in Keys, CheckWardenInfo(k)
    PROVE  \/ UNCHANGED starts
           \/ /\ starts' = [starts EXCEPT ![k] = @ + 1]
              /\ infoTodo[k] = "old"
              /\ \A x \in InstancesOf(k) : x.placeholder
<1>1. ASSUME NEW insts, NEW hists, NEW d,
             StartDeploymentWithoutWardenHandling(insts, hists, d, k)
      PROVE  UNCHANGED starts \/ starts' = [starts EXCEPT ![k] = @ + 1]
  BY <1>1 DEF StartDeploymentWithoutWardenHandling, SendDeploymentStartCommand
<1>2. CASE ImmatureInfo(k) \/ ExpectedInstance(k) \/ DuplicateInstances(k)
  BY <1>2 DEF ImmatureInfo, ExpectedInstance, DuplicateInstances, NoAction, cmdVars
<1>3. CASE OldPlaceholderInstance(k)
  BY <1>1, <1>3 DEF OldPlaceholderInstance, InstanceIsOldPlaceholder
<1>4. CASE MissingWithoutHistory(k)
  BY <1>1, <1>4
  DEF MissingWithoutHistory, StartNeverSeen, RedeployNeverSeen, ForgetNeverSeen, NeverSeen,
      Missing, WardenStart, NoAction, RemoveInstanceWarden, cmdVars
<1>5. CASE MissingWithHistory(k)
  BY <1>1, <1>5
  DEF MissingWithHistory, EndIsImmature, EndedWithoutIncident, EndedWithIncident, Ended,
      Missing, WardenStart, NoAction, RemoveInstanceWarden, cmdVars
<1> QED
  BY <1>2, <1>3, <1>4, <1>5 DEF CheckWardenInfo

(* No check starts a key that has a run or a command.                      *)
LEMMA ChecksStartOnce ==
    ASSUME TypeOK, TypeOK', RunsReported, LoopRests, NEW c \in Keys, CheckWardenInfo(c),
           NEW k \in Keys, OneStart(k), OneStart(c), UNCHANGED rested
    PROVE  OneStart(k)'
<1>1. /\ phase = "infos" /\ infoTodo' = [infoTodo EXCEPT ![c] = "none"]
      /\ UNCHANGED <<engine, msgs, starting>>
      /\ warden' \in {warden, [warden EXCEPT ![c] = "none"]}
  BY CheckEffect DEF Checked, clientVars
<1>2. \A r \in engine : (Shown(r) => Shown(r)') /\ (Listed(r) => Listed(r)')
  BY <1>1, CheckSpares DEF RunsReported, Listed
<1>3. /\ warden'[k] \in {warden[k], "none"} /\ infoTodo'[k] \in {infoTodo[k], "none"}
      /\ infoTodo'[c] = "none" /\ ~rested
  BY <1>1 DEF TypeOK, LoopRests
<1>4. CASE starts'[k] = starts[k]
  <2>1. starts'[k] <= starts[k]
    BY <1>4, BoundsAssumption DEF TypeOK
  <2> QED
    BY <1>1, <1>2, <1>3, <2>1, StaysOneStart
<1>5. CASE starts'[k] # starts[k]
  <2>1. /\ k = c /\ starts' = [starts EXCEPT ![c] = @ + 1] /\ infoTodo[c] = "old"
        /\ \A x \in InstancesOf(c) : x.placeholder
    BY <1>5, CheckStarts DEF TypeOK
  <2>2. starts[k] = 0 /\ starting[k] = "idle" /\ \A r \in RunsOf(k) : Shown(r)
    BY <2>1 DEF OneStart, Candidate
  <2>3. RunsOf(k) = {}
    <3>1. ASSUME NEW r \in RunsOf(k) PROVE FALSE
      <4>1. Shown(r) /\ Right(r, instances) /\ r.key = k
        BY <2>2 DEF RunsReported, RunReported, RunsOf
      <4>2. PICK x \in instances : x.id = r.id
        BY <4>1 DEF Shown, IdsOf
      <4> QED
        BY <2>1, <4>1, <4>2 DEF Right, InstancesOf
    <3> QED
      BY <3>1
  <2>4. starts'[k] = 1
    BY <2>1, <2>2 DEF TypeOK
  <2>5. RunsOf(k)' = {} /\ starting'[k] = "idle" /\ ~Candidate(k)'
    BY <1>1, <1>3, <2>1, <2>2, <2>3 DEF RunsOf, Candidate
  <2> QED
    BY <2>4, <2>5 DEF OneStart
<1> QED
  BY <1>4, <1>5

(* Requests do not start a key that is in use.                             *)
LEMMA RequestsStartOnce ==
    ASSUME KeyReuse = FALSE, TypeOK, TypeOK', RunsReported, MCRequests, NEW k \in Keys, OneStart(k)
    PROVE  OneStart(k)'
<1> USE DEF docVars, cmdVars, clientVars, loopVars
<1>1. ASSUME NEW c \in Keys, ~InUse(c), AddInstanceWarden(c) PROVE OneStart(k)'
  <2>1. /\ UNCHANGED <<instances, starts, engine, msgs, infoTodo, rested>>
        /\ starting' = [starting EXCEPT ![c] = "guarded"]
        /\ warden' = [warden EXCEPT ![c] = "young"]
    BY <1>1 DEF MCRequests, AddInstanceWarden
  <2>2. CASE k = c
    <3>1. /\ warden[k] = "none" /\ infoTodo[k] = "none" /\ RunsOf(k) = {} /\ starts[k] = 0
      BY <1>1, <2>2, BoundsAssumption DEF InUse, TypeOK
    <3>2. starting'[k] = "guarded" /\ warden'[k] = "young"
      BY <2>1, <2>2 DEF TypeOK
    <3> QED
      BY <2>1, <3>1, <3>2 DEF OneStart, Candidate, RunsOf
  <2>3. CASE k # c
    <3>1. starts'[k] <= starts[k]
      BY <2>1, BoundsAssumption DEF TypeOK
    <3>2. starting'[k] = starting[k] /\ warden'[k] = warden[k]
      BY <2>1, <2>3 DEF TypeOK
    <3> QED
      BY <2>1, <3>1, <3>2, StaysOneStart DEF Shown, Listed
  <2> QED
    BY <2>2, <2>3
<1>2. CASE \/ \E c \in AllKeys : DeleteProcessInstanceByBusinessKey(c)
           \/ \E x \in instances : ApiDeleteProcessInstance(x)
           \/ \E h \in histories : ApiDeletePlaceholderHistory(h)
  <2>1. /\ UNCHANGED <<starts, engine, msgs, starting, infoTodo>>
        /\ UNCHANGED warden \/ \E ks : ClearGuards(ks)
    BY <1>2 DEF DeleteProcessInstanceByBusinessKey, ApiDeleteProcessInstance,
                ApiDeletePlaceholderHistory
  <2>2. warden'[k] \in {warden[k], "none"}
    BY <2>1 DEF ClearGuards
  <2>3. starts'[k] <= starts[k] /\ UNCHANGED rested
    BY <2>1, BoundsAssumption DEF TypeOK, MCRequests
  <2>4. \A r \in engine : (Shown(r) => Shown(r)') /\ (Listed(r) => Listed(r)')
    BY <1>2, <2>1, PlatformSpares DEF PlatformSteps, UserRequests, RunsReported, Listed
  <2> QED
    BY <2>1, <2>2, <2>3, <2>4, StaysOneStart
<1> QED
  BY <1>1, <1>2 DEF MCRequests, MCUserRequests

(* A start that was guarded is sent once, and a refused or failed one ends.*)
LEMMA ApiStartsOnce ==
    ASSUME TypeOK, TypeOK', RunsReported, ApiSteps, UNCHANGED rested, NEW k \in Keys, OneStart(k)
    PROVE  OneStart(k)'
<1> USE DEF docVars, cmdVars, clientVars, loopVars, ghostVars
<1>1. PICK c \in Keys : ApiSendStart(c) \/ ApiRefuseStart(c) \/ ApiSavePlaceholders(c)
  BY DEF ApiSteps
<1>2. UNCHANGED <<engine, msgs, infoTodo>>
  BY <1>1 DEF ApiSendStart, ApiRefuseStart, ApiSavePlaceholders
<1>3. \A r \in engine : (Shown(r) => Shown(r)') /\ (Listed(r) => Listed(r)')
  BY <1>2, PlatformSpares DEF PlatformSteps, RunsReported, Listed
<1>4. CASE k = c /\ ApiSendStart(c)
  <2>1. /\ starting[k] = "guarded" /\ starting' = [starting EXCEPT ![k] = "sent"]
        /\ starts' \in {starts, [starts EXCEPT ![k] = @ + 1]} /\ UNCHANGED warden
    BY <1>4 DEF ApiSendStart, SendDeploymentStartCommand
  <2>2. /\ starts[k] = 0 /\ RunsOf(k) = {} /\ infoTodo[k] # "old" /\ warden[k] # "old"
    BY <2>1 DEF OneStart
  <2>3. starts'[k] \in {0, 1} /\ starting'[k] = "sent"
    BY <2>1, <2>2 DEF TypeOK
  <2> QED
    BY <1>2, <2>1, <2>2, <2>3 DEF OneStart, Candidate, RunsOf
<1>5. CASE ~(k = c /\ ApiSendStart(c))
  <2>1. starts'[k] = starts[k] /\ starting'[k] \in {starting[k], "idle"} /\ warden'[k] \in {warden[k], "none"}
    <3>1. CASE ApiSendStart(c)
      BY <1>5, <3>1 DEF ApiSendStart, SendDeploymentStartCommand, TypeOK
    <3>2. CASE ApiRefuseStart(c)
      BY <3>2 DEF ApiRefuseStart, RollBackGuard, TypeOK
    <3>3. CASE ApiSavePlaceholders(c)
      BY <3>3 DEF ApiSavePlaceholders, RollBackGuard, TypeOK
    <3> QED
      BY <1>1, <3>1, <3>2, <3>3
  <2>2. starts'[k] <= starts[k]
    BY <2>1, BoundsAssumption DEF TypeOK
  <2> QED
    BY <1>2, <1>3, <2>1, <2>2, StaysOneStart
<1> QED
  BY <1>4, <1>5

(* A command becomes a run, and what else the client does ends some.       *)
LEMMA ClientStartsOnce ==
    ASSUME TypeOK, TypeOK', RunsReported, ClientSteps, UNCHANGED rested, NEW k \in Keys, OneStart(k)
    PROVE  OneStart(k)'
<1> USE DEF docVars, cmdVars, clientVars, loopVars, ghostVars
<1>1. /\ UNCHANGED <<warden, infoTodo, starting>>
      /\ starts' = starts \/ \E c \in AllKeys : starts[c] > 0 /\ starts' = [starts EXCEPT ![c] = @ - 1]
  BY DEF ClientSteps, ClientObeys, ClientStart, ClientStop, RunsEnd, RunFinishes, RunFails, RunEnds,
         ClientSpeaks, ClientReports, ClientListsInstances, ClientDeletesHistory, ClientStartsLegacy,
         CommandLosses, LoseStart, LoseStop, ClientReset
<1>2. starts'[k] <= starts[k]
  <2>1. starts[k] \in Nat /\ starts \in [AllKeys -> 0..MaxStarts] /\ k \in AllKeys
    BY BoundsAssumption DEF TypeOK
  <2>2. CASE starts' = starts
    BY <2>1, <2>2
  <2>3. ASSUME NEW c \in AllKeys, starts' = [starts EXCEPT ![c] = @ - 1]
        PROVE  starts'[k] <= starts[k]
    <3>1. starts'[k] \in {starts[k], starts[k] - 1}
      BY <2>1, <2>3
    <3> QED
      BY <2>1, <3>1
  <2> QED
    BY <1>1, <2>2, <2>3
<1>3. \A r \in engine \cap engine' : Shown(r) /\ Listed(r) => Shown(r)' /\ Listed(r)'
  BY RunsStayReported DEF CalmSteps
<1>4. CASE \A r \in engine' : r.key = k => r \in engine
  BY <1>1, <1>2, <1>3, <1>4, StaysOneStart
<1>5. ASSUME NEW r \in engine', r.key = k, r \notin engine PROVE OneStart(k)'
  <2>1. k \notin LegacyKeys
    BY KeysAssumption
  <2>2. ClientStart(k) /\ engine' = engine \cup {r}
    BY <1>5, <2>1, ClientBegins
  <2>3. starts[k] = 1 /\ starts'[k] = 0 /\ RunsOf(k) = {}
    BY <2>2, BoundsAssumption DEF ClientStart, OneStart, TypeOK
  <2>4. RunsOf(k)' = {r}
    BY <1>5, <2>2, <2>3 DEF RunsOf
  <2>5. starting[k] # "guarded" /\ ~Candidate(k)
    BY <2>3 DEF OneStart
  <2> QED
    BY <1>1, <2>3, <2>4, <2>5 DEF OneStart, Candidate
<1> QED
  BY <1>4, <1>5

(* The steps of the loop: only a check starts anything.                    *)
LEMMA LoopStartsOnce ==
    ASSUME TypeOK, TypeOK', RunsReported, LoopRests, CheckSteps, UNCHANGED rested,
           \A c \in Keys : OneStart(c), NEW k \in Keys
    PROVE  OneStart(k)'
<1> USE DEF docVars, cmdVars, clientVars, ghostVars
<1>1. ASSUME NEW c \in Keys, CheckWardenInfo(c) PROVE OneStart(k)'
  BY <1>1, ChecksStartOnce
<1>2. CASE BeginLoopProcesses \/ EndLoop \/ \E x \in instTodo : CheckProcessInstance(x)
  <2>1. UNCHANGED <<starts, engine, msgs, starting, warden, infoTodo>>
    BY <1>2 DEF BeginLoopProcesses, EndLoop, CheckProcessInstance
  <2>2. starts'[k] <= starts[k]
    BY <2>1, BoundsAssumption DEF TypeOK
  <2>3. \A r \in engine : (Shown(r) => Shown(r)') /\ (Listed(r) => Listed(r)')
    BY <2>1, PlatformSpares DEF PlatformSteps, RunsReported, Listed
  <2> QED
    BY <2>1, <2>2, <2>3, StaysOneStart
<1> QED
  BY <1>1, <1>2 DEF CheckSteps

(* A message starts nothing, nor does a restart.                           *)
LEMMA OthersStartOnce ==
    ASSUME TypeOK, TypeOK', RunsReported, Handlers \/ Restart, UNCHANGED rested,
           NEW k \in Keys, OneStart(k)
    PROVE  OneStart(k)'
<1> USE DEF docVars, cmdVars, clientVars, ghostVars, loopVars
<1>1. /\ UNCHANGED <<starts, engine, warden>>
      /\ starting'[k] \in {starting[k], "idle"} /\ infoTodo'[k] \in {infoTodo[k], "none"}
  BY DEF Restart, Handlers, UpdateProcessInstance, DeleteProcessInstance,
         DeleteUnknownProcessInstances, UpdateHistoricProcessInstance,
         DeleteHistoricProcessInstance, DeleteUnknownHistoricProcessInstances, UpdateIncident
<1>2. starts'[k] <= starts[k]
  BY <1>1, BoundsAssumption DEF TypeOK
<1>3. \A r \in engine \cap engine' : Shown(r) /\ Listed(r) => Shown(r)' /\ Listed(r)'
  BY RunsStayReported DEF CalmSteps, PlatformSteps
<1> QED
  BY <1>1, <1>2, <1>3, StaysOneStart

(* The loop begins rested: what it may start again was so already.         *)
LEMMA LoopBeginsOnce ==
    ASSUME Prompt = TRUE, TypeOK, MCBeginLoop, NEW k \in Keys, OneStart(k)
    PROVE  OneStart(k)'
<1>1. /\ UNCHANGED <<starts, engine, warden, starting, instances, msgs>>
      /\ infoTodo' = warden /\ rested /\ ~rested'
  BY DEF MCBeginLoop, BeginLoopWardenDb, docVars, cmdVars, clientVars
<1>2. Candidate(k)' => Candidate(k)
  BY <1>1 DEF Candidate
<1> QED
  BY <1>1, <1>2 DEF OneStart, RunsOf, Shown, Listed

(* When the age gate passes, every command and message has been handled.   *)
LEMMA GateKeepsOnce ==
    ASSUME Prompt = TRUE, TypeOK, RunsReported, MCAgeGatePasses, NEW k \in Keys, OneStart(k)
    PROVE  OneStart(k)'
<1>1. /\ UNCHANGED <<starts, engine, starting, msgs>>
      /\ starts[k] = 0 /\ starting[k] = "idle" /\ msgs = <<>>
  BY DEF MCAgeGatePasses, AgeGatePasses, Quiet, cmdVars, clientVars
<1>2. \A r \in RunsOf(k) : Shown(r) /\ Shown(r)'
  <2> SUFFICES ASSUME NEW r \in RunsOf(k) PROVE Shown(r) /\ Shown(r)'
    OBVIOUS
  <2>1. r \in engine /\ RunReported(r)
    BY DEF RunsOf, RunsReported
  <2>2. Shown(r)
    BY <1>1, <2>1 DEF RunReported
  <2> QED
    BY <2>1, <2>2, PlatformSpares DEF PlatformSteps, MCAgeGatePasses
<1>3. \A r \in RunsOf(k)' : r \in RunsOf(k) /\ Listed(r)'
  BY <1>1 DEF RunsOf, Listed
<1> QED
  BY <1>1, <1>2, <1>3 DEF OneStart, RunsOf

(* The warden's list is empty outside the first half of the loop, and in   *)
(* the loop the warden is not rested.                                      *)
LEMMA LoopRestsStep ==
    ASSUME Prompt = TRUE, TypeOK, LoopRests, [MCNext]_MCvars
    PROVE  LoopRests'
<1> USE DEF counters, loopVars, docVars, cmdVars, clientVars, ghostVars, Unbounded
<1>1. CASE MCBeginLoop
  BY <1>1 DEF MCBeginLoop, BeginLoopWardenDb, LoopRests
<1>2. CASE MCCheckSteps
  <2>1. ASSUME NEW c \in Keys, CheckWardenInfo(c) PROVE LoopRests'
    BY <1>2, <2>1, CheckEffect DEF Checked, MCCheckSteps, LoopRests
  <2>2. CASE BeginLoopProcesses \/ EndLoop \/ \E x \in instTodo : CheckProcessInstance(x)
    BY <1>2, <2>2 DEF BeginLoopProcesses, EndLoop, CheckProcessInstance, MCCheckSteps, LoopRests
  <2> QED
    BY <1>2, <2>1, <2>2 DEF MCCheckSteps, CheckSteps
<1>3. CASE MCAgeGatePasses
  BY <1>3 DEF MCAgeGatePasses, AgeGatePasses, Quiet, LoopRests, Aged, TypeOK
<1>4. CASE MCDisturbances
  <2>1. UNCHANGED rested /\ (UNCHANGED loopVars \/ (phase' = "idle" /\ infoTodo' = [k \in Keys |-> "none"]))
    BY <1>4 DEF MCDisturbances, DeploymentRequests, ApiCreateDeployment, ApiDeleteDeployment,
       DeploymentHandlers, ClientSpeaks, ClientReports, ClientListsInstances, ClientDeletesHistory,
       ClientStartsLegacy, CommandLosses, LoseStart, LoseStop, LoseMessages, Restart, ClientReset
  <2> QED
    BY <2>1 DEF LoopRests
<1>5. CASE \/ MCApiSteps \/ MCHandlers \/ MCClientObeys \/ MCRunsEnd \/ MCRequests
           \/ UNCHANGED MCvars
  <2>1. UNCHANGED <<phase, infoTodo, rested>>
    <3>1. CASE MCApiSteps
      BY <3>1 DEF MCApiSteps, ApiSteps, ApiSendStart, ApiRefuseStart, ApiSavePlaceholders
    <3>2. CASE MCHandlers
      BY <3>2 DEF MCHandlers, Handlers, UpdateProcessInstance, DeleteProcessInstance,
         DeleteUnknownProcessInstances, UpdateHistoricProcessInstance,
         DeleteHistoricProcessInstance, DeleteUnknownHistoricProcessInstances, UpdateIncident
    <3>3. CASE MCClientObeys \/ MCRunsEnd
      BY <3>3 DEF MCClientObeys, ClientObeys, ClientStart, ClientStop, MCRunsEnd, RunFinishes,
         RunFails, RunEnds
    <3>4. CASE MCRequests
      BY <3>4 DEF MCRequests, MCUserRequests, AddInstanceWarden, ApiDeletePlaceholderHistory,
         DeleteProcessInstanceByBusinessKey, ApiDeleteProcessInstance
    <3>5. CASE UNCHANGED MCvars
      BY <3>5 DEF MCvars, vars
    <3> QED
      BY <1>5, <3>1, <3>2, <3>3, <3>4, <3>5
  <2> QED
    BY <2>1 DEF LoopRests
<1> QED
  BY <1>1, <1>2, <1>3, <1>4, <1>5 DEF MCNext

(* The steps of MCInstanceWarden are steps of InstanceWarden.              *)
LEMMA MCStep == [MCNext]_MCvars => [Next]_vars
BY DEF MCNext, Next, MCvars, MCApiSteps, MCHandlers, MCBeginLoop, MCCheckSteps, MCAgeGatePasses,
       MCClientObeys, MCRunsEnd, RunsEnd, MCRequests, MCUserRequests, UserRequests, MCDisturbances

(* Without a loss of messages every step but those of the deployment and   *)
(* of time is one of these.                                                *)
LEMMA MCCalmStep ==
    ASSUME Disturbances \cap {"deployment", "messages"} = {}, MCNext
    PROVE  \/ MCRequests \/ MCBeginLoop \/ MCAgeGatePasses
           \/ UNCHANGED rested /\ (ApiSteps \/ Handlers \/ CheckSteps \/ ClientSteps \/ Restart)
<1>1. "deployment" \notin Disturbances /\ "messages" \notin Disturbances
  OBVIOUS
<1>2. CASE MCDisturbances
  BY <1>1, <1>2 DEF MCDisturbances, ClientSteps
<1>3. CASE MCRunsEnd
  BY <1>3 DEF MCRunsEnd, ClientSteps, RunsEnd
<1> QED
  BY <1>2, <1>3 DEF MCNext, MCApiSteps, MCHandlers, MCCheckSteps, MCClientObeys, Unbounded, ClientSteps

LEMMA SingleStep ==
    ASSUME Prompt = TRUE, KeyReuse = FALSE, Disturbances \cap {"deployment", "messages"} = {},
           SingleInv, [MCNext]_MCvars
    PROVE  SingleInv'
<1>1. TypeOK /\ TypeOK' /\ RunsReported /\ LoopRests /\ \A k \in Keys : OneStart(k)
  BY MCStep, NextTypeOK DEF SingleInv
<1>2. LoopRests'
  BY <1>1, LoopRestsStep
<1>3. CASE UNCHANGED MCvars
  BY <1>1, <1>2, <1>3 DEF SingleInv, RunsReported, RunReported, Right, Shown, OneStart, RunsOf,
     Candidate, Listed, MCvars, vars, docVars, cmdVars, clientVars, loopVars
<1>4. CASE MCNext
  <2>1. RunsReported'
    <3>1. CalmSteps
      BY <1>4, MCCalmStep DEF CalmSteps, PlatformSteps, MCRequests, MCUserRequests, UserRequests,
         MCBeginLoop, MCAgeGatePasses
    <3> QED
      BY <1>1, <3>1, RunsStayReported
  <2>2. ASSUME NEW k \in Keys PROVE OneStart(k)'
    <3>1. CASE MCRequests
      BY <1>1, <3>1, RequestsStartOnce
    <3>2. CASE MCBeginLoop
      BY <1>1, <3>2, LoopBeginsOnce
    <3>3. CASE MCAgeGatePasses
      BY <1>1, <3>3, GateKeepsOnce
    <3>4. CASE UNCHANGED rested /\ (ApiSteps \/ Handlers \/ CheckSteps \/ ClientSteps \/ Restart)
      BY <1>1, <3>4, ApiStartsOnce, OthersStartOnce, LoopStartsOnce, ClientStartsOnce
    <3> QED
      BY <1>4, <3>1, <3>2, <3>3, <3>4, MCCalmStep
  <2> QED
    BY <1>1, <1>2, <2>1, <2>2 DEF SingleInv
<1> QED
  BY <1>3, <1>4

LEMMA InitSingle == MCInit => SingleInv
<1> SUFFICES ASSUME MCInit PROVE SingleInv
  OBVIOUS
<1>1. TypeOK
  BY InitTypeOK DEF MCInit
<1>2. /\ engine = {} /\ phase = "idle"
      /\ \A k \in Keys : /\ warden[k] = "none" /\ infoTodo[k] = "none"
                         /\ starting[k] = "idle" /\ starts[k] = 0
  BY DEF MCInit, Init
<1> QED
  BY <1>1, <1>2 DEF SingleInv, RunsReported, LoopRests, OneStart, RunsOf, Candidate

(* One run or one command is what NoDuplicateRuns counts.                  *)
LEMMA OneStartCounts ==
    ASSUME TypeOK, NEW k \in Keys, OneStart(k)
    PROVE  Cardinality(RunsOf(k)) + starts[k] <= 1
<1> DEFINE S == RunsOf(k)
<1>1. starts[k] \in {0, 1} /\ (starts[k] = 1 => S = {}) /\ \A r, s \in S : r = s
  BY BoundsAssumption DEF TypeOK, OneStart
<1> HIDE DEF S
<1>2. CASE S = {}
  <2>1. Cardinality(S) = 0
    BY <1>2, FS_EmptySet
  <2> QED
    BY <1>1, <2>1 DEF S
<1>3. CASE S # {}
  <2>1. PICK r \in S : TRUE
    BY <1>3
  <2>2. S = {r}
    BY <1>1, <2>1
  <2>3. Cardinality(S) = 1 /\ starts[k] = 0
    BY <1>1, <1>3, <2>2, FS_Singleton
  <2> QED
    BY <2>3 DEF S
<1> QED
  BY <1>2, <1>3

(* NoDuplicateRuns: as long as commands and messages are handled within    *)
(* the age gate, no message is lost and nothing happens to the deployment, *)
(* the warden and the users never have two runs of a key under way, for    *)
(* any keys, requests, losses of commands, restarts and resets.            *)
THEOREM OneRunPerKey ==
    ASSUME Prompt = TRUE, KeyReuse = FALSE, Disturbances \cap {"deployment", "messages"} = {}
    PROVE  MCSpec => []NoDuplicateRuns
<1>1. MCInit => SingleInv
  BY InitSingle
<1>2. SingleInv /\ [MCNext]_MCvars => SingleInv'
  BY SingleStep
<1>3. SingleInv => NoDuplicateRuns
  BY OneStartCounts DEF SingleInv, NoDuplicateRuns
<1> QED
  BY <1>1, <1>2, <1>3, PTL DEF MCSpec

-----------------------------------------------------------------------------
(* The invariant behind StopsHaveCause.                                    *)

(* The instances in the database and in the loop's list.                   *)
Docs == instances \cup instTodo

Written(i) == \E h \in histories : h.id = i /\ ~h.placeholder

Recorded(i) ==
    Written(i) \/ \E n \in DOMAIN msgs : msgs[n].type = "history" /\ msgs[n].id = i

(* Documents of one id agree on what they are.                             *)
OneDocEach ==
    /\ \A x, y \in instances : x.id = y.id => x = y
    /\ \A x, y \in Docs : x.id = y.id => x.key = y.key /\ x.placeholder = y.placeholder
    /\ \A g, h \in histories : g.id = h.id => g.placeholder = h.placeholder

(* The message n reports i, for the first time and before anybody stops it.*)
ReportedOnce(i, n) ==
    /\ i \notin IdsOf(Docs) /\ i \notin stops
    /\ Recorded(i)
    /\ \A m \in DOMAIN msgs : msgs[m].type = "instance" /\ msgs[m].id = i => m = n

OneReportEach ==
    \A n \in DOMAIN msgs :
        /\ msgs[n].type \in {"instance", "history", "instance-delete", "incident"}
        /\ \A i : msgs[n].type = "instance" /\ msgs[n].id = i => ReportedOnce(i, n)

Recent(p) == p.young /\ (p.id \in IdsOf(histories) => p.id \in fresh)

(* A placeholder beside a real instance is younger, and by the time it is  *)
(* old, the real one has its history: the placeholder never comes first.   *)
PlaceholdersLast ==
    \A x \in Docs : ~x.placeholder =>
        /\ Recorded(x.id)
        /\ \A p \in instances : p.placeholder => x.id < p.id /\ (Recent(p) \/ Written(x.id))

DocsInv == OneDocEach /\ OneReportEach /\ PlaceholdersLast

(* The warden is not about to check the key k for duplicates.              *)
Settled(k) == warden[k] = "none" \/ (infoTodo[k] = "none" /\ ~rested)

StopsSettled == \A x \in instances : x.id \in stops /\ x.key \in Keys => Settled(x.key)

CauseInv == TypeOK /\ LoopRests /\ DocsInv /\ StopsSettled /\ requests \in Nat

(* The histories that are left are those of all real instances.            *)
KeepsRecords(hists) ==
    /\ hists \subseteq histories
    /\ \A h \in histories :
          ~h.placeholder /\ (\A p \in Docs : p.placeholder => p.id # h.id) => h \in hists

(* Documents that are left out or put back change nothing.                 *)
LEMMA FewerDocs ==
    ASSUME TypeOK, DocsInv, instances' \subseteq Docs, instTodo' \subseteq Docs,
           \A p \in instances' : p.placeholder => p \in instances,
           \A x, y \in instances' : x.id = y.id => x = y,
           KeepsRecords(histories'), fresh \subseteq fresh', UNCHANGED msgs,
           stops' \subseteq stops \cup IdsOf(Docs)
    PROVE  DocsInv'
<1>1. Docs' \subseteq Docs
  BY DEF Docs
<1>2. OneDocEach'
  BY <1>1 DEF DocsInv, OneDocEach, KeepsRecords
<1>3. ASSUME NEW i, \A p \in Docs : p.placeholder => p.id # i
      PROVE  (Written(i) => Written(i)') /\ (Recorded(i) => Recorded(i)')
  BY <1>3 DEF Written, Recorded, KeepsRecords
<1>4. OneReportEach'
  <2> SUFFICES ASSUME NEW n \in DOMAIN msgs, NEW i, msgs[n].type = "instance", msgs[n].id = i
               PROVE  i \notin IdsOf(Docs') /\ i \notin stops' /\ Recorded(i)'
    BY DEF DocsInv, OneReportEach, ReportedOnce
  <2>1. i \notin IdsOf(Docs) /\ i \notin stops /\ Recorded(i)
    BY DEF DocsInv, OneReportEach, ReportedOnce
  <2>2. i \notin IdsOf(Docs')
    BY <1>1, <2>1 DEF IdsOf
  <2>3. Recorded(i)'
    BY <1>3, <2>1 DEF IdsOf
  <2> QED
    BY <2>1, <2>2, <2>3
<1>5. PlaceholdersLast'
  <2> SUFFICES ASSUME NEW x \in Docs', ~x.placeholder
               PROVE  /\ Recorded(x.id)'
                      /\ \A p \in instances' :
                            p.placeholder => x.id < p.id /\ (Recent(p)' \/ Written(x.id)')
    BY DEF PlaceholdersLast
  <2>1. x \in Docs /\ \A p \in Docs : p.placeholder => p.id # x.id
    BY <1>1 DEF DocsInv, OneDocEach
  <2>2. \A p : Recent(p) => Recent(p)'
    BY DEF Recent, IdsOf, KeepsRecords
  <2>3. (Written(x.id) => Written(x.id)') /\ (Recorded(x.id) => Recorded(x.id)')
    BY <1>3, <2>1
  <2> QED
    BY <2>1, <2>2, <2>3 DEF DocsInv, PlaceholdersLast
<1> QED
  BY <1>2, <1>4, <1>5 DEF DocsInv

(* Stopping instances leaves out placeholders and puts back real ones.     *)
LEMMA StopLeaves ==
    ASSUME DocsInv, NEW S, S \subseteq Docs, \A x, y \in S : x.id = y.id => x = y
    PROVE  /\ InstancesAfterStop(S) \subseteq Docs
           /\ \A p \in InstancesAfterStop(S) : p.placeholder => p \in instances
           /\ \A x, y \in InstancesAfterStop(S) : x.id = y.id => x = y
           /\ KeepsRecords(HistoriesAfterStop(S))
           /\ S \subseteq instances => InstancesAfterStop(S) \subseteq instances
<1>1. \A x \in InstancesAfterStop(S) :
         \/ x \in instances /\ \A y \in S : y.id # x.id
         \/ x \in S /\ ~x.placeholder
  BY DEF InstancesAfterStop, Without, IdsOf
<1>2. KeepsRecords(HistoriesAfterStop(S))
  BY DEF KeepsRecords, HistoriesAfterStop, Without, IdsOf
<1> QED
  BY <1>1, <1>2 DEF Docs, DocsInv, OneDocEach

(* A placeholder is saved under the next id, and is young.                 *)
LEMMA SavedLast ==
    ASSUME TypeOK, DocsInv, NEW insts, insts \subseteq instances,
           NEW hists, KeepsRecords(hists), NEW k, NEW saved \in Saves,
           SavePlaceholders(insts, hists, k, saved), UNCHANGED <<msgs, stops, instTodo>>
    PROVE  DocsInv'
<1>1. PICK i \in Ids :
          /\ IsNext(i)
          /\ instances' = IF saved = "none" THEN insts ELSE insts \cup {PlaceholderInstance(i, k)}
          /\ histories' = IF saved = "both" THEN hists \cup {PlaceholderHistory(i, k)} ELSE hists
          /\ fresh' = IF saved = "both" THEN fresh \cup {i} ELSE fresh
  BY DEF SavePlaceholders
<1> DEFINE p == PlaceholderInstance(i, k)
           g == PlaceholderHistory(i, k)
<1>2. /\ p.id = i /\ p.placeholder /\ p.young /\ g.id = i /\ g.placeholder
  BY DEF PlaceholderInstance, PlaceholderHistory
<1> HIDE DEF p, g
<1>3. /\ \A x \in Docs : x.id < i /\ x.id # i
      /\ \A h \in histories : h.id # i
      /\ \A n \in DOMAIN msgs : i \notin Mentioned(msgs[n])
  <2>1. \A j \in UsedIds : j < i
    BY <1>1 DEF IsNext
  <2>2. i \notin UsedIds
    BY <1>1, NextIdIsNew
  <2> QED
    BY <2>1, <2>2 DEF UsedIds, IdsOf, Docs
<1>4. /\ \A x \in instances' : x \in insts \/ (x = p /\ saved # "none")
      /\ \A h \in histories' : h \in hists \/ h = g
      /\ hists \subseteq histories'
  BY <1>1 DEF p, g
<1>5. /\ insts \subseteq Docs /\ instances \subseteq Docs /\ instTodo \subseteq Docs
      /\ \A x \in Docs' : x \in Docs \/ x = p
  BY <1>4 DEF Docs
<1>6. OneDocEach'
  <2>1. \A x, y \in instances' : x.id = y.id => x = y
    BY <1>2, <1>3, <1>4, <1>5 DEF DocsInv, OneDocEach
  <2>2. \A x, y \in Docs' : x.id = y.id => x.key = y.key /\ x.placeholder = y.placeholder
    BY <1>2, <1>3, <1>5 DEF DocsInv, OneDocEach
  <2>3. \A f, h \in histories' : f.id = h.id => f.placeholder = h.placeholder
    BY <1>2, <1>3, <1>4 DEF DocsInv, OneDocEach, KeepsRecords
  <2> QED
    BY <2>1, <2>2, <2>3 DEF OneDocEach
<1>7. ASSUME NEW j, \A q \in Docs : q.placeholder => q.id # j
      PROVE  (Written(j) => Written(j)') /\ (Recorded(j) => Recorded(j)')
  BY <1>4, <1>7 DEF Written, Recorded, KeepsRecords
<1>8. OneReportEach'
  <2> SUFFICES ASSUME NEW n \in DOMAIN msgs, NEW j, msgs[n].type = "instance", msgs[n].id = j
               PROVE  j \notin IdsOf(Docs') /\ Recorded(j)'
    BY DEF DocsInv, OneReportEach, ReportedOnce
  <2>1. (\A x \in Docs : x.id # j) /\ Recorded(j)
    BY DEF DocsInv, OneReportEach, ReportedOnce, IdsOf
  <2>2. j # i
    BY <1>3 DEF Mentioned
  <2>3. Recorded(j)'
    BY <1>7, <2>1
  <2> QED
    BY <1>2, <1>5, <2>1, <2>2, <2>3 DEF IdsOf
<1>9. PlaceholdersLast'
  <2> SUFFICES ASSUME NEW x \in Docs', ~x.placeholder
               PROVE  /\ Recorded(x.id)'
                      /\ \A q \in instances' :
                            q.placeholder => x.id < q.id /\ (Recent(q)' \/ Written(x.id)')
    BY DEF PlaceholdersLast
  <2>1. x \in Docs /\ \A q \in Docs : q.placeholder => q.id # x.id
    BY <1>2, <1>5 DEF DocsInv, OneDocEach
  <2>2. (Written(x.id) => Written(x.id)') /\ (Recorded(x.id) => Recorded(x.id)')
    BY <1>7, <2>1
  <2>3. ASSUME NEW q \in insts, Recent(q) PROVE Recent(q)'
    <3>1. \A h \in histories' : h.id = q.id => h \in histories
      BY <1>2, <1>3, <1>4, <1>5 DEF KeepsRecords
    <3>2. fresh \subseteq fresh'
      BY <1>1
    <3> QED
      BY <2>3, <3>1, <3>2 DEF Recent, IdsOf
  <2>4. ASSUME p \in instances', saved # "none" PROVE Recent(p)'
    <3>1. CASE saved = "both"
      BY <1>1, <1>2, <3>1 DEF Recent
    <3>2. CASE saved = "instance"
      BY <1>1, <1>2, <1>3, <3>2 DEF Recent, IdsOf, KeepsRecords
    <3> QED
      BY <2>4, <3>1, <3>2
  <2> QED
    BY <1>2, <1>3, <1>4, <2>1, <2>2, <2>3, <2>4 DEF DocsInv, PlaceholdersLast
<1> QED
  BY <1>6, <1>8, <1>9 DEF DocsInv

(* The warden's start, over what it left of the documents.                 *)
LEMMA StartedLast ==
    ASSUME TypeOK, DocsInv, NEW insts, insts \subseteq instances,
           NEW hists, KeepsRecords(hists), NEW k \in Keys, NEW d,
           StartDeploymentWithoutWardenHandling(insts, hists, d, k),
           UNCHANGED <<msgs, stops, instTodo>>
    PROVE  DocsInv'
<1>1. CASE instances' = insts /\ histories' = hists /\ UNCHANGED fresh
  <2>1. /\ instances' \subseteq Docs /\ instTodo' \subseteq Docs
        /\ \A p \in instances' : p.placeholder => p \in instances
        /\ \A x, y \in instances' : x.id = y.id => x = y
    BY <1>1 DEF Docs, DocsInv, OneDocEach
  <2> QED
    BY <1>1, <2>1, FewerDocs
<1>2. ASSUME NEW saved \in SaveOutcomes, SavePlaceholders(insts, hists, k, saved)
      PROVE  DocsInv'
  BY <1>2, SavedLast, SavesAssumption
<1> QED
  BY <1>1, <1>2 DEF StartDeploymentWithoutWardenHandling

(* Stopping instances S and marking what is left of them.                  *)
LEMMA StoppedDocs ==
    ASSUME TypeOK, DocsInv, NEW S, S \subseteq Docs, \A x, y \in S : x.id = y.id => x = y,
           StopProcessInstancesWithoutWardenHandling(S), instTodo' \subseteq instTodo,
           UNCHANGED <<fresh, msgs>>
    PROVE  DocsInv'
<1>1. /\ instances' \subseteq Docs /\ \A p \in instances' : p.placeholder => p \in instances
      /\ \A x, y \in instances' : x.id = y.id => x = y
  BY StopLeaves DEF StopProcessInstancesWithoutWardenHandling
<1>2. KeepsRecords(histories')
  BY StopLeaves DEF StopProcessInstancesWithoutWardenHandling
<1>3. stops' \subseteq stops \cup IdsOf(Docs) /\ instTodo' \subseteq Docs
  BY DEF StopProcessInstancesWithoutWardenHandling, IdsOf, Docs
<1> QED
  BY <1>1, <1>2, <1>3, FewerDocs

(* One check of a WardenInfo.                                              *)
LEMMA CheckDocs ==
    ASSUME TypeOK, DocsInv, NEW k \in Keys, CheckWardenInfo(k)
    PROVE  DocsInv'
<1> USE DEF cmdVars, clientVars
<1>0. UNCHANGED <<msgs, instTodo>>
  BY CheckEffect DEF Checked
<1>1. CASE UNCHANGED <<instances, histories, fresh, stops>>
  <2>1. /\ instances' \subseteq Docs /\ instTodo' \subseteq Docs
        /\ \A p \in instances' : p.placeholder => p \in instances
        /\ \A x, y \in instances' : x.id = y.id => x = y
        /\ KeepsRecords(histories')
    BY <1>0, <1>1 DEF Docs, DocsInv, OneDocEach, KeepsRecords
  <2> QED
    BY <1>0, <1>1, <2>1, FewerDocs
<1>2. ASSUME NEW d, WardenStart(k, d) PROVE DocsInv'
  <2>1. KeepsRecords(histories)
    BY DEF KeepsRecords
  <2> QED
    BY <1>0, <1>2, <2>1, StartedLast DEF WardenStart
<1>3. ASSUME OldPlaceholderInstance(k) PROVE DocsInv'
  <2>1. PICK x \in instances :
           StartDeploymentWithoutWardenHandling(InstancesAfterStop({x}),
                                                HistoriesAfterStop({x}), deployment, k)
    BY <1>3 DEF OldPlaceholderInstance
  <2>2. {x} \subseteq instances /\ {x} \subseteq Docs /\ \A y, z \in {x} : y.id = z.id => y = z
    BY DEF Docs
  <2>3. InstancesAfterStop({x}) \subseteq instances /\ KeepsRecords(HistoriesAfterStop({x}))
    BY <2>2, StopLeaves
  <2>4. UNCHANGED stops
    BY <1>3 DEF OldPlaceholderInstance
  <2> QED
    BY <1>0, <2>1, <2>3, <2>4, StartedLast
<1>4. ASSUME DuplicateInstances(k) PROVE DocsInv'
  <2>1. PICK x : \/ UNCHANGED <<instances, histories, stops>>
                 \/ StopProcessInstancesWithoutWardenHandling(AllBut(x, InstancesOf(k)))
    BY <1>4 DEF DuplicateInstances
  <2>2. /\ AllBut(x, InstancesOf(k)) \subseteq Docs
        /\ \A y, z \in AllBut(x, InstancesOf(k)) : y.id = z.id => y = z
    BY DEF AllBut, InstancesOf, Docs, DocsInv, OneDocEach
  <2>3. UNCHANGED fresh
    BY <1>4 DEF DuplicateInstances
  <2> QED
    BY <1>0, <1>1, <2>1, <2>2, <2>3, StoppedDocs
<1> QED
  BY <1>1, <1>2, <1>3, <1>4
  DEF CheckWardenInfo, ImmatureInfo, ExpectedInstance, NoAction, MissingWithoutHistory,
      StartNeverSeen, RedeployNeverSeen, ForgetNeverSeen, RemoveInstanceWarden,
      MissingWithHistory, EndIsImmature, EndedWithoutIncident, EndedWithIncident

(* What the platform does beside handling messages and ageing.             *)
LEMMA PlatformDocs ==
    ASSUME TypeOK, DocsInv,
           \/ ApiSteps \/ UserRequests \/ DeploymentRequests \/ DeploymentHandlers
           \/ BeginLoopWardenDb \/ CheckSteps \/ Restart \/ CommandLosses
    PROVE  DocsInv'
<1> USE DEF loopVars, docVars, cmdVars, clientVars, deplVars, ghostVars
<1>1. CASE /\ instances' \subseteq instances /\ instTodo' \in {instTodo, instances, {}}
           /\ UNCHANGED <<histories, fresh, msgs>> /\ stops' \subseteq stops
  <2>1. /\ instances' \subseteq Docs /\ instTodo' \subseteq Docs
        /\ \A p \in instances' : p.placeholder => p \in instances
        /\ \A x, y \in instances' : x.id = y.id => x = y
        /\ KeepsRecords(histories')
    BY <1>1 DEF Docs, DocsInv, OneDocEach, KeepsRecords
  <2> QED
    BY <1>1, <2>1, FewerDocs
<1>2. ASSUME NEW k \in Keys, ApiSavePlaceholders(k) PROVE DocsInv'
  <2>1. KeepsRecords(histories)
    BY DEF KeepsRecords
  <2> QED
    BY <1>2, <2>1, SavedLast, SavesAssumption DEF ApiSavePlaceholders
<1>3. ASSUME NEW S, S \subseteq instances, StopProcessInstancesWithoutWardenHandling(S),
             UNCHANGED <<instTodo, fresh, msgs>>
      PROVE  DocsInv'
  <2>1. S \subseteq Docs /\ \A x, y \in S : x.id = y.id => x = y
    BY <1>3 DEF Docs, DocsInv, OneDocEach
  <2> QED
    BY <1>3, <2>1, StoppedDocs
<1>4. ASSUME NEW h \in histories, ApiDeletePlaceholderHistory(h) PROVE DocsInv'
  <2>1. KeepsRecords(histories')
    BY <1>4 DEF ApiDeletePlaceholderHistory, Without, KeepsRecords, DocsInv, OneDocEach
  <2>2. UNCHANGED <<instances, instTodo, fresh, msgs, stops>>
    BY <1>4 DEF ApiDeletePlaceholderHistory
  <2>3. /\ instances' \subseteq Docs /\ instTodo' \subseteq Docs
        /\ \A p \in instances' : p.placeholder => p \in instances
        /\ \A x, y \in instances' : x.id = y.id => x = y
    BY <2>2 DEF Docs, DocsInv, OneDocEach
  <2> QED
    BY <2>1, <2>2, <2>3, FewerDocs
<1>5. CASE ApiSteps
  <2>1. PICK k \in Keys : ApiSendStart(k) \/ ApiRefuseStart(k) \/ ApiSavePlaceholders(k)
    BY <1>5 DEF ApiSteps
  <2> QED
    BY <1>1, <1>2, <2>1 DEF ApiSendStart, ApiRefuseStart
<1>6. CASE UserRequests
  <2>1. CASE \E k \in Keys : AddInstanceWarden(k)
    BY <1>1, <2>1 DEF AddInstanceWarden
  <2>2. CASE \E k \in AllKeys : DeleteProcessInstanceByBusinessKey(k)
    <3>1. \A k : InstancesOf(k) \subseteq instances
      BY DEF InstancesOf
    <3> QED
      BY <1>3, <2>2, <3>1 DEF DeleteProcessInstanceByBusinessKey
  <2>3. CASE \E x \in instances : ApiDeleteProcessInstance(x)
    BY <1>3, <2>3 DEF ApiDeleteProcessInstance
  <2> QED
    BY <1>4, <1>6, <2>1, <2>2, <2>3 DEF UserRequests
<1>7. CASE DeploymentRequests \/ DeploymentHandlers \/ BeginLoopWardenDb \/ Restart
  BY <1>1, <1>7 DEF DeploymentRequests, DeploymentHandlers, BeginLoopWardenDb, Restart,
     ApiCreateDeployment, ApiDeleteDeployment
<1>8. CASE CommandLosses
  BY <1>1, <1>8 DEF CommandLosses, LoseStart, LoseStop
<1>9. CASE CheckSteps
  <2>1. CASE \E k \in Keys : CheckWardenInfo(k)
    BY <2>1, CheckDocs
  <2>2. CASE BeginLoopProcesses \/ EndLoop
    BY <1>1, <2>2 DEF BeginLoopProcesses, EndLoop
  <2>3. ASSUME NEW x \in instTodo, CheckProcessInstance(x) PROVE DocsInv'
    <3>1. instTodo' \subseteq instTodo /\ UNCHANGED <<fresh, msgs>>
      BY <2>3 DEF CheckProcessInstance
    <3>2. CASE StopProcessInstancesWithoutWardenHandling({x})
      <4>1. {x} \subseteq Docs /\ \A y, z \in {x} : y.id = z.id => y = z
        BY DEF Docs
      <4> QED
        BY <3>1, <3>2, <4>1, StoppedDocs
    <3>3. CASE UNCHANGED <<instances, histories, stops>>
      <4>1. /\ instances' \subseteq Docs /\ instTodo' \subseteq Docs
            /\ \A p \in instances' : p.placeholder => p \in instances
            /\ \A y, z \in instances' : y.id = z.id => y = z
            /\ KeepsRecords(histories')
        BY <3>1, <3>3 DEF Docs, DocsInv, OneDocEach, KeepsRecords
      <4> QED
        BY <3>1, <3>3, <4>1, FewerDocs
    <3> QED
      BY <2>3, <3>2, <3>3 DEF CheckProcessInstance
  <2> QED
    BY <1>9, <2>1, <2>2, <2>3 DEF CheckSteps
<1> QED
  BY <1>5, <1>6, <1>7, <1>8, <1>9

(* Messages that are left in the queue report what they reported before.   *)
LEMMA StaysReportedOnce ==
    ASSUME TypeOK, OneReportEach, NEW type, Receive(type), NEW n \in DOMAIN msgs'
    PROVE  /\ msgs'[n].type \in {"instance", "history", "instance-delete", "incident"}
           /\ \A i : msgs'[n].type = "instance" /\ msgs'[n].id = i =>
                 /\ i \notin IdsOf(Docs) /\ i \notin stops /\ Recorded(i)
                 /\ type = "instance" => i # Head(msgs).id
                 /\ \A m \in DOMAIN msgs' :
                       msgs'[m].type = "instance" /\ msgs'[m].id = i => m = n
<1>0. msgs \in Seq(Message) /\ Head(msgs).type = type
  BY DEF TypeOK, Receive
<1>1. n + 1 \in DOMAIN msgs /\ msgs'[n] = msgs[n + 1] /\ n \in Nat
  BY <1>0, TakenQueue
<1>2. SUFFICES ASSUME NEW i, msgs'[n].type = "instance", msgs'[n].id = i
               PROVE  /\ type = "instance" => i # Head(msgs).id
                      /\ \A m \in DOMAIN msgs' :
                            msgs'[m].type = "instance" /\ msgs'[m].id = i => m = n
  BY <1>1 DEF OneReportEach, ReportedOnce
<1>3. ReportedOnce(i, n + 1)
  BY <1>1, <1>2 DEF OneReportEach
<1>4. type = "instance" => i # Head(msgs).id
  <2> SUFFICES ASSUME type = "instance", i = Head(msgs).id PROVE FALSE
    OBVIOUS
  <2>1. 1 = n + 1
    BY <1>0, <1>3, TakenQueue DEF ReportedOnce
  <2>2. n = 0 /\ n + 1 # 0
    BY <1>1, <2>1
  <2>3. 0 \notin DOMAIN msgs'
    BY <1>0 DEF Receive
  <2> QED
    BY <2>2, <2>3
<1>5. ASSUME NEW m \in DOMAIN msgs', msgs'[m].type = "instance", msgs'[m].id = i
      PROVE  m = n
  <2>1. m + 1 \in DOMAIN msgs /\ msgs'[m] = msgs[m + 1] /\ m \in Nat
    BY <1>0, TakenQueue
  <2>2. m + 1 = n + 1
    BY <1>3, <1>5, <2>1 DEF ReportedOnce
  <2> QED
    BY <1>1, <2>1, <2>2
<1> QED
  BY <1>4, <1>5

(* Handling the messages there are.                                        *)
LEMMA HandledDocs ==
    ASSUME TypeOK, DocsInv, Handlers
    PROVE  DocsInv'
<1> DEFINE h == Head(msgs)
<1>0. UNCHANGED <<instTodo, fresh, stops>> /\ msgs \in Seq(Message)
  BY DEF Handlers, UpdateProcessInstance, DeleteProcessInstance, DeleteUnknownProcessInstances,
         UpdateHistoricProcessInstance, DeleteHistoricProcessInstance,
         DeleteUnknownHistoricProcessInstances, UpdateIncident, loopVars, cmdVars, TypeOK
<1>1. PICK type : Receive(type) /\ type = h.type
  BY DEF Handlers, UpdateProcessInstance, DeleteProcessInstance, DeleteUnknownProcessInstances,
         UpdateHistoricProcessInstance, DeleteHistoricProcessInstance,
         DeleteUnknownHistoricProcessInstances, UpdateIncident, Receive
<1>2. /\ 1 \in DOMAIN msgs /\ msgs[1] = h
      /\ \A n \in DOMAIN msgs : n # 1 => n - 1 \in DOMAIN msgs' /\ msgs'[n - 1] = msgs[n]
      /\ \A n \in DOMAIN msgs' : n + 1 \in DOMAIN msgs /\ msgs'[n] = msgs[n + 1] /\ n \in Nat
  BY <1>0, <1>1, TakenQueue
<1> HIDE DEF h
<1>3. type \in {"instance", "history", "instance-delete", "incident"}
  BY <1>1, <1>2 DEF DocsInv, OneReportEach
<1>4. CASE type = "instance"
  <2> DEFINE d == [id |-> h.id, key |-> h.key, placeholder |-> FALSE, young |-> TRUE]
  <2>1. UpdateProcessInstance
    BY <1>1, <1>4 DEF Handlers, UpdateProcessInstance, DeleteProcessInstance, Receive,
       DeleteUnknownProcessInstances, UpdateHistoricProcessInstance, UpdateIncident,
       DeleteHistoricProcessInstance, DeleteUnknownHistoricProcessInstances
  <2>2. instances' = Save(WithoutPlaceholders(instances), d) /\ UNCHANGED histories
    BY <2>1 DEF UpdateProcessInstance, h
  <2>3. d.id = h.id /\ ~d.placeholder
    OBVIOUS
  <2> HIDE DEF d
  <2>4. /\ \A x \in instances' : ~x.placeholder /\ (x = d \/ (x \in instances /\ x.id # d.id))
        /\ \A x \in Docs' : x = d \/ x \in Docs
    BY <1>0, <2>2, <2>3 DEF Save, WithoutPlaceholders, Docs
  <2>5. ReportedOnce(h.id, 1)
    BY <1>1, <1>2, <1>4 DEF DocsInv, OneReportEach
  <2>6. \A i : Recorded(i) => Recorded(i)'
    <3>1. \A n \in DOMAIN msgs : msgs[n].type = "history" => n # 1
      BY <1>1, <1>2, <1>4
    <3> QED
      BY <1>2, <2>2, <3>1 DEF Recorded, Written
  <2>7. OneDocEach'
    BY <2>2, <2>3, <2>4, <2>5 DEF DocsInv, OneDocEach, ReportedOnce, IdsOf
  <2>8. OneReportEach'
    <3>1. \A i : i \notin IdsOf(Docs) /\ i # h.id => i \notin IdsOf(Docs')
      BY <2>3, <2>4 DEF IdsOf
    <3> QED
      BY <1>0, <1>1, <1>4, <2>6, <3>1, StaysReportedOnce DEF DocsInv, OneReportEach, ReportedOnce, h
  <2>9. PlaceholdersLast'
    BY <2>3, <2>4, <2>5, <2>6 DEF DocsInv, PlaceholdersLast, ReportedOnce
  <2> QED
    BY <2>7, <2>8, <2>9 DEF DocsInv
<1>5. ASSUME \A i : Recorded(i) => Recorded(i)', Docs' \subseteq Docs,
             \A x, y \in instances' : x.id = y.id => x = y,
             \A g, f \in histories' : g.id = f.id => g.placeholder = f.placeholder,
             \/ \A p \in instances' : ~p.placeholder
             \/ instances' \subseteq instances /\ UNCHANGED histories
      PROVE  DocsInv'
  <2>1. OneDocEach'
    BY <1>5 DEF DocsInv, OneDocEach
  <2>2. OneReportEach'
    <3>1. \A i : i \notin IdsOf(Docs) => i \notin IdsOf(Docs')
      BY <1>5 DEF IdsOf
    <3> QED
      BY <1>0, <1>1, <1>5, <3>1, StaysReportedOnce DEF DocsInv, OneReportEach, ReportedOnce
  <2>3. PlaceholdersLast'
    <3>1. CASE \A p \in instances' : ~p.placeholder
      BY <1>5, <3>1 DEF DocsInv, PlaceholdersLast
    <3>2. CASE instances' \subseteq instances /\ UNCHANGED histories
      BY <1>0, <1>5, <3>2 DEF DocsInv, PlaceholdersLast, Recent, Written
    <3> QED
      BY <1>5, <3>1, <3>2
  <2> QED
    BY <2>1, <2>2, <2>3 DEF DocsInv
<1>6. CASE type = "history"
  <2>1. UpdateHistoricProcessInstance
    BY <1>1, <1>6 DEF Handlers, UpdateProcessInstance, DeleteProcessInstance, Receive,
       DeleteUnknownProcessInstances, UpdateHistoricProcessInstance, UpdateIncident,
       DeleteHistoricProcessInstance, DeleteUnknownHistoricProcessInstances
  <2> DEFINE g == [id |-> h.id, key |-> h.key, placeholder |-> FALSE]
  <2>2. /\ histories' = Save(WithoutPlaceholders(histories), g)
        /\ instances' = WithoutPlaceholders(instances)
    BY <2>1 DEF UpdateHistoricProcessInstance, h
  <2>3. g.id = h.id /\ g.placeholder = FALSE
    OBVIOUS
  <2> HIDE DEF g
  <2>4. /\ \A f \in histories' : f.placeholder = FALSE
        /\ g \in histories'
        /\ \A f \in histories : ~f.placeholder /\ f.id # g.id => f \in histories'
    BY <2>2, <2>3 DEF Save, WithoutPlaceholders, TypeOK, History
  <2>5. \A i : Written(i) => Written(i)'
    BY <2>3, <2>4 DEF Written
  <2>6. \A i : Recorded(i) => Recorded(i)'
    <3> SUFFICES ASSUME NEW i, Recorded(i) PROVE Recorded(i)'
      OBVIOUS
    <3>1. CASE Written(i)
      BY <2>5, <3>1 DEF Recorded
    <3>2. ASSUME NEW n \in DOMAIN msgs, msgs[n].type = "history", msgs[n].id = i
          PROVE  Recorded(i)'
      <4>1. CASE n = 1
        BY <1>2, <2>3, <2>4, <3>2, <4>1 DEF Recorded, Written
      <4>2. CASE n # 1
        BY <1>2, <3>2, <4>2 DEF Recorded
      <4> QED
        BY <4>1, <4>2
    <3> QED
      BY <3>1, <3>2 DEF Recorded
  <2>7. Docs' \subseteq Docs /\ \A p \in instances' : ~p.placeholder
    BY <1>0, <2>2 DEF WithoutPlaceholders, Docs
  <2>8. \A x, y \in instances' : x.id = y.id => x = y
    BY <2>2 DEF WithoutPlaceholders, DocsInv, OneDocEach
  <2> QED
    BY <1>5, <2>4, <2>6, <2>7, <2>8
<1>7. CASE type \in {"instance-delete", "incident"}
  <2>1. UNCHANGED histories /\ instances' \subseteq instances
    BY <1>1, <1>7 DEF Handlers, UpdateProcessInstance, DeleteProcessInstance, Receive, Without,
       DeleteUnknownProcessInstances, UpdateHistoricProcessInstance, UpdateIncident,
       DeleteHistoricProcessInstance, DeleteUnknownHistoricProcessInstances
  <2>2. \A i : Recorded(i) => Recorded(i)'
    <3>1. \A n \in DOMAIN msgs : msgs[n].type = "history" => n # 1
      BY <1>1, <1>2, <1>7
    <3> QED
      BY <1>2, <2>1, <3>1 DEF Recorded, Written
  <2>3. Docs' \subseteq Docs
    BY <1>0, <2>1 DEF Docs
  <2> QED
    BY <1>5, <2>1, <2>2, <2>3 DEF DocsInv, OneDocEach
<1> QED
  BY <1>3, <1>4, <1>6, <1>7

(* New messages: at most one reports a run, under an id nothing else has,  *)
(* and its history.                                                        *)
LEMMA SentDocs ==
    ASSUME TypeOK, DocsInv, UNCHANGED <<instances, instTodo, histories>>, fresh \subseteq fresh',
           stops' \subseteq stops, NEW s \in Seq(Message), ClientSends(s),
           \A k \in DOMAIN s :
              s[k].type \in {"instance", "history", "instance-delete", "incident"},
           \A k \in DOMAIN s : s[k].type = "instance" =>
              /\ s[k].id \notin UsedIds
              /\ \E j \in DOMAIN s : s[j].type = "history" /\ s[j].id = s[k].id
              /\ \A j \in DOMAIN s : s[j].type = "instance" => j = k
    PROVE  DocsInv'
<1>0. msgs \in Seq(Message)
  BY DEF TypeOK
<1>1. /\ \A n \in DOMAIN msgs : n \in DOMAIN msgs' /\ msgs'[n] = msgs[n]
      /\ \A k \in DOMAIN s : Len(msgs) + k \in DOMAIN msgs' /\ msgs'[Len(msgs) + k] = s[k]
      /\ \A n \in DOMAIN msgs' : n \in DOMAIN msgs \/ \E k \in DOMAIN s : n = Len(msgs) + k
  BY <1>0, SentQueue
<1>2. \A i : Recorded(i) => Recorded(i)'
  BY <1>1 DEF Recorded, Written
<1>3. OneDocEach'
  BY DEF DocsInv, OneDocEach, Docs
<1>4. PlaceholdersLast'
  BY <1>2 DEF DocsInv, PlaceholdersLast, Docs, Recent, Written
<1>5. \A i : i \notin UsedIds =>
         /\ i \notin IdsOf(Docs) /\ i \notin stops
         /\ \A m \in DOMAIN msgs : msgs[m].type = "instance" => msgs[m].id # i
  BY DEF UsedIds, IdsOf, Docs, Mentioned
<1>6. OneReportEach'
  <2> SUFFICES ASSUME NEW n \in DOMAIN msgs'
               PROVE  /\ msgs'[n].type \in {"instance", "history", "instance-delete", "incident"}
                      /\ \A i : msgs'[n].type = "instance" /\ msgs'[n].id = i => ReportedOnce(i, n)'
    BY DEF OneReportEach
  <2>1. CASE n \in DOMAIN msgs
    <3>1. msgs'[n] = msgs[n]
      BY <1>1, <2>1
    <3>2. ASSUME NEW i, msgs'[n].type = "instance", msgs'[n].id = i PROVE ReportedOnce(i, n)'
      <4>1. ReportedOnce(i, n)
        BY <2>1, <3>1, <3>2 DEF DocsInv, OneReportEach
      <4>2. i \in UsedIds
        BY <2>1, <3>1, <3>2 DEF UsedIds, Mentioned
      <4>3. ASSUME NEW m \in DOMAIN msgs', msgs'[m].type = "instance", msgs'[m].id = i PROVE m = n
        BY <1>1, <4>1, <4>2, <4>3 DEF ReportedOnce
      <4> QED
        BY <1>2, <4>1, <4>3 DEF ReportedOnce, Docs
    <3> QED
      BY <2>1, <3>1, <3>2 DEF DocsInv, OneReportEach
  <2>2. ASSUME NEW k \in DOMAIN s, n = Len(msgs) + k
        PROVE  /\ msgs'[n].type \in {"instance", "history", "instance-delete", "incident"}
               /\ \A i : msgs'[n].type = "instance" /\ msgs'[n].id = i => ReportedOnce(i, n)'
    <3>1. msgs'[n] = s[k]
      BY <1>1, <2>2
    <3>2. ASSUME NEW i, msgs'[n].type = "instance", msgs'[n].id = i PROVE ReportedOnce(i, n)'
      <4>1. i \notin UsedIds /\ \A j \in DOMAIN s : s[j].type = "instance" => j = k
        BY <3>1, <3>2
      <4>2. PICK j \in DOMAIN s : s[j].type = "history" /\ s[j].id = i
        BY <3>1, <3>2
      <4>3. Recorded(i)'
        BY <1>1, <4>2 DEF Recorded
      <4>4. ASSUME NEW m \in DOMAIN msgs', msgs'[m].type = "instance", msgs'[m].id = i PROVE m = n
        <5>1. m \notin DOMAIN msgs
          BY <1>1, <1>5, <4>1, <4>4
        <5>2. PICK j2 \in DOMAIN s : m = Len(msgs) + j2
          BY <1>1, <5>1
        <5>3. j2 = k
          BY <1>1, <4>1, <4>4, <5>2
        <5> QED
          BY <2>2, <5>2, <5>3
      <4> QED
        BY <1>5, <4>1, <4>3, <4>4 DEF ReportedOnce, Docs
    <3> QED
      BY <3>1, <3>2
  <2> QED
    BY <1>1, <2>1, <2>2
<1> QED
  BY <1>3, <1>4, <1>6 DEF DocsInv

(* Two messages none of which reports a run.                               *)
LEMMA SentEnd ==
    ASSUME TypeOK, DocsInv, UNCHANGED <<instances, instTodo, histories, fresh>>,
           stops' \subseteq stops, NEW a \in Message, NEW b \in Message, ClientSends(<<a, b>>),
           a.type \in {"history", "instance-delete", "incident"},
           b.type \in {"history", "instance-delete", "incident"}
    PROVE  DocsInv'
<1> DEFINE s == <<a, b>>
<1>1. s \in Seq(Message) /\ ClientSends(s) /\ DOMAIN s = {1, 2} /\ s[1] = a /\ s[2] = b
  OBVIOUS
<1> HIDE DEF s
<1>2. \A k \in DOMAIN s : s[k].type \in {"history", "instance-delete", "incident"}
  BY <1>1
<1> QED
  BY <1>1, <1>2, SentDocs

(* A run and its history, in either order.                                 *)
LEMMA SentRun ==
    ASSUME TypeOK, DocsInv, UNCHANGED <<instances, instTodo, histories>>, fresh \subseteq fresh',
           stops' \subseteq stops, NEW r \in Run, r.id \notin UsedIds,
           \/ ClientSends(<<InstanceMessage(r), HistoryMessage(r)>>)
           \/ ClientSends(<<HistoryMessage(r), InstanceMessage(r)>>)
    PROVE  DocsInv'
<1>1. /\ InstanceMessage(r).type = "instance" /\ InstanceMessage(r).id = r.id
      /\ HistoryMessage(r).type = "history" /\ HistoryMessage(r).id = r.id
      /\ InstanceMessage(r) \in Message /\ HistoryMessage(r) \in Message
  BY RunMessages DEF InstanceMessage, HistoryMessage
<1>2. ASSUME NEW a \in Message, NEW b \in Message, ClientSends(<<a, b>>),
             a.id = r.id, b.id = r.id, {a.type, b.type} = {"instance", "history"}
      PROVE  DocsInv'
  <2> DEFINE s == <<a, b>>
  <2>1. s \in Seq(Message) /\ ClientSends(s) /\ DOMAIN s = {1, 2} /\ s[1] = a /\ s[2] = b
    BY <1>2
  <2> HIDE DEF s
  <2>2. /\ \A k \in DOMAIN s : s[k].type \in {"instance", "history"} /\ s[k].id = r.id
        /\ \E j \in DOMAIN s : s[j].type = "history"
        /\ \A j, k \in DOMAIN s : s[j].type = "instance" /\ s[k].type = "instance" => j = k
    BY <1>2, <2>1
  <2> QED
    BY <2>1, <2>2, SentDocs
<1> QED
  BY <1>1, <1>2

(* The client's steps.                                                     *)
LEMMA ClientDocs ==
    ASSUME TypeOK, DocsInv, ClientObeys \/ RunsEnd
    PROVE  DocsInv'
<1> USE DEF loopVars, docVars, cmdVars, clientVars
<1>1. ASSUME NEW k \in AllKeys, ClientStart(k) PROVE DocsInv'
  <2>1. PICK i \in Ids :
           LET r == [id |-> i, key |-> k] IN
           /\ IsNext(i) /\ fresh' = fresh \cup {i}
           /\ \/ ClientSends(<<InstanceMessage(r), HistoryMessage(r)>>)
              \/ ClientSends(<<HistoryMessage(r), InstanceMessage(r)>>)
    BY <1>1 DEF ClientStart, ClientRuns
  <2>2. [id |-> i, key |-> k] \in Run /\ i \notin UsedIds
    BY <2>1, NextIdIsNew DEF Run
  <2>3. UNCHANGED <<instances, instTodo, histories, stops>>
    BY <1>1 DEF ClientStart
  <2> QED
    BY <2>1, <2>2, <2>3, SentRun
<1>2. ASSUME NEW r \in engine, RunEnds(r) \/ RunFails(r), stops' \subseteq stops PROVE DocsInv'
  <2>1. /\ r \in Run
        /\ UNCHANGED <<instances, instTodo, histories, fresh>>
        /\ \/ ClientSends(<<EndMessage(r.id), HistoryMessage(r)>>)
           \/ ClientSends(<<EndMessage(r.id), IncidentMessage(r.id)>>)
           \/ ClientSends(<<IncidentMessage(r.id), EndMessage(r.id)>>)
    BY <1>2 DEF RunEnds, RunFails, TypeOK
  <2>2. /\ EndMessage(r.id).type = "instance-delete" /\ HistoryMessage(r).type = "history"
        /\ IncidentMessage(r.id).type = "incident"
    BY DEF EndMessage, HistoryMessage, IncidentMessage
  <2> QED
    BY <1>2, <2>1, <2>2, RunMessages, SentEnd
<1>3. ASSUME UNCHANGED <<instances, instTodo, histories, fresh, msgs>>, stops' \subseteq stops
      PROVE  DocsInv'
  <2>1. /\ instances' \subseteq Docs /\ instTodo' \subseteq Docs
        /\ \A p \in instances' : p.placeholder => p \in instances
        /\ \A y, z \in instances' : y.id = z.id => y = z
        /\ KeepsRecords(histories')
    BY <1>3 DEF Docs, DocsInv, OneDocEach, KeepsRecords
  <2> QED
    BY <1>3, <2>1, FewerDocs
<1>4. ASSUME NEW i \in stops, ClientStop(i) PROVE DocsInv'
  <2>1. stops' \subseteq stops
    BY <1>4 DEF ClientStop
  <2> QED
    BY <1>2, <1>3, <1>4, <2>1 DEF ClientStop
<1>5. CASE RunsEnd
  <2>1. UNCHANGED stops /\ \E r \in engine : RunEnds(r) \/ RunFails(r)
    BY <1>5 DEF RunsEnd, RunFinishes, RunFails
  <2> QED
    BY <1>2, <2>1
<1> QED
  BY <1>1, <1>4, <1>5 DEF ClientObeys

(* Documents age after every message was handled.                          *)
LEMMA GateDocs ==
    ASSUME TypeOK, DocsInv, msgs = <<>>, AgeGatePasses
    PROVE  DocsInv'
<1>1. /\ UNCHANGED <<histories, msgs, stops>>
      /\ instances' = SyncedLongAgo(instances) /\ instTodo' = SyncedLongAgo(instTodo)
      /\ instances \in SUBSET Instance /\ instTodo \in SUBSET Instance
  BY DEF AgeGatePasses, cmdVars, clientVars, TypeOK
<1>2. ASSUME NEW S \in SUBSET Instance, \A x, y \in S : x.id = y.id => x = y
      PROVE  \A x, y \in SyncedLongAgo(S) : x.id = y.id => x = y
  BY <1>2 DEF SyncedLongAgo, Instance
<1>3. /\ \A y \in instances' : \E x \in instances :
            y.id = x.id /\ y.key = x.key /\ y.placeholder = x.placeholder
      /\ \A y \in Docs' : \E x \in Docs :
            y.id = x.id /\ y.key = x.key /\ y.placeholder = x.placeholder
  BY <1>1, AgedDocs DEF Docs
<1>4. \A i : Recorded(i) => Written(i) /\ Written(i)' /\ Recorded(i)'
  BY <1>1 DEF Recorded, Written
<1>5. OneDocEach'
  <2>1. \A x, y \in instances' : x.id = y.id => x = y
    BY <1>1, <1>2 DEF DocsInv, OneDocEach
  <2>2. \A x, y \in Docs' : x.id = y.id => x.key = y.key /\ x.placeholder = y.placeholder
    BY <1>3 DEF DocsInv, OneDocEach
  <2> QED
    BY <1>1, <2>1, <2>2 DEF DocsInv, OneDocEach
<1>6. OneReportEach'
  BY <1>1 DEF OneReportEach
<1>7. PlaceholdersLast'
  BY <1>3, <1>4 DEF DocsInv, PlaceholdersLast
<1> QED
  BY <1>5, <1>6, <1>7 DEF DocsInv

(* Without lists, resets and lost messages the other steps are these.      *)
LEMMA MCKnownStep ==
    ASSUME Disturbances \cap {"reports", "messages", "reset"} = {}, MCNext
    PROVE  \/ MCAgeGatePasses \/ Handlers \/ ClientObeys \/ RunsEnd
           \/ ApiSteps \/ UserRequests \/ DeploymentRequests \/ DeploymentHandlers
           \/ BeginLoopWardenDb \/ MCCheckSteps \/ Restart \/ CommandLosses
<1>1. "reports" \notin Disturbances /\ "messages" \notin Disturbances /\ "reset" \notin Disturbances
  OBVIOUS
<1>2. CASE MCDisturbances
  BY <1>1, <1>2 DEF MCDisturbances
<1>3. CASE MCRunsEnd
  BY <1>3 DEF MCRunsEnd, RunsEnd
<1> QED
  BY <1>2, <1>3 DEF MCNext, MCApiSteps, MCHandlers, MCBeginLoop, MCClientObeys, MCRequests,
     MCUserRequests, UserRequests

LEMMA DocsStep ==
    ASSUME Prompt = TRUE, Disturbances \cap {"reports", "messages", "reset"} = {},
           TypeOK, DocsInv, [MCNext]_MCvars
    PROVE  DocsInv'
<1>1. CASE UNCHANGED MCvars
  <2>1. UNCHANGED <<instances, instTodo, histories, fresh, msgs, stops>>
    BY <1>1 DEF MCvars, vars, docVars, loopVars, clientVars, cmdVars
  <2>2. /\ instances' \subseteq Docs /\ instTodo' \subseteq Docs
        /\ \A p \in instances' : p.placeholder => p \in instances
        /\ \A y, z \in instances' : y.id = z.id => y = z
        /\ KeepsRecords(histories')
    BY <2>1 DEF Docs, DocsInv, OneDocEach, KeepsRecords
  <2> QED
    BY <2>1, <2>2, FewerDocs
<1>2. CASE MCAgeGatePasses
  BY <1>2, GateDocs DEF MCAgeGatePasses, Quiet
<1> QED
  BY <1>1, <1>2, MCKnownStep, HandledDocs, ClientDocs, PlatformDocs DEF MCCheckSteps

(* A stop in flight does not become one of a key that may be checked.      *)
LEMMA SettledStays ==
    ASSUME Prompt = TRUE, TypeOK, MCNext, ~MCAgeGatePasses,
           NEW k \in Keys, Settled(k), InstancesOf(k) # {}
    PROVE  Settled(k)'
<1> USE DEF loopVars, docVars, cmdVars, clientVars, deplVars, ghostVars, Unbounded, counters
<1>1. CASE warden'[k] \in {warden[k], "none"} /\ infoTodo'[k] \in {infoTodo[k], "none"} /\ UNCHANGED rested
  BY <1>1 DEF Settled
<1>2. CASE MCRequests
  <2>1. UNCHANGED <<infoTodo, rested>>
    BY <1>2 DEF MCRequests, MCUserRequests, AddInstanceWarden, DeleteProcessInstanceByBusinessKey,
       ApiDeleteProcessInstance, ApiDeletePlaceholderHistory
  <2>2. ASSUME NEW c \in Keys, InUse(c) => KeyReuse /\ warden[c] # "none", AddInstanceWarden(c)
        PROVE  Settled(k)'
    <3>1. CASE c = k
      <4>1. warden[k] # "none"
        BY <2>2, <3>1 DEF InUse
      <4> QED
        BY <2>1, <4>1 DEF Settled
    <3>2. CASE c # k
      BY <1>1, <2>1, <2>2, <3>2 DEF AddInstanceWarden, TypeOK
    <3> QED
      BY <3>1, <3>2
  <2>3. CASE \/ \E c \in AllKeys : DeleteProcessInstanceByBusinessKey(c)
             \/ \E x \in instances : ApiDeleteProcessInstance(x)
             \/ \E h \in histories : ApiDeletePlaceholderHistory(h)
    <3>1. UNCHANGED warden \/ \E ks : ClearGuards(ks)
      BY <2>3 DEF DeleteProcessInstanceByBusinessKey, ApiDeleteProcessInstance,
         ApiDeletePlaceholderHistory
    <3> QED
      BY <1>1, <2>1, <3>1 DEF ClearGuards
  <2> QED
    BY <1>2, <2>2, <2>3 DEF MCRequests, MCUserRequests
<1>3. CASE MCBeginLoop
  BY <1>3 DEF MCBeginLoop, BeginLoopWardenDb, Settled
<1>4. CASE MCApiSteps
  <2>1. UNCHANGED <<infoTodo, rested>> /\ \E c \in Keys : UNCHANGED warden \/ RollBackGuard(c)
    BY <1>4 DEF MCApiSteps, ApiSteps, ApiSendStart, ApiRefuseStart, ApiSavePlaceholders
  <2> QED
    BY <1>1, <2>1 DEF RollBackGuard, TypeOK
<1>5. CASE MCHandlers
  BY <1>1, <1>5 DEF MCHandlers, Handlers, UpdateProcessInstance, DeleteProcessInstance,
     DeleteUnknownProcessInstances, UpdateHistoricProcessInstance,
     DeleteHistoricProcessInstance, DeleteUnknownHistoricProcessInstances, UpdateIncident
<1>6. CASE MCClientObeys \/ MCRunsEnd
  BY <1>1, <1>6 DEF MCClientObeys, ClientObeys, ClientStart, ClientStop, MCRunsEnd, RunFinishes,
     RunFails, RunEnds
<1>7. CASE MCCheckSteps
  <2>1. ASSUME NEW c \in Keys, CheckWardenInfo(c) PROVE Settled(k)'
    BY <1>1, <1>7, <2>1, CheckEffect DEF Checked, MCCheckSteps, TypeOK
  <2>2. CASE BeginLoopProcesses \/ EndLoop \/ \E x \in instTodo : CheckProcessInstance(x)
    BY <1>1, <1>7, <2>2 DEF BeginLoopProcesses, EndLoop, CheckProcessInstance, MCCheckSteps
  <2> QED
    BY <1>7, <2>1, <2>2 DEF MCCheckSteps, CheckSteps
<1>8. CASE MCDisturbances
  <2>1. UNCHANGED rested /\ infoTodo'[k] \in {infoTodo[k], "none"}
    BY <1>8 DEF MCDisturbances, DeploymentRequests, ApiCreateDeployment, ApiDeleteDeployment,
       DeploymentHandlers, ClientSpeaks, ClientReports, ClientListsInstances, ClientDeletesHistory,
       ClientStartsLegacy, CommandLosses, LoseStart, LoseStop, LoseMessages, Restart, ClientReset
  <2>2. UNCHANGED warden \/ \E ks : ClearGuards(ks)
    BY <1>8 DEF MCDisturbances, DeploymentRequests, ApiCreateDeployment, ApiDeleteDeployment,
       DeploymentHandlers, ClientSpeaks, ClientReports, ClientListsInstances, ClientDeletesHistory,
       ClientStartsLegacy, CommandLosses, LoseStart, LoseStop, LoseMessages, Restart, ClientReset
  <2> QED
    BY <1>1, <2>1, <2>2 DEF ClearGuards
<1> QED
  BY <1>2, <1>3, <1>4, <1>5, <1>6, <1>7, <1>8 DEF MCNext

(* Nothing that is saved anew has a stop in flight.                        *)
LEMMA SavedUnstopped ==
    ASSUME TypeOK, NEW insts, insts \subseteq instances, NEW hists, NEW k, NEW d,
           \/ \E saved \in Saves : SavePlaceholders(insts, hists, k, saved)
           \/ StartDeploymentWithoutWardenHandling(insts, hists, d, k),
           NEW x \in instances', x.id \in stops
    PROVE  x \in instances
<1>1. CASE instances' = insts
  BY <1>1
<1>2. ASSUME NEW saved, SavePlaceholders(insts, hists, k, saved) PROVE x \in instances
  <2>1. PICK i \in Ids : /\ IsNext(i)
                         /\ instances' = insts \/ instances' = insts \cup {PlaceholderInstance(i, k)}
    BY <1>2 DEF SavePlaceholders
  <2>2. i \notin stops
    BY <2>1, NextIdIsNew DEF UsedIds
  <2> QED
    BY <2>1, <2>2 DEF PlaceholderInstance
<1> QED
  BY <1>1, <1>2 DEF StartDeploymentWithoutWardenHandling

(* Who is stopped was in the database before, or its key is settled now.   *)
LEMMA NewStops ==
    ASSUME TypeOK, LoopRests, DocsInv, MCNext, ~MCAgeGatePasses,
           Disturbances \cap {"reports", "messages", "reset"} = {},
           NEW x \in instances', x.id \in stops', x.key \in Keys
    PROVE  \/ Settled(x.key)'
           \/ \E y \in instances : y.id = x.id /\ y.key = x.key /\ y.id \in stops
<1> USE DEF loopVars, docVars, cmdVars, clientVars, deplVars, ghostVars
<1>1. CASE x \in instances /\ x.id \in stops
  BY <1>1
<1>2. CASE instances' \subseteq instances /\ stops' \subseteq stops
  BY <1>1, <1>2
<1>3. CASE ApiSteps
  <2>1. PICK k \in Keys : ApiSendStart(k) \/ ApiRefuseStart(k) \/ ApiSavePlaceholders(k)
    BY <1>3 DEF ApiSteps
  <2>2. CASE ApiSendStart(k) \/ ApiRefuseStart(k)
    BY <1>2, <2>2 DEF ApiSendStart, ApiRefuseStart
  <2>3. CASE ApiSavePlaceholders(k)
    <3>1. UNCHANGED stops /\ \E saved \in Saves : SavePlaceholders(instances, histories, k, saved)
      BY <2>3, SavesAssumption DEF ApiSavePlaceholders
    <3> QED
      BY <1>1, <3>1, SavedUnstopped
  <2> QED
    BY <2>1, <2>2, <2>3
<1>4. ASSUME NEW S, S \subseteq instances, StopProcessInstancesWithoutWardenHandling(S),
             \A y \in S : y.key \in Keys => Settled(y.key)'
      PROVE  \/ Settled(x.key)'
             \/ \E y \in instances : y.id = x.id /\ y.key = x.key /\ y.id \in stops
  <2>1. S \subseteq Docs /\ \A y, z \in S : y.id = z.id => y = z
    BY <1>4 DEF Docs, DocsInv, OneDocEach
  <2>2. x \in instances
    BY <1>4, <2>1, StopLeaves DEF StopProcessInstancesWithoutWardenHandling
  <2>3. x.id \in stops \/ \E y \in S : y.id = x.id
    BY <1>4 DEF StopProcessInstancesWithoutWardenHandling, IdsOf
  <2>4. ASSUME NEW y \in S, y.id = x.id PROVE x = y
    BY <1>4, <2>2, <2>4 DEF DocsInv, OneDocEach
  <2> QED
    BY <1>1, <1>4, <2>2, <2>3, <2>4
<1>5. CASE UserRequests
  <2>1. CASE \/ \E k \in Keys : AddInstanceWarden(k)
             \/ \E h \in histories : ApiDeletePlaceholderHistory(h)
    BY <1>2, <2>1 DEF AddInstanceWarden, ApiDeletePlaceholderHistory
  <2>2. ASSUME NEW k \in AllKeys, DeleteProcessInstanceByBusinessKey(k)
        PROVE  \/ Settled(x.key)'
               \/ \E y \in instances : y.id = x.id /\ y.key = x.key /\ y.id \in stops
    <3>1. k \in Keys => Settled(k)'
      BY <2>2 DEF DeleteProcessInstanceByBusinessKey, ClearGuards, Settled
    <3> QED
      BY <1>4, <2>2, <3>1 DEF DeleteProcessInstanceByBusinessKey, InstancesOf
  <2>3. ASSUME NEW z \in instances, ApiDeleteProcessInstance(z)
        PROVE  \/ Settled(x.key)'
               \/ \E y \in instances : y.id = x.id /\ y.key = x.key /\ y.id \in stops
    <3>1. z.key \in Keys => Settled(z.key)'
      BY <2>3 DEF ApiDeleteProcessInstance, ClearGuards, Settled
    <3> QED
      BY <1>4, <2>3, <3>1 DEF ApiDeleteProcessInstance
  <2> QED
    BY <1>5, <2>1, <2>2, <2>3 DEF UserRequests
<1>6. CASE DeploymentRequests \/ DeploymentHandlers \/ BeginLoopWardenDb \/ Restart \/ CommandLosses
  BY <1>2, <1>6 DEF DeploymentRequests, DeploymentHandlers, BeginLoopWardenDb, Restart,
     ApiCreateDeployment, ApiDeleteDeployment, CommandLosses, LoseStart, LoseStop
<1>7. CASE ClientObeys \/ RunsEnd
  BY <1>2, <1>7 DEF ClientObeys, ClientStart, ClientStop, RunsEnd, RunFinishes, RunFails, RunEnds
<1>8. CASE Handlers
  <2>1. CASE UpdateProcessInstance
    <3>1. Receive("instance") /\ UNCHANGED stops
      BY <2>1 DEF UpdateProcessInstance
    <3>2. Head(msgs) = msgs[1] /\ 1 \in DOMAIN msgs /\ Head(msgs).type = "instance"
      BY <3>1, TakenQueue DEF TypeOK, Receive
    <3>3. Head(msgs).id \notin stops
      BY <3>2 DEF DocsInv, OneReportEach, ReportedOnce
    <3>4. x \in instances \/ x.id = Head(msgs).id
      BY <2>1 DEF UpdateProcessInstance, Save, WithoutPlaceholders
    <3> QED
      BY <1>1, <3>1, <3>3, <3>4
  <2>2. CASE ~UpdateProcessInstance
    BY <1>2, <1>8, <2>2 DEF Handlers, DeleteProcessInstance, Without, WithoutPlaceholders,
       DeleteUnknownProcessInstances, UpdateHistoricProcessInstance, DeleteHistoricProcessInstance,
       DeleteUnknownHistoricProcessInstances, UpdateIncident
  <2> QED
    BY <2>1, <2>2
<1>9. CASE MCCheckSteps
  <2> USE <1>9 DEF MCCheckSteps, Unbounded
  <2>1. ASSUME NEW k \in Keys, CheckWardenInfo(k)
        PROVE  \/ Settled(x.key)'
               \/ \E y \in instances : y.id = x.id /\ y.key = x.key /\ y.id \in stops
    <3>1. phase = "infos" /\ infoTodo' = [infoTodo EXCEPT ![k] = "none"]
      BY <2>1, CheckEffect DEF Checked
    <3>2. Settled(k)'
      BY <3>1 DEF Settled, LoopRests, TypeOK
    <3>3. CASE UNCHANGED <<instances, stops>>
      BY <1>2, <3>3
    <3>4. ASSUME NEW d, WardenStart(k, d) PROVE x \in instances /\ x.id \in stops
      BY <3>4, SavedUnstopped DEF WardenStart
    <3>5. ASSUME OldPlaceholderInstance(k) PROVE x \in instances /\ x.id \in stops
      <4>1. PICK z \in instances :
               StartDeploymentWithoutWardenHandling(InstancesAfterStop({z}),
                                                    HistoriesAfterStop({z}), deployment, k)
        BY <3>5 DEF OldPlaceholderInstance
      <4>2. {z} \subseteq instances /\ {z} \subseteq Docs /\ \A y, w \in {z} : y.id = w.id => y = w
        BY DEF Docs
      <4>3. InstancesAfterStop({z}) \subseteq instances /\ UNCHANGED stops
        BY <3>5, <4>2, StopLeaves DEF OldPlaceholderInstance
      <4> QED
        BY <4>1, <4>3, SavedUnstopped
    <3>6. ASSUME DuplicateInstances(k)
          PROVE  \/ Settled(x.key)'
                 \/ \E y \in instances : y.id = x.id /\ y.key = x.key /\ y.id \in stops
      <4>1. PICK y : \/ UNCHANGED <<instances, histories, stops>>
                     \/ StopProcessInstancesWithoutWardenHandling(AllBut(y, InstancesOf(k)))
        BY <3>6 DEF DuplicateInstances
      <4>2. \A z \in AllBut(y, InstancesOf(k)) : z \in instances /\ z.key = k
        BY DEF AllBut, InstancesOf
      <4> QED
        BY <1>2, <1>4, <3>2, <4>1, <4>2
    <3> QED
      BY <1>1, <2>1, <3>3, <3>4, <3>5, <3>6
      DEF CheckWardenInfo, ImmatureInfo, ExpectedInstance, NoAction, MissingWithoutHistory,
          StartNeverSeen, RedeployNeverSeen, ForgetNeverSeen, RemoveInstanceWarden,
          MissingWithHistory, EndIsImmature, EndedWithoutIncident, EndedWithIncident
  <2>2. CASE BeginLoopProcesses \/ EndLoop
    BY <1>2, <2>2 DEF BeginLoopProcesses, EndLoop
  <2>3. ASSUME NEW z \in instTodo, CheckProcessInstance(z)
        PROVE  \/ Settled(x.key)'
               \/ \E y \in instances : y.id = x.id /\ y.key = x.key /\ y.id \in stops
    <3>1. CASE UNCHANGED <<instances, histories, stops>>
      BY <1>2, <3>1
    <3>2. CASE /\ z.key \in Keys /\ warden[z.key] = "none"
               /\ StopProcessInstancesWithoutWardenHandling({z})
      <4>1. (x \in instances \/ x = z) /\ (x.id \in stops \/ x.id = z.id)
        BY <3>2 DEF StopProcessInstancesWithoutWardenHandling, InstancesAfterStop, Without, IdsOf
      <4>2. x.id = z.id => x.key = z.key
        BY <4>1 DEF DocsInv, OneDocEach, Docs
      <4>3. Settled(z.key)'
        BY <2>3, <3>2 DEF CheckProcessInstance, Settled
      <4> QED
        BY <1>1, <4>1, <4>2, <4>3
    <3> QED
      BY <2>3, <3>1, <3>2 DEF CheckProcessInstance
  <2> QED
    BY <2>1, <2>2, <2>3 DEF CheckSteps
<1> QED
  BY <1>3, <1>5, <1>6, <1>7, <1>8, <1>9, MCKnownStep

(* The invariant of the behaviours in which every report arrives.          *)
LEMMA CauseStep ==
    ASSUME Prompt = TRUE, Disturbances \cap {"reports", "messages", "reset"} = {},
           CauseInv, [MCNext]_MCvars
    PROVE  CauseInv'
<1>1. TypeOK /\ TypeOK' /\ LoopRests /\ LoopRests' /\ DocsInv /\ DocsInv'
  BY MCStep, NextTypeOK, LoopRestsStep, DocsStep DEF CauseInv
<1>2. requests' \in Nat
  BY DEF CauseInv, MCNext, MCvars, counters, MCApiSteps, MCHandlers, MCBeginLoop, MCCheckSteps,
     MCAgeGatePasses, MCClientObeys, MCRunsEnd, MCRequests, MCDisturbances, Unbounded
<1>3. StopsSettled'
  <2>1. CASE UNCHANGED MCvars
    BY <2>1 DEF MCvars, vars, docVars, cmdVars, loopVars, CauseInv, StopsSettled, Settled
  <2>2. CASE MCAgeGatePasses
    BY <2>2 DEF MCAgeGatePasses, Quiet, AgeGatePasses, cmdVars, StopsSettled
  <2>3. CASE MCNext /\ ~MCAgeGatePasses
    <3> SUFFICES ASSUME NEW x \in instances', x.id \in stops', x.key \in Keys
                 PROVE  Settled(x.key)'
      BY DEF StopsSettled
    <3>1. CASE \E y \in instances : y.id = x.id /\ y.key = x.key /\ y.id \in stops
      <4>1. Settled(x.key) /\ InstancesOf(x.key) # {}
        BY <3>1 DEF CauseInv, StopsSettled, InstancesOf
      <4> QED
        BY <1>1, <2>3, <4>1, SettledStays
    <3> QED
      BY <1>1, <2>3, <3>1, NewStops
  <2> QED
    BY <2>1, <2>2, <2>3
<1> QED
  BY <1>1, <1>2, <1>3 DEF CauseInv

LEMMA InitCause == MCInit => CauseInv
<1> SUFFICES ASSUME MCInit PROVE CauseInv
  OBVIOUS
<1>1. /\ instances = {} /\ histories = {} /\ instTodo = {} /\ msgs = <<>>
      /\ phase = "idle" /\ infoTodo = [k \in Keys |-> "none"] /\ requests = 0
  BY DEF MCInit, Init
<1>2. TypeOK
  BY InitTypeOK DEF MCInit
<1> QED
  BY <1>1, <1>2 DEF CauseInv, LoopRests, DocsInv, OneDocEach, OneReportEach, PlaceholdersLast,
     StopsSettled, Docs

(* Only the loop sends stop commands, unless a user asks for them.         *)
LEMMA WhoStops ==
    ASSUME Disturbances \cap {"reports", "messages", "reset"} = {},
           requests \in Nat, requests' = requests, MCNext, NEW i \in stops' \ stops
    PROVE  \/ \E k \in Keys : DuplicateInstances(k)
           \/ \E z \in instTodo :
                 /\ z.key \in Keys /\ warden[z.key] = "none"
                 /\ CheckProcessInstance(z) /\ StopProcessInstancesWithoutWardenHandling({z})
<1> USE DEF loopVars, docVars, cmdVars, clientVars, deplVars, ghostVars
<1>1. ~MCRequests
  BY DEF MCRequests
<1>2. CASE MCCheckSteps
  <2>1. ASSUME NEW k \in Keys, CheckWardenInfo(k) PROVE DuplicateInstances(k)
    BY <2>1 DEF CheckWardenInfo, ImmatureInfo, ExpectedInstance, NoAction, MissingWithoutHistory,
       StartNeverSeen, RedeployNeverSeen, ForgetNeverSeen, RemoveInstanceWarden,
       MissingWithHistory, EndIsImmature, EndedWithoutIncident, EndedWithIncident, WardenStart,
       OldPlaceholderInstance
  <2> QED
    BY <1>2, <2>1 DEF MCCheckSteps, CheckSteps, BeginLoopProcesses, EndLoop, CheckProcessInstance
<1>3. CASE MCAgeGatePasses \/ MCBeginLoop \/ MCHandlers
  BY <1>3 DEF MCAgeGatePasses, AgeGatePasses, MCBeginLoop, BeginLoopWardenDb, MCHandlers, Handlers,
     UpdateProcessInstance, DeleteProcessInstance, DeleteUnknownProcessInstances,
     UpdateHistoricProcessInstance, DeleteHistoricProcessInstance,
     DeleteUnknownHistoricProcessInstances, UpdateIncident
<1>4. CASE MCApiSteps
  BY <1>4 DEF MCApiSteps, ApiSteps, ApiSendStart, ApiRefuseStart, ApiSavePlaceholders
<1>5. CASE MCClientObeys \/ MCRunsEnd
  BY <1>5 DEF MCClientObeys, ClientObeys, ClientStart, ClientStop, MCRunsEnd, RunFinishes,
     RunFails, RunEnds
<1>6. CASE MCDisturbances
  BY <1>6 DEF MCDisturbances, DeploymentRequests, ApiCreateDeployment, ApiDeleteDeployment,
     DeploymentHandlers, ClientSpeaks, ClientReports, ClientListsInstances, ClientDeletesHistory,
     ClientStartsLegacy, CommandLosses, LoseStart, LoseStop, LoseMessages, Restart, ClientReset
<1> QED
  BY <1>1, <1>2, <1>3, <1>4, <1>5, <1>6 DEF MCNext

(* Of several instances of a guarded key the one that comes first, if it   *)
(* is old, is a real one that nobody stops.                                *)
LEMMA SparedIsReal ==
    ASSUME TypeOK, DocsInv, StopsSettled, NEW k \in Keys, warden[k] # "none", infoTodo[k] # "none",
           NEW x \in InstancesOf(k), ~x.placeholder,
           NEW y \in CanComeFirst(InstancesOf(k)), ~InstanceIsYoung(y)
    PROVE  y \in InstancesOf(k) /\ ~y.placeholder /\ y.id \notin stops
<1>1. y \in InstancesOf(k) /\ x \in Docs /\ y \in instances /\ y.key = k
  BY DEF CanComeFirst, InstancesOf, Docs
<1>2. ~y.placeholder
  <2> SUFFICES ASSUME y.placeholder PROVE FALSE
    OBVIOUS
  <2>1. x.id < y.id /\ (Recent(y) \/ Written(x.id))
    BY <1>1 DEF DocsInv, PlaceholdersLast
  <2>2. x.id \notin IdsOf(histories)
    BY <2>1 DEF CanComeFirst
  <2>3. ~Written(x.id)
    BY <2>2 DEF Written, IdsOf
  <2>4. ~Recent(y)
    BY DEF Recent, InstanceIsYoung
  <2> QED
    BY <2>1, <2>3, <2>4
<1>3. y.id \notin stops
  BY <1>1 DEF StopsSettled, Settled
<1> QED
  BY <1>1, <1>2, <1>3

(* StopsHaveCause: as long as commands and messages are handled within the *)
(* age gate and the reports of runs arrive, the warden stops an instance   *)
(* only if nobody guards its key or another real instance of it stays, for *)
(* any keys, requests (also of keys in use), losses of commands, restarts  *)
(* and changes of the deployment.                                          *)
THEOREM StopsAreCaused ==
    ASSUME Prompt = TRUE, Disturbances \cap {"reports", "messages", "reset"} = {}
    PROVE  MCSpec => StopsHaveCause
<1> DEFINE Cause ==
        \A x \in instances :
          (x.id \in stops' \ stops /\ requests' = requests) =>
             /\ x.key \in Keys
             /\ \/ warden[x.key] = "none"
                \/ \E y \in InstancesOf(x.key) : ~y.placeholder /\ y.id \notin stops'
<1>1. MCInit => CauseInv
  BY InitCause
<1>2. CauseInv /\ [MCNext]_MCvars => CauseInv'
  BY CauseStep
<1>3. CauseInv /\ MCNext => Cause
  <2> SUFFICES ASSUME CauseInv, MCNext, NEW x \in instances,
                      x.id \in stops' \ stops, requests' = requests
               PROVE  /\ x.key \in Keys
                      /\ \/ warden[x.key] = "none"
                         \/ \E y \in InstancesOf(x.key) : ~y.placeholder /\ y.id \notin stops'
    OBVIOUS
  <2>1. TypeOK /\ DocsInv /\ StopsSettled /\ requests \in Nat
    BY DEF CauseInv
  <2>2. ASSUME NEW k \in Keys, DuplicateInstances(k)
        PROVE  /\ x.key \in Keys
               /\ \/ warden[x.key] = "none"
                  \/ \E y \in InstancesOf(x.key) : ~y.placeholder /\ y.id \notin stops'
    <3>1. infoTodo[k] # "none"
      BY <2>2 DEF DuplicateInstances, Checked
    <3>2. PICK y \in CanComeFirst(InstancesOf(k)) :
             /\ ~InstanceIsYoung(y)
             /\ StopProcessInstancesWithoutWardenHandling(AllBut(y, InstancesOf(k)))
      BY <2>2 DEF DuplicateInstances
    <3>3. stops' = stops \cup IdsOf({z \in AllBut(y, InstancesOf(k)) : ~z.placeholder})
      BY <3>2 DEF StopProcessInstancesWithoutWardenHandling
    <3>4. /\ x \in InstancesOf(k) /\ ~x.placeholder
          /\ \A z \in AllBut(y, InstancesOf(k)) : z \in instances /\ z # y
      <4>1. PICK z \in AllBut(y, InstancesOf(k)) : ~z.placeholder /\ z.id = x.id
        BY <3>3 DEF IdsOf
      <4>2. z \in instances /\ z = x
        BY <2>1, <4>1 DEF AllBut, InstancesOf, DocsInv, OneDocEach
      <4> QED
        BY <4>1, <4>2 DEF AllBut, InstancesOf
    <3>5. ASSUME warden[k] # "none"
          PROVE  y \in InstancesOf(k) /\ ~y.placeholder /\ y.id \notin stops
      BY <2>1, <3>1, <3>2, <3>4, <3>5, SparedIsReal
    <3>6. y \in InstancesOf(k) => \A z \in AllBut(y, InstancesOf(k)) : z.id # y.id
      BY <2>1, <3>4 DEF InstancesOf, DocsInv, OneDocEach
    <3>7. warden[k] # "none" => y.id \notin stops'
      BY <3>3, <3>5, <3>6 DEF IdsOf
    <3>8. x.key = k
      BY <3>4 DEF InstancesOf
    <3> QED
      BY <3>5, <3>7, <3>8
  <2>3. ASSUME NEW z \in instTodo, z.key \in Keys, warden[z.key] = "none",
               StopProcessInstancesWithoutWardenHandling({z})
        PROVE  x.key \in Keys /\ warden[x.key] = "none"
    <3>1. x.id = z.id
      BY <2>3 DEF StopProcessInstancesWithoutWardenHandling, IdsOf
    <3> QED
      BY <2>1, <2>3, <3>1 DEF DocsInv, OneDocEach, Docs
  <2> QED
    BY <2>1, <2>2, <2>3, WhoStops
<1>4. CauseInv /\ [MCNext]_MCvars => [Cause]_MCvars
  BY <1>3
<1>5. MCSpec => [][Cause]_MCvars
  <2> HIDE DEF Cause
  <2> QED
    BY <1>1, <1>2, <1>4, PTL DEF MCSpec
<1> QED
  BY <1>5 DEF StopsHaveCause

-----------------------------------------------------------------------------
(* The invariant behind DroppedOnlyAfterARun.                              *)

(* A run of the key k under the id i is on record somewhere.               *)
Mention(i, k) ==
    \/ \E r \in engine : r.id = i /\ r.key = k
    \/ \E d \in Docs \cup histories : ~d.placeholder /\ d.id = i /\ d.key = k
    \/ \E n \in DOMAIN msgs :
          msgs[n].type \in {"instance", "history"} /\ msgs[n].id = i /\ msgs[n].key = k

KeysAgree == \A i, k, c : Mention(i, k) /\ Mention(i, c) => k = c

(* The ids of placeholders are not those of runs.                          *)
PlaceholdersApart ==
    \A p \in Docs \cup histories : p.placeholder =>
        /\ \A k : ~Mention(p.id, k)
        /\ \A n \in DOMAIN msgs : p.id \notin Mentioned(msgs[n])

(* The history of a run is there before its instance is removed.           *)
WrittenFirst ==
    /\ \A r \in engine : Recorded(r.id)
    /\ \A n \in DOMAIN msgs : \A i : msgs[n].type = "instance-delete" /\ msgs[n].id = i =>
          \/ Written(i)
          \/ \E m \in DOMAIN msgs : m < n /\ msgs[m].type = "history" /\ msgs[m].id = i

SomeReal == \E x \in instances \cup histories : ~x.placeholder

Paired(h, I) == \E p \in I : p.placeholder /\ p.id = h.id /\ p.key = h.key

(* Before the first report no placeholder history is left alone.           *)
PlaceholdersPaired == SomeReal \/ \A h \in histories : Paired(h, instances)

(* A placeholder history beside a real one is younger.                     *)
HistoriesInOrder == \A p, h \in histories : p.placeholder /\ ~h.placeholder => h.id < p.id

BookInv ==
    KeysAgree /\ PlaceholdersApart /\ WrittenFirst /\ PlaceholdersPaired /\ HistoriesInOrder

(* What the platform may leave of the documents: every real one. Only one  *)
(* of a key without a guard is put back that was gone meanwhile.           *)
Left(I, H) ==
    /\ \A x \in I : \E y \in Docs :
          /\ y.placeholder = x.placeholder /\ y.id = x.id /\ y.key = x.key
          /\ y \in instances \/ warden[y.key] = "none"
    /\ \A x \in instances : ~x.placeholder =>
          \E y \in I : ~y.placeholder /\ y.id = x.id /\ y.key = x.key
    /\ H \subseteq histories /\ \A h \in histories : ~h.placeholder => h \in H
    /\ \A h \in H : Paired(h, instances) => Paired(h, I)

(* ... and what it adds: a placeholder under the next id.                  *)
Added(I, H) ==
    \/ instances' = I /\ histories' = H
    \/ \E i \in Ids, k \in AllKeys :
          /\ IsNext(i)
          /\ instances' = I \cup {PlaceholderInstance(i, k)}
          /\ histories' \in {H, H \cup {PlaceholderHistory(i, k)}}

PlatformEffect ==
    /\ UNCHANGED <<engine, msgs>>
    /\ \A x \in instTodo' : \E y \in Docs :
          y.placeholder = x.placeholder /\ y.id = x.id /\ y.key = x.key
    /\ \E I, H : Left(I, H) /\ Added(I, H)

LEMMA MentionsUsed ==
    ASSUME NEW i, NEW k, Mention(i, k)
    PROVE  i \in UsedIds
BY DEF Mention, UsedIds, IdsOf, Docs, Mentioned

LEMMA LeftAsIs == Left(instances, histories)
BY DEF Left, Docs, Paired

(* Stopping leaves the real documents, and placeholders in pairs.          *)
LEMMA StopLeft ==
    ASSUME DocsInv, PlaceholdersApart, NEW S, S \subseteq Docs,
           \A x \in S : x \in instances \/ warden[x.key] = "none"
    PROVE  Left(InstancesAfterStop(S), HistoriesAfterStop(S))
<1>1. \A x \in InstancesAfterStop(S) :
         x \in Docs /\ (x \in instances \/ warden[x.key] = "none")
  BY DEF InstancesAfterStop, Without, Docs
<1>2. ASSUME NEW x \in instances, ~x.placeholder
      PROVE  \E y \in InstancesAfterStop(S) : ~y.placeholder /\ y.id = x.id /\ y.key = x.key
  <2>1. CASE \E y \in S : y.id = x.id
    <3>1. PICK y \in S : y.id = x.id
      BY <2>1
    <3>2. ~y.placeholder /\ y.key = x.key
      BY <1>2, <3>1 DEF DocsInv, OneDocEach, Docs
    <3> QED
      BY <3>1, <3>2 DEF InstancesAfterStop
  <2>2. CASE \A y \in S : y.id # x.id
    BY <1>2, <2>2 DEF InstancesAfterStop, Without, IdsOf
  <2> QED
    BY <2>1, <2>2
<1>3. ASSUME NEW h \in histories, ~h.placeholder PROVE h \in HistoriesAfterStop(S)
  <2>1. \A p \in S : p.placeholder => p.id # h.id
    <3>1. Mention(h.id, h.key)
      BY <1>3 DEF Mention
    <3> QED
      BY <3>1 DEF PlaceholdersApart
  <2> QED
    BY <2>1 DEF HistoriesAfterStop, Without, IdsOf
<1>4. HistoriesAfterStop(S) \subseteq histories
  BY DEF HistoriesAfterStop, Without
<1>5. ASSUME NEW h \in HistoriesAfterStop(S), Paired(h, instances)
      PROVE  Paired(h, InstancesAfterStop(S))
  <2>1. PICK p \in instances : p.placeholder /\ p.id = h.id /\ p.key = h.key
    BY <1>5 DEF Paired
  <2>2. \A y \in S : y.id # p.id
    <3> SUFFICES ASSUME NEW y \in S, y.id = p.id PROVE FALSE
      OBVIOUS
    <3>1. y.placeholder
      BY <2>1 DEF DocsInv, OneDocEach, Docs
    <3> QED
      BY <2>1, <3>1 DEF HistoriesAfterStop, Without, IdsOf
  <2>3. p \in InstancesAfterStop(S)
    BY <2>2 DEF InstancesAfterStop, Without, IdsOf
  <2> QED
    BY <2>1, <2>3 DEF Paired
<1> QED
  BY <1>1, <1>2, <1>3, <1>4, <1>5 DEF Left

LEMMA SaveAdds ==
    ASSUME NEW I, NEW H, NEW k \in Keys, NEW d,
           \/ \E saved \in Saves : SavePlaceholders(I, H, k, saved)
           \/ StartDeploymentWithoutWardenHandling(I, H, d, k)
    PROVE  Added(I, H)
<1>1. CASE instances' = I /\ histories' = H
  BY <1>1 DEF Added
<1>2. ASSUME NEW saved \in Saves, SavePlaceholders(I, H, k, saved) PROVE Added(I, H)
  <2>1. PICK i \in Ids :
          /\ IsNext(i)
          /\ instances' = IF saved = "none" THEN I ELSE I \cup {PlaceholderInstance(i, k)}
          /\ histories' = IF saved = "both" THEN H \cup {PlaceholderHistory(i, k)} ELSE H
          /\ fresh' = IF saved = "both" THEN fresh \cup {i} ELSE fresh
    BY <1>2 DEF SavePlaceholders
  <2> QED
    BY <2>1 DEF Added
<1> QED
  BY <1>1, <1>2, SavesAssumption DEF StartDeploymentWithoutWardenHandling

LEMMA CheckHasEffect ==
    ASSUME DocsInv, PlaceholdersApart, NEW k \in Keys, CheckWardenInfo(k)
    PROVE  PlatformEffect
<1> USE DEF cmdVars, clientVars
<1>0. /\ UNCHANGED <<msgs, engine>>
      /\ \A x \in instTodo' : \E y \in Docs :
            y.placeholder = x.placeholder /\ y.id = x.id /\ y.key = x.key
  BY CheckEffect DEF Checked, Docs
<1>1. CASE UNCHANGED <<instances, histories, fresh>>
  BY <1>0, <1>1, LeftAsIs DEF PlatformEffect, Added
<1>2. ASSUME NEW d, WardenStart(k, d) PROVE PlatformEffect
  BY <1>0, <1>2, LeftAsIs, SaveAdds DEF PlatformEffect, WardenStart
<1>3. ASSUME OldPlaceholderInstance(k) PROVE PlatformEffect
  <2>1. PICK x \in instances :
           StartDeploymentWithoutWardenHandling(InstancesAfterStop({x}),
                                                HistoriesAfterStop({x}), deployment, k)
    BY <1>3 DEF OldPlaceholderInstance
  <2>2. {x} \subseteq Docs /\ \A y \in {x} : y \in instances
    BY DEF Docs
  <2>3. Left(InstancesAfterStop({x}), HistoriesAfterStop({x}))
    BY <2>2, StopLeft
  <2>4. Added(InstancesAfterStop({x}), HistoriesAfterStop({x}))
    BY <2>1, SaveAdds
  <2> QED
    BY <1>0, <2>3, <2>4 DEF PlatformEffect
<1>4. ASSUME DuplicateInstances(k) PROVE PlatformEffect
  <2>1. PICK x : \/ UNCHANGED <<instances, histories>>
                 \/ StopProcessInstancesWithoutWardenHandling(AllBut(x, InstancesOf(k)))
    BY <1>4 DEF DuplicateInstances
  <2>2. /\ AllBut(x, InstancesOf(k)) \subseteq Docs /\ UNCHANGED fresh
        /\ \A y \in AllBut(x, InstancesOf(k)) : y \in instances
    BY <1>4 DEF AllBut, InstancesOf, Docs, DuplicateInstances
  <2>3. Left(InstancesAfterStop(AllBut(x, InstancesOf(k))), HistoriesAfterStop(AllBut(x, InstancesOf(k))))
    BY <2>2, StopLeft
  <2> QED
    BY <1>0, <1>1, <2>1, <2>2, <2>3
    DEF PlatformEffect, Added, StopProcessInstancesWithoutWardenHandling
<1> QED
  BY <1>1, <1>2, <1>3, <1>4
  DEF CheckWardenInfo, ImmatureInfo, ExpectedInstance, NoAction, MissingWithoutHistory,
      StartNeverSeen, RedeployNeverSeen, ForgetNeverSeen, RemoveInstanceWarden,
      MissingWithHistory, EndIsImmature, EndedWithoutIncident, EndedWithIncident

(* Recent ids stay so until the age gate passes.                           *)
LEMMA FreshGrows ==
    ASSUME \/ ApiSteps \/ UserRequests \/ BeginLoopWardenDb \/ CheckSteps \/ Restart
           \/ CommandLosses
    PROVE  fresh \subseteq fresh'
<1> USE DEF docVars
<1>1. ASSUME NEW I, NEW H, NEW k, NEW d,
             \/ \E saved \in Saves : SavePlaceholders(I, H, k, saved)
             \/ StartDeploymentWithoutWardenHandling(I, H, d, k)
      PROVE  fresh \subseteq fresh'
  BY <1>1 DEF SavePlaceholders, StartDeploymentWithoutWardenHandling
<1>2. CASE ApiSteps
  BY <1>1, <1>2, SavesAssumption DEF ApiSteps, ApiSendStart, ApiRefuseStart, ApiSavePlaceholders
<1>3. CASE UserRequests \/ BeginLoopWardenDb \/ Restart \/ CommandLosses
  BY <1>3 DEF UserRequests, AddInstanceWarden, DeleteProcessInstanceByBusinessKey,
     ApiDeleteProcessInstance, ApiDeletePlaceholderHistory, BeginLoopWardenDb, Restart,
     CommandLosses, LoseStart, LoseStop
<1>4. ASSUME NEW k \in Keys, CheckWardenInfo(k) PROVE fresh \subseteq fresh'
  BY <1>1, <1>4
  DEF CheckWardenInfo, ImmatureInfo, ExpectedInstance, NoAction, MissingWithoutHistory,
      StartNeverSeen, RedeployNeverSeen, ForgetNeverSeen, RemoveInstanceWarden, WardenStart,
      MissingWithHistory, EndIsImmature, EndedWithoutIncident, EndedWithIncident,
      OldPlaceholderInstance, DuplicateInstances
<1>5. CASE CheckSteps
  BY <1>4, <1>5 DEF CheckSteps, BeginLoopProcesses, EndLoop, CheckProcessInstance
<1> QED
  BY <1>2, <1>3, <1>5

(* The steps of the platform beside the handling of messages.              *)
LEMMA PlatformHasEffect ==
    ASSUME TypeOK, DocsInv, PlaceholdersApart, PlatformSteps \/ CommandLosses
    PROVE  PlatformEffect
<1> USE DEF loopVars, docVars, cmdVars, clientVars, deplVars, ghostVars
<1>1. CASE /\ UNCHANGED <<instances, histories, fresh, engine, msgs>>
           /\ instTodo' \in {instTodo, instances, {}} \/ instTodo' \subseteq instTodo
  <2>1. instTodo' \subseteq Docs
    BY <1>1 DEF Docs
  <2> QED
    BY <1>1, <2>1, LeftAsIs DEF PlatformEffect, Added
<1>2. ASSUME NEW S, S \subseteq Docs, \A x \in S : x \in instances \/ warden[x.key] = "none",
             StopProcessInstancesWithoutWardenHandling(S),
             UNCHANGED <<fresh, engine, msgs>>, instTodo' \subseteq instTodo
      PROVE  PlatformEffect
  <2>1. Left(InstancesAfterStop(S), HistoriesAfterStop(S))
    BY <1>2, StopLeft
  <2>2. instTodo' \subseteq Docs
    BY <1>2 DEF Docs
  <2> QED
    BY <1>2, <2>1, <2>2 DEF PlatformEffect, Added, StopProcessInstancesWithoutWardenHandling
<1>3. CASE ApiSteps
  <2>1. PICK k \in Keys : ApiSendStart(k) \/ ApiRefuseStart(k) \/ ApiSavePlaceholders(k)
    BY <1>3 DEF ApiSteps
  <2>2. CASE ApiSavePlaceholders(k)
    <3>1. /\ \E saved \in Saves : SavePlaceholders(instances, histories, k, saved)
          /\ UNCHANGED <<instTodo, engine, msgs>>
      BY <2>2, SavesAssumption DEF ApiSavePlaceholders
    <3>2. Added(instances, histories)
      BY <3>1, SaveAdds
    <3> QED
      BY <3>1, <3>2, LeftAsIs DEF PlatformEffect, Docs
  <2> QED
    BY <1>1, <2>1, <2>2 DEF ApiSendStart, ApiRefuseStart
<1>4. CASE UserRequests
  <2>1. CASE \E k \in Keys : AddInstanceWarden(k)
    BY <1>1, <2>1 DEF AddInstanceWarden
  <2>2. CASE \E k \in AllKeys : DeleteProcessInstanceByBusinessKey(k)
    <3>1. \A k : InstancesOf(k) \subseteq Docs /\ \A y \in InstancesOf(k) : y \in instances
      BY DEF InstancesOf, Docs
    <3> QED
      BY <1>2, <2>2, <3>1 DEF DeleteProcessInstanceByBusinessKey
  <2>3. CASE \E x \in instances : ApiDeleteProcessInstance(x)
    <3>1. PICK x \in instances : ApiDeleteProcessInstance(x)
      BY <2>3
    <3>2. {x} \subseteq Docs /\ \A y \in {x} : y \in instances
      BY DEF Docs
    <3> QED
      BY <1>2, <3>1, <3>2 DEF ApiDeleteProcessInstance
  <2>4. ASSUME NEW h \in histories, ApiDeletePlaceholderHistory(h) PROVE PlatformEffect
    <3>1. /\ h.placeholder /\ histories' = {g \in histories : g.id # h.id}
          /\ UNCHANGED <<instances, instTodo, fresh, engine, msgs>>
      BY <2>4 DEF ApiDeletePlaceholderHistory, Without
    <3>2. Left(instances, histories')
      BY <3>1 DEF Left, Docs, Paired, DocsInv, OneDocEach
    <3> QED
      BY <3>1, <3>2 DEF PlatformEffect, Added, Docs
  <2> QED
    BY <1>4, <2>1, <2>2, <2>3, <2>4 DEF UserRequests
<1>5. CASE BeginLoopWardenDb \/ Restart \/ CommandLosses
  BY <1>1, <1>5 DEF BeginLoopWardenDb, Restart, CommandLosses, LoseStart, LoseStop
<1>6. CASE CheckSteps
  <2>1. CASE BeginLoopProcesses \/ EndLoop
    BY <1>1, <2>1 DEF BeginLoopProcesses, EndLoop
  <2>2. ASSUME NEW x \in instTodo, CheckProcessInstance(x) PROVE PlatformEffect
    <3>1. instTodo' \subseteq instTodo /\ UNCHANGED <<fresh, engine, msgs>> /\ {x} \subseteq Docs
      BY <2>2 DEF CheckProcessInstance, Docs
    <3> QED
      BY <1>1, <1>2, <2>2, <3>1 DEF CheckProcessInstance
  <2> QED
    BY <1>6, <2>1, <2>2, CheckHasEffect DEF CheckSteps
<1>7. CASE AgeGatePasses
  <2>1. /\ UNCHANGED <<histories, engine, msgs>> /\ fresh' = {}
        /\ instances' = SyncedLongAgo(instances) /\ instTodo' = SyncedLongAgo(instTodo)
        /\ instances \in SUBSET Instance /\ instTodo \in SUBSET Instance
    BY <1>7 DEF AgeGatePasses, TypeOK
  <2>2. /\ \A y \in instances' : \E x \in instances :
              y.id = x.id /\ y.key = x.key /\ y.placeholder = x.placeholder
        /\ \A x \in instances : \E y \in instances' :
              y.id = x.id /\ y.key = x.key /\ y.placeholder = x.placeholder
        /\ \A y \in instTodo' : \E x \in instTodo :
              y.id = x.id /\ y.key = x.key /\ y.placeholder = x.placeholder
    BY <2>1, AgedDocs
  <2>3. \A h : Paired(h, instances) => Paired(h, instances')
    BY <2>2 DEF Paired
  <2>4. Left(instances', histories)
    BY <2>2, <2>3 DEF Left, Docs
  <2> QED
    BY <1>7, <2>1, <2>2, <2>4 DEF PlatformEffect, Added, Docs
<1> QED
  BY <1>3, <1>4, <1>5, <1>6, <1>7 DEF PlatformSteps

(* A run of k under the id i has a document in the database.               *)
RealDoc(i, k) == \E d \in instances \cup histories : ~d.placeholder /\ d.id = i /\ d.key = k

(* The platform puts no runs on record, and forgets none.                  *)
LEMMA PlatformRecords ==
    ASSUME PlatformEffect
    PROVE  /\ \A i, k : Mention(i, k)' => Mention(i, k)
           /\ \A i, k : RealDoc(i, k) => RealDoc(i, k)'
           /\ \A i : (Written(i) => Written(i)') /\ (Recorded(i) => Recorded(i)')
           /\ \A p \in Docs' \cup histories' : p.placeholder =>
                 \/ \E q \in Docs \cup histories : q.placeholder /\ q.id = p.id
                 \/ p.id \in Ids /\ IsNext(p.id)
           /\ \A h \in histories' : h \in histories \/ (h.placeholder /\ h.id \in Ids /\ IsNext(h.id))
           /\ \A x \in instances' : ~x.placeholder =>
                 \/ \E y \in instances : ~y.placeholder /\ y.id = x.id /\ y.key = x.key
                 \/ warden[x.key] = "none"
<1>1. PICK I, H : Left(I, H) /\ Added(I, H)
  BY DEF PlatformEffect
<1>2. /\ \A x \in instances' : x \in I \/ (x.placeholder /\ x.id \in Ids /\ IsNext(x.id))
      /\ \A h \in histories' : h \in H \/ (h.placeholder /\ h.id \in Ids /\ IsNext(h.id))
      /\ I \subseteq instances' /\ H \subseteq histories'
  BY <1>1 DEF Added, PlaceholderInstance, PlaceholderHistory
<1>3. \A x \in Docs' : \/ \E y \in Docs : y.placeholder = x.placeholder /\ y.id = x.id /\ y.key = x.key
                       \/ x.placeholder /\ x.id \in Ids /\ IsNext(x.id)
  <2>1. \A x \in I : \E y \in Docs : y.placeholder = x.placeholder /\ y.id = x.id /\ y.key = x.key
    BY <1>1 DEF Left
  <2>2. \A x \in instTodo' : \E y \in Docs : y.placeholder = x.placeholder /\ y.id = x.id /\ y.key = x.key
    BY DEF PlatformEffect
  <2>3. \A x \in Docs' : x \in instances' \/ x \in instTodo'
    BY DEF Docs
  <2> QED
    BY <1>2, <2>1, <2>2, <2>3
<1>4. \A h \in histories' : h \in histories \/ (h.placeholder /\ h.id \in Ids /\ IsNext(h.id))
  BY <1>1, <1>2 DEF Left
<1>5. \A i, k : Mention(i, k)' => Mention(i, k)
  <2>1. UNCHANGED <<engine, msgs>>
    BY DEF PlatformEffect
  <2>2. ASSUME NEW d \in Docs' \cup histories', ~d.placeholder
        PROVE  \E y \in Docs \cup histories : ~y.placeholder /\ y.id = d.id /\ y.key = d.key
    BY <1>3, <1>4, <2>2
  <2> QED
    BY <2>1, <2>2 DEF Mention
<1>6. \A h \in histories : ~h.placeholder => h \in histories'
  BY <1>1, <1>2 DEF Left
<1>7. \A i, k : RealDoc(i, k) => RealDoc(i, k)'
  <2>1. \A x \in instances : ~x.placeholder =>
           \E y \in instances' : ~y.placeholder /\ y.id = x.id /\ y.key = x.key
    BY <1>1, <1>2 DEF Left
  <2> QED
    BY <1>6, <2>1 DEF RealDoc
<1>8. \A i : (Written(i) => Written(i)') /\ (Recorded(i) => Recorded(i)')
  BY <1>6 DEF Written, Recorded, PlatformEffect
<1>9. \A x \in instances' : ~x.placeholder =>
         \/ \E y \in instances : ~y.placeholder /\ y.id = x.id /\ y.key = x.key
         \/ warden[x.key] = "none"
  BY <1>1, <1>2 DEF Left
<1> QED
  BY <1>3, <1>4, <1>5, <1>7, <1>8, <1>9

LEMMA PlatformBook ==
    ASSUME BookInv, PlatformEffect
    PROVE  BookInv'
<1> USE DEF BookInv
<1>0. UNCHANGED <<engine, msgs>>
  BY DEF PlatformEffect
<1>1. KeysAgree'
  BY PlatformRecords DEF KeysAgree
<1>2. PlaceholdersApart'
  <2> SUFFICES ASSUME NEW p \in Docs' \cup histories', p.placeholder
               PROVE  /\ \A k : ~Mention(p.id, k)'
                      /\ \A n \in DOMAIN msgs : p.id \notin Mentioned(msgs[n])
    BY <1>0 DEF PlaceholdersApart, Mentioned
  <2>1. CASE \E q \in Docs \cup histories : q.placeholder /\ q.id = p.id
    BY <2>1, PlatformRecords DEF PlaceholdersApart
  <2>2. CASE p.id \in Ids /\ IsNext(p.id)
    <3>1. p.id \notin UsedIds
      BY <2>2, NextIdIsNew
    <3>2. \A k : ~Mention(p.id, k)'
      BY <3>1, PlatformRecords, MentionsUsed
    <3> QED
      BY <3>1, <3>2 DEF UsedIds
  <2> QED
    BY <2>1, <2>2, PlatformRecords
<1>3. WrittenFirst'
  BY <1>0, PlatformRecords DEF WrittenFirst
<1>4. PlaceholdersPaired'
  <2>1. CASE SomeReal
    <3>1. PICK x \in instances \cup histories : ~x.placeholder
      BY <2>1 DEF SomeReal
    <3>2. RealDoc(x.id, x.key)'
      BY <3>1, PlatformRecords DEF RealDoc
    <3> QED
      BY <3>2 DEF RealDoc, SomeReal, PlaceholdersPaired
  <2>2. CASE \A h \in histories : Paired(h, instances)
    <3>1. PICK I, H : Left(I, H) /\ Added(I, H)
      BY DEF PlatformEffect
    <3>2. \A h \in H : Paired(h, I)
      BY <2>2, <3>1 DEF Left
    <3>3. I \subseteq instances'
      BY <3>1 DEF Added
    <3>4. \A h \in H : Paired(h, instances')
      BY <3>2, <3>3 DEF Paired
    <3>5. ASSUME NEW h \in histories' \ H PROVE Paired(h, instances')
      <4>1. PICK i \in Ids, k \in AllKeys :
               /\ instances' = I \cup {PlaceholderInstance(i, k)}
               /\ h = PlaceholderHistory(i, k)
        BY <3>1, <3>5 DEF Added
      <4>2. /\ PlaceholderInstance(i, k).placeholder
            /\ PlaceholderInstance(i, k).id = h.id /\ PlaceholderInstance(i, k).key = h.key
        BY <4>1 DEF PlaceholderInstance, PlaceholderHistory
      <4> QED
        BY <4>1, <4>2 DEF Paired
    <3> QED
      BY <3>4, <3>5 DEF PlaceholdersPaired, Paired
  <2> QED
    BY <2>1, <2>2 DEF PlaceholdersPaired
<1>5. HistoriesInOrder'
  <2> SUFFICES ASSUME NEW p \in histories', NEW h \in histories', p.placeholder, ~h.placeholder
               PROVE  h.id < p.id
    BY DEF HistoriesInOrder
  <2>1. h \in histories /\ h.id \in UsedIds
    BY PlatformRecords DEF UsedIds, IdsOf
  <2>2. p \in histories \/ IsNext(p.id)
    BY PlatformRecords
  <2> QED
    BY <2>1, <2>2 DEF HistoriesInOrder, IsNext
<1> QED
  BY <1>1, <1>2, <1>3, <1>4, <1>5
-----------------------------------------------------------------------------
(* What a handler does with the message h.                                 *)
Handled(h) ==
    /\ 1 \in DOMAIN msgs /\ msgs[1] = h /\ DOMAIN msgs \subseteq Nat
    /\ \A n \in DOMAIN msgs : n # 1 => n > 1 /\ n - 1 \in DOMAIN msgs' /\ msgs'[n - 1] = msgs[n]
    /\ \A n \in DOMAIN msgs' : n \in Nat /\ n + 1 \in DOMAIN msgs /\ msgs'[n] = msgs[n + 1]
    /\ UNCHANGED <<engine, stops, fresh, instTodo, infoTodo, warden>>
    /\ \/ /\ h.type = "instance"
          /\ \E d : /\ d.id = h.id /\ d.key = h.key /\ ~d.placeholder
                    /\ instances' = Save(WithoutPlaceholders(instances), d)
          /\ UNCHANGED histories
       \/ /\ h.type = "history"
          /\ \E d : /\ d.id = h.id /\ d.key = h.key /\ ~d.placeholder
                    /\ histories' = Save(WithoutPlaceholders(histories), d)
          /\ instances' = WithoutPlaceholders(instances)
       \/ /\ h.type = "instance-delete"
          /\ instances' = Without(instances, {h.id})
          /\ UNCHANGED histories
       \/ /\ h.type = "incident"
          /\ UNCHANGED <<instances, histories>>

LEMMA HandlersHaveEffect ==
    ASSUME TypeOK, DocsInv, Handlers
    PROVE  \E h : Handled(h)
<1> DEFINE h == Head(msgs)
<1> USE DEF docVars, loopVars, cmdVars, clientVars
<1>0. msgs \in Seq(Message)
  BY DEF TypeOK
<1>1. PICK type : Receive(type) /\ type = h.type
  BY DEF Handlers, UpdateProcessInstance, DeleteProcessInstance, DeleteUnknownProcessInstances,
         UpdateHistoricProcessInstance, DeleteHistoricProcessInstance,
         DeleteUnknownHistoricProcessInstances, UpdateIncident, Receive
<1>2. /\ 1 \in DOMAIN msgs /\ msgs[1] = h /\ DOMAIN msgs \subseteq Nat
      /\ \A n \in DOMAIN msgs : n # 1 => n > 1 /\ n - 1 \in DOMAIN msgs' /\ msgs'[n - 1] = msgs[n]
      /\ \A n \in DOMAIN msgs' : n \in Nat /\ n + 1 \in DOMAIN msgs /\ msgs'[n] = msgs[n + 1]
  BY <1>0, <1>1, TakenQueue
<1>3. type \in {"instance", "history", "instance-delete", "incident"}
  BY <1>1, <1>2 DEF DocsInv, OneReportEach
<1>4. UNCHANGED <<engine, stops, fresh, instTodo, infoTodo, warden>>
  BY DEF Handlers, UpdateProcessInstance, DeleteProcessInstance, DeleteUnknownProcessInstances,
         UpdateHistoricProcessInstance, DeleteHistoricProcessInstance,
         DeleteUnknownHistoricProcessInstances, UpdateIncident
<1>5. CASE UpdateProcessInstance
  <2>1. \E d : /\ d.id = h.id /\ d.key = h.key /\ ~d.placeholder
               /\ instances' = Save(WithoutPlaceholders(instances), d)
    BY <1>5 DEF UpdateProcessInstance
  <2>2. h.type = "instance" /\ UNCHANGED histories
    BY <1>5 DEF UpdateProcessInstance, Receive
  <2> HIDE DEF h
  <2> QED
    BY <1>2, <1>4, <2>1, <2>2 DEF Handled
<1>6. CASE UpdateHistoricProcessInstance
  <2>1. \E d : /\ d.id = h.id /\ d.key = h.key /\ ~d.placeholder
               /\ histories' = Save(WithoutPlaceholders(histories), d)
    BY <1>6 DEF UpdateHistoricProcessInstance
  <2>2. h.type = "history" /\ instances' = WithoutPlaceholders(instances)
    BY <1>6 DEF UpdateHistoricProcessInstance, Receive
  <2> HIDE DEF h
  <2> QED
    BY <1>2, <1>4, <2>1, <2>2 DEF Handled
<1>7. CASE DeleteProcessInstance
  <2>1. h.type = "instance-delete" /\ instances' = Without(instances, {h.id}) /\ UNCHANGED histories
    BY <1>7 DEF DeleteProcessInstance, Receive
  <2> HIDE DEF h
  <2> QED
    BY <1>2, <1>4, <2>1 DEF Handled
<1>8. CASE UpdateIncident
  <2>1. h.type = "incident" /\ UNCHANGED <<instances, histories>>
    BY <1>8 DEF UpdateIncident, Receive
  <2> HIDE DEF h
  <2> QED
    BY <1>2, <1>4, <2>1 DEF Handled
<1>9. CASE DeleteUnknownProcessInstances \/ DeleteHistoricProcessInstance \/ DeleteUnknownHistoricProcessInstances
  BY <1>1, <1>3, <1>9 DEF DeleteUnknownProcessInstances, DeleteHistoricProcessInstance,
     DeleteUnknownHistoricProcessInstances, Receive
<1> QED
  BY <1>5, <1>6, <1>7, <1>8, <1>9 DEF Handlers

(* Handlers put no runs on record, and keep what is written.               *)
LEMMA HandledRecords ==
    ASSUME KeysAgree, WrittenFirst, NEW h, Handled(h)
    PROVE  /\ \A i, k : Mention(i, k)' => Mention(i, k)
           /\ \A i, k : RealDoc(i, k) => RealDoc(i, k)'
           /\ \A i : (Written(i) => Written(i)') /\ (Recorded(i) => Recorded(i)')
           /\ \A p \in Docs' \cup histories' : p.placeholder => p \in Docs \cup histories
           /\ \A p \in histories' : p.placeholder => p \in histories /\ histories' = histories
<1>1. /\ \A x \in instances' : \/ x \in instances
                               \/ ~x.placeholder /\ h.type = "instance" /\ x.id = h.id /\ x.key = h.key
      /\ \A x \in histories' : \/ x \in histories
                               \/ ~x.placeholder /\ h.type = "history" /\ x.id = h.id /\ x.key = h.key
  BY DEF Handled, Save, WithoutPlaceholders, Without
<1>2. /\ UNCHANGED <<engine, instTodo>>
      /\ 1 \in DOMAIN msgs /\ msgs[1] = h
      /\ \A n \in DOMAIN msgs' : \E m \in DOMAIN msgs : msgs'[n] = msgs[m]
      /\ \A n \in DOMAIN msgs : n = 1 \/ \E m \in DOMAIN msgs' : msgs'[m] = msgs[n]
  BY DEF Handled
<1>3. \A i, k : Mention(i, k)' => Mention(i, k)
  <2> SUFFICES ASSUME NEW i, NEW k, Mention(i, k)' PROVE Mention(i, k)
    OBVIOUS
  <2>1. CASE \E d \in Docs' \cup histories' : ~d.placeholder /\ d.id = i /\ d.key = k
    <3>1. PICK d \in Docs' \cup histories' : ~d.placeholder /\ d.id = i /\ d.key = k
      BY <2>1
    <3>2. \/ d \in Docs \cup histories
          \/ h.type \in {"instance", "history"} /\ h.id = i /\ h.key = k
      BY <1>1, <1>2, <3>1 DEF Docs
    <3> QED
      BY <1>2, <3>1, <3>2 DEF Mention
  <2>2. CASE \E n \in DOMAIN msgs' :
                msgs'[n].type \in {"instance", "history"} /\ msgs'[n].id = i /\ msgs'[n].key = k
    BY <1>2, <2>2 DEF Mention
  <2>3. CASE \E r \in engine : r.id = i /\ r.key = k
    BY <2>3 DEF Mention
  <2> QED
    BY <1>2, <2>1, <2>2, <2>3 DEF Mention
<1>4. /\ \A x \in histories : ~x.placeholder =>
            \E y \in histories' :
               /\ ~y.placeholder /\ y.id = x.id
               /\ y = x \/ (y.key = h.key /\ x.id = h.id /\ h.type = "history")
      /\ h.type = "history" => Written(h.id)'
  <2>1. CASE h.type = "history"
    <3>1. PICK d : /\ d.id = h.id /\ d.key = h.key /\ ~d.placeholder
                   /\ histories' = Save(WithoutPlaceholders(histories), d)
      BY <2>1 DEF Handled
    <3>2. d \in histories' /\ \A x \in histories : ~x.placeholder /\ x.id # h.id => x \in histories'
      BY <3>1 DEF Save, WithoutPlaceholders
    <3>3. ASSUME NEW x \in histories, ~x.placeholder
          PROVE  x \in histories' \/ (d.key = h.key /\ x.id = d.id)
      BY <3>1, <3>2, <3>3
    <3>4. Written(h.id)'
      BY <3>1, <3>2 DEF Written
    <3> QED
      BY <2>1, <3>1, <3>2, <3>3, <3>4
  <2>2. CASE h.type # "history"
    <3>1. histories' = histories
      BY <2>2 DEF Handled
    <3> QED
      BY <2>2, <3>1
  <2> QED
    BY <2>1, <2>2
<1>5. \A i : (Written(i) => Written(i)') /\ (Recorded(i) => Recorded(i)')
  BY <1>2, <1>4 DEF Written, Recorded
<1>6. \A i : h.type = "history" /\ h.id = i => Mention(i, h.key)
  BY <1>2 DEF Mention
<1>7. \A x \in histories : ~x.placeholder => RealDoc(x.id, x.key)'
  <2> SUFFICES ASSUME NEW x \in histories, ~x.placeholder PROVE RealDoc(x.id, x.key)'
    OBVIOUS
  <2>1. PICK y \in histories' :
           /\ ~y.placeholder /\ y.id = x.id
           /\ y = x \/ (y.key = h.key /\ x.id = h.id /\ h.type = "history")
    BY <1>4
  <2>2. Mention(x.id, x.key)
    BY DEF Mention
  <2>3. y.key = x.key
    BY <1>6, <2>1, <2>2 DEF KeysAgree
  <2> QED
    BY <2>1, <2>3 DEF RealDoc
<1>8. ASSUME NEW x \in instances, ~x.placeholder PROVE RealDoc(x.id, x.key)'
  <2>0. Mention(x.id, x.key)
    BY <1>8 DEF Mention, Docs
  <2>1. CASE h.type = "instance"
    <3>1. PICK d : /\ d.id = h.id /\ d.key = h.key /\ ~d.placeholder
                   /\ instances' = Save(WithoutPlaceholders(instances), d)
      BY <2>1 DEF Handled
    <3>2. Mention(h.id, h.key)
      BY <1>2, <2>1 DEF Mention
    <3>3. x.id = d.id => d.key = x.key
      BY <2>0, <3>1, <3>2 DEF KeysAgree
    <3> QED
      BY <1>8, <3>1, <3>3 DEF Save, WithoutPlaceholders, RealDoc
  <2>2. CASE h.type = "instance-delete"
    <3>1. CASE x.id = h.id
      <4>1. Written(h.id)
        <5>1. \A m \in DOMAIN msgs : m \in Nat /\ (m = 1 \/ m > 1)
          BY DEF Handled
        <5>2. \A m \in DOMAIN msgs : ~(m < 1)
          BY <5>1
        <5> QED
          BY <1>2, <2>2, <5>2 DEF WrittenFirst
      <4>2. PICK y \in histories : y.id = h.id /\ ~y.placeholder
        BY <4>1 DEF Written
      <4>3. Mention(y.id, y.key)
        BY <4>2 DEF Mention
      <4>4. y.key = x.key
        BY <2>0, <3>1, <4>2, <4>3 DEF KeysAgree
      <4> QED
        BY <1>7, <3>1, <4>2, <4>4
    <3>2. CASE x.id # h.id
      BY <1>8, <2>2, <3>2 DEF Handled, Without, RealDoc
    <3> QED
      BY <3>1, <3>2
  <2>3. CASE h.type \notin {"instance", "instance-delete"}
    BY <1>8, <2>3 DEF Handled, WithoutPlaceholders, RealDoc
  <2> QED
    BY <2>1, <2>2, <2>3
<1>10. \A i, k : RealDoc(i, k) => RealDoc(i, k)'
  BY <1>7, <1>8 DEF RealDoc
<1>11. \A p \in Docs' \cup histories' : p.placeholder => p \in Docs \cup histories
  BY <1>1, <1>2 DEF Docs
<1>12. \A p \in histories' : p.placeholder => p \in histories /\ histories' = histories
  BY DEF Handled, Save, WithoutPlaceholders
<1> QED
  BY <1>3, <1>5, <1>10, <1>11, <1>12

LEMMA HandledBook ==
    ASSUME BookInv, NEW h, Handled(h)
    PROVE  BookInv'
<1> USE DEF BookInv
<1>0. /\ UNCHANGED engine /\ 1 \in DOMAIN msgs /\ msgs[1] = h /\ DOMAIN msgs \subseteq Nat
      /\ \A n \in DOMAIN msgs : n # 1 => n > 1 /\ n - 1 \in DOMAIN msgs' /\ msgs'[n - 1] = msgs[n]
      /\ \A n \in DOMAIN msgs' : n \in Nat /\ n + 1 \in DOMAIN msgs /\ msgs'[n] = msgs[n + 1]
  BY DEF Handled
<1>1. KeysAgree'
  BY HandledRecords DEF KeysAgree
<1>2. PlaceholdersApart'
  <2> SUFFICES ASSUME NEW p \in Docs' \cup histories', p.placeholder
               PROVE  /\ \A k : ~Mention(p.id, k)'
                      /\ \A n \in DOMAIN msgs' : p.id \notin Mentioned(msgs'[n])
    BY DEF PlaceholdersApart, Mentioned
  <2>1. p \in Docs \cup histories
    BY HandledRecords
  <2> QED
    BY <1>0, <2>1, HandledRecords DEF PlaceholdersApart
<1>3. h.type = "history" => Written(h.id)'
  <2> SUFFICES ASSUME h.type = "history" PROVE Written(h.id)'
    OBVIOUS
  <2>1. PICK d : d.id = h.id /\ ~d.placeholder /\ d \in histories'
    BY DEF Handled, Save
  <2> QED
    BY <2>1 DEF Written
<1>4. WrittenFirst'
  <2>1. \A r \in engine' : Recorded(r.id)'
    BY <1>0, HandledRecords DEF WrittenFirst
  <2>2. ASSUME NEW n \in DOMAIN msgs', NEW i, msgs'[n].type = "instance-delete", msgs'[n].id = i
        PROVE  \/ Written(i)'
               \/ \E m \in DOMAIN msgs' : m < n /\ msgs'[m].type = "history" /\ msgs'[m].id = i
    <3>1. n \in Nat /\ n + 1 \in DOMAIN msgs /\ msgs'[n] = msgs[n + 1]
      BY <1>0
    <3>2. CASE Written(i)
      BY <3>2, HandledRecords
    <3>3. ASSUME NEW m \in DOMAIN msgs, m < n + 1, msgs[m].type = "history", msgs[m].id = i
          PROVE  \/ Written(i)'
                 \/ \E j \in DOMAIN msgs' : j < n /\ msgs'[j].type = "history" /\ msgs'[j].id = i
      <4>1. CASE m = 1
        BY <1>0, <1>3, <3>3, <4>1
      <4>2. CASE m # 1
        <5>1. m - 1 \in DOMAIN msgs' /\ msgs'[m - 1] = msgs[m] /\ m \in Nat
          BY <1>0, <4>2
        <5>2. m - 1 < n
          BY <3>1, <3>3, <5>1
        <5> QED
          BY <3>3, <5>1, <5>2
      <4> QED
        BY <4>1, <4>2
    <3> QED
      BY <2>2, <3>1, <3>2, <3>3 DEF WrittenFirst
  <2> QED
    BY <2>1, <2>2 DEF WrittenFirst
<1>5. PlaceholdersPaired'
  <2>1. CASE SomeReal
    <3>1. PICK x \in instances \cup histories : ~x.placeholder
      BY <2>1 DEF SomeReal
    <3>2. RealDoc(x.id, x.key)'
      BY <3>1, HandledRecords DEF RealDoc
    <3> QED
      BY <3>2 DEF RealDoc, SomeReal, PlaceholdersPaired
  <2>2. CASE h.type \in {"instance", "history"}
    <3>1. \E d \in instances' \cup histories' : ~d.placeholder
      BY <2>2 DEF Handled, Save
    <3> QED
      BY <3>1 DEF SomeReal, PlaceholdersPaired
  <2>3. CASE h.type = "instance-delete"
    <3>1. \A m \in DOMAIN msgs : ~(m < 1)
      BY <1>0
    <3>2. Written(h.id)
      BY <1>0, <2>3, <3>1 DEF WrittenFirst
    <3> QED
      BY <2>1, <3>2 DEF Written, SomeReal
  <2>4. CASE UNCHANGED <<instances, histories>>
    BY <2>4 DEF PlaceholdersPaired, SomeReal, Paired
  <2> QED
    BY <2>1, <2>2, <2>3, <2>4 DEF Handled
<1>6. HistoriesInOrder'
  BY HandledRecords DEF HistoriesInOrder
<1> QED
  BY <1>1, <1>2, <1>4, <1>5, <1>6
-----------------------------------------------------------------------------
(* What the client sends: the messages a and b, in either order.           *)
Sent(a, b) ==
    /\ \A n \in DOMAIN msgs : n \in DOMAIN msgs' /\ msgs'[n] = msgs[n]
    /\ \A n \in DOMAIN msgs' \ DOMAIN msgs : msgs'[n] \in {a, b} /\ \A m \in DOMAIN msgs : m < n
    /\ \E n \in DOMAIN msgs' : msgs'[n] = a
    /\ \E n \in DOMAIN msgs' : msgs'[n] = b

Begun(r) ==
    /\ r \in Run /\ IsNext(r.id)
    /\ engine' = engine \cup {r} /\ fresh' = fresh \cup {r.id}
    /\ Sent(InstanceMessage(r), HistoryMessage(r))

Over(r) ==
    /\ r \in engine /\ engine' = engine \ {r} /\ UNCHANGED fresh
    /\ \E m \in {HistoryMessage(r), IncidentMessage(r.id)} : Sent(EndMessage(r.id), m)

LEMMA ClientSent ==
    ASSUME msgs \in Seq(Message), NEW a \in Message, NEW b \in Message,
           ClientSends(<<a, b>>) \/ ClientSends(<<b, a>>)
    PROVE  Sent(a, b)
<1>1. ASSUME NEW x \in Message, NEW y \in Message, ClientSends(<<x, y>>)
      PROVE  Sent(x, y)
  <2> DEFINE s == <<x, y>>
  <2>1. s \in Seq(Message) /\ DOMAIN s = {1, 2} /\ s[1] = x /\ s[2] = y /\ ClientSends(s)
    BY <1>1
  <2> HIDE DEF s
  <2>2. /\ \A n \in DOMAIN msgs : n \in DOMAIN msgs' /\ msgs'[n] = msgs[n]
        /\ \A k \in DOMAIN s : Len(msgs) + k \in DOMAIN msgs' /\ msgs'[Len(msgs) + k] = s[k]
        /\ \A n \in DOMAIN msgs' : n \in DOMAIN msgs \/ \E k \in DOMAIN s : n = Len(msgs) + k
        /\ \A n \in DOMAIN msgs, k \in DOMAIN s : Len(msgs) + k > n
    BY <2>1, SentQueue
  <2>3. ASSUME NEW n \in DOMAIN msgs' \ DOMAIN msgs
        PROVE  msgs'[n] \in {x, y} /\ \A m \in DOMAIN msgs : m < n
    <3>1. PICK k \in DOMAIN s : n = Len(msgs) + k
      BY <2>2
    <3>2. msgs'[n] = s[k] /\ s[k] \in {x, y}
      BY <2>1, <2>2, <3>1
    <3>3. \A m \in DOMAIN msgs : m < n
      BY <2>1, <2>2, <3>1
    <3> QED
      BY <3>2, <3>3
  <2> QED
    BY <2>1, <2>2, <2>3 DEF Sent
<1> QED
  BY <1>1 DEF Sent

LEMMA EndIsOver ==
    ASSUME TypeOK, NEW r \in engine, RunEnds(r) \/ RunFails(r)
    PROVE  Over(r)
<1> USE DEF docVars
<1>1. EndMessage(r.id) \in Message /\ HistoryMessage(r) \in Message /\ IncidentMessage(r.id) \in Message
  BY RunMessages DEF TypeOK
<1>2. \/ ClientSends(<<EndMessage(r.id), HistoryMessage(r)>>)
      \/ ClientSends(<<EndMessage(r.id), IncidentMessage(r.id)>>)
      \/ ClientSends(<<IncidentMessage(r.id), EndMessage(r.id)>>)
  BY DEF RunEnds, RunFails
<1>3. Sent(EndMessage(r.id), HistoryMessage(r)) \/ Sent(EndMessage(r.id), IncidentMessage(r.id))
  BY <1>1, <1>2, ClientSent DEF TypeOK
<1> QED
  BY <1>3 DEF Over, RunEnds, RunFails

LEMMA ClientHasEffect ==
    ASSUME TypeOK, ClientObeys \/ RunsEnd
    PROVE  /\ UNCHANGED <<instances, instTodo, histories, warden, infoTodo>>
           /\ stops' \subseteq stops
           /\ \/ UNCHANGED <<engine, msgs, fresh>>
              \/ \E r : Begun(r)
              \/ \E r : Over(r) /\ (ClientObeys => r.id \in stops)
<1> USE DEF loopVars, docVars, cmdVars, clientVars
<1>0. msgs \in Seq(Message) /\ engine \subseteq Run
  BY DEF TypeOK
<1>1. ASSUME NEW k \in AllKeys, ClientRuns(k) PROVE \E r : Begun(r)
  <2>1. PICK i \in Ids :
           LET r == [id |-> i, key |-> k] IN
           /\ IsNext(i) /\ engine' = engine \cup {r} /\ fresh' = fresh \cup {i}
           /\ \/ ClientSends(<<InstanceMessage(r), HistoryMessage(r)>>)
              \/ ClientSends(<<HistoryMessage(r), InstanceMessage(r)>>)
    BY <1>1 DEF ClientRuns
  <2> DEFINE r == [id |-> i, key |-> k]
  <2>2. /\ r \in Run /\ r.id = i /\ engine' = engine \cup {r}
        /\ \/ ClientSends(<<InstanceMessage(r), HistoryMessage(r)>>)
           \/ ClientSends(<<HistoryMessage(r), InstanceMessage(r)>>)
    BY <2>1 DEF Run
  <2> HIDE DEF r
  <2>3. Sent(InstanceMessage(r), HistoryMessage(r))
    BY <1>0, <2>2, RunMessages, ClientSent
  <2> QED
    BY <2>1, <2>2, <2>3 DEF Begun
<1>3. CASE \E k \in AllKeys : ClientStart(k)
  BY <1>1, <1>3 DEF ClientStart
<1>4. ASSUME NEW i \in stops, ClientStop(i)
      PROVE  /\ UNCHANGED <<instances, instTodo, histories, warden, infoTodo>>
             /\ stops' \subseteq stops
             /\ UNCHANGED <<engine, msgs, fresh>> \/ \E r : Over(r) /\ r.id \in stops
  BY <1>4, EndIsOver DEF ClientStop, RunEnds
<1>5. CASE RunsEnd /\ ~ClientObeys
  BY <1>5, EndIsOver DEF RunsEnd, RunFinishes, RunFails, RunEnds
<1> QED
  BY <1>3, <1>4, <1>5 DEF ClientObeys

LEMMA SentMessages ==
    ASSUME NEW a, NEW b, Sent(a, b)
    PROVE  /\ \A n \in DOMAIN msgs' : (n \in DOMAIN msgs /\ msgs'[n] = msgs[n]) \/ msgs'[n] \in {a, b}
           /\ \A i : Recorded(i) /\ UNCHANGED histories => Recorded(i)'
BY DEF Sent, Recorded, Written

(* A run that begins is put on record under an id of its own.              *)
LEMMA BegunRecords ==
    ASSUME NEW r, Begun(r), UNCHANGED <<instances, instTodo, histories>>
    PROVE  /\ r.id \notin UsedIds /\ \A k : ~Mention(r.id, k)
           /\ \A i, k : Mention(i, k)' => Mention(i, k) \/ (i = r.id /\ k = r.key)
<1>1. r.id \in Ids
  BY DEF Begun, Run
<1>2. r.id \notin UsedIds
  BY <1>1, NextIdIsNew DEF Begun
<1>3. /\ InstanceMessage(r).id = r.id /\ InstanceMessage(r).key = r.key
      /\ HistoryMessage(r).id = r.id /\ HistoryMessage(r).key = r.key
  BY DEF InstanceMessage, HistoryMessage
<1>4. \A n \in DOMAIN msgs' : \/ n \in DOMAIN msgs /\ msgs'[n] = msgs[n]
                              \/ msgs'[n].id = r.id /\ msgs'[n].key = r.key
  BY <1>3, SentMessages DEF Begun
<1>5. \A i, k : Mention(i, k)' => Mention(i, k) \/ (i = r.id /\ k = r.key)
  BY <1>4 DEF Mention, Begun, Docs
<1> QED
  BY <1>2, <1>5, MentionsUsed

LEMMA OverRecords ==
    ASSUME NEW r, Over(r), UNCHANGED <<instances, instTodo, histories>>
    PROVE  /\ Mention(r.id, r.key)
           /\ \A i, k : Mention(i, k)' => Mention(i, k)
<1>1. Mention(r.id, r.key)
  BY DEF Over, Mention
<1>2. PICK m \in {HistoryMessage(r), IncidentMessage(r.id)} : Sent(EndMessage(r.id), m)
  BY DEF Over
<1>3. /\ EndMessage(r.id).type = "instance-delete" /\ IncidentMessage(r.id).type = "incident"
      /\ HistoryMessage(r).id = r.id /\ HistoryMessage(r).key = r.key
  BY DEF EndMessage, HistoryMessage, IncidentMessage
<1>4. \A n \in DOMAIN msgs' : \/ n \in DOMAIN msgs /\ msgs'[n] = msgs[n]
                              \/ msgs'[n].id = r.id /\ msgs'[n].key = r.key
                              \/ msgs'[n].type \notin {"instance", "history"}
  BY <1>2, <1>3, SentMessages
<1>5. \A i, k : Mention(i, k)' => Mention(i, k)
  BY <1>1, <1>4 DEF Mention, Over, Docs
<1> QED
  BY <1>1, <1>5

LEMMA ClientBook ==
    ASSUME BookInv, TypeOK, ClientObeys \/ RunsEnd
    PROVE  BookInv'
<1> USE DEF BookInv
<1>0. UNCHANGED <<instances, instTodo, histories>>
  BY ClientHasEffect
<1>1. PlaceholdersPaired' /\ HistoriesInOrder'
  BY <1>0 DEF PlaceholdersPaired, SomeReal, HistoriesInOrder, Paired
<1>2. ASSUME UNCHANGED <<engine, msgs>> PROVE BookInv'
  <2>1. \A i, k : Mention(i, k)' <=> Mention(i, k)
    BY <1>0, <1>2 DEF Mention, Docs
  <2>2. \A i : (Recorded(i)' <=> Recorded(i)) /\ (Written(i)' <=> Written(i))
    BY <1>0, <1>2 DEF Recorded, Written
  <2>3. KeysAgree'
    BY <2>1 DEF KeysAgree
  <2>4. PlaceholdersApart'
    BY <1>0, <1>2, <2>1 DEF PlaceholdersApart, Docs
  <2>5. WrittenFirst'
    BY <1>2, <2>2 DEF WrittenFirst
  <2> QED
    BY <1>1, <2>3, <2>4, <2>5
<1>3. ASSUME NEW a, NEW b, Sent(a, b), NEW i, Mentioned(a) = {i}, Mentioned(b) = {i},
             \A p \in Docs \cup histories : p.placeholder => p.id # i,
             \A p \in Docs \cup histories : p.placeholder => \A k : ~Mention(p.id, k)'
      PROVE  PlaceholdersApart'
  <2> SUFFICES ASSUME NEW p \in Docs \cup histories, p.placeholder
               PROVE  /\ \A k : ~Mention(p.id, k)'
                      /\ \A n \in DOMAIN msgs' : p.id \notin Mentioned(msgs'[n])
    BY <1>0 DEF PlaceholdersApart, Mentioned, Docs
  <2>1. \A n \in DOMAIN msgs : p.id \notin Mentioned(msgs[n])
    BY DEF PlaceholdersApart
  <2> QED
    BY <1>3, <2>1, SentMessages
<1>4. ASSUME NEW r, Begun(r) PROVE BookInv'
  <2>1. KeysAgree'
    BY <1>0, <1>4, BegunRecords DEF KeysAgree
  <2>2. /\ InstanceMessage(r).type = "instance" /\ InstanceMessage(r).id = r.id
        /\ HistoryMessage(r).type = "history" /\ HistoryMessage(r).id = r.id
    BY DEF InstanceMessage, HistoryMessage
  <2>3. \A p \in Docs \cup histories : p.placeholder => p.id # r.id
    BY <1>0, <1>4, BegunRecords DEF UsedIds, IdsOf, Docs
  <2>4. \A p \in Docs \cup histories : p.placeholder => \A k : ~Mention(p.id, k)'
    BY <1>0, <1>4, <2>3, BegunRecords DEF PlaceholdersApart
  <2>5. Sent(InstanceMessage(r), HistoryMessage(r))
    BY <1>4 DEF Begun
  <2>6. PlaceholdersApart'
    <3>1. Mentioned(InstanceMessage(r)) = {r.id} /\ Mentioned(HistoryMessage(r)) = {r.id}
      BY <2>2 DEF Mentioned
    <3> QED
      BY <1>3, <2>3, <2>4, <2>5, <3>1
  <2>7. Recorded(r.id)'
    BY <2>2, <2>5 DEF Sent, Recorded
  <2>8. WrittenFirst'
    <3>1. \A t \in engine' : Recorded(t.id)'
      BY <1>0, <1>4, <2>5, <2>7, SentMessages DEF Begun, WrittenFirst
    <3>2. \A n \in DOMAIN msgs' : msgs'[n].type = "instance-delete" => n \in DOMAIN msgs
      BY <2>2, <2>5 DEF Sent
    <3> QED
      BY <1>0, <2>5, <3>1, <3>2 DEF Sent, WrittenFirst, Written
  <2> QED
    BY <1>1, <2>1, <2>6, <2>8
<1>5. ASSUME NEW r, Over(r) PROVE BookInv'
  <2>1. KeysAgree'
    BY <1>0, <1>5, OverRecords DEF KeysAgree
  <2>2. PICK m \in {HistoryMessage(r), IncidentMessage(r.id)} : Sent(EndMessage(r.id), m)
    BY <1>5 DEF Over
  <2>3. /\ EndMessage(r.id).type = "instance-delete" /\ EndMessage(r.id).id = r.id
        /\ m.type \in {"history", "incident"} /\ m.id = r.id
    BY DEF EndMessage, HistoryMessage, IncidentMessage
  <2>4. \A p \in Docs \cup histories : p.placeholder => p.id # r.id /\ \A k : ~Mention(p.id, k)'
    BY <1>0, <1>5, OverRecords DEF PlaceholdersApart
  <2>5. PlaceholdersApart'
    <3>1. Mentioned(EndMessage(r.id)) = {r.id} /\ Mentioned(m) = {r.id}
      BY <2>3 DEF Mentioned
    <3> QED
      BY <1>3, <2>2, <2>4, <3>1
  <2>6. WrittenFirst'
    <3>1. \A t \in engine' : Recorded(t.id)'
      BY <1>0, <1>5, <2>2, SentMessages DEF Over, WrittenFirst
    <3>2. ASSUME NEW n \in DOMAIN msgs', NEW i, msgs'[n].type = "instance-delete", msgs'[n].id = i
          PROVE  \/ Written(i)'
                 \/ \E j \in DOMAIN msgs' : j < n /\ msgs'[j].type = "history" /\ msgs'[j].id = i
      <4>1. CASE n \in DOMAIN msgs
        BY <1>0, <2>2, <3>2, <4>1 DEF Sent, WrittenFirst, Written
      <4>2. CASE n \notin DOMAIN msgs
        <5>1. i = r.id /\ \A j \in DOMAIN msgs : j < n
          BY <2>2, <2>3, <3>2, <4>2 DEF Sent
        <5>2. Recorded(i)
          BY <1>5, <5>1 DEF Over, WrittenFirst
        <5> QED
          BY <1>0, <2>2, <5>1, <5>2 DEF Sent, Recorded, Written
      <4> QED
        BY <4>1, <4>2
    <3> QED
      BY <3>1, <3>2 DEF WrittenFirst
  <2> QED
    BY <1>1, <2>1, <2>5, <2>6
<1> QED
  BY <1>2, <1>4, <1>5, ClientHasEffect

-----------------------------------------------------------------------------
(* A guarded key none of whose runs ended by itself.                       *)
Guarded(k) == warden[k] # "none" /\ lastEnd[k] = "none"

(* A run whose stop is in flight has its document.                         *)
StoppedShown == \A r \in engine : r.id \in stops => Shown(r)

(* A run that is reported goes on, or has its document.                    *)
Remembered(k) ==
    lastEnd[k] = "none" =>
        \A n \in DOMAIN msgs : msgs[n].type \in {"instance", "history"} /\ msgs[n].key = k =>
            \/ \E r \in engine : r.id = msgs[n].id /\ r.key = k
            \/ RealDoc(msgs[n].id, k)

(* Of a guarded key that ever ran a run goes on that nobody stops ...      *)
Going(k) ==
    Guarded(k) /\ (\E i : Mention(i, k)) => \E r \in RunsOf(k) : r.id \notin stops

(* ... with its document, once it is as old as the age gate.               *)
GoingShown(k) ==
    Guarded(k) /\ (\E i : i \notin fresh /\ Mention(i, k)) =>
        \E r \in RunsOf(k) : r.id \notin stops /\ Shown(r)

(* Of a guarded key the end of a run is on the way as long as its document *)
(* is there, and no check meets it.                                        *)
EndsReported(k) ==
    Guarded(k) =>
        /\ \A x \in InstancesOf(k) : ~x.placeholder /\ x.id \notin IdsOf(engine) =>
              /\ Settled(k)
              /\ \E n \in DOMAIN msgs : msgs[n].type = "instance-delete" /\ msgs[n].id = x.id
        /\ \A n \in DOMAIN msgs :
              msgs[n].type = "instance" /\ msgs[n].key = k => msgs[n].id \in IdsOf(engine)

KeyInv(k) == Remembered(k) /\ Going(k) /\ GoingShown(k) /\ EndsReported(k)

DeploymentThere == deployment \in Startable \/ (deplGuarded /\ deployment = "none")

EndsType == lastEnd \in [AllKeys -> {"none", "finished", "failed"}]

DroppedInv ==
    /\ CauseInv /\ RunsReported /\ BookInv /\ EndsType
    /\ DeploymentThere /\ StoppedShown
    /\ \A k \in Keys : KeyInv(k)

MCPlatformSteps ==
    \/ MCApiSteps \/ MCRequests \/ MCBeginLoop \/ MCCheckSteps \/ MCAgeGatePasses
    \/ (Restart \/ CommandLosses) /\ UNCHANGED <<rested, lastEnd>>

(* With commands and restarts as the only disturbances.                    *)
LEMMA MCUndisturbedStep ==
    ASSUME Disturbances \cap {"deployment", "reports", "messages", "reset"} = {}, MCNext
    PROVE  \/ MCPlatformSteps \/ MCRunsEnd
           \/ (Handlers \/ ClientObeys) /\ UNCHANGED <<rested, lastEnd>>
<1>1. /\ "deployment" \notin Disturbances /\ "reports" \notin Disturbances
      /\ "messages" \notin Disturbances /\ "reset" \notin Disturbances
  OBVIOUS
<1>2. CASE MCDisturbances
  BY <1>1, <1>2 DEF MCDisturbances, MCPlatformSteps
<1> QED
  BY <1>2 DEF MCNext, MCPlatformSteps, MCHandlers, MCClientObeys, Unbounded

LEMMA MCPlatformStep ==
    ASSUME MCPlatformSteps
    PROVE  (PlatformSteps \/ CommandLosses) /\ UNCHANGED lastEnd
BY DEF MCPlatformSteps, PlatformSteps, MCApiSteps, MCRequests, MCUserRequests, UserRequests,
       MCBeginLoop, MCCheckSteps, MCAgeGatePasses, Unbounded

(* Who becomes guarded was not in use.                                     *)
LEMMA GuardSet ==
    ASSUME TypeOK, MCPlatformSteps, NEW k \in Keys, warden'[k] # "none", warden[k] = "none"
    PROVE  AddInstanceWarden(k) /\ ~InUse(k)
<1> USE DEF cmdVars, docVars, clientVars, loopVars, ghostVars
<1>1. CASE MCRequests
  <2>1. PICK c \in Keys : (InUse(c) => KeyReuse /\ warden[c] # "none") /\ AddInstanceWarden(c)
    BY <1>1 DEF MCRequests, MCUserRequests, DeleteProcessInstanceByBusinessKey,
       ApiDeleteProcessInstance, ApiDeletePlaceholderHistory, ClearGuards
  <2>2. c = k
    BY <2>1 DEF AddInstanceWarden, TypeOK
  <2> QED
    BY <2>1, <2>2
<1>2. CASE MCCheckSteps
  BY <1>2, CheckEffect DEF MCCheckSteps, CheckSteps, BeginLoopProcesses, EndLoop,
     CheckProcessInstance, TypeOK
<1>3. CASE MCApiSteps
  BY <1>3 DEF MCApiSteps, ApiSteps, ApiSendStart, ApiRefuseStart, ApiSavePlaceholders,
     RollBackGuard, TypeOK
<1>4. CASE MCBeginLoop \/ Restart \/ CommandLosses
  BY <1>4 DEF MCBeginLoop, BeginLoopWardenDb, Restart, CommandLosses, LoseStart, LoseStop
<1>5. CASE MCAgeGatePasses
  BY <1>5 DEF MCAgeGatePasses, AgeGatePasses, Aged, TypeOK
<1> QED
  BY <1>1, <1>2, <1>3, <1>4, <1>5 DEF MCPlatformSteps

(* The warden resolves duplicates of the key of x, and stops x.            *)
Resolves(x) ==
    /\ infoTodo[x.key] # "none" /\ x \in InstancesOf(x.key)
    /\ \E y \in CanComeFirst(InstancesOf(x.key)) :
          /\ ~InstanceIsYoung(y)
          /\ stops' = stops \cup IdsOf({z \in AllBut(y, InstancesOf(x.key)) : ~z.placeholder})

(* Whoever is stopped has a document, and no guard unless the warden       *)
(* resolves duplicates.                                                    *)
LEMMA PlatformStops ==
    ASSUME TypeOK, PlatformSteps \/ CommandLosses, NEW i \in stops' \ stops
    PROVE  \E x \in Docs : /\ x \in instances' /\ ~x.placeholder /\ x.id = i
                           /\ x.key \in Keys => warden'[x.key] = "none" \/ Resolves(x)
<1> USE DEF cmdVars, docVars, clientVars, loopVars, ghostVars
<1>1. ASSUME NEW S, StopProcessInstancesWithoutWardenHandling(S)
      PROVE  \E x \in S : ~x.placeholder /\ x.id = i /\ x \in instances'
  BY <1>1 DEF StopProcessInstancesWithoutWardenHandling, IdsOf, InstancesAfterStop
<1>2. CASE UserRequests
  <2>1. ASSUME NEW k \in AllKeys, DeleteProcessInstanceByBusinessKey(k)
        PROVE  \E x \in Docs : /\ x \in instances' /\ ~x.placeholder /\ x.id = i
                               /\ x.key \in Keys => warden'[x.key] = "none"
    <3>1. PICK x \in InstancesOf(k) : ~x.placeholder /\ x.id = i /\ x \in instances'
      BY <1>1, <2>1 DEF DeleteProcessInstanceByBusinessKey
    <3>2. x \in Docs /\ x.key = k
      BY DEF InstancesOf, Docs
    <3>3. k \in Keys => warden'[k] = "none"
      BY <2>1 DEF DeleteProcessInstanceByBusinessKey, ClearGuards
    <3> QED
      BY <3>1, <3>2, <3>3
  <2>2. ASSUME NEW z \in instances, ApiDeleteProcessInstance(z)
        PROVE  \E x \in Docs : /\ x \in instances' /\ ~x.placeholder /\ x.id = i
                               /\ x.key \in Keys => warden'[x.key] = "none"
    <3>1. ~z.placeholder /\ z.id = i /\ z \in instances'
      BY <1>1, <2>2 DEF ApiDeleteProcessInstance
    <3>2. z.key \in Keys => warden'[z.key] = "none"
      BY <2>2 DEF ApiDeleteProcessInstance, ClearGuards
    <3> QED
      BY <3>1, <3>2 DEF Docs
  <2> QED
    BY <1>2, <2>1, <2>2 DEF UserRequests, AddInstanceWarden, ApiDeletePlaceholderHistory
<1>3. CASE CheckSteps
  <2>1. ASSUME NEW k \in Keys, CheckWardenInfo(k)
        PROVE  \E x \in Docs : x \in instances' /\ ~x.placeholder /\ x.id = i /\ Resolves(x)
    <3>1. DuplicateInstances(k)
      BY <2>1 DEF CheckWardenInfo, ImmatureInfo, ExpectedInstance, NoAction, MissingWithoutHistory,
       StartNeverSeen, RedeployNeverSeen, ForgetNeverSeen, RemoveInstanceWarden,
       MissingWithHistory, EndIsImmature, EndedWithoutIncident, EndedWithIncident, WardenStart,
       OldPlaceholderInstance
    <3>2. infoTodo[k] # "none"
      BY <3>1 DEF DuplicateInstances, Checked
    <3>3. PICK y \in CanComeFirst(InstancesOf(k)) :
             /\ ~InstanceIsYoung(y)
             /\ StopProcessInstancesWithoutWardenHandling(AllBut(y, InstancesOf(k)))
      BY <3>1 DEF DuplicateInstances
    <3>4. PICK x \in AllBut(y, InstancesOf(k)) : ~x.placeholder /\ x.id = i /\ x \in instances'
      BY <1>1, <3>3
    <3>5. x \in InstancesOf(k) /\ x.key = k /\ x \in Docs
      BY DEF AllBut, InstancesOf, Docs
    <3>6. stops' = stops \cup IdsOf({z \in AllBut(y, InstancesOf(k)) : ~z.placeholder})
      BY <3>3 DEF StopProcessInstancesWithoutWardenHandling
    <3> QED
      BY <3>2, <3>3, <3>4, <3>5, <3>6 DEF Resolves
  <2>2. ASSUME NEW z \in instTodo, CheckProcessInstance(z)
        PROVE  \E x \in Docs : /\ x \in instances' /\ ~x.placeholder /\ x.id = i
                               /\ x.key \in Keys => warden'[x.key] = "none"
    <3>1. /\ warden[z.key] = "none" /\ UNCHANGED warden
          /\ StopProcessInstancesWithoutWardenHandling({z})
      BY <2>2 DEF CheckProcessInstance
    <3> QED
      BY <1>1, <3>1 DEF Docs
  <2> QED
    BY <1>3, <2>1, <2>2 DEF CheckSteps, BeginLoopProcesses, EndLoop
<1>4. CASE ApiSteps \/ BeginLoopWardenDb \/ AgeGatePasses \/ Restart \/ CommandLosses
  BY <1>4 DEF ApiSteps, ApiSendStart, ApiRefuseStart, ApiSavePlaceholders, BeginLoopWardenDb,
     AgeGatePasses, Restart, CommandLosses, LoseStart, LoseStop
<1> QED
  BY <1>2, <1>3, <1>4 DEF PlatformSteps

(* Of a key that is not in use nothing is on record, unless a run of it    *)
(* ended by itself.                                                        *)
LEMMA UnusedUnseen ==
    ASSUME DocsInv, BookInv, NEW k, ~InUse(k), Remembered(k), lastEnd[k] = "none", NEW i
    PROVE  ~Mention(i, k)
<1>1. /\ \A r \in engine : r.key # k
      /\ \A x \in instances : x.key # k
      /\ \A h \in histories : h.key # k
  BY DEF InUse, RunsOf, InstancesOf, HistoriesOf
<1>2. \A j : ~RealDoc(j, k)
  BY <1>1 DEF RealDoc
<1>3. \A n \in DOMAIN msgs : ~(msgs[n].type \in {"instance", "history"} /\ msgs[n].key = k)
  BY <1>1, <1>2 DEF Remembered
<1>4. ASSUME NEW d \in instTodo, ~d.placeholder, d.key = k PROVE FALSE
  <2>1. Recorded(d.id) /\ Mention(d.id, k)
    BY <1>4 DEF DocsInv, PlaceholdersLast, Docs, Mention
  <2>2. CASE Written(d.id)
    <3>1. PICK h \in histories : h.id = d.id /\ ~h.placeholder
      BY <2>2 DEF Written
    <3>2. Mention(d.id, h.key)
      BY <3>1 DEF Mention
    <3> QED
      BY <1>1, <2>1, <3>2 DEF BookInv, KeysAgree
  <2>3. ASSUME NEW n \in DOMAIN msgs, msgs[n].type = "history", msgs[n].id = d.id PROVE FALSE
    <3>1. Mention(d.id, msgs[n].key)
      BY <2>3 DEF Mention
    <3> QED
      BY <1>3, <2>1, <2>3, <3>1 DEF BookInv, KeysAgree
  <2> QED
    BY <2>1, <2>2, <2>3 DEF Recorded
<1> QED
  BY <1>1, <1>3, <1>4 DEF Mention, Docs

(* The platform leaves a guarded key a run that nobody stops.              *)
LEMMA OneLives ==
    ASSUME TypeOK, DocsInv, StopsSettled, RunsReported, PlatformSteps \/ CommandLosses,
           NEW k \in Keys, Guarded(k), warden'[k] # "none", EndsReported(k),
           NEW r \in RunsOf(k), r.id \notin stops
    PROVE  \E t \in RunsOf(k) : t.id \notin stops' /\ (Shown(r) => Shown(t))
<1>1. CASE r.id \notin stops'
  BY <1>1
<1>2. CASE r.id \in stops'
  <2>1. r \in engine /\ r.key = k /\ \A t \in engine : Right(t, instances) /\ Right(t, instTodo)
    BY DEF RunsOf, RunsReported, RunReported
  <2>2. PICK x \in Docs : /\ ~x.placeholder /\ x.id = r.id
                          /\ x.key \in Keys => warden'[x.key] = "none" \/ Resolves(x)
    BY <1>2, PlatformStops
  <2>3. x.key = k /\ Resolves(x)
    BY <2>1, <2>2 DEF Right, Docs
  <2>4. infoTodo[k] # "none" /\ x \in InstancesOf(k)
    BY <2>3 DEF Resolves
  <2>5. PICK y \in CanComeFirst(InstancesOf(k)) :
           /\ ~InstanceIsYoung(y)
           /\ stops' = stops \cup IdsOf({z \in AllBut(y, InstancesOf(k)) : ~z.placeholder})
    BY <2>3 DEF Resolves
  <2>6. y \in InstancesOf(k) /\ ~y.placeholder /\ y.id \notin stops
    BY <2>2, <2>4, <2>5, SparedIsReal DEF Guarded
  <2>7. y \in instances /\ y.key = k
    BY <2>6 DEF InstancesOf
  <2>8. y.id \in IdsOf(engine)
    BY <2>4, <2>6 DEF EndsReported, Settled, Guarded
  <2>9. PICK t \in engine : t.id = y.id
    BY <2>8 DEF IdsOf
  <2>10. t \in RunsOf(k) /\ Shown(t)
    BY <2>1, <2>7, <2>9 DEF Right, RunsOf, Shown, IdsOf
  <2>11. \A z \in AllBut(y, InstancesOf(k)) : z.id # y.id
    BY <2>7 DEF AllBut, InstancesOf, DocsInv, OneDocEach
  <2>12. t.id \notin stops'
    BY <2>5, <2>6, <2>9, <2>11 DEF IdsOf
  <2> QED
    BY <2>10, <2>12
<1> QED
  BY <1>1, <1>2

LEMMA AlwaysListed ==
    ASSUME DocsInv, NEW r
    PROVE  Listed(r)
BY DEF DocsInv, OneReportEach, Listed

LEMMA PlatformKeepsKey ==
    ASSUME Prompt = TRUE, DroppedInv, MCNext, MCPlatformSteps, NEW k \in Keys
    PROVE  KeyInv(k)'
<1>0. /\ TypeOK /\ LoopRests /\ DocsInv /\ StopsSettled /\ RunsReported /\ BookInv /\ KeyInv(k)
      /\ PlatformSteps \/ CommandLosses
      /\ UNCHANGED lastEnd
  BY MCPlatformStep DEF DroppedInv, CauseInv
<1>1. PlatformEffect
  BY <1>0, PlatformHasEffect DEF BookInv
<1>2. UNCHANGED <<engine, msgs>>
  BY <1>1 DEF PlatformEffect
<1>3. Remembered(k)'
  BY <1>0, <1>1, <1>2, PlatformRecords DEF KeyInv, Remembered
<1>4. \A i : Mention(i, k)' => Mention(i, k)
  BY <1>1, PlatformRecords
<1>5. \A r \in engine : Shown(r) => Shown(r)'
  BY <1>0, <1>2, RunsStayReported, AlwaysListed DEF CalmSteps, ClientSteps
<1>6. CASE ~Guarded(k)'
  BY <1>3, <1>6 DEF KeyInv, Going, GoingShown, EndsReported
<1>7. CASE Guarded(k)' /\ warden[k] = "none"
  <2>1. AddInstanceWarden(k) /\ ~InUse(k)
    BY <1>0, <1>7, GuardSet DEF Guarded
  <2>2. \A i : ~Mention(i, k)
    BY <1>0, <1>7, <2>1, UnusedUnseen DEF KeyInv, Guarded
  <2>3. \A i : ~Mention(i, k)'
    BY <1>4, <2>2
  <2>4. UNCHANGED instances /\ InstancesOf(k) = {}
    BY <2>1 DEF AddInstanceWarden, docVars, InUse
  <2>5. EndsReported(k)'
    BY <1>2, <2>2, <2>4 DEF EndsReported, InstancesOf, Mention
  <2> QED
    BY <1>3, <2>3, <2>5 DEF KeyInv, Going, GoingShown
<1>8. CASE Guarded(k)' /\ warden[k] # "none"
  <2>0. Guarded(k) /\ warden'[k] # "none"
    BY <1>0, <1>8 DEF Guarded
  <2>1. Going(k)'
    <3> SUFFICES ASSUME NEW i, Mention(i, k)' PROVE \E r \in RunsOf(k)' : r.id \notin stops'
      BY DEF Going
    <3>1. PICK r \in RunsOf(k) : r.id \notin stops
      BY <1>0, <1>4, <2>0 DEF KeyInv, Going
    <3> QED
      BY <1>0, <1>2, <2>0, <3>1, OneLives DEF KeyInv, RunsOf
  <2>2. GoingShown(k)'
    <3> SUFFICES ASSUME NEW i, i \notin fresh', Mention(i, k)'
                 PROVE  \E r \in RunsOf(k)' : r.id \notin stops' /\ Shown(r)'
      BY DEF GoingShown
    <3>1. PICK r \in RunsOf(k) : r.id \notin stops /\ Shown(r)
      <4>1. CASE MCAgeGatePasses
        <5>1. msgs = <<>>
          BY <4>1 DEF MCAgeGatePasses, Quiet
        <5>2. PICK r \in RunsOf(k) : r.id \notin stops
          BY <1>0, <1>4, <2>0 DEF KeyInv, Going
        <5>3. RunReported(r)
          BY <1>0 DEF RunsReported, RunsOf
        <5> QED
          BY <5>1, <5>2, <5>3 DEF RunReported
      <4>2. CASE fresh \subseteq fresh'
        BY <1>0, <1>4, <2>0, <4>2 DEF KeyInv, GoingShown
      <4>3. CASE ~MCAgeGatePasses
        <5>1. \/ ApiSteps \/ UserRequests \/ BeginLoopWardenDb \/ CheckSteps \/ Restart
              \/ CommandLosses
          BY <4>3 DEF MCPlatformSteps, MCApiSteps, MCRequests, MCUserRequests, UserRequests,
             MCBeginLoop, MCCheckSteps
        <5> QED
          BY <4>2, <5>1, FreshGrows
      <4> QED
        BY <4>1, <4>3
    <3>2. PICK t \in RunsOf(k) : t.id \notin stops' /\ Shown(t)
      BY <1>0, <2>0, <3>1, OneLives DEF KeyInv
    <3> QED
      BY <1>2, <1>5, <3>2 DEF RunsOf
  <2>3. EndsReported(k)'
    <3>1. ASSUME NEW x \in InstancesOf(k)', ~x.placeholder, x.id \notin IdsOf(engine)
          PROVE  /\ Settled(k)'
                 /\ \E n \in DOMAIN msgs : msgs[n].type = "instance-delete" /\ msgs[n].id = x.id
      <4>1. x \in instances' /\ x.key = k
        BY DEF InstancesOf
      <4>2. PICK y \in instances : ~y.placeholder /\ y.id = x.id /\ y.key = k
        BY <1>1, <1>8, <3>1, <4>1, PlatformRecords
      <4>3. y \in InstancesOf(k)
        BY <4>2 DEF InstancesOf
      <4>4. /\ Settled(k)
            /\ \E n \in DOMAIN msgs : msgs[n].type = "instance-delete" /\ msgs[n].id = x.id
        BY <1>0, <2>0, <3>1, <4>2, <4>3 DEF KeyInv, EndsReported
      <4>5. ~MCAgeGatePasses
        BY <4>4 DEF MCAgeGatePasses, Quiet
      <4> QED
        BY <1>0, <4>3, <4>4, <4>5, SettledStays
    <3> QED
      BY <1>0, <1>2, <2>0, <3>1 DEF KeyInv, EndsReported
  <2> QED
    BY <1>3, <2>1, <2>2, <2>3 DEF KeyInv
<1> QED
  BY <1>6, <1>7, <1>8

LEMMA HandledKeepsKey ==
    ASSUME DroppedInv, Handlers, UNCHANGED <<rested, lastEnd>>, NEW k \in Keys
    PROVE  KeyInv(k)'
<1>0. TypeOK /\ DocsInv /\ RunsReported /\ BookInv /\ KeyInv(k)
  BY DEF DroppedInv, CauseInv
<1>1. PICK h : Handled(h)
  BY <1>0, HandlersHaveEffect
<1>2. /\ UNCHANGED <<engine, stops, fresh, infoTodo, warden>>
      /\ 1 \in DOMAIN msgs /\ msgs[1] = h
      /\ \A n \in DOMAIN msgs : n # 1 => n - 1 \in DOMAIN msgs' /\ msgs'[n - 1] = msgs[n]
      /\ \A n \in DOMAIN msgs' : n + 1 \in DOMAIN msgs /\ msgs'[n] = msgs[n + 1]
  BY <1>1 DEF Handled
<1>3. /\ \A i : Mention(i, k)' => Mention(i, k)
      /\ \A i : RealDoc(i, k) => RealDoc(i, k)'
  BY <1>0, <1>1, HandledRecords DEF BookInv
<1>4. \A r \in engine : Shown(r) => Shown(r)'
  BY <1>0, <1>2, RunsStayReported, AlwaysListed DEF CalmSteps
<1>5. Guarded(k)' <=> Guarded(k)
  BY <1>2 DEF Guarded
<1>6. Remembered(k)'
  BY <1>0, <1>2, <1>3 DEF KeyInv, Remembered
<1>7. Going(k)' /\ GoingShown(k)'
  BY <1>0, <1>2, <1>3, <1>4, <1>5 DEF KeyInv, Going, GoingShown, RunsOf
<1>8. EndsReported(k)'
  <2> SUFFICES ASSUME Guarded(k) PROVE EndsReported(k)'
    BY <1>5 DEF EndsReported
  <2>1. \A n \in DOMAIN msgs :
           msgs[n].type = "instance" /\ msgs[n].key = k => msgs[n].id \in IdsOf(engine)
    BY <1>0 DEF KeyInv, EndsReported
  <2>2. ASSUME NEW x \in InstancesOf(k)', ~x.placeholder, x.id \notin IdsOf(engine)
        PROVE  /\ Settled(k)'
               /\ \E n \in DOMAIN msgs' : msgs'[n].type = "instance-delete" /\ msgs'[n].id = x.id
    <3>1. x \in instances' /\ x.key = k
      BY DEF InstancesOf
    <3>2. \/ x \in instances
          \/ h.type = "instance" /\ x.id = h.id /\ x.key = h.key
      BY <1>1, <3>1 DEF Handled, Save, WithoutPlaceholders, Without
    <3>3. x \in InstancesOf(k)
      BY <1>2, <2>1, <2>2, <3>1, <3>2 DEF InstancesOf
    <3>4. PICK n \in DOMAIN msgs : msgs[n].type = "instance-delete" /\ msgs[n].id = x.id
      BY <1>0, <2>2, <3>3 DEF KeyInv, EndsReported
    <3>5. n # 1
      <4> SUFFICES ASSUME n = 1 PROVE FALSE
        OBVIOUS
      <4>1. instances' = Without(instances, {x.id})
        BY <1>1, <1>2, <3>4 DEF Handled
      <4> QED
        BY <3>1, <4>1 DEF Without
    <3>6. Settled(k)'
      BY <1>0, <1>2, <2>2, <3>3 DEF KeyInv, EndsReported, Settled
    <3> QED
      BY <1>2, <3>4, <3>5, <3>6
  <2>3. \A n \in DOMAIN msgs' :
           msgs'[n].type = "instance" /\ msgs'[n].key = k => msgs'[n].id \in IdsOf(engine)
    BY <1>2, <2>1
  <2> QED
    BY <1>2, <2>2, <2>3 DEF EndsReported, IdsOf
<1> QED
  BY <1>6, <1>7, <1>8 DEF KeyInv

(* A run ends: of a guarded key, as it is to be stopped.                   *)
LEMMA OverKeepsKey ==
    ASSUME DroppedInv, NEW r, Over(r), stops' \subseteq stops,
           UNCHANGED <<instances, instTodo, histories, warden, infoTodo, rested>>, NEW k \in Keys,
           lastEnd'[k] = "none" => lastEnd[k] = "none" /\ (r.key = k => r.id \in stops)
    PROVE  KeyInv(k)'
<1>0. TypeOK /\ DocsInv /\ StopsSettled /\ RunsReported /\ StoppedShown /\ KeyInv(k)
  BY DEF DroppedInv, CauseInv
<1>1. r \in engine /\ engine' = engine \ {r} /\ UNCHANGED fresh
  BY DEF Over
<1>2. RunReported(r)
  BY <1>0, <1>1 DEF RunsReported
<1>3. PICK m \in {HistoryMessage(r), IncidentMessage(r.id)} : Sent(EndMessage(r.id), m)
  BY DEF Over
<1>4. /\ EndMessage(r.id).type = "instance-delete" /\ EndMessage(r.id).id = r.id
      /\ m.type \in {"history", "incident"}
      /\ m.type = "history" => m.id = r.id /\ m.key = r.key
  BY DEF EndMessage, HistoryMessage, IncidentMessage
<1>5. \A n \in DOMAIN msgs' : \/ n \in DOMAIN msgs /\ msgs'[n] = msgs[n]
                              \/ msgs'[n] \in {EndMessage(r.id), m}
  BY <1>3, SentMessages
<1>6. ASSUME r.id \in stops PROVE RealDoc(r.id, r.key) /\ RealDoc(r.id, r.key)'
  <2>1. PICK x \in instances : x.id = r.id
    BY <1>0, <1>1, <1>6 DEF StoppedShown, Shown, IdsOf
  <2>2. ~x.placeholder /\ x.key = r.key
    BY <1>2, <2>1 DEF RunReported, Right
  <2> QED
    BY <2>1, <2>2 DEF RealDoc
<1>7. \A i : RealDoc(i, k) => RealDoc(i, k)'
  BY DEF RealDoc
<1>8. Guarded(k)' => Guarded(k) /\ (r.key = k => r.id \in stops)
  BY DEF Guarded
<1>9. Remembered(k)'
  <2> SUFFICES ASSUME lastEnd'[k] = "none", NEW n \in DOMAIN msgs', NEW i, msgs'[n].id = i,
                      msgs'[n].type \in {"instance", "history"}, msgs'[n].key = k
               PROVE  (\E t \in engine' : t.id = i /\ t.key = k) \/ RealDoc(i, k)'
    BY DEF Remembered, RealDoc
  <2>1. CASE n \in DOMAIN msgs /\ msgs'[n] = msgs[n]
    <3>1. (\E t \in engine : t.id = i /\ t.key = k) \/ RealDoc(i, k)
      BY <1>0, <2>1 DEF KeyInv, Remembered
    <3>2. CASE \E t \in engine : t.id = i /\ t.key = k
      <4>1. PICK t \in engine : t.id = i /\ t.key = k
        BY <3>2
      <4>2. t = r => RealDoc(i, k)'
        BY <1>6, <4>1
      <4> QED
        BY <1>1, <4>1, <4>2
    <3> QED
      BY <1>7, <3>1, <3>2
  <2>2. CASE msgs'[n] \in {EndMessage(r.id), m}
    <3>1. i = r.id /\ r.key = k
      BY <1>4, <2>2
    <3> QED
      BY <1>6, <3>1
  <2> QED
    BY <1>5, <2>1, <2>2
<1>10. \A i : Mention(i, k)' => Mention(i, k)
  BY OverRecords
<1>11. \A t \in RunsOf(k) : Guarded(k)' /\ t.id \notin stops => t \in RunsOf(k)' /\ t.id \notin stops'
  BY <1>1, <1>8 DEF RunsOf
<1>12. Going(k)' /\ GoingShown(k)'
  BY <1>0, <1>1, <1>8, <1>10, <1>11 DEF KeyInv, Going, GoingShown, Shown
<1>13. EndsReported(k)'
  <2> SUFFICES ASSUME Guarded(k)' PROVE EndsReported(k)'
    BY DEF EndsReported
  <2>0. Guarded(k) /\ (r.key = k => r.id \in stops)
    BY <1>8
  <2>1. ASSUME NEW x \in InstancesOf(k), ~x.placeholder, x.id \notin IdsOf(engine')
        PROVE  /\ Settled(k)'
               /\ \E n \in DOMAIN msgs' : msgs'[n].type = "instance-delete" /\ msgs'[n].id = x.id
    <3>1. x \in instances /\ x.key = k /\ (Settled(k) => Settled(k)')
      BY DEF InstancesOf, Settled
    <3>2. CASE x.id = r.id
      <4>1. r.key = k
        BY <1>2, <3>1, <3>2 DEF RunReported, Right
      <4>2. Settled(k)
        BY <1>0, <2>0, <3>1, <3>2, <4>1 DEF StopsSettled
      <4> QED
        BY <1>3, <1>4, <3>1, <3>2, <4>2 DEF Sent
    <3>3. CASE x.id # r.id
      <4>1. x.id \notin IdsOf(engine)
        BY <1>1, <2>1, <3>3 DEF IdsOf
      <4>2. /\ Settled(k)
            /\ \E n \in DOMAIN msgs : msgs[n].type = "instance-delete" /\ msgs[n].id = x.id
        BY <1>0, <2>0, <2>1, <4>1 DEF KeyInv, EndsReported
      <4> QED
        BY <1>3, <3>1, <4>2 DEF Sent
    <3> QED
      BY <3>2, <3>3
  <2>2. ASSUME NEW n \in DOMAIN msgs', msgs'[n].type = "instance", msgs'[n].key = k
        PROVE  msgs'[n].id \in IdsOf(engine')
    <3>1. n \in DOMAIN msgs /\ msgs'[n] = msgs[n]
      BY <1>4, <1>5, <2>2
    <3>2. PICK t \in engine : t.id = msgs[n].id
      BY <1>0, <2>0, <2>2, <3>1 DEF KeyInv, EndsReported, IdsOf
    <3>3. t # r
      <4> SUFFICES ASSUME t = r PROVE FALSE
        OBVIOUS
      <4>1. r.key = k
        BY <1>2, <2>2, <3>1, <3>2 DEF RunReported
      <4>2. r.id \notin stops
        BY <1>0, <2>2, <3>1, <3>2 DEF DocsInv, OneReportEach, ReportedOnce
      <4> QED
        BY <2>0, <4>1, <4>2
    <3> QED
      BY <1>1, <3>1, <3>2, <3>3 DEF IdsOf
  <2>3. InstancesOf(k)' = InstancesOf(k)
    BY DEF InstancesOf
  <2> QED
    BY <2>1, <2>2, <2>3 DEF EndsReported, IdsOf
<1> QED
  BY <1>9, <1>12, <1>13 DEF KeyInv
(* A run begins, under an id that nobody stops.                            *)
LEMMA BegunKeepsKey ==
    ASSUME DroppedInv, NEW r, Begun(r), stops' \subseteq stops,
           UNCHANGED <<instances, instTodo, histories, warden, infoTodo, rested, lastEnd>>,
           NEW k \in Keys
    PROVE  KeyInv(k)'
<1>0. KeyInv(k)
  BY DEF DroppedInv
<1>1. engine' = engine \cup {r} /\ fresh' = fresh \cup {r.id}
  BY DEF Begun
<1>2. r.id \notin stops'
  BY BegunRecords DEF UsedIds
<1>3. Sent(InstanceMessage(r), HistoryMessage(r))
  BY DEF Begun
<1>4. \A n \in DOMAIN msgs' : \/ n \in DOMAIN msgs /\ msgs'[n] = msgs[n]
                              \/ msgs'[n].id = r.id /\ msgs'[n].key = r.key
  BY <1>3, SentMessages DEF InstanceMessage, HistoryMessage
<1>5. Guarded(k)' <=> Guarded(k)
  BY DEF Guarded
<1>6. Remembered(k)'
  <2> SUFFICES ASSUME lastEnd'[k] = "none", NEW n \in DOMAIN msgs', NEW i, msgs'[n].id = i,
                      msgs'[n].type \in {"instance", "history"}, msgs'[n].key = k
               PROVE  (\E t \in engine' : t.id = i /\ t.key = k) \/ RealDoc(i, k)'
    BY DEF Remembered, RealDoc
  <2>1. CASE n \in DOMAIN msgs /\ msgs'[n] = msgs[n]
    <3>1. (\E t \in engine : t.id = i /\ t.key = k) \/ RealDoc(i, k)
      BY <1>0, <2>1 DEF KeyInv, Remembered
    <3>2. RealDoc(i, k) => RealDoc(i, k)'
      BY DEF RealDoc
    <3> QED
      BY <1>1, <3>1, <3>2
  <2>2. CASE msgs'[n].id = r.id /\ msgs'[n].key = r.key
    BY <1>1, <2>2
  <2> QED
    BY <1>4, <2>1, <2>2
<1>7. \A i : Mention(i, k)' => Mention(i, k) \/ (i = r.id /\ k = r.key)
  BY BegunRecords
<1>8. RunsOf(k) \subseteq RunsOf(k)' /\ (r.key = k => r \in RunsOf(k)')
  BY <1>1 DEF RunsOf
<1>9. Going(k)'
  BY <1>0, <1>2, <1>5, <1>7, <1>8 DEF KeyInv, Going
<1>10. GoingShown(k)'
  <2> SUFFICES ASSUME Guarded(k), NEW i, i \notin fresh', Mention(i, k)'
               PROVE  \E t \in RunsOf(k)' : t.id \notin stops' /\ Shown(t)'
    BY <1>5 DEF GoingShown
  <2>1. i \notin fresh /\ Mention(i, k)
    BY <1>1, <1>7
  <2>2. PICK t \in RunsOf(k) : t.id \notin stops /\ Shown(t)
    BY <1>0, <2>1 DEF KeyInv, GoingShown
  <2> QED
    BY <1>8, <2>2 DEF Shown
<1>11. EndsReported(k)'
  <2> SUFFICES ASSUME Guarded(k) PROVE EndsReported(k)'
    BY <1>5 DEF EndsReported
  <2>1. ASSUME NEW x \in InstancesOf(k), ~x.placeholder, x.id \notin IdsOf(engine')
        PROVE  /\ Settled(k)'
               /\ \E n \in DOMAIN msgs' : msgs'[n].type = "instance-delete" /\ msgs'[n].id = x.id
    <3>1. x.id \notin IdsOf(engine)
      BY <1>1, <2>1 DEF IdsOf
    <3>2. /\ Settled(k)
          /\ \E n \in DOMAIN msgs : msgs[n].type = "instance-delete" /\ msgs[n].id = x.id
      BY <1>0, <2>1, <3>1 DEF KeyInv, EndsReported
    <3> QED
      BY <1>3, <3>2 DEF Sent, Settled
  <2>2. ASSUME NEW n \in DOMAIN msgs', msgs'[n].type = "instance", msgs'[n].key = k
        PROVE  msgs'[n].id \in IdsOf(engine')
    <3>1. CASE n \in DOMAIN msgs /\ msgs'[n] = msgs[n]
      BY <1>0, <1>1, <2>2, <3>1 DEF KeyInv, EndsReported, IdsOf
    <3> QED
      BY <1>1, <1>4, <3>1 DEF IdsOf
  <2>3. InstancesOf(k)' = InstancesOf(k)
    BY DEF InstancesOf
  <2> QED
    BY <2>1, <2>2, <2>3 DEF EndsReported, IdsOf
<1> QED
  BY <1>6, <1>9, <1>10, <1>11 DEF KeyInv

LEMMA IdleKeepsKey ==
    ASSUME NEW k, KeyInv(k), stops' \subseteq stops,
           UNCHANGED <<instances, instTodo, histories, warden, infoTodo, rested, lastEnd>>,
           UNCHANGED <<engine, msgs, fresh>>
    PROVE  KeyInv(k)'
<1>1. /\ \A i : (Mention(i, k)' <=> Mention(i, k)) /\ (RealDoc(i, k)' <=> RealDoc(i, k))
      /\ Guarded(k)' <=> Guarded(k)
      /\ RunsOf(k)' = RunsOf(k) /\ InstancesOf(k)' = InstancesOf(k)
      /\ Settled(k)' <=> Settled(k)
      /\ \A r : Shown(r)' <=> Shown(r)
  BY DEF Mention, Docs, RealDoc, Guarded, RunsOf, InstancesOf, Settled, Shown
<1>2. Remembered(k)'
  <2> SUFFICES ASSUME lastEnd[k] = "none", NEW n \in DOMAIN msgs,
                      msgs[n].type \in {"instance", "history"}, msgs[n].key = k
               PROVE  (\E t \in engine : t.id = msgs[n].id /\ t.key = k) \/ RealDoc(msgs[n].id, k)
    BY DEF Remembered, RealDoc
  <2> QED
    BY DEF KeyInv, Remembered
<1>3. Going(k)' /\ GoingShown(k)'
  BY <1>1 DEF KeyInv, Going, GoingShown
<1>4. EndsReported(k)'
  BY <1>1 DEF KeyInv, EndsReported
<1> QED
  BY <1>2, <1>3, <1>4 DEF KeyInv

(* The end of a run is recorded for its key.                               *)
LEMMA EndsRecorded ==
    ASSUME TypeOK, EndsType, MCRunsEnd
    PROVE  /\ EndsType'
           /\ UNCHANGED <<rested, stops>>
           /\ \E r : /\ Over(r) /\ lastEnd'[r.key] # "none"
                     /\ \A k \in Keys : lastEnd'[k] = "none" => lastEnd[k] = "none"
<1>1. PICK r \in engine :
         \/ RunFinishes(r) /\ lastEnd' = [lastEnd EXCEPT ![r.key] = "finished"]
         \/ RunFails(r) /\ lastEnd' = [lastEnd EXCEPT ![r.key] = "failed"]
  BY DEF MCRunsEnd
<1>2. r.key \in AllKeys
  BY DEF TypeOK, Run
<1>3. Over(r)
  BY <1>1, EndIsOver DEF RunFinishes
<1>4. UNCHANGED <<rested, stops>>
  BY <1>1 DEF MCRunsEnd, RunFinishes, RunFails, cmdVars
<1>5. lastEnd'[r.key] # "none" /\ EndsType'
  BY <1>1, <1>2 DEF EndsType
<1>6. \A k \in Keys : lastEnd'[k] = "none" => lastEnd[k] = "none"
  BY <1>1, <1>2 DEF EndsType
<1> QED
  BY <1>3, <1>4, <1>5, <1>6

LEMMA StoppedShownStep ==
    ASSUME TypeOK, DocsInv, RunsReported, StoppedShown,
           PlatformSteps \/ CommandLosses \/ Handlers \/ ClientObeys \/ RunsEnd
    PROVE  StoppedShown'
<1>1. \A r \in engine \cap engine' : Shown(r) => Shown(r)'
  BY RunsStayReported, AlwaysListed DEF CalmSteps, ClientSteps
<1>2. CASE PlatformSteps \/ CommandLosses
  <2>1. UNCHANGED engine
    BY <1>2, CheckEffect
    DEF PlatformSteps, CommandLosses, LoseStart, LoseStop, ApiSteps, ApiSendStart, ApiRefuseStart,
        ApiSavePlaceholders, UserRequests, AddInstanceWarden, DeleteProcessInstanceByBusinessKey,
        ApiDeleteProcessInstance, ApiDeletePlaceholderHistory, BeginLoopWardenDb, CheckSteps,
        Checked, BeginLoopProcesses, CheckProcessInstance, EndLoop, AgeGatePasses, Restart, clientVars
  <2>2. \A i \in stops' \ stops : i \in IdsOf(instances')
    BY <1>2, PlatformStops DEF IdsOf
  <2> QED
    BY <1>1, <2>1, <2>2 DEF StoppedShown, Shown
<1>3. CASE Handlers
  <2>1. UNCHANGED <<engine, stops>>
    BY <1>3, HandlersHaveEffect DEF Handled
  <2> QED
    BY <1>1, <2>1 DEF StoppedShown
<1>4. CASE ClientObeys \/ RunsEnd
  <2>1. /\ UNCHANGED <<instances, instTodo, histories>> /\ stops' \subseteq stops
        /\ engine' \subseteq engine \/ \E r : Begun(r)
    BY <1>4, ClientHasEffect DEF Over
  <2>2. CASE engine' \subseteq engine
    BY <2>1, <2>2 DEF StoppedShown, Shown
  <2>3. ASSUME NEW r, Begun(r) PROVE StoppedShown'
    <3>1. engine' = engine \cup {r} /\ r.id \notin stops'
      BY <2>1, <2>3, BegunRecords DEF Begun, UsedIds
    <3> QED
      BY <2>1, <3>1 DEF StoppedShown, Shown
  <2> QED
    BY <2>1, <2>2, <2>3
<1> QED
  BY <1>2, <1>3, <1>4

(* No guard is dropped for want of a deployment.                           *)
LEMMA NeverForgotten ==
    ASSUME DeploymentThere, NEW k
    PROVE  ~ForgetNeverSeen(k)
BY DEF DeploymentThere, ForgetNeverSeen

LEMMA DeploymentStep ==
    ASSUME DeploymentThere, MCPlatformSteps \/ Handlers \/ ClientObeys \/ RunsEnd
    PROVE  DeploymentThere'
<1> USE DEF deplVars
<1>1. CASE UNCHANGED deplVars
  BY <1>1 DEF DeploymentThere
<1>2. CASE MCBeginLoop
  BY <1>2 DEF MCBeginLoop, BeginLoopWardenDb, Redeploy, DeploymentThere
<1>3. ASSUME NEW k \in Keys, CheckWardenInfo(k) PROVE DeploymentThere'
  <2>1. UNCHANGED deplVars \/ RedeployNeverSeen(k)
    BY <1>3, NeverForgotten
    DEF CheckWardenInfo, ImmatureInfo, ExpectedInstance, NoAction, MissingWithoutHistory,
        StartNeverSeen, MissingWithHistory, EndIsImmature, EndedWithoutIncident,
        EndedWithIncident, OldPlaceholderInstance, DuplicateInstances
  <2> QED
    BY <1>1, <2>1 DEF RedeployNeverSeen, NoAction, DeploymentThere
<1>4. CASE MCCheckSteps
  BY <1>1, <1>3, <1>4 DEF MCCheckSteps, CheckSteps, BeginLoopProcesses, CheckProcessInstance, EndLoop
<1>5. CASE MCApiSteps \/ MCRequests
  BY <1>1, <1>5
  DEF MCApiSteps, ApiSteps, ApiSendStart, ApiRefuseStart, ApiSavePlaceholders, MCRequests,
      MCUserRequests, AddInstanceWarden, DeleteProcessInstanceByBusinessKey,
      ApiDeleteProcessInstance, ApiDeletePlaceholderHistory
<1>6. CASE MCAgeGatePasses \/ Restart \/ CommandLosses
  BY <1>1, <1>6 DEF MCAgeGatePasses, AgeGatePasses, Restart, CommandLosses, LoseStart, LoseStop
<1>7. CASE Handlers
  BY <1>1, <1>7 DEF Handlers, UpdateProcessInstance, DeleteProcessInstance,
     DeleteUnknownProcessInstances, UpdateHistoricProcessInstance, DeleteHistoricProcessInstance,
     DeleteUnknownHistoricProcessInstances, UpdateIncident
<1>8. CASE ClientObeys \/ RunsEnd
  BY <1>1, <1>8 DEF ClientObeys, ClientStart, ClientStop, RunsEnd, RunFinishes, RunFails, RunEnds
<1> QED
  BY <1>2, <1>4, <1>5, <1>6, <1>7, <1>8 DEF MCPlatformSteps

LEMMA DroppedStep ==
    ASSUME Prompt = TRUE,
           Disturbances \cap {"deployment", "reports", "messages", "reset"} = {},
           DroppedInv, [MCNext]_MCvars
    PROVE  DroppedInv'
<1>0. /\ TypeOK /\ DocsInv /\ RunsReported /\ BookInv /\ PlaceholdersApart
      /\ EndsType /\ StoppedShown /\ DeploymentThere /\ \A k \in Keys : KeyInv(k)
  BY DEF DroppedInv, CauseInv, BookInv
<1>1. CauseInv'
  BY CauseStep DEF DroppedInv
<1>2. CASE UNCHANGED MCvars
  <2>1. /\ UNCHANGED <<instances, instTodo, histories, warden, infoTodo, rested, lastEnd>>
        /\ UNCHANGED <<engine, msgs, fresh, stops, deployment, deplGuarded>>
    BY <1>2 DEF MCvars, vars, docVars, cmdVars, clientVars, loopVars, deplVars
  <2>2. \A k \in Keys : KeyInv(k)'
    BY <1>0, <2>1, IdleKeepsKey
  <2>3. PlatformEffect
    BY <2>1, LeftAsIs DEF PlatformEffect, Added, Docs
  <2>4. BookInv'
    BY <1>0, <2>3, PlatformBook
  <2>5. RunsReported' /\ StoppedShown' /\ DeploymentThere' /\ EndsType'
    BY <1>0, <2>1 DEF RunsReported, RunReported, Right, Shown, StoppedShown, DeploymentThere, EndsType
  <2> QED
    BY <1>1, <2>2, <2>4, <2>5 DEF DroppedInv
<1>3. CASE MCNext
  <2>1. \/ MCPlatformSteps \/ MCRunsEnd
        \/ (Handlers \/ ClientObeys) /\ UNCHANGED <<rested, lastEnd>>
    BY <1>3, MCUndisturbedStep
  <2>2. MCPlatformSteps => (PlatformSteps \/ CommandLosses) /\ UNCHANGED lastEnd
    BY MCPlatformStep
  <2>3. MCRunsEnd => RunsEnd
    BY DEF MCRunsEnd, RunsEnd
  <2>4. RunsReported'
    BY <1>0, <2>1, <2>2, <2>3, RunsStayReported DEF CalmSteps, ClientSteps
  <2>5. StoppedShown' /\ DeploymentThere'
    BY <1>0, <2>1, <2>2, <2>3, StoppedShownStep, DeploymentStep
  <2>6. BookInv'
    <3>1. CASE MCPlatformSteps
      BY <1>0, <2>2, <3>1, PlatformHasEffect, PlatformBook
    <3>2. CASE Handlers
      BY <1>0, <3>2, HandlersHaveEffect, HandledBook
    <3> QED
      BY <1>0, <2>1, <2>3, <3>1, <3>2, ClientBook
  <2>7. EndsType'
    BY <1>0, <2>1, <2>2, EndsRecorded DEF EndsType
  <2>8. ASSUME NEW k \in Keys PROVE KeyInv(k)'
    <3>1. CASE MCPlatformSteps
      BY <1>3, <3>1, PlatformKeepsKey
    <3>2. CASE Handlers /\ UNCHANGED <<rested, lastEnd>>
      BY <3>2, HandledKeepsKey
    <3>3. CASE MCRunsEnd
      <4>1. PICK r : /\ Over(r) /\ lastEnd'[r.key] # "none"
                     /\ \A c \in Keys : lastEnd'[c] = "none" => lastEnd[c] = "none"
        BY <1>0, <3>3, EndsRecorded
      <4>2. /\ UNCHANGED <<instances, instTodo, histories, warden, infoTodo, rested>>
            /\ stops' \subseteq stops
        BY <1>0, <2>3, <3>3, ClientHasEffect, EndsRecorded
      <4>3. lastEnd'[k] = "none" => lastEnd[k] = "none" /\ (r.key = k => r.id \in stops)
        BY <4>1
      <4> QED
        BY <4>1, <4>2, <4>3, OverKeepsKey
    <3>4. CASE ClientObeys /\ UNCHANGED <<rested, lastEnd>>
      <4>1. /\ UNCHANGED <<instances, instTodo, histories, warden, infoTodo>>
            /\ stops' \subseteq stops
            /\ \/ UNCHANGED <<engine, msgs, fresh>>
               \/ \E r : Begun(r)
               \/ \E r : Over(r) /\ r.id \in stops
        BY <1>0, <3>4, ClientHasEffect
      <4>2. CASE UNCHANGED <<engine, msgs, fresh>>
        BY <1>0, <3>4, <4>1, <4>2, IdleKeepsKey
      <4>3. CASE \E r : Begun(r)
        BY <3>4, <4>1, <4>3, BegunKeepsKey
      <4>4. CASE \E r : Over(r) /\ r.id \in stops
        BY <3>4, <4>1, <4>4, OverKeepsKey
      <4> QED
        BY <4>1, <4>2, <4>3, <4>4
    <3> QED
      BY <2>1, <3>1, <3>2, <3>3, <3>4
  <2> QED
    BY <1>1, <2>4, <2>5, <2>6, <2>7, <2>8 DEF DroppedInv
<1> QED
  BY <1>2, <1>3

LEMMA InitDropped ==
    ASSUME InitialDeployments \subseteq Startable \/ InitiallyGuarded = {TRUE}, MCInit
    PROVE  DroppedInv
<1>1. /\ instances = {} /\ histories = {} /\ instTodo = {} /\ msgs = <<>> /\ engine = {}
      /\ deployment \in {"none", "placeholder", "deployed"} \cap InitialDeployments
      /\ deplGuarded \in InitiallyGuarded
      /\ lastEnd = [k \in AllKeys |-> "none"]
  BY DEF MCInit, Init
<1>2. CauseInv
  BY InitCause
<1>3. DeploymentThere
  <2>1. CASE InitialDeployments \subseteq Startable
    BY <1>1, <2>1 DEF DeploymentThere
  <2>2. CASE InitiallyGuarded = {TRUE}
    <3>1. deplGuarded = TRUE
      BY <1>1, <2>2, Zenon
    <3> QED
      BY <1>1, <3>1 DEF DeploymentThere
  <2> QED
    BY <2>1, <2>2
<1>4. RunsReported /\ StoppedShown /\ EndsType
  BY <1>1 DEF RunsReported, StoppedShown, EndsType
<1>5. \A i, k : ~Mention(i, k)
  BY <1>1 DEF Mention, Docs
<1>6. BookInv
  BY <1>1, <1>5 DEF BookInv, KeysAgree, PlaceholdersApart, WrittenFirst, PlaceholdersPaired,
     HistoriesInOrder, Docs
<1>7. \A k \in Keys : KeyInv(k)
  BY <1>1, <1>5 DEF KeyInv, Remembered, Going, GoingShown, EndsReported, InstancesOf
<1> QED
  BY <1>2, <1>3, <1>4, <1>6, <1>7 DEF DroppedInv

LEMMA HasMin ==
    ASSUME NEW T \in SUBSET Nat, T # {}
    PROVE  \E m \in T : \A t \in T : m <= t
<1> DEFINE R == OpToRel(<, Nat)
<1>1. IsWellFoundedOn(R, Nat)
  BY NatLessThanWellFounded
<1>2. \A x, y \in Nat : y < x => <<y, x>> \in R
  BY DEF OpToRel
<1> HIDE DEF R
<1>3. PICK m \in T : \A t \in T : ~(<<t, m>> \in R)
  BY <1>1, WFMin
<1>4. ASSUME NEW t \in T PROVE m <= t
  <2>1. m \in Nat /\ t \in Nat
    OBVIOUS
  <2>2. ~(t < m)
    BY <1>2, <1>3, <2>1
  <2> QED
    BY <2>1, <2>2
<1> QED
  BY <1>4

(* The history that decides: one of the key, with the smallest id.         *)
LEMMA YoungestIsFirst ==
    ASSUME TypeOK, NEW k, HistoriesOf(k) # {}
    PROVE  \E h \in HistoriesOf(k) : EndedRun(k) = h.id /\ \A g \in HistoriesOf(k) : h.id <= g.id
<1> DEFINE S == HistoriesOf(k)
<1>1. \A h \in S : h.id \in Nat
  BY DEF HistoriesOf, TypeOK, History
<1>2. IdsOf(S) \in SUBSET Nat /\ IdsOf(S) # {}
  BY <1>1 DEF IdsOf
<1>3. PICK m \in IdsOf(S) : \A t \in IdsOf(S) : m <= t
  BY <1>2, HasMin
<1>4. PICK h \in S : h.id = m
  BY DEF IdsOf
<1>5. \E x \in S : \A g \in S : x.id <= g.id
  BY <1>3, <1>4 DEF IdsOf
<1>6. GetYoungestHistory(S) \in S /\ \A g \in S : GetYoungestHistory(S).id <= g.id
  BY <1>5 DEF GetYoungestHistory
<1> QED
  BY <1>6 DEF EndedRun

(* Who drops a guard: the warden that finds an ended run, or no deployment.*)
LEMMA WhoDrops ==
    ASSUME TypeOK, MCPlatformSteps \/ MCRunsEnd \/ Handlers \/ ClientObeys,
           NEW k \in Keys, GuardDropped(k)
    PROVE  ForgetNeverSeen(k) \/ EndedWithoutIncident(k)
<1>0. warden[k] # "none" /\ warden'[k] = "none" /\ k \notin cleared' /\ warden \in [Keys -> Ages]
  BY DEF GuardDropped, TypeOK
<1>1. CASE UNCHANGED warden
  BY <1>0, <1>1
<1>2. CASE MCApiSteps
  <2>1. PICK c \in Keys : ApiSendStart(c) \/ ApiRefuseStart(c) \/ ApiSavePlaceholders(c)
    BY <1>2 DEF MCApiSteps, ApiSteps
  <2>2. UNCHANGED warden \/ RollBackGuard(c)
    BY <2>1 DEF ApiSendStart, ApiRefuseStart, ApiSavePlaceholders
  <2> QED
    BY <1>0, <2>2 DEF RollBackGuard
<1>3. CASE MCRequests
  <2>1. \/ \E c \in Keys : AddInstanceWarden(c)
        \/ \E c \in AllKeys : DeleteProcessInstanceByBusinessKey(c)
        \/ \E x \in instances : ApiDeleteProcessInstance(x)
        \/ \E h \in histories : ApiDeletePlaceholderHistory(h)
    BY <1>3 DEF MCRequests, MCUserRequests
  <2>2. \/ UNCHANGED warden
        \/ \E c \in Keys : warden' = [warden EXCEPT ![c] = "young"]
        \/ \E ks : ClearGuards(ks)
    BY <2>1 DEF AddInstanceWarden, DeleteProcessInstanceByBusinessKey, ApiDeleteProcessInstance,
       ApiDeletePlaceholderHistory
  <2> QED
    BY <1>0, <2>2 DEF ClearGuards
<1>4. CASE MCCheckSteps
  <2>1. CASE BeginLoopProcesses \/ EndLoop \/ \E x \in instTodo : CheckProcessInstance(x)
    BY <1>1, <2>1 DEF BeginLoopProcesses, EndLoop, CheckProcessInstance
  <2>2. ASSUME NEW c \in Keys, CheckWardenInfo(c) PROVE ForgetNeverSeen(k) \/ EndedWithoutIncident(k)
    <3>1. c = k
      BY <1>0, <2>2, CheckEffect
    <3>2. UNCHANGED warden \/ ForgetNeverSeen(c) \/ EndedWithoutIncident(c)
      BY <2>2 DEF CheckWardenInfo, ImmatureInfo, ExpectedInstance, NoAction, MissingWithoutHistory,
        StartNeverSeen, RedeployNeverSeen, MissingWithHistory, EndIsImmature, EndedWithIncident,
        OldPlaceholderInstance, DuplicateInstances, WardenStart
    <3> QED
      BY <1>0, <3>1, <3>2
  <2> QED
    BY <1>4, <2>1, <2>2 DEF MCCheckSteps, CheckSteps
<1>5. CASE MCAgeGatePasses
  BY <1>0, <1>5 DEF MCAgeGatePasses, AgeGatePasses, Aged
<1>6. CASE MCBeginLoop \/ Restart \/ CommandLosses
  BY <1>1, <1>6 DEF MCBeginLoop, BeginLoopWardenDb, Restart, CommandLosses, LoseStart, LoseStop
<1>7. CASE Handlers
  BY <1>1, <1>7 DEF Handlers, UpdateProcessInstance, DeleteProcessInstance,
     DeleteUnknownProcessInstances, UpdateHistoricProcessInstance, DeleteHistoricProcessInstance,
     DeleteUnknownHistoricProcessInstances, UpdateIncident
<1>8. CASE ClientObeys \/ MCRunsEnd
  BY <1>1, <1>8 DEF ClientObeys, ClientStart, ClientStop, MCRunsEnd, RunFinishes, RunFails, RunEnds
<1> QED
  BY <1>2, <1>3, <1>4, <1>5, <1>6, <1>7, <1>8 DEF MCPlatformSteps

(* The deciding history of a guarded key without instances, none of whose  *)
(* runs ended by itself, is a placeholder that a report overtook.          *)
LEMMA DropIsOvershadowed ==
    ASSUME DroppedInv, NEW k \in Keys, Guarded(k), EndedWithoutIncident(k)
    PROVE  Overshadowed(k)
<1>0. TypeOK /\ DocsInv /\ RunsReported /\ BookInv /\ KeyInv(k)
  BY DEF DroppedInv, CauseInv
<1>1. InstancesOf(k) = {} /\ HistoriesOf(k) # {} /\ EndedRun(k) \notin fresh
  BY DEF EndedWithoutIncident, Ended, Missing
<1>2. PICK h \in HistoriesOf(k) : h.id = EndedRun(k) /\ \A g \in HistoriesOf(k) : h.id <= g.id
  BY <1>0, <1>1, YoungestIsFirst
<1>3. \A g \in HistoriesOf(k) : g \in histories /\ g.key = k /\ g.id \in Nat
  BY <1>0 DEF HistoriesOf, TypeOK, History
<1>4. h.placeholder
  <2> SUFFICES ASSUME ~h.placeholder PROVE FALSE
    OBVIOUS
  <2>1. Mention(h.id, k)
    BY <1>3 DEF Mention
  <2>2. PICK r \in RunsOf(k) : Shown(r)
    BY <1>0, <1>1, <1>2, <2>1 DEF KeyInv, GoingShown
  <2>3. PICK x \in instances : x.id = r.id
    BY <2>2 DEF Shown, IdsOf
  <2>4. x.key = k
    BY <1>0, <2>3 DEF RunsOf, RunsReported, RunReported, Right
  <2> QED
    BY <1>1, <2>4 DEF InstancesOf
<1>5. ASSUME NEW g \in HistoriesOf(k) PROVE g.placeholder
  <2>1. ~g.placeholder => g.id < h.id
    BY <1>0, <1>3, <1>4 DEF BookInv, HistoriesInOrder
  <2>2. h.id <= g.id /\ h.id \in Nat /\ g.id \in Nat
    BY <1>2, <1>3
  <2> QED
    BY <2>1, <2>2
<1>6. \A g \in HistoriesOf(k) : ~Paired(g, instances)
  BY <1>1, <1>3 DEF Paired, InstancesOf
<1>7. SomeReal
  BY <1>0, <1>1, <1>3, <1>6 DEF BookInv, PlaceholdersPaired
<1>8. PICK x \in instances \cup histories : ~x.placeholder
  BY <1>7 DEF SomeReal
<1>9. x.key # k
  BY <1>1, <1>5, <1>8 DEF InstancesOf, HistoriesOf
<1> QED
  BY <1>1, <1>5, <1>8, <1>9 DEF Overshadowed

(* DroppedOnlyAfterARun: as long as commands and messages are handled      *)
(* within the age gate, the reports of runs arrive and the deployment, if  *)
(* there is none at first, is guarded and not touched by users, the warden *)
(* drops a guard only after a run of its key ended, or if another process  *)
(* was reported before a start of it; for any keys, requests (also of keys *)
(* in use), losses of commands and restarts.                               *)
THEOREM DropsAfterARun ==
    ASSUME Prompt = TRUE,
           Disturbances \cap {"deployment", "reports", "messages", "reset"} = {},
           InitialDeployments \subseteq Startable \/ InitiallyGuarded = {TRUE}
    PROVE  MCSpec => DroppedOnlyAfterARun
<1> DEFINE Drops == \A k \in Keys : GuardDropped(k) => lastEnd[k] # "none" \/ Overshadowed(k)
<1>1. MCInit => DroppedInv
  BY InitDropped
<1>2. DroppedInv /\ [MCNext]_MCvars => DroppedInv'
  BY DroppedStep
<1>3. DroppedInv /\ MCNext => Drops
  <2> SUFFICES ASSUME DroppedInv, MCNext, NEW k \in Keys, GuardDropped(k), lastEnd[k] = "none"
               PROVE  Overshadowed(k)
    OBVIOUS
  <2>1. TypeOK /\ DeploymentThere
    BY DEF DroppedInv, CauseInv
  <2>2. ForgetNeverSeen(k) \/ EndedWithoutIncident(k)
    BY <2>1, MCUndisturbedStep, WhoDrops
  <2>3. EndedWithoutIncident(k)
    BY <2>1, <2>2, NeverForgotten
  <2>4. Guarded(k)
    BY DEF GuardDropped, Guarded
  <2> QED
    BY <2>3, <2>4, DropIsOvershadowed
<1>4. DroppedInv /\ [MCNext]_MCvars => [Drops]_MCvars
  BY <1>3
<1>5. MCSpec => [][Drops]_MCvars
  <2> HIDE DEF Drops
  <2> QED
    BY <1>1, <1>2, <1>4, PTL DEF MCSpec
<1> QED
  BY <1>5 DEF DroppedOnlyAfterARun
=============================================================================
