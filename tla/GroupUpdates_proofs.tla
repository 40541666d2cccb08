------------------------ MODULE GroupUpdates_proofs ------------------------
(***************************************************************************)
(* Proofs about GroupUpdates: its type invariant, and that no client goes  *)
(* back to an older description of a device group.                         *)
(***************************************************************************)
EXTENDS GroupUpdates, SequenceTheorems, TLAPS

(* What callers write and clients read has the type of a message.          *)
LEMMA CallType ==
    ASSUME TypeOK, NEW m \in Messages
    PROVE  Call(m) \in Calls(Messages)
BY DEF Call, Calls, TypeOK

LEMMA PublishType ==
    ASSUME TypeOK, NEW c \in Callers, NEW m \in Messages, Publish(c, m)
    PROVE  fan' \in [Callers -> Calls(Messages) \cup {Nothing}]
BY CallType DEF Publish, TypeOK

LEMMA FanAt ==
    ASSUME TypeOK, NEW c \in Callers, fan[c] # Nothing
    PROVE  /\ fan[c] \in Calls(Messages)
           /\ fan[c].msg \in Messages
           /\ fan[c].msg.of \in Deployments
BY DEF TypeOK, Calls, Messages

LEMMA FreeType ==
    ASSUME TypeOK, NEW c \in Callers, fan' = [fan EXCEPT ![c] = Nothing]
    PROVE  fan' \in [Callers -> Calls(Messages) \cup {Nothing}]
BY DEF TypeOK

LEMMA IdleType == \A pc \in {"idle", "token", "commit"} : Idle \in Workers /\ [Idle EXCEPT !.pc = pc] \in Workers
BY DEF Idle, Workers

LEMMA GotoType ==
    ASSUME TypeOK, NEW pc \in {"list", "describe", "publish", "commit", "failed"}, Goto(pc)
    PROVE  worker' \in Workers
BY DEF TypeOK, Goto, Workers

LEMMA EndsType ==
    ASSUME TypeOK, ProcessEnds, UNCHANGED <<queue, external, metadata, guard, known, ids>>,
           committed' \in 0 .. Len(topic)
    PROVE  TypeOK'
<1>1. missed' \subseteq Deployments
  BY FanAt DEF ProcessEnds, TypeOK
<1>2. worker' \in Workers
  BY IdleType DEF ProcessEnds
<1> QED BY <1>1, <1>2 DEF ProcessEnds, TypeOK, external

-----------------------------------------------------------------------------
(* The initial state                                                       *)

LEMMA InitType == Init => TypeOK
<1> SUFFICES ASSUME Init PROVE TypeOK
  OBVIOUS
<1>1. worker \in Workers
  BY IdleType DEF Init
<1>2. /\ queue \in [Deployments -> Seq(Messages)]
      /\ topic \in Seq(Commands) /\ Len(topic) = 0
  BY DEF Init, MqttInit, Deployments
<1>3. repo \in [Groups -> Descriptions]
  BY DEF Init, Descriptions
<1>4. /\ link \in [Brokers -> {"open", "lost", "never"}]
      /\ fan \in [Callers -> Calls(Messages) \cup {Nothing}]
  BY DEF Init, MqttInit
<1>5. /\ engine \in [Deployments -> [id : Nat, desc : Descriptions, first : Descriptions] \cup {Nothing}]
      /\ metadata \in [Deployments -> Metadata \cup {Nothing}]
      /\ guard \in [Deployments -> Descriptions \cup {Nothing}]
      /\ ids \in [Deployments -> Nat]
  BY DEF Init
<1>6. /\ unsaid \subseteq Groups /\ removed \subseteq Deployments /\ known \subseteq Deployments
      /\ missed \subseteq Deployments
      /\ committed \in 0 .. Len(topic)
      /\ request \in Messages \cup {Nothing} /\ bringing \in Deployments \cup {Nothing}
  BY <1>2 DEF Init
<1>7. up \in BOOLEAN
  BY DEF Init
<1> QED BY <1>1, <1>2, <1>3, <1>4, <1>5, <1>6, <1>7 DEF TypeOK

-----------------------------------------------------------------------------
(* Every step                                                              *)

LEMMA ReturnsType ==
    ASSUME TypeOK, NEW c \in Callers, NEW b \in Brokers, fan[c] # Nothing,
           NEW s \in {"arrived", "joined"}, NEW E \in SUBSET Brokers,
           fan' \in {[fan EXCEPT ![c].sub[b] = s], [fan EXCEPT ![c].sub[b] = s, ![c].err = @ \cup E]}
    PROVE  fan' \in [Callers -> Calls(Messages) \cup {Nothing}]
<1>1. fan[c] \in Calls(Messages)
  BY FanAt
<1>2. /\ [fan[c] EXCEPT !.sub[b] = s] \in Calls(Messages)
      /\ [fan[c] EXCEPT !.sub[b] = s, !.err = @ \cup E] \in Calls(Messages)
  BY <1>1 DEF Calls
<1>3. \/ fan' = [fan EXCEPT ![c] = [fan[c] EXCEPT !.sub[b] = s]]
      \/ fan' = [fan EXCEPT ![c] = [fan[c] EXCEPT !.sub[b] = s, !.err = @ \cup E]]
  OBVIOUS
<1> QED BY <1>2, <1>3 DEF TypeOK

LEMMA CommandType ==
    ASSUME TypeOK, NEW m \in Commands, topic' = Append(topic, m), committed' = committed
    PROVE  topic' \in Seq(Commands) /\ committed' \in 0 .. Len(topic')
BY DEF TypeOK

-----------------------------------------------------------------------------
(* The consumer: types                                                     *)

LEMMA WorkerType == TypeOK /\ WorkerBusy /\ WorkerSteps => TypeOK' /\ WorkerBusy'
<1> SUFFICES ASSUME TypeOK, WorkerBusy, WorkerSteps PROVE TypeOK' /\ WorkerBusy'
  OBVIOUS
<1> USE DEF At
<1>0. worker \in Workers
  BY DEF TypeOK
<1>1. CASE Fetch
  <2>1. /\ worker' \in Workers
        /\ worker'.pc \in {"token", "commit"}
    BY <1>1, IdleType DEF Fetch, Idle
  <2>2. TypeOK'
    BY <1>1, <2>1 DEF Fetch, TypeOK, mqttVars, external, stored
  <2> QED BY <1>1, <2>1, <2>2 DEF Fetch, WorkerBusy, TypeOK, external, stored
<1>2. CASE GetAdminToken
  <2>1. worker' \in Workers /\ worker'.pc = "list"
    BY <1>0, <1>2 DEF GetAdminToken, Workers
  <2>2. TypeOK'
    BY <1>2, <2>1 DEF GetAdminToken, TypeOK, mqttVars, external, stored
  <2> QED BY <1>2, <2>1, <2>2 DEF GetAdminToken, WorkerBusy, external, stored
<1>3. CASE ListConcerned
  <2>1. Concerned(Command.id) \subseteq Metadata
    BY DEF Concerned, TypeOK
  <2>2. worker' \in Workers /\ worker'.pc = "describe"
    BY <1>0, <1>3, <2>1 DEF ListConcerned, Workers
  <2>3. TypeOK'
    BY <1>3, <2>2 DEF ListConcerned, TypeOK, mqttVars, external, stored
  <2> QED BY <1>3, <2>2, <2>3 DEF ListConcerned, WorkerBusy, external, stored
<1>4. CASE Published
  <2>1. worker.element \in Metadata
    BY <1>0, <1>4 DEF Published, WorkerBusy, Workers
  <2>2. worker' \in Workers /\ worker'.pc \in {"describe", "failed"}
    <3>1. CASE Error("updates") = Nothing
      <4>1. worker' = [worker EXCEPT !.pc = "describe", !.found = @ \ {worker.element}, !.element = Nothing]
        BY <1>4, <3>1 DEF Published
      <4> QED BY <1>0, <4>1 DEF Workers
    <3>2. CASE Error("updates") # Nothing
      <4>1. worker' = [worker EXCEPT !.pc = "failed"]
        BY <1>4, <3>2 DEF Published, Goto
      <4> QED BY <1>0, <4>1 DEF Workers
    <3> QED BY <3>1, <3>2
  <2>3. fan' \in [Callers -> Calls(Messages) \cup {Nothing}]
    BY <1>4, FreeType, CallersAssumption DEF Published
  <2>4. missed' \subseteq Deployments
    BY <1>4, <2>1 DEF Published, TypeOK, Metadata
  <2>5. TypeOK'
    BY <1>4, <2>2, <2>3, <2>4 DEF Published, TypeOK, external, stored
  <2> QED BY <1>4, <2>2, <2>5 DEF Published, WorkerBusy, external, stored
<1>5. CASE AllPublished
  <2>1. worker' \in Workers /\ worker'.pc = "commit"
    BY <1>0, <1>5 DEF AllPublished, Goto, Workers
  <2>2. TypeOK'
    BY <1>5, <2>1 DEF AllPublished, TypeOK, mqttVars, external, stored
  <2> QED BY <1>5, <2>1, <2>2 DEF AllPublished, WorkerBusy, external, stored
<1>6. CASE Commit
  <2>1. worker' \in Workers /\ worker'.pc = "idle"
    BY <1>6, IdleType DEF Commit, Idle
  <2>2. committed' \in 0 .. Len(topic')
    BY <1>6 DEF Commit, WorkerBusy, TypeOK, external
  <2>3. TypeOK'
    BY <1>6, <2>1, <2>2 DEF Commit, TypeOK, mqttVars, external
  <2> QED BY <2>1, <2>3 DEF WorkerBusy
<1>7. CASE Retry
  <2>1. worker' \in Workers /\ worker'.pc = "token"
    BY <1>7, IdleType DEF Retry, Idle
  <2>2. TypeOK'
    BY <1>7, <2>1 DEF Retry, TypeOK, mqttVars, external, stored
  <2> QED BY <1>7, <2>1, <2>2 DEF Retry, WorkerBusy, external, stored
<1>8. CASE DescribeFails
  <2>1. worker' \in Workers /\ worker'.pc = "failed"
    BY <1>0, <1>8 DEF DescribeFails, Goto, Workers
  <2>2. TypeOK'
    BY <1>8, <2>1 DEF DescribeFails, TypeOK, mqttVars, external, stored
  <2> QED BY <1>8, <2>1, <2>2 DEF DescribeFails, WorkerBusy, external, stored
<1>9. ASSUME NEW d \in Deployments, NEW e \in worker.found, Describe(e)
      PROVE  TypeOK' /\ WorkerBusy'
  <2>1. e \in Metadata
    BY <1>0 DEF Workers
  <2>2. Described(e.of) \in Descriptions
    BY <2>1, GroupsAssumption DEF Described, Metadata, TypeOK
  <2> DEFINE m == [cmd |-> "event-descriptions", of |-> e.of, id |-> e.id, desc |-> Described(e.of)]
  <2>3. m \in Messages
    BY <2>1, <2>2 DEF Metadata, Messages
  <2>4. Publish("updates", m)
    BY <1>9 DEF Describe
  <2>5. fan' \in [Callers -> Calls(Messages) \cup {Nothing}]
    BY <2>3, <2>4, PublishType, CallersAssumption
  <2>6. worker' \in Workers /\ worker'.pc = "publish" /\ worker'.element = e
    BY <1>0, <1>9, <2>1 DEF Describe, Workers
  <2>7. TypeOK'
    BY <1>9, <2>5, <2>6 DEF Describe, TypeOK, external, stored
  <2> QED BY <1>9, <2>1, <2>6, <2>7 DEF Describe, WorkerBusy, external, stored
<1> QED BY <1>1, <1>2, <1>3, <1>4, <1>5, <1>6, <1>7, <1>8, <1>9 DEF WorkerSteps

-----------------------------------------------------------------------------
(* Failures, creations, clients and groups: types                          *)

LEMMA FailureType == TypeOK /\ WorkerBusy /\ (Failures \/ HandlerError \/ Start) => TypeOK' /\ WorkerBusy'
<1> SUFFICES ASSUME TypeOK, WorkerBusy, Failures \/ HandlerError \/ Start PROVE TypeOK' /\ WorkerBusy'
  OBVIOUS
<1> USE DEF At
<1>0. worker \in Workers
  BY DEF TypeOK
<1>1. CASE TokenRefused \/ CallFails
  <2>1. worker' \in Workers /\ worker'.pc = "failed" /\ worker.pc # "idle"
    BY <1>0, <1>1 DEF TokenRefused, CallFails, Goto, Workers
  <2>2. UNCHANGED <<mqttVars, external, stored, up, request, bringing, ids, missed>>
    BY <1>1 DEF TokenRefused, CallFails
  <2>3. TypeOK'
    BY <2>1, <2>2 DEF TypeOK, mqttVars, external, stored
  <2> QED BY <2>1, <2>2, <2>3 DEF WorkerBusy, external, stored
<1>2. CASE ExpireToken
  <2>1. /\ worker' \in Workers
        /\ worker'.pc = worker.pc /\ worker'.element = worker.element
    BY <1>0, <1>2 DEF ExpireToken, Workers
  <2>2. TypeOK'
    BY <1>2, <2>1 DEF ExpireToken, TypeOK, mqttVars, external, stored
  <2> QED BY <1>2, <2>1, <2>2 DEF ExpireToken, WorkerBusy, external, stored
<1>3. CASE Crash \/ HandlerError \/ CommitError
  <2>1. ProcessEnds /\ UNCHANGED <<queue, external, metadata, guard, known, ids>>
    BY <1>3 DEF Crash, HandlerError, CommitError, stored
  <2>2. committed' \in 0 .. Len(topic)
    BY <1>3 DEF Crash, HandlerError, CommitError, stored, WorkerBusy, TypeOK
  <2>3. TypeOK'
    BY <2>1, <2>2, EndsType
  <2>4. worker'.pc = "idle"
    BY <2>1 DEF ProcessEnds, Idle
  <2> QED BY <2>3, <2>4 DEF WorkerBusy
<1>4. CASE Start
  <2>0. link' \in [Brokers -> {"open", "lost", "never"}] /\ up' \in BOOLEAN
    BY <1>4 DEF Start, Connect
  <2>1. UNCHANGED <<fan, queue, external, stored, worker, request, bringing, ids, missed>>
    BY <1>4 DEF Start
  <2>2. TypeOK'
    BY <2>0, <2>1 DEF TypeOK, external, stored
  <2> QED BY <1>4, <2>2 DEF Start, WorkerBusy, external, stored
<1>5. ASSUME NEW d \in Deployments, ClientLoses(d)
      PROVE  TypeOK' /\ WorkerBusy'
  <2>1. engine' \in [Deployments -> [id : Nat, desc : Descriptions, first : Descriptions] \cup {Nothing}]
    BY <1>5 DEF ClientLoses, TypeOK
  <2>2. TypeOK'
    BY <1>5, <2>1 DEF ClientLoses, TypeOK, mqttVars, stored, process
  <2> QED BY <1>5, <2>2 DEF ClientLoses, WorkerBusy, stored, process
<1>6. ASSUME NEW d \in Deployments, DeviceRemoved(d)
      PROVE  TypeOK' /\ WorkerBusy'
  <2>1. TypeOK'
    BY <1>6 DEF DeviceRemoved, TypeOK, mqttVars, stored, process
  <2> QED BY <1>6, <2>1 DEF DeviceRemoved, WorkerBusy, stored, process
<1>7. ASSUME NEW b \in Brokers, ConnectionLost(b), Unheard
      PROVE  TypeOK' /\ WorkerBusy'
  <2>1. TypeOK'
    BY <1>7 DEF ConnectionLost, Unheard, TypeOK, external, stored, process
  <2> QED BY <1>7, <2>1 DEF Unheard, WorkerBusy, external, stored, process
<1>8. ASSUME NEW c \in Callers, NEW b \in Brokers, SendFails(c, b), Unheard
      PROVE  TypeOK' /\ WorkerBusy'
  <2>1. fan' \in [Callers -> Calls(Messages) \cup {Nothing}]
    <3>1. fan' = [fan EXCEPT ![c].sub[b] = "joined", ![c].err = @ \cup {b}] /\ fan[c] # Nothing
      BY <1>8 DEF SendFails
    <3>2. {b} \in SUBSET Brokers
      OBVIOUS
    <3> QED BY <3>1, <3>2, ReturnsType
  <2>2. TypeOK'
    BY <1>8, <2>1 DEF SendFails, Unheard, TypeOK, external, stored, process
  <2> QED BY <1>8, <2>2 DEF Unheard, WorkerBusy, external, stored, process
<1> QED BY <1>1, <1>2, <1>3, <1>4, <1>5, <1>6, <1>7, <1>8 DEF Failures

LEMMA BusyStays ==
    ASSUME WorkerBusy, worker' = worker, committed' = committed, TypeOK, TypeOK',
           \/ topic' = topic
           \/ \E m \in Commands : topic' = Append(topic, m)
    PROVE  WorkerBusy'
BY DEF WorkerBusy, TypeOK

LEMMA FanOutType == TypeOK /\ WorkerBusy /\ ((\E c \in Callers : FanOutSteps(c)) \/ Reconnects) => TypeOK' /\ WorkerBusy'
<1> SUFFICES ASSUME TypeOK, WorkerBusy PROVE (\E c \in Callers : FanOutSteps(c)) \/ Reconnects => TypeOK' /\ WorkerBusy'
  OBVIOUS
<1>1. ASSUME NEW c \in Callers, NEW b \in Brokers, Arrives(c, b), Unheard
      PROVE  TypeOK' /\ WorkerBusy'
  <2>1. fan' \in [Callers -> Calls(Messages) \cup {Nothing}]
    BY <1>1, ReturnsType DEF Arrives
  <2>2. fan[c].msg \in Messages
    BY <1>1, FanAt DEF Arrives
  <2>3. queue' \in [Deployments -> Seq(Messages)]
    <3>1. CASE queue' = queue
      BY <3>1 DEF TypeOK
    <3>2. CASE queue' = [queue EXCEPT ![fan[c].msg.of] = Append(@, fan[c].msg)]
      <4>1. queue \in [Deployments -> Seq(Messages)] /\ fan[c].msg.of \in Deployments
        BY <2>2 DEF TypeOK, Messages
      <4>2. Append(queue[fan[c].msg.of], fan[c].msg) \in Seq(Messages)
        BY <2>2, <4>1
      <4> QED BY <3>2, <4>1, <4>2
    <3> QED BY <1>1, <3>1, <3>2 DEF Arrives
  <2>4. TypeOK'
    BY <1>1, <2>1, <2>3 DEF Arrives, Unheard, TypeOK, external, stored, process
  <2> QED BY <1>1, <2>4, BusyStays DEF Unheard, external, stored, process
<1>2. ASSUME NEW c \in Callers, NEW b \in Brokers, Answered(c, b), Unheard
      PROVE  TypeOK' /\ WorkerBusy'
  <2>1. fan' \in [Callers -> Calls(Messages) \cup {Nothing}]
    BY <1>2, ReturnsType DEF Answered
  <2>2. TypeOK'
    BY <1>2, <2>1 DEF Answered, Unheard, TypeOK, external, stored, process
  <2> QED BY <1>2, <2>2, BusyStays DEF Unheard, external, stored, process
<1>3. CASE Reconnects
  <2>1. PICK b \in Brokers : Reconnect(b)
    BY <1>3 DEF Reconnects
  <2>2. TypeOK'
    BY <1>3, <2>1 DEF Reconnects, Reconnect, Unheard, TypeOK, external, stored, process
  <2> QED BY <1>3, <2>2, BusyStays DEF Reconnects, Unheard, external, stored, process
<1> QED BY <1>1, <1>2, <1>3 DEF FanOutSteps, FanOut

LEMMA MessageType ==
    ASSUME TypeOK, NEW d \in Deployments
    PROVE  /\ Described(d) \in Descriptions
           /\ [cmd |-> "deployment", of |-> d, id |-> 0, desc |-> Described(d)] \in Messages
           /\ guard[d] # Nothing =>
                 [cmd |-> "deployment", of |-> d, id |-> 0, desc |-> guard[d]] \in Messages
<1>1. Described(d) \in Descriptions
  BY GroupsAssumption DEF Described, TypeOK
<1>2. guard[d] # Nothing => guard[d] \in Descriptions
  BY DEF TypeOK
<1> QED BY <1>1, <1>2 DEF Messages

LEMMA CreationType ==
    TypeOK /\ WorkerBusy /\ (CreationSteps \/ \E d \in Deployments : ApiDescribes(d)) => TypeOK' /\ WorkerBusy'
<1> SUFFICES ASSUME TypeOK, WorkerBusy
             PROVE  CreationSteps \/ (\E d \in Deployments : ApiDescribes(d)) => TypeOK' /\ WorkerBusy'
  OBVIOUS
<1>1. ASSUME NEW d \in Deployments, ApiDescribes(d)
      PROVE  TypeOK' /\ WorkerBusy'
  <2> DEFINE m == [cmd |-> "deployment", of |-> d, id |-> 0, desc |-> Described(d)]
  <2>1. m \in Messages
    BY MessageType
  <2>2. request' = m /\ Publish("api", m)
    BY <1>1 DEF ApiDescribes
  <2>3. fan' \in [Callers -> Calls(Messages) \cup {Nothing}]
    BY <2>1, <2>2, PublishType, CallersAssumption
  <2>4. missed' \subseteq Deployments
    BY <1>1 DEF ApiDescribes, TypeOK
  <2>5. TypeOK'
    <3>1. UNCHANGED <<link, queue, external, stored, up, worker, bringing, ids>>
      BY <1>1 DEF ApiDescribes
    <3>2. request' \in Messages
      BY <2>1, <2>2
    <3> HIDE DEF m
    <3> QED BY <2>3, <2>4, <3>1, <3>2 DEF TypeOK, external, stored
  <2> QED BY <1>1, <2>5, BusyStays DEF ApiDescribes, external, stored
<1>2. CASE ApiCreates
  <2>1. fan' \in [Callers -> Calls(Messages) \cup {Nothing}]
    BY <1>2, FreeType, CallersAssumption DEF ApiCreates
  <2>2. request.of \in Deployments /\ request.desc \in Descriptions
    BY <1>2 DEF ApiCreates, TypeOK, Messages
  <2>3. guard' \in [Deployments -> Descriptions \cup {Nothing}] /\ known' \subseteq Deployments
    BY <1>2, <2>2 DEF ApiCreates, TypeOK
  <2>4. TypeOK'
    BY <1>2, <2>1, <2>3 DEF ApiCreates, TypeOK, external
  <2> QED BY <1>2, <2>4, BusyStays DEF ApiCreates, external
<1>3. ASSUME NEW d \in Deployments, Redeploy(d)
      PROVE  TypeOK' /\ WorkerBusy'
  <2> DEFINE m == [cmd |-> "deployment", of |-> d, id |-> 0, desc |-> guard[d]]
  <2>1. m \in Messages
    BY <1>3, MessageType DEF Redeploy
  <2>2. Publish("warden", m)
    BY <1>3 DEF Redeploy
  <2>3. fan' \in [Callers -> Calls(Messages) \cup {Nothing}]
    BY <2>1, <2>2, PublishType, CallersAssumption
  <2>4. metadata' \in [Deployments -> Metadata \cup {Nothing}] /\ missed' \subseteq Deployments
    BY <1>3 DEF Redeploy, TypeOK
  <2>5. UNCHANGED <<link, queue, external, committed, guard, known, up, worker, request, ids>> /\ bringing' = d
    BY <1>3 DEF Redeploy
  <2>6. TypeOK'
    BY <2>3, <2>4, <2>5 DEF TypeOK, external
  <2> QED BY <2>5, <2>6, BusyStays DEF external
<1>4. CASE Redeployed
  <2>1. fan' \in [Callers -> Calls(Messages) \cup {Nothing}]
    BY <1>4, FreeType, CallersAssumption DEF Redeployed
  <2>2. TypeOK'
    BY <1>4, <2>1 DEF Redeployed, TypeOK, external
  <2> QED BY <1>4, <2>2, BusyStays DEF Redeployed, external
<1> QED BY <1>1, <1>2, <1>3, <1>4 DEF CreationSteps

LEMMA WorldType ==
    TypeOK /\ WorkerBusy /\ (ClientSteps \/ Reports \/ Repairs \/ Announcements \/ OtherCommand
                             \/ \E g \in Groups : GroupChanges(g)) => TypeOK' /\ WorkerBusy'
<1> SUFFICES ASSUME TypeOK, WorkerBusy
             PROVE  ClientSteps \/ Reports \/ Repairs \/ Announcements \/ OtherCommand
                      \/ (\E g \in Groups : GroupChanges(g)) => TypeOK' /\ WorkerBusy'
  OBVIOUS
<1>0. ASSUME NEW d \in Deployments, queue[d] # <<>>, queue' = [queue EXCEPT ![d] = Tail(@)]
      PROVE  /\ queue' \in [Deployments -> Seq(Messages)]
             /\ Head(queue[d]) \in Messages
             /\ Head(queue[d]).desc \in Descriptions
  <2>1. queue[d] \in Seq(Messages)
    BY DEF TypeOK
  <2>2. Head(queue[d]) \in Messages /\ Tail(queue[d]) \in Seq(Messages)
    BY <1>0, <2>1, HeadTailProperties
  <2> QED BY <1>0, <2>2 DEF TypeOK, Messages
<1>1. ASSUME NEW d \in Deployments, ClientDeploys(d)
      PROVE  TypeOK' /\ WorkerBusy'
  <2>1. queue' \in [Deployments -> Seq(Messages)] /\ Head(queue[d]).desc \in Descriptions
    BY <1>0, <1>1 DEF ClientDeploys
  <2>2. ids[d] + 1 \in Nat /\ ids' \in [Deployments -> Nat]
    BY <1>1 DEF ClientDeploys, TypeOK
  <2>3. engine' \in [Deployments -> [id : Nat, desc : Descriptions, first : Descriptions] \cup {Nothing}]
    BY <1>1, <2>1, <2>2 DEF ClientDeploys, TypeOK
  <2>4. TypeOK'
    BY <1>1, <2>1, <2>2, <2>3 DEF ClientDeploys, TypeOK, stored, process
  <2> QED BY <1>1, <2>4, BusyStays DEF ClientDeploys, stored, process
<1>2. ASSUME NEW d \in Deployments, ClientUpdates(d)
      PROVE  TypeOK' /\ WorkerBusy'
  <2>1. queue' \in [Deployments -> Seq(Messages)] /\ Head(queue[d]).desc \in Descriptions
    BY <1>0, <1>2 DEF ClientUpdates
  <2>2. engine' \in [Deployments -> [id : Nat, desc : Descriptions, first : Descriptions] \cup {Nothing}]
    <3>1. CASE engine' = engine
      BY <3>1 DEF TypeOK
    <3>2. CASE engine[d] # Nothing /\ engine' = [engine EXCEPT ![d].desc = Head(queue[d]).desc]
      <4>1. engine[d] \in [id : Nat, desc : Descriptions, first : Descriptions]
        BY <3>2 DEF TypeOK
      <4>2. [engine[d] EXCEPT !.desc = Head(queue[d]).desc] \in [id : Nat, desc : Descriptions, first : Descriptions]
        BY <2>1, <4>1
      <4> QED BY <3>2, <4>2 DEF TypeOK
    <3> QED BY <1>2, <3>1, <3>2 DEF ClientUpdates
  <2>3. TypeOK'
    BY <1>2, <2>1, <2>2 DEF ClientUpdates, TypeOK, stored, process
  <2> QED BY <1>2, <2>3, BusyStays DEF ClientUpdates, stored, process
<1>3. ASSUME NEW d \in Deployments, UpdateDeploymentMetadata(d)
      PROVE  TypeOK' /\ WorkerBusy'
  <2>1. PICK desc \in {engine[d].desc, engine[d].first} :
          metadata' = [metadata EXCEPT ![d] = [of |-> d, id |-> engine[d].id, names |-> ~desc.empty]]
    BY <1>3 DEF UpdateDeploymentMetadata
  <2>2. engine[d].id \in Nat
    BY <1>3 DEF UpdateDeploymentMetadata, TypeOK
  <2>3. (~desc.empty) \in BOOLEAN
    OBVIOUS
  <2>4. metadata' \in [Deployments -> Metadata \cup {Nothing}]
    BY <2>1, <2>2, <2>3 DEF TypeOK, Metadata
  <2>5. TypeOK'
    BY <1>3, <2>4 DEF UpdateDeploymentMetadata, TypeOK, mqttVars, external, process
  <2> QED BY <1>3, <2>5, BusyStays DEF UpdateDeploymentMetadata, external, process
<1>4. ASSUME NEW d \in Deployments, DeleteUnknownDeployments(d)
      PROVE  TypeOK' /\ WorkerBusy'
  <2>1. TypeOK'
    BY <1>4 DEF DeleteUnknownDeployments, TypeOK, mqttVars, external, process
  <2> QED BY <1>4, <2>1, BusyStays DEF DeleteUnknownDeployments, external, process
<1>5. ASSUME NEW d \in Deployments, DeviceBack(d)
      PROVE  TypeOK' /\ WorkerBusy'
  <2>1. TypeOK'
    BY <1>5 DEF DeviceBack, TypeOK, mqttVars, stored, process
  <2> QED BY <1>5, <2>1, BusyStays DEF DeviceBack, stored, process
<1>6. ASSUME NEW g \in Groups, GroupCommand(g)
      PROVE  TypeOK' /\ WorkerBusy'
  <2> DEFINE m == [command |-> "PUT", id |-> g, group |-> repo[g]]
  <2>1. m \in Commands /\ topic' = Append(topic, m)
    BY <1>6 DEF GroupCommand, Commands, TypeOK
  <2> HIDE DEF m
  <2>2. topic' \in Seq(Commands) /\ committed' \in 0 .. Len(topic')
    BY <1>6, <2>1, CommandType DEF GroupCommand, stored
  <2>3. TypeOK'
    BY <1>6, <2>2 DEF GroupCommand, TypeOK, mqttVars, stored, process
  <2> QED BY <1>6, <2>1, <2>3, BusyStays DEF GroupCommand, stored, process
<1>7. CASE OtherCommand
  <2> DEFINE m == [command |-> "other"]
  <2>1. m \in Commands /\ topic' = Append(topic, m)
    BY <1>7 DEF OtherCommand, Commands
  <2> HIDE DEF m
  <2>2. topic' \in Seq(Commands) /\ committed' \in 0 .. Len(topic')
    BY <1>7, <2>1, CommandType DEF OtherCommand, stored
  <2>3. TypeOK'
    BY <1>7, <2>2 DEF OtherCommand, TypeOK, mqttVars, stored, process
  <2> QED BY <1>7, <2>1, <2>3, BusyStays DEF OtherCommand, stored, process
<1>8. ASSUME NEW g \in Groups, GroupChanges(g)
      PROVE  TypeOK' /\ WorkerBusy'
  <2>1. PICK empty \in BOOLEAN : repo' = [repo EXCEPT ![g] = [version |-> @.version + 1, empty |-> empty]]
    BY <1>8 DEF GroupChanges
  <2>2. repo[g].version + 1 \in Nat
    BY DEF TypeOK, Descriptions
  <2>3. repo' \in [Groups -> Descriptions]
    BY <2>1, <2>2 DEF TypeOK, Descriptions
  <2>4. TypeOK'
    BY <1>8, <2>3 DEF GroupChanges, TypeOK, mqttVars, stored, process
  <2> QED BY <1>8, <2>4, BusyStays DEF GroupChanges, stored, process
<1> QED BY <1>1, <1>2, <1>3, <1>4, <1>5, <1>6, <1>7, <1>8
        DEF ClientSteps, Reports, Repairs, Announcements

LEMMA StepType == TypeOK /\ WorkerBusy /\ [Next]_vars => TypeOK' /\ WorkerBusy'
<1>1. CASE UNCHANGED vars
  BY <1>1 DEF vars, mqttVars, external, stored, process, TypeOK, WorkerBusy
<1> QED BY <1>1, WorkerType, FailureType, FanOutType, CreationType, WorldType DEF Next, Changes

-----------------------------------------------------------------------------
(* Ids and ages: steps that add nothing new                                *)

CallQuiet(c) ==
    fan'[c] # Nothing =>
        /\ fan[c] # Nothing /\ fan'[c].msg = fan[c].msg
        /\ \A b \in Brokers : fan'[c].sub[b] = "waiting" => fan[c].sub[b] = "waiting"

FanQuiet == \A c \in Callers : CallQuiet(c)

StoreQuiet ==
    /\ \A d \in Deployments : engine'[d] # Nothing => engine'[d] = engine[d]
    /\ \A d \in Deployments : metadata'[d] # Nothing => metadata'[d] = metadata[d]
    /\ guard' = guard
    /\ request' # Nothing => request' = request
    /\ worker'.found \subseteq worker.found

Quiet == FanQuiet /\ StoreQuiet /\ UNCHANGED <<queue, repo, ids>>

AgesKept == IdsKnown' /\ NotAhead' /\ InOrder'

LEMMA OnItsWayQuiet ==
    ASSUME CallQuiet("updates"), NEW d \in Deployments, OnItsWay(d)'
    PROVE  OnItsWay(d) /\ fan'["updates"].msg = fan["updates"].msg
<1>1. BrokerOf[d] \in Brokers /\ "updates" \in Callers
  BY BrokersAssumption, CallersAssumption DEF Deployments
<1> QED BY <1>1 DEF CallQuiet, OnItsWay

LEMMA OrderKept ==
    ASSUME InOrder, CallQuiet("updates"), queue' = queue,
           \A d \in Deployments : engine'[d] # Nothing => engine'[d] = engine[d]
    PROVE  InOrder'
<1> SUFFICES ASSUME NEW d \in Deployments
             PROVE  InOrder!(d)'
  BY DEF InOrder
<1>1. InOrder!(d)
  BY DEF InOrder
<1> QED BY <1>1, OnItsWayQuiet

LEMMA QuietKeeps ==
    ASSUME AgeInv, Quiet
    PROVE  AgesKept
<1>1. IdsKnown'
  BY DEF AgeInv, IdsKnown, Quiet, FanQuiet, CallQuiet, StoreQuiet
<1>2. NotAhead'
  BY DEF AgeInv, NotAhead, Described, Quiet, FanQuiet, CallQuiet, StoreQuiet
<1>3. InOrder'
  BY OrderKept, CallersAssumption DEF AgeInv, Quiet, FanQuiet, StoreQuiet
<1> QED BY <1>1, <1>2, <1>3 DEF AgesKept

(* Fan-outs that only come on, and callers that go on, are quiet.          *)
LEMMA SameFan == fan' = fan => FanQuiet
BY DEF FanQuiet, CallQuiet

LEMMA FreedFan ==
    ASSUME TypeOK, NEW c \in Callers, fan' = [fan EXCEPT ![c] = Nothing]
    PROVE  FanQuiet
BY DEF FanQuiet, CallQuiet, TypeOK

LEMMA OnFan ==
    ASSUME TypeOK, NEW c \in Callers, NEW b \in Brokers, fan[c] # Nothing,
           NEW s \in {"arrived", "joined"}, NEW E \in SUBSET Brokers,
           fan' \in {[fan EXCEPT ![c].sub[b] = s], [fan EXCEPT ![c].sub[b] = s, ![c].err = @ \cup E]}
    PROVE  /\ FanQuiet
           /\ fan'[c].sub[b] # "waiting"
<1>1. fan[c] \in Calls(Messages)
  BY FanAt
<1>2. \/ fan' = [fan EXCEPT ![c] = [fan[c] EXCEPT !.sub[b] = s]]
      \/ fan' = [fan EXCEPT ![c] = [fan[c] EXCEPT !.sub[b] = s, !.err = @ \cup E]]
  OBVIOUS
<1>3. /\ fan'[c].msg = fan[c].msg
      /\ fan'[c].sub = [fan[c].sub EXCEPT ![b] = s]
  <2>1. \/ fan'[c] = [fan[c] EXCEPT !.sub[b] = s]
        \/ fan'[c] = [fan[c] EXCEPT !.sub[b] = s, !.err = @ \cup E]
    BY <1>2 DEF TypeOK
  <2> QED BY <1>1, <2>1 DEF Calls
<1>4. \A x \in Callers \ {c} : fan'[x] = fan[x]
  BY <1>2 DEF TypeOK
<1>5. fan[c].sub \in [Brokers -> {"waiting", "arrived", "joined"}]
  BY <1>1 DEF Calls
<1>6. FanQuiet
  BY <1>3, <1>4, <1>5 DEF FanQuiet, CallQuiet
<1>7. fan'[c].sub[b] # "waiting"
  BY <1>3, <1>5
<1> QED BY <1>6, <1>7

LEMMA QuietStore ==
    ASSUME UNCHANGED <<engine, metadata, guard, request>>, worker'.found \subseteq worker.found
    PROVE  StoreQuiet
BY DEF StoreQuiet

LEMMA QuietWorker ==
    ASSUME TypeOK,
           \/ Fetch \/ GetAdminToken \/ AllPublished \/ Commit \/ Retry \/ DescribeFails
           \/ TokenRefused \/ CallFails \/ ExpireToken \/ Published
    PROVE  Quiet
<1>1. UNCHANGED <<queue, repo, ids, engine, metadata, guard, request>>
  BY DEF Fetch, GetAdminToken, AllPublished, Commit, Retry, DescribeFails, TokenRefused, CallFails,
         ExpireToken, Published, mqttVars, external, stored
<1>2. CASE Published
  <2>1. FanQuiet
    BY <1>2, FreedFan, CallersAssumption DEF Published
  <2>2. worker'.found \subseteq worker.found
    <3>1. worker \in Workers
      BY DEF TypeOK
    <3>2. \/ worker' = [worker EXCEPT !.pc = "describe", !.found = @ \ {worker.element}, !.element = Nothing]
          \/ worker' = [worker EXCEPT !.pc = "failed"]
      BY <1>2 DEF Published, Goto
    <3> QED BY <3>1, <3>2 DEF Workers
  <2> QED BY <1>1, <2>1, <2>2, QuietStore DEF Quiet
<1>3. CASE ~Published
  <2>1. fan' = fan
    BY <1>3 DEF Fetch, GetAdminToken, AllPublished, Commit, Retry, DescribeFails, TokenRefused, CallFails,
                ExpireToken, mqttVars
  <2>2. worker'.found \subseteq worker.found
    <3>1. CASE Fetch \/ Commit \/ Retry
      BY <3>1 DEF Fetch, Commit, Retry, Idle
    <3>2. CASE GetAdminToken \/ AllPublished \/ DescribeFails \/ TokenRefused \/ CallFails \/ ExpireToken
      BY <3>2 DEF GetAdminToken, AllPublished, DescribeFails, TokenRefused, CallFails, ExpireToken, Goto,
                  TypeOK, Workers
    <3> QED BY <1>3, <3>1, <3>2
  <2> QED BY <1>1, <2>1, <2>2, SameFan, QuietStore DEF Quiet
<1> QED BY <1>2, <1>3

LEMMA QuietRest ==
    ASSUME TypeOK,
           \/ Crash \/ HandlerError \/ CommitError \/ Start \/ Reconnects \/ Repairs \/ Announcements
           \/ OtherCommand \/ Redeployed \/ UNCHANGED vars
           \/ up /\ (\E b \in Brokers : ConnectionLost(b)) /\ Unheard
           \/ \E d \in Deployments : DeviceRemoved(d) \/ DeleteUnknownDeployments(d) \/ ClientLoses(d)
    PROVE  Quiet
<1>1. CASE Crash \/ HandlerError \/ CommitError
  <2>1. ProcessEnds /\ UNCHANGED <<queue, repo, ids, engine, metadata, guard>>
    BY <1>1 DEF Crash, HandlerError, CommitError, external, stored
  <2>2. FanQuiet
    BY <2>1 DEF ProcessEnds, FanQuiet, CallQuiet
  <2>3. StoreQuiet
    BY <2>1 DEF ProcessEnds, StoreQuiet, Idle
  <2> QED BY <2>1, <2>2, <2>3 DEF Quiet
<1>2. CASE \E d \in Deployments : ClientLoses(d)
  <2>1. PICK d \in Deployments : ClientLoses(d)
    BY <1>2
  <2>2. StoreQuiet
    BY <2>1 DEF ClientLoses, StoreQuiet, stored, process, TypeOK
  <2> QED BY <2>1, <2>2, SameFan DEF ClientLoses, Quiet, mqttVars
<1>3. CASE Redeployed
  <2>1. FanQuiet
    BY <1>3, FreedFan, CallersAssumption DEF Redeployed
  <2>2. StoreQuiet
    BY <1>3, QuietStore DEF Redeployed, external
  <2> QED BY <1>3, <2>1, <2>2 DEF Redeployed, Quiet, external
<1>4. CASE Start \/ Reconnects \/ (up /\ (\E b \in Brokers : ConnectionLost(b)) /\ Unheard)
  <2>1. UNCHANGED <<queue, fan, repo, ids, engine, metadata, guard, request, worker>>
    BY <1>4 DEF Start, Reconnects, Reconnect, ConnectionLost, Unheard, external, stored, process
  <2> QED BY <2>1, SameFan, QuietStore DEF Quiet
<1>5. CASE Repairs \/ Announcements \/ OtherCommand \/ UNCHANGED vars
           \/ \E d \in Deployments : DeviceRemoved(d) \/ DeleteUnknownDeployments(d)
  <2>1. UNCHANGED <<queue, fan, repo, ids, engine, metadata, guard, request, worker>>
    BY <1>5 DEF Repairs, DeviceBack, Announcements, GroupCommand, OtherCommand, vars, DeviceRemoved,
                DeleteUnknownDeployments, mqttVars, external, stored, process
  <2> QED BY <2>1, SameFan, QuietStore DEF Quiet
<1> QED BY <1>1, <1>2, <1>3, <1>4, <1>5

LEMMA QuietFanOut ==
    ASSUME TypeOK, NEW c \in Callers, NEW b \in Brokers, Unheard,
           Answered(c, b) \/ SendFails(c, b)
    PROVE  Quiet
<1>1. {b} \in SUBSET Brokers /\ fan[c] # Nothing
  BY DEF Answered, SendFails
<1>2. FanQuiet
  <2>1. CASE fan' = [fan EXCEPT ![c].sub[b] = "joined"]
    BY <1>1, <2>1, OnFan
  <2>2. CASE fan' = [fan EXCEPT ![c].sub[b] = "joined", ![c].err = @ \cup {b}]
    BY <1>1, <2>2, OnFan
  <2> QED BY <2>1, <2>2 DEF Answered, SendFails
<1>3. UNCHANGED <<queue, repo, ids, engine, metadata, guard, request, worker>>
  BY DEF Answered, SendFails, Unheard, external, stored, process
<1> QED BY <1>2, <1>3, QuietStore DEF Quiet

-----------------------------------------------------------------------------
(* Ids and ages: steps that add something                                  *)

LEMMA Numbers ==
    ASSUME TypeOK
    PROVE  /\ \A d \in Deployments :
                 /\ ids[d] \in Nat /\ Described(d).version \in Nat
                 /\ engine[d] # Nothing => engine[d].id \in Nat /\ engine[d].desc.version \in Nat
                 /\ guard[d] # Nothing => guard[d].version \in Nat
                 /\ \A i \in DOMAIN queue[d] : queue[d][i].id \in Nat /\ queue[d][i].desc.version \in Nat
           /\ \A c \in Callers : fan[c] # Nothing => fan[c].msg.id \in Nat /\ fan[c].msg.desc.version \in Nat
           /\ request # Nothing => request.of \in Deployments /\ request.desc.version \in Nat
<1>1. ASSUME NEW d \in Deployments
      PROVE  /\ ids[d] \in Nat /\ Described(d).version \in Nat
             /\ engine[d] # Nothing => engine[d].id \in Nat /\ engine[d].desc.version \in Nat
             /\ guard[d] # Nothing => guard[d].version \in Nat
  BY MessageType DEF TypeOK, Descriptions
<1>2. ASSUME NEW d \in Deployments, NEW i \in DOMAIN queue[d]
      PROVE  queue[d][i].id \in Nat /\ queue[d][i].desc.version \in Nat
  <2>1. queue[d] \in Seq(Messages)
    BY DEF TypeOK
  <2>2. queue[d][i] \in Messages
    BY <2>1
  <2> QED BY <2>2 DEF Messages, Descriptions
<1>3. ASSUME NEW c \in Callers, fan[c] # Nothing
      PROVE  fan[c].msg.id \in Nat /\ fan[c].msg.desc.version \in Nat
  BY <1>3, FanAt DEF Messages, Descriptions
<1>4. request # Nothing => request.of \in Deployments /\ request.desc.version \in Nat
  BY DEF TypeOK, Messages, Descriptions
<1> QED BY <1>1, <1>2, <1>3, <1>4

LEMMA PublishedCall ==
    ASSUME TypeOK, NEW c \in Callers, NEW m, Publish(c, m)
    PROVE  /\ fan[c] = Nothing
           /\ fan'[c].msg = m
           /\ \A x \in Callers \ {c} : fan'[x] = fan[x]
BY DEF Publish, Call, TypeOK

LEMMA ListConcernedAges ==
    ASSUME AgeInv, ListConcerned
    PROVE  AgesKept
<1>1. UNCHANGED <<fan, queue, repo, engine, metadata, guard, request, ids>>
  BY DEF ListConcerned, mqttVars, external, stored
<1>2. \A e \in worker'.found : e.id <= ids[e.of]
  <2>1. worker'.found = Concerned(Command.id)
    BY DEF ListConcerned, AgeInv, TypeOK, Workers
  <2> QED BY <2>1 DEF Concerned, AgeInv, IdsKnown
<1>3. IdsKnown'
  BY <1>1, <1>2 DEF AgeInv, IdsKnown
<1>4. NotAhead'
  BY <1>1 DEF AgeInv, NotAhead, Described
<1>5. InOrder'
  BY <1>1, OrderKept, SameFan, CallersAssumption DEF AgeInv, FanQuiet
<1> QED BY <1>3, <1>4, <1>5 DEF AgesKept

LEMMA UpdateDeploymentMetadataAges ==
    ASSUME AgeInv, NEW d \in Deployments, UpdateDeploymentMetadata(d)
    PROVE  AgesKept
<1>1. UNCHANGED <<fan, queue, repo, engine, worker, guard, request, ids>>
  BY DEF UpdateDeploymentMetadata, mqttVars, external, process
<1>2. ASSUME NEW x \in Deployments, metadata'[x] # Nothing
      PROVE  metadata'[x].of = x /\ metadata'[x].id <= ids[x]
  <2>1. metadata \in [Deployments -> Metadata \cup {Nothing}] /\ ids[d] \in Nat
    BY DEF AgeInv, TypeOK
  <2>2. engine[d].id = ids[d]
    BY DEF UpdateDeploymentMetadata, AgeInv, IdsKnown
  <2>3. CASE x = d
    BY <2>1, <2>2, <2>3 DEF UpdateDeploymentMetadata
  <2>4. CASE x # d
    BY <1>2, <2>1, <2>4 DEF UpdateDeploymentMetadata, AgeInv, IdsKnown
  <2> QED BY <2>3, <2>4
<1>3. IdsKnown'
  BY <1>1, <1>2 DEF AgeInv, IdsKnown
<1>4. NotAhead'
  BY <1>1 DEF AgeInv, NotAhead, Described
<1>5. InOrder'
  BY <1>1, OrderKept, SameFan, CallersAssumption DEF AgeInv, FanQuiet
<1> QED BY <1>3, <1>4, <1>5 DEF AgesKept

LEMMA GroupChangesAges ==
    ASSUME AgeInv, NEW g \in Groups, GroupChanges(g)
    PROVE  AgesKept
<1>1. UNCHANGED <<fan, queue, engine, metadata, worker, guard, request, ids>>
  BY DEF GroupChanges, mqttVars, stored, process
<1>2. ASSUME NEW d \in Deployments
      PROVE  Described(d)'.version \in Nat /\ Described(d).version <= Described(d)'.version
  <2>1. repo \in [Groups -> Descriptions] /\ GroupOf[d] \in Groups
    BY GroupsAssumption DEF AgeInv, TypeOK
  <2>2. repo[GroupOf[d]].version \in Nat
    BY <2>1 DEF Descriptions
  <2> QED BY <2>1, <2>2 DEF GroupChanges, Described
<1>3. \A c \in Callers : fan[c] # Nothing => fan[c].msg.of \in Deployments
  BY FanAt DEF AgeInv
<1>4. NotAhead'
  BY <1>1, <1>2, <1>3, Numbers DEF AgeInv, NotAhead
<1>5. IdsKnown'
  BY <1>1 DEF AgeInv, IdsKnown
<1>6. InOrder'
  BY <1>1, OrderKept, SameFan, CallersAssumption DEF AgeInv, FanQuiet
<1> QED BY <1>4, <1>5, <1>6 DEF AgesKept

LEMMA ApiDescribesAges ==
    ASSUME AgeInv, NEW d \in Deployments, ApiDescribes(d)
    PROVE  AgesKept
<1> DEFINE m == [cmd |-> "deployment", of |-> d, id |-> 0, desc |-> Described(d)]
<1>1. UNCHANGED <<queue, repo, engine, metadata, worker, guard, ids>> /\ request' = m
  BY DEF ApiDescribes, external, stored
<1>2. /\ fan["api"] = Nothing /\ fan'["api"].msg = m
      /\ \A x \in Callers \ {"api"} : fan'[x] = fan[x]
  BY PublishedCall, CallersAssumption DEF ApiDescribes, AgeInv
<1>3. ~Update(m) /\ Described(d).version <= Described(d).version
  BY Numbers DEF Update, AgeInv
<1>4. IdsKnown'
  BY <1>1, <1>2, <1>3 DEF AgeInv, IdsKnown, Update
<1>5. NotAhead'
  BY <1>1, <1>2, <1>3 DEF AgeInv, NotAhead, Described
<1>6. InOrder'
  BY <1>1, <1>2, OrderKept, CallersAssumption DEF AgeInv, CallQuiet
<1> QED BY <1>4, <1>5, <1>6 DEF AgesKept

LEMMA RedeployAges ==
    ASSUME AgeInv, NEW d \in Deployments, Redeploy(d)
    PROVE  AgesKept
<1> DEFINE m == [cmd |-> "deployment", of |-> d, id |-> 0, desc |-> guard[d]]
<1>1. UNCHANGED <<queue, repo, engine, worker, guard, request, ids>>
  BY DEF Redeploy, external
<1>2. /\ fan["warden"] = Nothing /\ fan'["warden"].msg = m
      /\ \A x \in Callers \ {"warden"} : fan'[x] = fan[x]
  BY PublishedCall, CallersAssumption DEF Redeploy, AgeInv
<1>3. ~Update(m) /\ guard[d].version <= Described(d).version
  BY DEF Update, Redeploy, AgeInv, NotAhead
<1>4. \A x \in Deployments : metadata'[x] # Nothing => metadata'[x] = metadata[x]
  BY DEF Redeploy, AgeInv, TypeOK
<1>5. IdsKnown'
  BY <1>1, <1>2, <1>3, <1>4 DEF AgeInv, IdsKnown, Update
<1>6. NotAhead'
  BY <1>1, <1>2, <1>3 DEF AgeInv, NotAhead, Described
<1>7. InOrder'
  BY <1>1, <1>2, OrderKept, CallersAssumption DEF AgeInv, CallQuiet
<1> QED BY <1>5, <1>6, <1>7 DEF AgesKept

LEMMA ApiCreatesAges ==
    ASSUME AgeInv, ApiCreates
    PROVE  AgesKept
<1>1. UNCHANGED <<queue, repo, engine, metadata, worker, ids>> /\ request' = Nothing
  BY DEF ApiCreates, external
<1>2. FanQuiet
  BY FreedFan, CallersAssumption DEF ApiCreates, AgeInv
<1>3. ASSUME NEW d \in Deployments, guard'[d] # Nothing
      PROVE  guard'[d].version <= Described(d).version
  <2>1. guard \in [Deployments -> Descriptions \cup {Nothing}] /\ request # Nothing
    BY DEF ApiCreates, AgeInv, TypeOK
  <2>2. request.desc.version <= Described(request.of).version
    BY <2>1 DEF AgeInv, NotAhead
  <2>3. CASE d = request.of
    BY <2>1, <2>2, <2>3 DEF ApiCreates
  <2>4. CASE d # request.of
    BY <1>3, <2>1, <2>4 DEF ApiCreates, AgeInv, NotAhead
  <2> QED BY <2>3, <2>4
<1>4. IdsKnown'
  BY <1>1, <1>2 DEF AgeInv, IdsKnown, FanQuiet, CallQuiet
<1>5. NotAhead'
  BY <1>1, <1>2, <1>3 DEF AgeInv, NotAhead, Described, FanQuiet, CallQuiet
<1>6. InOrder'
  BY <1>1, <1>2, OrderKept, CallersAssumption DEF AgeInv, FanQuiet
<1> QED BY <1>4, <1>5, <1>6 DEF AgesKept

(* A description that is computed now is as new as any.                    *)
LEMMA DescribeAges ==
    ASSUME AgeInv, NEW e \in worker.found, Describe(e)
    PROVE  AgesKept
<1> DEFINE m == [cmd |-> "event-descriptions", of |-> e.of, id |-> e.id, desc |-> Described(e.of)]
<1>0. e \in Metadata /\ e.of \in Deployments
  BY DEF AgeInv, TypeOK, Workers, Metadata
<1>1. UNCHANGED <<queue, repo, engine, metadata, guard, request, ids>> /\ worker'.found = worker.found
  BY DEF Describe, external, stored, AgeInv, TypeOK, Workers
<1>2. /\ fan["updates"] = Nothing /\ fan'["updates"].msg = m
      /\ \A x \in Callers \ {"updates"} : fan'[x] = fan[x]
  BY PublishedCall, CallersAssumption DEF Describe, AgeInv
<1>3. Update(m) /\ e.id <= ids[e.of] /\ Described(e.of).version <= Described(e.of).version
  BY <1>0, Numbers DEF Update, AgeInv, IdsKnown
<1>4. IdsKnown'
  BY <1>1, <1>2, <1>3 DEF AgeInv, IdsKnown, Update
<1>5. NotAhead'
  BY <1>1, <1>2, <1>3 DEF AgeInv, NotAhead, Described
<1>6. InOrder'
  <2> SUFFICES ASSUME NEW d \in Deployments
               PROVE  InOrder!(d)'
    BY DEF InOrder
  <2>1. InOrder!(d)!1
    BY DEF AgeInv, InOrder
  <2>2. ASSUME OnItsWay(d)'
        PROVE  d = e.of
    BY <1>2, <2>2 DEF OnItsWay
  <2>3. /\ engine[d] # Nothing => engine[d].desc.version <= Described(d).version
        /\ \A i \in DOMAIN queue[d] : queue[d][i].desc.version <= Described(d).version
    BY DEF AgeInv, NotAhead
  <2> HIDE DEF m
  <2>4. m.desc = Described(e.of)
    BY DEF m
  <2> QED BY <1>1, <1>2, <2>1, <2>2, <2>3, <2>4
<1> QED BY <1>4, <1>5, <1>6 DEF AgesKept

(* A message that arrives waits behind all others.                         *)
LEMMA ArrivesAges ==
    ASSUME AgeInv, NEW c \in Callers, NEW b \in Brokers, Arrives(c, b), Unheard
    PROVE  AgesKept
<1>m. PICK m \in Messages : m = fan[c].msg
  BY FanAt DEF Arrives, AgeInv
<1>t. PICK t \in Deployments : t = m.of
  BY DEF Messages
<1>0. fan[c] # Nothing /\ fan[c].msg = m /\ m.of = t
  BY <1>m, <1>t DEF Arrives
<1>1. UNCHANGED <<repo, engine, metadata, worker, guard, request, ids>>
  BY DEF Unheard, external, stored, process
<1>2. /\ FanQuiet
      /\ fan'[c].sub[b] # "waiting"
  BY <1>0, OnFan DEF Arrives, AgeInv
<1>3. CASE queue' = queue
  BY <1>1, <1>2, <1>3, QuietKeeps, QuietStore DEF Quiet
<1>4. CASE queue' = [queue EXCEPT ![t] = Append(@, m)] /\ BrokerOf[t] = b
  <2>0. queue \in [Deployments -> Seq(Messages)]
    BY DEF AgeInv, TypeOK
  <2>q. PICK q \in Seq(Messages) : q = queue[t]
    BY <2>0
  <2> DEFINE n == Len(q) + 1
  <2>1. /\ q \in Seq(Messages) /\ n \in Nat
        /\ queue'[t] = Append(q, m)
        /\ \A d \in Deployments \ {t} : queue'[d] = queue[d]
    BY <1>4, <2>0, <2>q
  <2>2. /\ DOMAIN queue'[t] = 1 .. n /\ DOMAIN q = 1 .. (n - 1)
        /\ queue'[t][n] = m
        /\ \A i \in DOMAIN q : queue'[t][i] = q[i]
    BY <2>1
  <2> HIDE DEF n
  <2>3. Update(m) => c = "updates" /\ m.id <= ids[t]
    BY <1>0 DEF AgeInv, IdsKnown
  <2>4. m.desc.version <= Described(t).version
    BY <1>0 DEF AgeInv, NotAhead
  <2>5. \A i \in DOMAIN queue'[t] : i = n \/ (i \in DOMAIN q /\ i < n)
    BY <2>1, <2>2
  <2>6. IdsKnown'
    <3>1. \A d \in Deployments : \A i \in DOMAIN queue'[d] : Update(queue'[d][i]) => queue'[d][i].id <= ids[d]
      <4>1. ASSUME NEW d \in Deployments \ {t}, NEW i \in DOMAIN queue'[d], Update(queue'[d][i])
            PROVE  queue'[d][i].id <= ids[d]
        BY <2>1, <4>1 DEF AgeInv, IdsKnown
      <4>2. ASSUME NEW i \in DOMAIN queue'[t], Update(queue'[t][i])
            PROVE  queue'[t][i].id <= ids[t]
        <5>1. CASE i = n
          BY <2>2, <2>3, <4>2, <5>1
        <5>2. CASE i \in DOMAIN q
          BY <2>q, <2>2, <4>2, <5>2 DEF AgeInv, IdsKnown
        <5> QED BY <2>5, <5>1, <5>2
      <4> QED BY <4>1, <4>2
    <3> QED BY <1>1, <1>2, <3>1 DEF AgeInv, IdsKnown, FanQuiet, CallQuiet
  <2>7. NotAhead'
    <3>1. \A d \in Deployments : \A i \in DOMAIN queue'[d] : queue'[d][i].desc.version <= Described(d).version
      <4>1. ASSUME NEW d \in Deployments \ {t}, NEW i \in DOMAIN queue'[d]
            PROVE  queue'[d][i].desc.version <= Described(d).version
        BY <2>1, <4>1 DEF AgeInv, NotAhead
      <4>2. ASSUME NEW i \in DOMAIN queue'[t]
            PROVE  queue'[t][i].desc.version <= Described(t).version
        <5>1. CASE i = n
          BY <2>2, <2>4, <5>1
        <5>2. CASE i \in DOMAIN q
          BY <2>q, <2>2, <5>2 DEF AgeInv, NotAhead
        <5> QED BY <2>5, <5>1, <5>2
      <4> QED BY <4>1, <4>2
    <3> QED BY <1>1, <1>2, <3>1 DEF AgeInv, NotAhead, Described, FanQuiet, CallQuiet
  <2>8. InOrder'
    <3> SUFFICES ASSUME NEW d \in Deployments
                 PROVE  InOrder!(d)'
      BY DEF InOrder
    <3>1. InOrder!(d)
      BY DEF AgeInv, InOrder
    <3>2. CallQuiet("updates")
      BY <1>2, CallersAssumption DEF FanQuiet
    <3>3. CASE d # t
      BY <1>1, <2>1, <3>1, <3>2, <3>3, OnItsWayQuiet
    <3>4. CASE d = t
      <4>1. Update(m) => OnItsWay(t) /\ fan["updates"].msg = m
        <5>1. fan[c].sub[b] = "waiting"
          BY DEF Arrives
        <5> QED BY <1>0, <1>4, <2>3, <5>1 DEF OnItsWay
      <4>2. ASSUME NEW i \in DOMAIN queue'[t],
                   Update(queue'[t][i]), engine[t] # Nothing, queue'[t][i].id = engine[t].id
            PROVE  engine[t].desc.version <= queue'[t][i].desc.version
        <5>1. CASE i = n
          BY <2>2, <3>1, <3>4, <4>1, <4>2, <5>1
        <5>2. CASE i \in DOMAIN q
          BY <2>q, <2>2, <3>1, <3>4, <4>2, <5>2
        <5> QED BY <2>5, <5>1, <5>2
      <4>3. ASSUME NEW i \in DOMAIN queue'[t], NEW j \in DOMAIN queue'[t], i < j,
                   Update(queue'[t][i]), Update(queue'[t][j]), queue'[t][i].id = queue'[t][j].id
            PROVE  queue'[t][i].desc.version <= queue'[t][j].desc.version
        <5>1. i \in DOMAIN q /\ queue'[t][i] = q[i]
          BY <2>1, <2>2, <2>5, <4>3
        <5>2. CASE j = n
          BY <2>q, <2>2, <3>1, <3>4, <4>1, <4>3, <5>1, <5>2
        <5>3. CASE j \in DOMAIN q
          BY <2>q, <2>2, <3>1, <3>4, <4>3, <5>1, <5>3
        <5> QED BY <2>5, <5>2, <5>3
      <4>4. ASSUME OnItsWay(t)'
            PROVE  /\ OnItsWay(t) /\ fan'["updates"].msg = fan["updates"].msg
                   /\ ~Update(m)
        <5>1. OnItsWay(t) /\ fan'["updates"].msg = fan["updates"].msg
          BY <3>2, <3>4, <4>4, OnItsWayQuiet
        <5>2. c # "updates"
          BY <1>2, <1>4, <4>4 DEF OnItsWay
        <5> QED BY <2>3, <5>1, <5>2
      <4>5. ASSUME OnItsWay(t)', NEW i \in DOMAIN queue'[t],
                   Update(queue'[t][i]), queue'[t][i].id = fan'["updates"].msg.id
            PROVE  queue'[t][i].desc.version <= fan'["updates"].msg.desc.version
        <5>1. i \in DOMAIN q /\ queue'[t][i] = q[i]
          BY <2>2, <2>5, <4>4, <4>5
        <5> QED BY <2>q, <3>1, <3>4, <4>4, <4>5, <5>1
      <4>6. OnItsWay(t)' /\ engine[t] # Nothing /\ engine[t].id = fan'["updates"].msg.id
              => engine[t].desc.version <= fan'["updates"].msg.desc.version
        BY <3>1, <3>4, <4>4
      <4>7. engine' = engine
        BY <1>1
      <4>8. \A i \in DOMAIN queue'[t] :
               /\ Update(queue'[t][i]) /\ engine'[t] # Nothing /\ queue'[t][i].id = engine'[t].id
                     => engine'[t].desc.version <= queue'[t][i].desc.version
               /\ \A j \in DOMAIN queue'[t] :
                     i < j /\ Update(queue'[t][i]) /\ Update(queue'[t][j]) /\ queue'[t][i].id = queue'[t][j].id
                         => queue'[t][i].desc.version <= queue'[t][j].desc.version
        BY <4>2, <4>3, <4>7
      <4>9. OnItsWay(t)' =>
               /\ engine'[t] # Nothing /\ engine'[t].id = fan'["updates"].msg.id
                     => engine'[t].desc.version <= fan'["updates"].msg.desc.version
               /\ \A i \in DOMAIN queue'[t] :
                     Update(queue'[t][i]) /\ queue'[t][i].id = fan'["updates"].msg.id
                         => queue'[t][i].desc.version <= fan'["updates"].msg.desc.version
        BY <4>5, <4>6, <4>7
      <4> QED BY <3>4, <4>8, <4>9
    <3> QED BY <3>3, <3>4
  <2> QED BY <2>6, <2>7, <2>8 DEF AgesKept
<1>5. IF BrokerOf[fan[c].msg.of] = b
      THEN queue' = [queue EXCEPT ![fan[c].msg.of] = Append(queue[fan[c].msg.of], fan[c].msg)]
      ELSE queue' = queue
  BY DEF Arrives
<1>6. queue' = queue \/ (queue' = [queue EXCEPT ![t] = Append(@, m)] /\ BrokerOf[t] = b)
  BY <1>0, <1>5
<1> QED BY <1>3, <1>4, <1>6

(* A client takes the first message; the others move up.                   *)
LEMMA Taken ==
    ASSUME TypeOK, NEW d \in Deployments, queue[d] # <<>>, queue' = [queue EXCEPT ![d] = Tail(@)]
    PROVE  /\ 1 \in DOMAIN queue[d] /\ Head(queue[d]) = queue[d][1] /\ queue[d][1] \in Messages
           /\ \A i \in DOMAIN queue'[d] :
                 i \in Nat /\ 1 < i + 1 /\ i + 1 \in DOMAIN queue[d] /\ queue'[d][i] = queue[d][i + 1]
           /\ \A x \in Deployments \ {d} : queue'[x] = queue[x]
<1>0. queue \in [Deployments -> Seq(Messages)]
  BY DEF TypeOK
<1>1. PICK q \in Seq(Messages) : q = queue[d]
  BY <1>0
<1>2. queue'[d] = Tail(q) /\ \A x \in Deployments \ {d} : queue'[x] = queue[x]
  BY <1>0, <1>1
<1>3. q # <<>>
  BY <1>1
<1>4. Len(q) \in Nat /\ Len(q) # 0
  BY <1>3, EmptySeq
<1>5. /\ 1 \in DOMAIN q /\ Head(q) = q[1] /\ q[1] \in Messages
      /\ DOMAIN Tail(q) = 1 .. (Len(q) - 1) /\ DOMAIN q = 1 .. Len(q)
  BY <1>3, <1>4
<1>6. \A i \in DOMAIN Tail(q) : i \in Nat /\ 1 < i + 1 /\ i + 1 \in DOMAIN q /\ Tail(q)[i] = q[i + 1]
  BY <1>3, <1>4, <1>5
<1> QED BY <1>1, <1>2, <1>5, <1>6

(* A deployment that is deployed has an id that nothing on its way names.  *)
LEMMA ClientDeploysAges ==
    ASSUME AgeInv, NEW d \in Deployments, ClientDeploys(d)
    PROVE  AgesKept
<1>1. UNCHANGED <<fan, repo, metadata, worker, guard, request>>
  BY DEF ClientDeploys, stored, process
<1>2. /\ 1 \in DOMAIN queue[d] /\ Head(queue[d]) = queue[d][1] /\ queue[d][1] \in Messages
      /\ \A i \in DOMAIN queue'[d] :
            i \in Nat /\ 1 < i + 1 /\ i + 1 \in DOMAIN queue[d] /\ queue'[d][i] = queue[d][i + 1]
      /\ \A x \in Deployments \ {d} : queue'[x] = queue[x]
  BY Taken DEF ClientDeploys, AgeInv
<1>3. /\ ids[d] \in Nat /\ ids'[d] = ids[d] + 1
      /\ \A x \in Deployments \ {d} : ids'[x] = ids[x] /\ engine'[x] = engine[x]
      /\ engine'[d] = [id |-> ids[d] + 1, desc |-> Head(queue[d]).desc, first |-> Head(queue[d]).desc]
  BY DEF ClientDeploys, AgeInv, TypeOK
<1>4. engine'[d].id = ids[d] + 1 /\ engine'[d].desc = queue[d][1].desc
  BY <1>2, <1>3
<1>5. \A x \in Deployments : \A n \in Nat : n <= ids[x] => n <= ids'[x]
  BY <1>3
<1>6. \A x \in Deployments : \A i \in DOMAIN queue'[x] : \E j \in DOMAIN queue[x] : queue'[x][i] = queue[x][j]
  BY <1>2
<1>7. IdsKnown'
  <2>1. ASSUME NEW x \in Deployments
        PROVE  /\ engine'[x] # Nothing => engine'[x].id = ids'[x]
               /\ metadata[x] # Nothing => metadata[x].of = x /\ metadata[x].id <= ids'[x]
               /\ \A i \in DOMAIN queue'[x] : Update(queue'[x][i]) => queue'[x][i].id <= ids'[x]
    <3>1. engine'[x] # Nothing => engine'[x].id = ids'[x]
      BY <1>3, <1>4 DEF AgeInv, IdsKnown
    <3>2. metadata[x] # Nothing => metadata[x].id \in Nat
      BY DEF AgeInv, TypeOK, Metadata
    <3>3. metadata[x] # Nothing => metadata[x].of = x /\ metadata[x].id <= ids'[x]
      BY <1>5, <3>2 DEF AgeInv, IdsKnown
    <3>4. ASSUME NEW i \in DOMAIN queue'[x], Update(queue'[x][i])
          PROVE  queue'[x][i].id <= ids'[x]
      <4>1. PICK j \in DOMAIN queue[x] : queue'[x][i] = queue[x][j]
        BY <1>6
      <4>2. queue[x][j].id \in Nat /\ queue[x][j].id <= ids[x]
        BY <3>4, <4>1, Numbers DEF AgeInv, IdsKnown
      <4> QED BY <1>5, <4>1, <4>2
    <3> QED BY <3>1, <3>3, <3>4
  <2>2. ASSUME NEW e \in worker.found
        PROVE  e.id <= ids'[e.of]
    <3>1. e \in Metadata
      BY DEF AgeInv, TypeOK, Workers
    <3>2. e.of \in Deployments /\ e.id \in Nat /\ e.id <= ids[e.of]
      BY <3>1 DEF Metadata, AgeInv, IdsKnown
    <3> QED BY <1>5, <3>2
  <2>3. ASSUME NEW c \in Callers, fan[c] # Nothing, c = "updates"
        PROVE  fan[c].msg.id <= ids'[fan[c].msg.of]
    <3>1. fan[c].msg.of \in Deployments /\ fan[c].msg.id \in Nat /\ fan[c].msg.id <= ids[fan[c].msg.of]
      BY <2>3, FanAt, Numbers DEF AgeInv, IdsKnown
    <3> QED BY <1>5, <3>1
  <2> QED BY <1>1, <2>1, <2>2, <2>3 DEF AgeInv, IdsKnown
<1>8. NotAhead'
  BY <1>1, <1>2, <1>3, <1>4, <1>6 DEF AgeInv, NotAhead, Described
<1>9. InOrder'
  <2> SUFFICES ASSUME NEW x \in Deployments
               PROVE  InOrder!(x)'
    BY DEF InOrder
  <2>1. InOrder!(x)
    BY DEF AgeInv, InOrder
  <2>2. OnItsWay(x)' <=> OnItsWay(x)
    BY <1>1 DEF OnItsWay
  <2>3. CASE x # d
    BY <1>1, <1>2, <1>3, <2>1, <2>2, <2>3
  <2>4. CASE x = d
    <3>1. ASSUME NEW i \in DOMAIN queue'[d], Update(queue'[d][i])
          PROVE  queue'[d][i].id # engine'[d].id
      <4>1. PICK j \in DOMAIN queue[d] : queue'[d][i] = queue[d][j]
        BY <1>6
      <4>2. queue[d][j].id \in Nat /\ queue[d][j].id <= ids[d]
        BY <3>1, <4>1, Numbers DEF AgeInv, IdsKnown
      <4> QED BY <1>3, <1>4, <4>1, <4>2
    <3>2. ASSUME OnItsWay(d)
          PROVE  fan["updates"].msg.id # engine'[d].id
      <4>1. fan["updates"].msg.id \in Nat /\ fan["updates"].msg.id <= ids[d]
        BY <3>2, Numbers, CallersAssumption DEF OnItsWay, AgeInv, IdsKnown
      <4> QED BY <1>3, <1>4, <4>1
    <3>3. ASSUME NEW i \in DOMAIN queue'[d], NEW j \in DOMAIN queue'[d], i < j,
                 Update(queue'[d][i]), Update(queue'[d][j]), queue'[d][i].id = queue'[d][j].id
          PROVE  queue'[d][i].desc.version <= queue'[d][j].desc.version
      <4>1. i + 1 < j + 1
        BY <1>2, <3>3
      <4> QED BY <1>2, <2>1, <2>4, <3>3, <4>1
    <3>4. ASSUME OnItsWay(d), NEW i \in DOMAIN queue'[d],
                 Update(queue'[d][i]), queue'[d][i].id = fan["updates"].msg.id
          PROVE  queue'[d][i].desc.version <= fan["updates"].msg.desc.version
      <4>1. PICK j \in DOMAIN queue[d] : queue'[d][i] = queue[d][j]
        BY <1>6
      <4> QED BY <2>1, <2>4, <3>4, <4>1
    <3> QED BY <1>1, <2>2, <2>4, <3>1, <3>2, <3>3, <3>4
  <2> QED BY <2>3, <2>4
<1> QED BY <1>7, <1>8, <1>9 DEF AgesKept

(* What a client takes to update a deployment is no newer than what comes  *)
(* behind it.                                                              *)
LEMMA ClientUpdatesEngine ==
    ASSUME TypeOK, NEW d \in Deployments, ClientUpdates(d)
    PROVE  /\ \A x \in Deployments : engine'[x] = engine[x] \/ x = d
           /\ \/ engine'[d] = engine[d]
              \/ /\ engine[d] # Nothing /\ engine[d].id = Head(queue[d]).id
                 /\ engine'[d] # Nothing => engine'[d].id = engine[d].id
                 /\ engine'[d].desc = Head(queue[d]).desc
<1>1. engine[d] # Nothing => engine[d] \in [id : Nat, desc : Descriptions, first : Descriptions]
  BY DEF TypeOK
<1>2. CASE engine' = engine
  BY <1>2
<1>3. CASE /\ engine[d] # Nothing /\ engine[d].id = Head(queue[d]).id
           /\ engine' = [engine EXCEPT ![d].desc = Head(queue[d]).desc]
  <2>1. engine'[d] = [engine[d] EXCEPT !.desc = Head(queue[d]).desc]
    BY <1>3 DEF TypeOK
  <2>2. engine'[d].id = engine[d].id /\ engine'[d].desc = Head(queue[d]).desc
    BY <1>1, <1>3, <2>1
  <2> QED BY <1>3, <2>2 DEF TypeOK
<1> QED BY <1>2, <1>3 DEF ClientUpdates

LEMMA ClientUpdatesAges ==
    ASSUME AgeInv, NEW d \in Deployments, ClientUpdates(d)
    PROVE  AgesKept
<1>1. UNCHANGED <<fan, repo, metadata, worker, guard, request, ids>>
  BY DEF ClientUpdates, stored, process
<1>2. /\ 1 \in DOMAIN queue[d] /\ Head(queue[d]) = queue[d][1] /\ queue[d][1] \in Messages
      /\ \A i \in DOMAIN queue'[d] :
            i \in Nat /\ 1 < i + 1 /\ i + 1 \in DOMAIN queue[d] /\ queue'[d][i] = queue[d][i + 1]
      /\ \A x \in Deployments \ {d} : queue'[x] = queue[x]
  BY Taken DEF ClientUpdates, AgeInv
<1>3. /\ \A x \in Deployments : engine'[x] = engine[x] \/ x = d
      /\ \/ engine'[d] = engine[d]
         \/ /\ engine[d] # Nothing /\ engine[d].id = queue[d][1].id
            /\ engine'[d] # Nothing => engine'[d].id = engine[d].id
            /\ engine'[d].desc = queue[d][1].desc
  BY <1>2, ClientUpdatesEngine DEF AgeInv
<1>4. Update(queue[d][1])
  BY <1>2 DEF ClientUpdates, Update
<1>5. \A x \in Deployments : \A i \in DOMAIN queue'[x] : \E j \in DOMAIN queue[x] : queue'[x][i] = queue[x][j]
  BY <1>2
<1>6. IdsKnown'
  BY <1>1, <1>3, <1>5 DEF AgeInv, IdsKnown
<1>7. NotAhead'
  BY <1>1, <1>2, <1>3, <1>5 DEF AgeInv, NotAhead, Described
<1>8. InOrder'
  <2> SUFFICES ASSUME NEW x \in Deployments
               PROVE  InOrder!(x)'
    BY DEF InOrder
  <2>1. InOrder!(x)
    BY DEF AgeInv, InOrder
  <2>2. OnItsWay(x)' <=> OnItsWay(x)
    BY <1>1 DEF OnItsWay
  <2>3. CASE x # d
    BY <1>1, <1>2, <1>3, <2>1, <2>2, <2>3
  <2>4. CASE x = d
    <3>1. ASSUME NEW i \in DOMAIN queue'[d], Update(queue'[d][i]),
                 engine'[d] # Nothing, queue'[d][i].id = engine'[d].id
          PROVE  engine'[d].desc.version <= queue'[d][i].desc.version
      <4>1. i + 1 \in DOMAIN queue[d] /\ queue'[d][i] = queue[d][i + 1] /\ 1 < i + 1
        BY <1>2
      <4>2. CASE engine'[d] = engine[d]
        BY <2>1, <2>4, <3>1, <4>1, <4>2
      <4>3. CASE engine'[d] # engine[d]
        <5>1. queue[d][i + 1].id = queue[d][1].id /\ engine'[d].desc = queue[d][1].desc
          BY <1>3, <3>1, <4>1, <4>3
        <5> QED BY <1>2, <1>4, <2>1, <2>4, <3>1, <4>1, <5>1
      <4> QED BY <4>2, <4>3
    <3>2. ASSUME OnItsWay(d), engine'[d] # Nothing, engine'[d].id = fan["updates"].msg.id
          PROVE  engine'[d].desc.version <= fan["updates"].msg.desc.version
      <4>1. CASE engine'[d] = engine[d]
        BY <2>1, <2>4, <3>2, <4>1
      <4>2. CASE engine'[d] # engine[d]
        <5>1. queue[d][1].id = fan["updates"].msg.id /\ engine'[d].desc = queue[d][1].desc
          BY <1>3, <3>2, <4>2
        <5> QED BY <1>2, <1>4, <2>1, <2>4, <3>2, <5>1
      <4> QED BY <4>1, <4>2
    <3>3. ASSUME NEW i \in DOMAIN queue'[d], NEW j \in DOMAIN queue'[d], i < j,
                 Update(queue'[d][i]), Update(queue'[d][j]), queue'[d][i].id = queue'[d][j].id
          PROVE  queue'[d][i].desc.version <= queue'[d][j].desc.version
      <4>1. i + 1 < j + 1
        BY <1>2, <3>3
      <4> QED BY <1>2, <2>1, <2>4, <3>3, <4>1
    <3>4. ASSUME OnItsWay(d), NEW i \in DOMAIN queue'[d],
                 Update(queue'[d][i]), queue'[d][i].id = fan["updates"].msg.id
          PROVE  queue'[d][i].desc.version <= fan["updates"].msg.desc.version
      <4>1. PICK j \in DOMAIN queue[d] : queue'[d][i] = queue[d][j]
        BY <1>5
      <4> QED BY <2>1, <2>4, <3>4, <4>1
    <3> QED BY <1>1, <2>2, <2>4, <3>1, <3>2, <3>3, <3>4
  <2> QED BY <2>3, <2>4
<1> QED BY <1>6, <1>7, <1>8 DEF AgesKept

-----------------------------------------------------------------------------
(* The invariant and the theorems                                          *)

LEMMA InitAges == Init => AgeInv
<1> SUFFICES ASSUME Init PROVE AgeInv
  OBVIOUS
<1>1. TypeOK
  BY InitType
<1>2. WorkerBusy
  BY DEF Init, WorkerBusy, Idle
<1>3. /\ \A d \in Deployments : engine[d] = Nothing /\ metadata[d] = Nothing /\ guard[d] = Nothing
      /\ \A d \in Deployments : queue[d] = <<>>
      /\ \A c \in Callers : fan[c] = Nothing
      /\ worker.found = {} /\ request = Nothing
  BY DEF Init, MqttInit, Idle, Deployments
<1>4. \A d \in Deployments : \A i \in DOMAIN queue[d] : FALSE
  BY <1>3
<1>5. IdsKnown /\ NotAhead
  BY <1>3, <1>4 DEF IdsKnown, NotAhead
<1>6. InOrder
  BY <1>3, <1>4, CallersAssumption DEF InOrder, OnItsWay
<1> QED BY <1>1, <1>2, <1>5, <1>6 DEF AgeInv

LEMMA StepAges == AgeInv /\ [Next]_vars => AgeInv'
<1> SUFFICES ASSUME AgeInv, [Next]_vars PROVE AgeInv'
  OBVIOUS
<1>t. TypeOK
  BY DEF AgeInv
<1>1. TypeOK' /\ WorkerBusy'
  BY StepType DEF AgeInv
<1> SUFFICES AgesKept
  BY <1>1 DEF AgeInv, AgesKept
<1>2. CASE \/ Fetch \/ GetAdminToken \/ AllPublished \/ Commit \/ Retry \/ DescribeFails
           \/ TokenRefused \/ CallFails \/ ExpireToken \/ Published
  BY <1>t, <1>2, QuietWorker, QuietKeeps
<1>3. CASE \/ Crash \/ HandlerError \/ CommitError \/ Start \/ Reconnects \/ Repairs \/ Announcements
           \/ OtherCommand \/ Redeployed \/ UNCHANGED vars
           \/ up /\ (\E b \in Brokers : ConnectionLost(b)) /\ Unheard
           \/ \E d \in Deployments : DeviceRemoved(d) \/ DeleteUnknownDeployments(d) \/ ClientLoses(d)
  BY <1>t, <1>3, QuietRest, QuietKeeps
<1>4. CASE \/ \E c \in Callers : FanOutSteps(c)
           \/ (\E c \in Callers, b \in Brokers : SendFails(c, b)) /\ Unheard
  <2>1. PICK c \in Callers, b \in Brokers : Unheard /\ (Arrives(c, b) \/ Answered(c, b) \/ SendFails(c, b))
    BY <1>4 DEF FanOutSteps, FanOut
  <2> QED BY <1>t, <2>1, ArrivesAges, QuietFanOut, QuietKeeps
<1>5. CASE \/ ListConcerned \/ ApiCreates
           \/ \E d \in Deployments : \E e \in worker.found : Describe(e)
           \/ \E d \in Deployments : Redeploy(d) \/ ApiDescribes(d) \/ UpdateDeploymentMetadata(d)
           \/ \E g \in Groups : GroupChanges(g)
           \/ ClientSteps
  BY <1>5, ListConcernedAges, ApiCreatesAges, DescribeAges, RedeployAges, ApiDescribesAges,
     UpdateDeploymentMetadataAges, GroupChangesAges, ClientDeploysAges, ClientUpdatesAges DEF ClientSteps
<1> QED BY <1>2, <1>3, <1>4, <1>5 DEF Next, WorkerSteps, CreationSteps, Reports, Changes, Failures

(* Whatever happens to process, brokers, clients and groups, the state     *)
(* keeps its types: an update is computed only of a command that is there  *)
(* and for a deployment that metadata told of.                             *)
THEOREM TypeCorrect == Spec => []TypeOK
<1>1. Init => TypeOK /\ WorkerBusy
  BY InitAges DEF AgeInv
<1>2. TypeOK /\ WorkerBusy /\ [Next]_vars => TypeOK' /\ WorkerBusy'
  BY StepType
<1> QED BY <1>1, <1>2, PTL DEF Spec

(* No client goes back to an older description of its group as long as the *)
(* deployment stays the same (NeverOlder, the order in which               *)
(* UpdateDeviceGroup computes and publishes descriptions), for any number  *)
(* of groups, deployments, brokers and changes.                            *)
THEOREM NeverGoesBack == Spec => NeverOlder
<1> DEFINE Older(d) == engine[d] # Nothing /\ engine'[d] # Nothing /\ engine'[d].id = engine[d].id
                         => engine'[d].desc.version >= engine[d].desc.version
<1>1. Init => AgeInv
  BY InitAges
<1>2. AgeInv /\ [Next]_vars => AgeInv'
  BY StepAges
<1>3. ASSUME AgeInv, [Next]_vars, NEW d \in Deployments
      PROVE  Older(d)
  <2>1. TypeOK /\ (engine[d] # Nothing => engine[d].desc.version \in Nat)
    BY <1>3, Numbers DEF AgeInv
  <2>2. CASE engine'[d] = engine[d]
    BY <2>1, <2>2
  <2>3. CASE \E x \in Deployments : ClientDeploys(x)
    <3>1. PICK x \in Deployments : ClientDeploys(x)
      BY <2>3
    <3>2. ids[d] \in Nat /\ (engine[d] # Nothing => engine[d].id = ids[d])
      BY <1>3 DEF AgeInv, TypeOK, IdsKnown
    <3>3. engine'[d] = engine[d] \/ (x = d /\ engine'[d].id = ids[d] + 1)
      BY <2>1, <3>1 DEF ClientDeploys, TypeOK
    <3> QED BY <2>2, <3>2, <3>3
  <2>4. CASE \E x \in Deployments : ClientUpdates(x)
    <3>1. PICK x \in Deployments : ClientUpdates(x)
      BY <2>4
    <3>2. CASE x = d /\ engine'[d] # engine[d]
      <4>1. Head(queue[d]) = queue[d][1] /\ 1 \in DOMAIN queue[d] /\ Update(queue[d][1])
        BY <2>1, <3>1, <3>2, Taken DEF ClientUpdates, Update
      <4>2. engine[d] # Nothing /\ engine[d].id = queue[d][1].id /\ engine'[d].desc = queue[d][1].desc
        BY <2>1, <3>1, <3>2, <4>1, ClientUpdatesEngine
      <4>3. engine[d].desc.version <= queue[d][1].desc.version
        BY <1>3, <4>1, <4>2 DEF AgeInv, InOrder
      <4>4. queue[d][1].desc.version \in Nat
        BY <2>1, <4>1, Numbers
      <4> QED BY <2>1, <4>2, <4>3, <4>4
    <3> QED BY <2>1, <2>2, <3>1, <3>2, ClientUpdatesEngine
  <2>5. CASE \E x \in Deployments : ClientLoses(x)
    BY <2>1, <2>2, <2>5 DEF ClientLoses, TypeOK
  <2>6. CASE UNCHANGED vars
    BY <2>2, <2>6 DEF vars, external
  <2>7. CASE WorkerSteps \/ HandlerError \/ Start \/ (\E c \in Callers : FanOutSteps(c)) \/ Reconnects
    <3>1. UNCHANGED engine
      BY <2>7 DEF WorkerSteps, Fetch, GetAdminToken, ListConcerned, Published, AllPublished, Commit, Retry,
                  DescribeFails, Describe, HandlerError, Start, FanOutSteps, Reconnects, Unheard, external
    <3> QED BY <2>2, <3>1
  <2>8. CASE CreationSteps \/ Reports \/ Changes \/ Announcements \/ Repairs
    <3>1. UNCHANGED engine
      BY <2>8 DEF CreationSteps, ApiCreates, Redeployed, Redeploy, Reports, UpdateDeploymentMetadata,
                  DeleteUnknownDeployments, Changes, OtherCommand, GroupChanges, ApiDescribes,
                  Announcements, GroupCommand, Repairs, DeviceBack, external
    <3> QED BY <2>2, <3>1
  <2>9. CASE Failures
    <3>1. UNCHANGED engine \/ \E x \in Deployments : ClientLoses(x)
      BY <2>9 DEF Failures, TokenRefused, ExpireToken, CallFails, Crash, CommitError, DeviceRemoved, Unheard,
                  external
    <3> QED BY <2>2, <2>5, <3>1
  <2> QED BY <1>3, <2>3, <2>4, <2>6, <2>7, <2>8, <2>9 DEF Next, ClientSteps
<1>4. AgeInv /\ [Next]_vars => \A d \in Deployments : Older(d)
  BY <1>3
<1> QED BY <1>1, <1>2, <1>4, PTL DEF Spec, NeverOlder

=============================================================================
