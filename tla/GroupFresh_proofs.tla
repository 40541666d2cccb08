------------------------- MODULE GroupFresh_proofs -------------------------
(***************************************************************************)
(* Proofs about GroupUpdates: when the commands of a group are done, its   *)
(* clients work with the group as it is. The age of descriptions, and that *)
(* nobody goes back, is in GroupUpdates_proofs.                            *)
(***************************************************************************)
EXTENDS GroupUpdates_proofs

-----------------------------------------------------------------------------
(* The invariant behind Fresh                                              *)

Created(m) == m.cmd = "deployment"

(* A call that has not reached the broker of d yet.                        *)
Waiting(c, d) == fan[c] # Nothing /\ fan[c].msg.of = d /\ fan[c].sub[BrokerOf[d]] = "waiting"

Creators == {"api", "warden"}

(* The consumer works on a PUT command, with deployments of its group, and *)
(* its call of the fan-out is about one of them.                           *)
WorkerWorks ==
    /\ worker.pc \in {"token", "list", "describe", "publish", "failed"} => Command.command = "PUT"
    /\ worker.pc = "commit" => worker.found = {}
    /\ \A e \in worker.found :
          worker.pc # "idle" /\ Command.command = "PUT" /\ GroupOf[e.of] = Command.id
    /\ fan["updates"] # Nothing =>
          /\ worker.pc = "publish" /\ worker.element \in worker.found
          /\ fan["updates"].msg.of = worker.element.of /\ fan["updates"].msg.id = worker.element.id

(* A deployment is created before it has a guard and brought back after.   *)
CreatorsApart ==
    /\ fan["api"] # Nothing => request = fan["api"].msg /\ guard[request.of] = Nothing
    /\ fan["warden"] # Nothing => bringing = fan["warden"].msg.of /\ guard[bringing] # Nothing

(* So a client gets a deployment only when it has none and none is coming. *)
CreatedOnce ==
    \A d \in Deployments :
        /\ \A i \in DOMAIN queue[d] : Created(queue[d][i]) =>
              /\ engine[d] = Nothing
              /\ \A j \in DOMAIN queue[d] : Created(queue[d][j]) => i = j
        /\ \A c \in Creators : Waiting(c, d) =>
              engine[d] = Nothing /\ \A i \in DOMAIN queue[d] : ~Created(queue[d][i])
        /\ ~(Waiting("api", d) /\ Waiting("warden", d))

(* The command at work is done with d.                                     *)
Handled(d) == worker.pc \in {"describe", "publish", "commit"} /\ \A e \in worker.found : e.of # d

PutAt(k, g) == topic[k].command = "PUT" /\ topic[k].id = g

(* A command that is to come, or not yet done with d, will tell of the     *)
(* last change of its group.                                               *)
Covered(d) ==
    \/ GroupOf[d] \in unsaid
    \/ \E k \in committed + 1 .. Len(topic) : PutAt(k, GroupOf[d]) /\ ~(k = committed + 1 /\ Handled(d))

CoveredLater(g) == g \in unsaid \/ \E k \in committed + 2 .. Len(topic) : PutAt(k, g)

(* The last update on the way to what the client runs.                     *)
Updates(d, i) == Update(queue[d][i]) /\ queue[d][i].id = engine[d].id

LastWord(d, desc) ==
    \/ engine[d].desc = desc /\ \A i \in DOMAIN queue[d] : ~Updates(d, i)
    \/ \E i \in DOMAIN queue[d] :
          /\ Updates(d, i) /\ queue[d][i].desc = desc
          /\ \A j \in DOMAIN queue[d] : Updates(d, j) => j <= i

WillBeFresh(d) ==
    /\ engine[d] # Nothing => LastWord(d, Described(d))
    /\ \A i \in DOMAIN queue[d] : Created(queue[d][i]) => queue[d][i].desc = Described(d)
    /\ \A c \in Creators : Waiting(c, d) => fan[c].msg.desc = Described(d)

AllReached == \A d \in Deployments : d \in missed \/ Covered(d) \/ WillBeFresh(d)

(* What the consumer publishes is the group as it is, unless it changed    *)
(* meanwhile, and is the last word once the broker has taken it.           *)
Says(m) == m.desc = Described(m.of) \/ CoveredLater(GroupOf[m.of])

IsLast(m) == engine[m.of] # Nothing /\ engine[m.of].id = m.id => LastWord(m.of, m.desc)

Took(b) == fan["updates"].sub[b] # "waiting" /\ b \notin fan["updates"].err

Sent ==
    fan["updates"] # Nothing =>
        /\ Says(fan["updates"].msg)
        /\ Took(BrokerOf[fan["updates"].msg.of]) => IsLast(fan["updates"].msg)

FreshInv == AgeInv /\ WorkerWorks /\ CreatorsApart /\ CreatedOnce /\ AllReached /\ Sent

-----------------------------------------------------------------------------
(* The consumer and its command                                            *)

LEMMA WorkerUntouched ==
    ASSUME TypeOK, WorkerBusy, WorkerWorks, committed' = committed,
           worker'.pc = worker.pc, worker'.found = worker.found, worker'.element = worker.element,
           \/ topic' = topic
           \/ \E m \in Commands : topic' = Append(topic, m),
           CallQuiet("updates")
    PROVE  WorkerWorks'
<1>1. worker.pc # "idle" => Command' = Command
  <2> SUFFICES ASSUME worker.pc # "idle" PROVE Command' = Command
    OBVIOUS
  <2>1. topic \in Seq(Commands) /\ committed \in Nat /\ committed + 1 \in 1 .. Len(topic)
    BY DEF WorkerBusy, TypeOK
  <2>2. topic'[committed + 1] = topic[committed + 1]
    BY <2>1
  <2> QED BY <2>2 DEF Command
<1> QED BY <1>1 DEF WorkerWorks, CallQuiet

(* The process ended.                                                      *)
LEMMA EndedWorks ==
    ASSUME ProcessEnds PROVE WorkerWorks'
BY CallersAssumption DEF ProcessEnds, Idle, WorkerWorks

LEMMA WorkerWorksOn ==
    ASSUME AgeInv, WorkerWorks, WorkerSteps \/ TokenRefused \/ CallFails \/ ExpireToken
    PROVE  WorkerWorks'
<1> USE DEF At
<1>0. TypeOK /\ WorkerBusy /\ worker \in Workers
  BY DEF AgeInv, TypeOK
<1>1. CASE Fetch
  <2>1. /\ worker'.found = {} /\ worker'.pc = IF Command.command = "PUT" THEN "token" ELSE "commit"
        /\ UNCHANGED <<topic, committed, fan>> /\ worker.pc = "idle"
    BY <1>1 DEF Fetch, Idle, mqttVars, external, stored
  <2> QED BY <2>1 DEF WorkerWorks, Command
<1>2. CASE GetAdminToken \/ TokenRefused \/ CallFails \/ DescribeFails \/ ExpireToken \/ AllPublished
  <2>1. /\ worker'.found = worker.found /\ worker'.element = worker.element
        /\ UNCHANGED <<topic, committed, fan>>
        /\ \/ worker'.pc = worker.pc
           \/ /\ worker.pc \in {"token", "list", "describe"} /\ worker'.pc \in {"list", "failed"}
           \/ /\ worker.pc = "describe" /\ worker'.pc = "commit" /\ worker.found = {}
    BY <1>0, <1>2 DEF GetAdminToken, TokenRefused, CallFails, DescribeFails, ExpireToken, AllPublished, Goto,
                      Workers, mqttVars, external, stored
  <2> QED BY <2>1 DEF WorkerWorks, Command
<1>3. CASE ListConcerned
  <2>1. /\ worker'.found = Concerned(Command.id) /\ worker'.pc = "describe" /\ worker.pc = "list"
        /\ UNCHANGED <<topic, committed, fan>>
    BY <1>0, <1>3 DEF ListConcerned, Workers, mqttVars, external, stored
  <2>2. \A e \in Concerned(Command.id) : GroupOf[e.of] = Command.id
    BY DEF Concerned, AgeInv, IdsKnown
  <2> QED BY <2>1, <2>2 DEF WorkerWorks, Command
<1>4. CASE Published
  <2>1. /\ worker'.found \subseteq worker.found /\ worker'.pc \in {"describe", "failed"}
        /\ fan'["updates"] = Nothing /\ worker.pc = "publish"
        /\ UNCHANGED <<topic, committed>>
    <3>1. \/ worker' = [worker EXCEPT !.pc = "describe", !.found = @ \ {worker.element}, !.element = Nothing]
          \/ worker' = [worker EXCEPT !.pc = "failed"]
      BY <1>4 DEF Published, Goto
    <3>2. fan'["updates"] = Nothing
      BY <1>0, <1>4, CallersAssumption DEF Published, TypeOK
    <3> QED BY <1>0, <1>4, <3>1, <3>2 DEF Published, Workers, external, stored
  <2> QED BY <2>1 DEF WorkerWorks, Command
<1>5. CASE Commit \/ Retry
  <2>1. /\ worker'.found = {} /\ fan' = fan
        /\ \/ worker.pc = "commit" /\ worker'.pc = "idle"
           \/ worker.pc = "failed" /\ worker'.pc = "token" /\ UNCHANGED <<topic, committed>>
    BY <1>5 DEF Commit, Retry, Idle, mqttVars, external, stored
  <2> QED BY <2>1 DEF WorkerWorks, Command
<1>6. ASSUME NEW e \in worker.found, Describe(e) PROVE WorkerWorks'
  <2>1. /\ worker'.found = worker.found /\ worker'.pc = "publish" /\ worker'.element = e /\ worker.pc = "describe"
        /\ UNCHANGED <<topic, committed>>
    BY <1>0, <1>6 DEF Describe, Workers, external, stored
  <2> DEFINE m == [cmd |-> "event-descriptions", of |-> e.of, id |-> e.id, desc |-> Described(e.of)]
  <2>2. fan'["updates"].msg = m
    BY <1>0, <1>6, PublishedCall, CallersAssumption DEF Describe
  <2>3. m.of = e.of /\ m.id = e.id
    OBVIOUS
  <2> HIDE DEF m
  <2> QED BY <2>1, <2>2, <2>3 DEF WorkerWorks, Command
<1> QED BY <1>1, <1>2, <1>3, <1>4, <1>5, <1>6 DEF WorkerSteps

-----------------------------------------------------------------------------
(* Calls that go on, and what a broker takes                               *)

LEMMA CallGoesOn ==
    ASSUME TypeOK, NEW c \in Callers, NEW b \in Brokers, Arrives(c, b) \/ Answered(c, b) \/ SendFails(c, b)
    PROVE  /\ fan[c] \in Calls(Messages) /\ fan[c] # Nothing
           /\ \A x \in Callers \ {c} : fan'[x] = fan[x]
           /\ fan'[c].msg = fan[c].msg
           /\ \A x \in Brokers \ {b} : fan'[c].sub[x] = fan[c].sub[x]
           /\ fan'[c].sub[b] # "waiting"
           /\ fan'[c].err = IF SendFails(c, b) THEN fan[c].err \cup {b} ELSE fan[c].err
           /\ FanQuiet
<1>0. fan[c] # Nothing /\ fan[c] \in Calls(Messages)
  BY FanAt DEF Arrives, Answered, SendFails
<1>1. CASE SendFails(c, b)
  <2>1. fan' = [fan EXCEPT ![c] = [fan[c] EXCEPT !.sub[b] = "joined", !.err = @ \cup {b}]]
    BY <1>1 DEF SendFails
  <2>2. fan'[c] = [fan[c] EXCEPT !.sub[b] = "joined", !.err = @ \cup {b}]
        /\ \A x \in Callers \ {c} : fan'[x] = fan[x]
    BY <2>1 DEF TypeOK
  <2>3. FanQuiet
    <3>1. {b} \in SUBSET Brokers /\ fan' = [fan EXCEPT ![c].sub[b] = "joined", ![c].err = @ \cup {b}]
      BY <1>1 DEF SendFails
    <3> QED BY <1>0, <3>1, OnFan
  <2> QED BY <1>0, <1>1, <2>2, <2>3 DEF Calls
<1>2. CASE ~SendFails(c, b)
  <2>1. PICK s \in {"arrived", "joined"} : fan' = [fan EXCEPT ![c].sub[b] = s]
    BY <1>2 DEF Arrives, Answered
  <2>2. fan'[c] = [fan[c] EXCEPT !.sub[b] = s] /\ \A x \in Callers \ {c} : fan'[x] = fan[x]
    BY <2>1 DEF TypeOK
  <2>3. FanQuiet
    BY <1>0, <2>1, OnFan
  <2> QED BY <1>0, <1>2, <2>2, <2>3 DEF Calls
<1> QED BY <1>1, <1>2

(* One message more, behind all others.                                    *)
Appended(t, m) ==
    /\ \A x \in Deployments \ {t} : queue'[x] = queue[x]
    /\ \E n \in Nat :
          /\ DOMAIN queue[t] = 1 .. n /\ DOMAIN queue'[t] = 1 .. (n + 1)
          /\ queue'[t][n + 1] = m
          /\ \A i \in 1 .. n : queue'[t][i] = queue[t][i]

LEMMA ArrivesOrNot ==
    ASSUME TypeOK, NEW c \in Callers, NEW b \in Brokers, Arrives(c, b)
    PROVE  LET m == fan[c].msg IN
           /\ m \in Messages /\ m.of \in Deployments
           /\ \/ queue' = queue /\ BrokerOf[m.of] # b
              \/ /\ BrokerOf[m.of] = b /\ fan[c].sub[b] = "waiting"
                 /\ Appended(m.of, m)
<1>1. PICK m \in Messages : m = fan[c].msg
  BY FanAt DEF Arrives
<1>2. PICK t \in Deployments : t = m.of
  BY DEF Messages
<1>3. CASE BrokerOf[t] # b
  BY <1>1, <1>2, <1>3 DEF Arrives
<1>4. CASE BrokerOf[t] = b
  <2>1. queue' = [queue EXCEPT ![t] = Append(@, m)] /\ fan[c].sub[b] = "waiting"
    BY <1>1, <1>2, <1>4 DEF Arrives
  <2>2. queue \in [Deployments -> Seq(Messages)]
    BY DEF TypeOK
  <2>3. PICK q \in Seq(Messages) : q = queue[t]
    BY <2>2
  <2>4. queue'[t] = Append(q, m) /\ \A x \in Deployments \ {t} : queue'[x] = queue[x]
    BY <2>1, <2>2, <2>3
  <2>5. /\ Len(q) \in Nat /\ DOMAIN q = 1 .. Len(q) /\ DOMAIN Append(q, m) = 1 .. (Len(q) + 1)
        /\ Append(q, m)[Len(q) + 1] = m
        /\ \A i \in 1 .. Len(q) : Append(q, m)[i] = q[i]
    OBVIOUS
  <2>6. Appended(t, m)
    BY <2>3, <2>4, <2>5 DEF Appended
  <2> QED BY <1>1, <1>2, <1>4, <2>1, <2>6
<1> QED BY <1>3, <1>4

LEMMA WaitingQuiet ==
    ASSUME NEW c \in Callers, CallQuiet(c), NEW d \in Deployments, Waiting(c, d)'
    PROVE  Waiting(c, d) /\ fan'[c].msg = fan[c].msg
<1>1. BrokerOf[d] \in Brokers
  BY BrokersAssumption DEF Deployments
<1> QED BY <1>1 DEF CallQuiet, Waiting

-----------------------------------------------------------------------------
(* Each client gets a deployment once                                      *)

LEMMA CreatorsUntouched ==
    ASSUME CreatorsApart, CallQuiet("api"), CallQuiet("warden"), UNCHANGED <<guard, request, bringing>>
    PROVE  CreatorsApart'
BY DEF CreatorsApart, CallQuiet

LEMMA CreatorsStay ==
    ASSUME AgeInv, CreatorsApart,
           \/ \E d \in Deployments : ApiDescribes(d) \/ Redeploy(d)
           \/ ApiCreates \/ Redeployed \/ ProcessEnds
    PROVE  CreatorsApart'
<1>0. TypeOK /\ {"api", "warden"} \subseteq Callers
  BY CallersAssumption DEF AgeInv
<1>1. ASSUME NEW d \in Deployments, ApiDescribes(d) PROVE CreatorsApart'
  <2> DEFINE m == [cmd |-> "deployment", of |-> d, id |-> 0, desc |-> Described(d)]
  <2>1. request' = m /\ guard[d] = Nothing /\ UNCHANGED <<guard, bringing>>
    BY <1>1 DEF ApiDescribes, stored
  <2>2. fan'["api"].msg = m /\ fan'["warden"] = fan["warden"]
    BY <1>0, <1>1, PublishedCall DEF ApiDescribes
  <2>3. m.of = d
    OBVIOUS
  <2> HIDE DEF m
  <2> QED BY <2>1, <2>2, <2>3 DEF CreatorsApart
<1>2. ASSUME NEW d \in Deployments, Redeploy(d) PROVE CreatorsApart'
  <2> DEFINE m == [cmd |-> "deployment", of |-> d, id |-> 0, desc |-> guard[d]]
  <2>1. bringing' = d /\ guard[d] # Nothing /\ UNCHANGED <<guard, request>>
    BY <1>2 DEF Redeploy
  <2>2. fan'["warden"].msg = m /\ fan'["api"] = fan["api"]
    BY <1>0, <1>2, PublishedCall DEF Redeploy
  <2>3. m.of = d
    OBVIOUS
  <2> HIDE DEF m
  <2> QED BY <2>1, <2>2, <2>3 DEF CreatorsApart
<1>3. CASE ApiCreates
  <2>1. /\ fan'["api"] = Nothing /\ fan'["warden"] = fan["warden"] /\ fan["api"] # Nothing
        /\ bringing' = bringing
        /\ \A d \in Deployments \ {request.of} : guard'[d] = guard[d]
    BY <1>0, <1>3 DEF ApiCreates, Returned, TypeOK
  <2>2. guard[request.of] = Nothing
    BY <2>1 DEF CreatorsApart
  <2>3. ASSUME fan["warden"] # Nothing PROVE guard'[bringing] # Nothing
    <3>1. bringing = fan["warden"].msg.of /\ guard[bringing] # Nothing
      BY <2>3 DEF CreatorsApart
    <3>2. bringing \in Deployments
      BY <1>0, <2>3, <3>1, FanAt
    <3> QED BY <2>1, <2>2, <3>1, <3>2
  <2> QED BY <2>1, <2>3 DEF CreatorsApart
<1>4. CASE Redeployed
  <2>1. fan'["warden"] = Nothing /\ fan'["api"] = fan["api"] /\ UNCHANGED <<guard, request>>
    BY <1>0, <1>4 DEF Redeployed, TypeOK
  <2> QED BY <2>1 DEF CreatorsApart
<1>5. CASE ProcessEnds
  BY <1>0, <1>5 DEF ProcessEnds, CreatorsApart
<1> QED BY <1>1, <1>2, <1>3, <1>4, <1>5

Lessened == \A d \in Deployments : engine'[d] # Nothing => engine'[d] = engine[d]

CreatorsQuiet == \A c \in Creators : CallQuiet(c)

LEMMA OnceUntouched ==
    ASSUME CreatedOnce, CreatorsQuiet, queue' = queue, Lessened
    PROVE  CreatedOnce'
<1>1. Creators \subseteq Callers
  BY CallersAssumption DEF Creators
<1>2. \A c \in Creators, d \in Deployments : Waiting(c, d)' => Waiting(c, d)
  BY <1>1, WaitingQuiet DEF CreatorsQuiet
<1>3. \A d \in Deployments : engine[d] = Nothing => engine'[d] = Nothing
  BY DEF Lessened
<1> SUFFICES ASSUME NEW d \in Deployments PROVE CreatedOnce!(d)'
  BY DEF CreatedOnce
<1>4. CreatedOnce!(d)
  BY DEF CreatedOnce
<1> QED BY <1>2, <1>3, <1>4 DEF Creators

(* What a creator sends to a client that has nothing, and gets nothing.    *)
LEMMA OnceSent ==
    ASSUME TypeOK, CreatedOnce, NEW c \in Creators, NEW d \in Deployments, NEW m, Publish(c, m), m.of = d, Absent(d),
           \A x \in Creators \ {c} : ~Waiting(x, d), UNCHANGED <<queue, engine>>
    PROVE  CreatedOnce'
<1>1. Creators \subseteq Callers
  BY CallersAssumption DEF Creators
<1>2. fan'[c].msg = m /\ \A x \in Creators \ {c} : fan'[x] = fan[x]
  BY <1>1, PublishedCall
<1>3. \A x \in Deployments : Waiting(c, x)' => x = d
  BY <1>2 DEF Waiting
<1>4. \A x \in Creators \ {c}, y \in Deployments : Waiting(x, y)' <=> Waiting(x, y)
  BY <1>2 DEF Waiting
<1>5. engine[d] = Nothing /\ \A i \in DOMAIN queue[d] : ~Created(queue[d][i])
  BY DEF Absent, Created
<1> SUFFICES ASSUME NEW y \in Deployments PROVE CreatedOnce!(y)'
  BY DEF CreatedOnce
<1>6. CreatedOnce!(y)
  BY DEF CreatedOnce
<1>7. ASSUME NEW x \in Creators, Waiting(x, y)'
      PROVE  engine[y] = Nothing /\ \A i \in DOMAIN queue[y] : ~Created(queue[y][i])
  <2>1. CASE x = c
    BY <1>3, <1>5, <1>7, <2>1
  <2>2. CASE x # c
    BY <1>4, <1>6, <1>7, <2>2
  <2> QED BY <2>1, <2>2
<1>8. ~(Waiting("api", y)' /\ Waiting("warden", y)')
  <2>1. CASE y = d
    BY <1>4, <2>1 DEF Creators
  <2>2. CASE y # d
    BY <1>3, <1>4, <1>6, <2>2 DEF Creators
  <2> QED BY <2>1, <2>2
<1> QED BY <1>6, <1>7, <1>8

LEMMA CreationsOnce ==
    ASSUME AgeInv, CreatorsApart, CreatedOnce, NEW d \in Deployments, ApiDescribes(d) \/ Redeploy(d)
    PROVE  CreatedOnce'
<1>0. TypeOK
  BY DEF AgeInv
<1>1. CASE ApiDescribes(d)
  <2> DEFINE m == [cmd |-> "deployment", of |-> d, id |-> 0, desc |-> Described(d)]
  <2>1. Publish("api", m) /\ m.of = d /\ Absent(d) /\ guard[d] = Nothing /\ UNCHANGED <<queue, engine>>
    BY <1>1 DEF ApiDescribes, external
  <2>2. ~Waiting("warden", d)
    BY <2>1 DEF Waiting, CreatorsApart
  <2> HIDE DEF m
  <2> QED BY <1>0, <2>1, <2>2, OnceSent DEF Creators
<1>2. CASE Redeploy(d)
  <2> DEFINE m == [cmd |-> "deployment", of |-> d, id |-> 0, desc |-> guard[d]]
  <2>1. Publish("warden", m) /\ m.of = d /\ Absent(d) /\ guard[d] # Nothing /\ UNCHANGED <<queue, engine>>
    BY <1>2 DEF Redeploy, external
  <2>2. ~Waiting("api", d)
    BY <2>1 DEF Waiting, CreatorsApart
  <2> HIDE DEF m
  <2> QED BY <1>0, <2>1, <2>2, OnceSent DEF Creators
<1> QED BY <1>1, <1>2

(* The one message becomes the one in the queue.                           *)
LEMMA ArrivesOnce ==
    ASSUME AgeInv, CreatedOnce, NEW c \in Callers, NEW b \in Brokers, Arrives(c, b), UNCHANGED engine
    PROVE  CreatedOnce'
<1>0. TypeOK /\ Lessened
  BY DEF AgeInv, Lessened
<1>1. /\ fan[c] # Nothing /\ fan'[c].sub[b] # "waiting" /\ fan'[c].msg = fan[c].msg
      /\ FanQuiet
  BY <1>0, CallGoesOn
<1>2. CreatorsQuiet
  BY <1>1, CallersAssumption DEF FanQuiet, CreatorsQuiet, Creators
<1>m. PICK m : m = fan[c].msg
  OBVIOUS
<1>t. PICK t \in Deployments : t = m.of
  BY <1>0, <1>m, ArrivesOrNot
<1>3. \/ queue' = queue
      \/ BrokerOf[t] = b /\ fan[c].sub[b] = "waiting" /\ Appended(t, m)
  BY <1>0, <1>m, <1>t, ArrivesOrNot
<1>4. CASE queue' = queue
  BY <1>0, <1>2, <1>4, OnceUntouched
<1>5. CASE BrokerOf[t] = b /\ fan[c].sub[b] = "waiting" /\ Appended(t, m)
  <2>1. PICK n \in Nat :
          /\ DOMAIN queue[t] = 1 .. n /\ DOMAIN queue'[t] = 1 .. (n + 1)
          /\ queue'[t][n + 1] = m
          /\ \A i \in 1 .. n : queue'[t][i] = queue[t][i]
    BY <1>5 DEF Appended
  <2>2. \A x \in Deployments \ {t} : queue'[x] = queue[x]
    BY <1>5 DEF Appended
  <2>3. \A x \in Creators, d \in Deployments : Waiting(x, d)' => Waiting(x, d)
    BY <1>2, WaitingQuiet, CallersAssumption DEF CreatorsQuiet, Creators
  <2>4. Waiting(c, t) /\ ~Waiting(c, t)'
    BY <1>1, <1>5, <1>m, <1>t DEF Waiting
  <2>5. Created(m) => c \in Creators
    BY <1>1, <1>m, CallersAssumption DEF Created, Creators, AgeInv, IdsKnown, Update
  <2> SUFFICES ASSUME NEW d \in Deployments PROVE CreatedOnce!(d)'
    BY DEF CreatedOnce
  <2>6. CreatedOnce!(d)
    BY DEF CreatedOnce
  <2>7. CASE d # t
    BY <2>2, <2>3, <2>6, <2>7 DEF Creators
  <2>8. CASE d = t /\ ~Created(m)
    <3>1. \A i \in DOMAIN queue'[d] : Created(queue'[d][i]) => i \in DOMAIN queue[d] /\ Created(queue[d][i])
      BY <2>1, <2>8
    <3> QED BY <2>3, <2>6, <3>1 DEF Creators
  <2>9. CASE d = t /\ Created(m)
    <3>1. engine[d] = Nothing /\ \A i \in DOMAIN queue[d] : ~Created(queue[d][i])
      BY <2>4, <2>5, <2>6, <2>9
    <3>2. \A i \in DOMAIN queue'[d] : Created(queue'[d][i]) => i = n + 1
      BY <2>1, <2>9, <3>1
    <3>3. ASSUME NEW x \in Creators, Waiting(x, d)' PROVE FALSE
      <4>1. x # c /\ c \in Creators
        BY <2>4, <2>5, <2>9, <3>3
      <4>2. Waiting(x, d) /\ Waiting(c, d)
        BY <2>3, <2>4, <2>9, <3>3
      <4> QED BY <2>6, <4>1, <4>2 DEF Creators
    <3> QED BY <3>1, <3>2, <3>3 DEF Creators
  <2> QED BY <2>7, <2>8, <2>9
<1> QED BY <1>3, <1>4, <1>5

LEMMA ClientOnce ==
    ASSUME AgeInv, CreatedOnce, NEW d \in Deployments, ClientDeploys(d) \/ ClientUpdates(d)
    PROVE  CreatedOnce'
<1>0. TypeOK /\ queue[d] # <<>> /\ queue' = [queue EXCEPT ![d] = Tail(@)] /\ UNCHANGED fan
  BY DEF AgeInv, ClientDeploys, ClientUpdates
<1>1. /\ 1 \in DOMAIN queue[d] /\ Head(queue[d]) = queue[d][1]
      /\ \A i \in DOMAIN queue'[d] :
            i \in Nat /\ 1 < i + 1 /\ i + 1 \in DOMAIN queue[d] /\ queue'[d][i] = queue[d][i + 1]
      /\ \A x \in Deployments \ {d} : queue'[x] = queue[x]
  BY <1>0, Taken
<1>2. \A x \in Deployments \ {d} : engine'[x] = engine[x]
  BY <1>0, ClientUpdatesEngine DEF ClientDeploys, TypeOK
<1>3. \A c, x : Waiting(c, x)' <=> Waiting(c, x)
  BY <1>0 DEF Waiting
<1> SUFFICES ASSUME NEW y \in Deployments PROVE CreatedOnce!(y)'
  BY DEF CreatedOnce
<1>4. CreatedOnce!(y)
  BY DEF CreatedOnce
<1>5. CASE y # d
  BY <1>1, <1>2, <1>3, <1>4, <1>5
<1>6. CASE y = d /\ ClientDeploys(d)
  <2>1. Created(queue[d][1])
    BY <1>1, <1>6 DEF ClientDeploys, Created
  <2>2. \A i \in DOMAIN queue'[d] : ~Created(queue'[d][i])
    BY <1>1, <1>4, <1>6, <2>1
  <2>3. \A c \in Creators : ~Waiting(c, d)
    BY <1>1, <1>4, <1>6, <2>1
  <2> QED BY <1>3, <1>6, <2>2, <2>3 DEF Creators
<1>7. CASE y = d /\ ClientUpdates(d)
  <2>1. engine[d] = Nothing => engine'[d] = Nothing
    BY <1>0, <1>7, ClientUpdatesEngine
  <2>2. \A i \in DOMAIN queue'[d], j \in DOMAIN queue'[d] :
            Created(queue'[d][i]) /\ Created(queue'[d][j]) => i = j
    BY <1>1, <1>4, <1>7
  <2> QED BY <1>1, <1>3, <1>4, <1>7, <2>1, <2>2
<1> QED BY <1>5, <1>6, <1>7

-----------------------------------------------------------------------------
(* Commands that will tell of a change                                     *)

LEMMA TopicIndices ==
    ASSUME TypeOK, NEW m \in Commands, topic' = Append(topic, m)
    PROVE  /\ Len(topic) \in Nat /\ Len(topic') = Len(topic) + 1 /\ topic'[Len(topic) + 1] = m
           /\ \A k \in 1 .. Len(topic) : topic'[k] = topic[k]
BY DEF TypeOK

LEMMA CoverKept ==
    ASSUME TypeOK, NEW d \in Deployments, Covered(d), unsaid \subseteq unsaid', committed' = committed,
           PutAt(committed + 1, GroupOf[d]) /\ Handled(d)' => Handled(d),
           topic' = topic \/ \E m \in Commands : topic' = Append(topic, m)
    PROVE  Covered(d)'
<1>0. committed \in Nat /\ Len(topic) \in Nat
  BY DEF TypeOK
<1>1. CASE GroupOf[d] \in unsaid
  BY <1>1 DEF Covered
<1>2. ASSUME NEW k \in committed + 1 .. Len(topic), PutAt(k, GroupOf[d]) /\ ~(k = committed + 1 /\ Handled(d))
      PROVE  Covered(d)'
  <2>1. k \in 1 .. Len(topic) /\ k \in committed + 1 .. Len(topic')
    BY <1>0, TopicIndices
  <2>2. topic'[k] = topic[k]
    BY <2>1, TopicIndices
  <2> QED BY <1>2, <2>1, <2>2 DEF Covered, PutAt
<1> QED BY <1>1, <1>2 DEF Covered

(* The command of a change comes behind the one at work.                   *)
LEMMA CoverAnnounced ==
    ASSUME TypeOK, WorkerBusy, NEW d \in Deployments, Covered(d), NEW g \in Groups, GroupCommand(g)
    PROVE  Covered(d)'
<1> DEFINE m == [command |-> "PUT", id |-> g, group |-> repo[g]]
<1>1. m \in Commands /\ topic' = Append(topic, m)
  BY DEF GroupCommand, Commands, TypeOK
<1>2. m.command = "PUT" /\ m.id = g
  OBVIOUS
<1> HIDE DEF m
<1>3. UNCHANGED <<committed, worker>> /\ unsaid' = unsaid \ {g}
  BY DEF GroupCommand, stored, process
<1>4. CASE g = GroupOf[d]
  <2>1. committed \in Nat /\ Len(topic) \in Nat /\ Len(topic) + 1 \in committed + 1 .. Len(topic')
    BY <1>1, TopicIndices DEF TypeOK
  <2>2. topic'[Len(topic) + 1].command = "PUT" /\ topic'[Len(topic) + 1].id = GroupOf[d]
    BY <1>1, <1>2, <1>4, TopicIndices
  <2>3. ~(Len(topic) + 1 = committed + 1 /\ Handled(d))
    BY <2>1 DEF Handled, WorkerBusy
  <2>4. \E l \in committed + 1 .. Len(topic') :
           /\ topic'[l].command = "PUT" /\ topic'[l].id = GroupOf[d]
           /\ ~(l = committed + 1 /\ Handled(d))
    BY <2>1, <2>2, <2>3
  <2> QED BY <1>3, <2>4 DEF Covered, PutAt, Handled
<1>5. CASE g # GroupOf[d] /\ GroupOf[d] \in unsaid
  BY <1>3, <1>5 DEF Covered
<1>6. ASSUME NEW k \in committed + 1 .. Len(topic), PutAt(k, GroupOf[d]) /\ ~(k = committed + 1 /\ Handled(d))
      PROVE  Covered(d)'
  <2>0. committed \in Nat /\ Len(topic) \in Nat
    BY DEF TypeOK
  <2>1. k \in 1 .. Len(topic) /\ k \in committed + 1 .. Len(topic')
    BY <1>1, <2>0, TopicIndices
  <2>2. topic'[k] = topic[k]
    BY <1>1, <2>1, TopicIndices
  <2> QED BY <1>3, <1>6, <2>1, <2>2 DEF Covered, PutAt, Handled
<1> QED BY <1>4, <1>5, <1>6 DEF Covered

(* The command at work is committed: the others stay.                      *)
LEMMA CoverCommitted ==
    ASSUME TypeOK, WorkerWorks, worker.pc = "commit", NEW d \in Deployments, Covered(d),
           UNCHANGED <<unsaid, topic>>, committed' \in {committed, committed + 1}, worker' = Idle
    PROVE  Covered(d)'
<1>0. committed \in Nat /\ Len(topic) \in Nat
  BY DEF TypeOK
<1>1. CASE GroupOf[d] \in unsaid
  BY <1>1 DEF Covered
<1>2. ASSUME NEW k \in committed + 1 .. Len(topic), PutAt(k, GroupOf[d]) /\ ~(k = committed + 1 /\ Handled(d))
      PROVE  Covered(d)'
  <2>1. Handled(d)
    BY DEF Handled, WorkerWorks
  <2>2. k \in committed' + 1 .. Len(topic)
    <3>1. k # committed + 1
      BY <1>2, <2>1
    <3>2. CASE committed' = committed
      BY <3>2
    <3>3. CASE committed' = committed + 1
      BY <1>0, <3>1, <3>3
    <3> QED BY <3>2, <3>3
  <2>3. ~Handled(d)'
    BY DEF Handled, Idle
  <2> QED BY <1>2, <2>2, <2>3 DEF Covered, PutAt
<1> QED BY <1>1, <1>2 DEF Covered

-----------------------------------------------------------------------------
(* Every client is reached                                                 *)

LEMMA FreshUntouched ==
    ASSUME NEW d \in Deployments, WillBeFresh(d), queue'[d] = queue[d], repo'[GroupOf[d]] = repo[GroupOf[d]],
           Lessened, CreatorsQuiet
    PROVE  WillBeFresh(d)'
<1>1. \A c \in Creators : Waiting(c, d)' => Waiting(c, d) /\ fan'[c].msg = fan[c].msg
  BY WaitingQuiet, CallersAssumption DEF CreatorsQuiet, Creators
<1>2. Described(d)' = Described(d)
  BY DEF Described
<1>3. engine'[d] # Nothing => engine'[d] = engine[d]
  BY DEF Lessened
<1>4. engine'[d] # Nothing => LastWord(d, Described(d))'
  <2> SUFFICES ASSUME engine'[d] # Nothing PROVE LastWord(d, Described(d))'
    OBVIOUS
  <2>1. engine'[d] = engine[d] /\ LastWord(d, Described(d))
    BY <1>3 DEF WillBeFresh
  <2> QED BY <1>2, <2>1 DEF LastWord, Updates
<1>5. \A i \in DOMAIN queue'[d] : Created(queue'[d][i]) => queue'[d][i].desc = Described(d)'
  BY <1>2 DEF WillBeFresh
<1>6. \A c \in Creators : Waiting(c, d)' => fan'[c].msg.desc = Described(d)'
  BY <1>1, <1>2 DEF WillBeFresh
<1> QED BY <1>4, <1>5, <1>6 DEF WillBeFresh

LEMMA ReachedUntouched ==
    ASSUME AllReached, CreatorsQuiet, Lessened, UNCHANGED <<queue, repo>>,
           \A d \in Deployments : d \in missed \/ Covered(d) => d \in missed' \/ Covered(d)'
    PROVE  AllReached'
BY FreshUntouched DEF AllReached

(* Steps that leave commands and messages alone.                           *)
LEMMA ReachedOn ==
    ASSUME TypeOK, AllReached, CreatorsQuiet, Lessened, UNCHANGED <<queue, repo, unsaid, committed>>,
           topic' = topic \/ (\E m \in Commands : topic' = Append(topic, m)),
           missed \subseteq missed',
           \A d \in Deployments : PutAt(committed + 1, GroupOf[d]) /\ Handled(d)' => Handled(d)
    PROVE  AllReached'
<1>1. ASSUME NEW d \in Deployments, Covered(d) PROVE Covered(d)'
  BY <1>1, CoverKept
<1> QED BY <1>1, ReachedUntouched

LEMMA SameCreators == ASSUME fan' = fan PROVE CreatorsQuiet
BY DEF CreatorsQuiet, CallQuiet

LEMMA QuietCreators == ASSUME FanQuiet PROVE CreatorsQuiet
BY CallersAssumption DEF CreatorsQuiet, FanQuiet, Creators

LEMMA WorkerReaches ==
    ASSUME AgeInv, WorkerWorks, AllReached,
           \/ Fetch \/ GetAdminToken \/ AllPublished \/ Retry \/ DescribeFails
           \/ TokenRefused \/ CallFails \/ ExpireToken
    PROVE  AllReached'
<1> USE DEF At
<1>0. TypeOK /\ worker \in Workers
  BY DEF AgeInv, TypeOK
<1>1. UNCHANGED <<fan, queue, repo, unsaid, topic, committed, engine, missed>>
  BY DEF Fetch, GetAdminToken, AllPublished, Retry, DescribeFails, TokenRefused, CallFails, ExpireToken,
         mqttVars, external, stored
<1>2. CASE Fetch
  <2>1. worker'.pc = IF Command.command = "PUT" THEN "token" ELSE "commit"
    BY <1>2 DEF Fetch, Idle
  <2>2. \A d \in Deployments : ~(PutAt(committed + 1, GroupOf[d]) /\ Handled(d)')
    BY <2>1 DEF PutAt, Handled, Command
  <2> QED BY <1>0, <1>1, <2>2, ReachedOn, SameCreators DEF Lessened
<1>3. CASE ~Fetch
  <2>1. /\ worker'.found = worker.found \/ worker'.pc = "token"
        /\ \/ worker'.pc = worker.pc
           \/ worker'.pc \in {"list", "failed", "token"}
           \/ worker.pc = "describe" /\ worker'.pc = "commit"
    BY <1>0, <1>3 DEF GetAdminToken, TokenRefused, CallFails, DescribeFails, ExpireToken, AllPublished, Retry,
                      Goto, Workers, Idle
  <2>2. \A d \in Deployments : Handled(d)' => Handled(d)
    BY <2>1 DEF Handled
  <2> QED BY <1>0, <1>1, <2>2, ReachedOn, SameCreators DEF Lessened
<1> QED BY <1>2, <1>3

LEMMA ListReaches ==
    ASSUME AgeInv, WorkerWorks, AllReached, ListConcerned
    PROVE  AllReached'
<1>0. TypeOK /\ worker \in Workers
  BY DEF AgeInv, TypeOK
<1>1. UNCHANGED <<fan, queue, repo, unsaid, topic, committed, engine>> /\ missed \subseteq missed'
  BY DEF ListConcerned, mqttVars, external, stored
<1>2. ASSUME NEW d \in Deployments, Covered(d) PROVE d \in missed' \/ Covered(d)'
  <2>1. CASE PutAt(committed + 1, GroupOf[d]) /\ Handled(d)'
    <3>1. worker'.found = Concerned(Command.id)
      BY <1>0 DEF ListConcerned, Workers
    <3>2. \A e \in Concerned(Command.id) : e.of # d
      BY <2>1, <3>1 DEF Handled
    <3>3. GroupOf[d] = Command.id
      BY <2>1 DEF PutAt, Command
    <3> QED BY <3>2, <3>3 DEF ListConcerned
  <2>2. CASE ~(PutAt(committed + 1, GroupOf[d]) /\ Handled(d)')
    BY <1>0, <1>1, <1>2, <2>2, CoverKept
  <2> QED BY <2>1, <2>2
<1>3. \A d \in Deployments : d \in missed \/ Covered(d) => d \in missed' \/ Covered(d)'
  BY <1>1, <1>2
<1> QED BY <1>1, <1>3, ReachedUntouched, SameCreators DEF Lessened

LEMMA CommitReaches ==
    ASSUME AgeInv, WorkerWorks, AllReached, Commit \/ CommitError
    PROVE  AllReached'
<1>1. /\ UNCHANGED <<queue, repo, unsaid, topic, engine>> /\ missed \subseteq missed'
      /\ worker.pc = "commit" /\ worker' = Idle /\ committed' \in {committed, committed + 1}
  BY DEF Commit, CommitError, ProcessEnds, At, mqttVars, external
<1>2. CreatorsQuiet
  BY CallersAssumption DEF Commit, CommitError, ProcessEnds, mqttVars, CreatorsQuiet, CallQuiet, Creators
<1>3. \A d \in Deployments : Covered(d) => Covered(d)'
  BY <1>1, CoverCommitted DEF AgeInv
<1> QED BY <1>1, <1>2, <1>3, ReachedUntouched DEF Lessened

LEMMA EndReaches ==
    ASSUME AgeInv, AllReached, Crash \/ HandlerError
    PROVE  AllReached'
<1>1. /\ UNCHANGED <<queue, repo, unsaid, topic, engine, committed>> /\ missed \subseteq missed'
      /\ worker' = Idle
  BY DEF Crash, HandlerError, ProcessEnds, external, stored
<1>2. CreatorsQuiet
  BY CallersAssumption DEF Crash, HandlerError, ProcessEnds, CreatorsQuiet, CallQuiet, Creators
<1>3. \A d \in Deployments : ~Handled(d)'
  BY <1>1 DEF Handled, Idle
<1> QED BY <1>1, <1>2, <1>3, ReachedOn DEF AgeInv, Lessened

(* The client works with the last change of its group when the call        *)
(* returns, or a later command tells of it.                                *)
LEMMA PublishedReaches ==
    ASSUME AgeInv, WorkerWorks, CreatedOnce, AllReached, Sent, Published
    PROVE  AllReached'
<1> DEFINE e == worker.element
<1>0. TypeOK /\ worker \in Workers
  BY DEF AgeInv, TypeOK
<1>1. /\ UNCHANGED <<queue, repo, unsaid, topic, engine, committed>>
      /\ fan' = [fan EXCEPT !["updates"] = Nothing] /\ Returned("updates") /\ fan["updates"] # Nothing
      /\ missed' = IF Informed(e) THEN missed \ {e.of} ELSE missed \cup {e.of}
  BY DEF Published, Returned, external, stored
<1>2. CreatorsQuiet /\ Lessened
  BY <1>0, <1>1, FreedFan, QuietCreators, CallersAssumption DEF Lessened
<1>3. /\ worker.pc = "publish" /\ e \in worker.found
      /\ fan["updates"].msg.of = e.of /\ fan["updates"].msg.id = e.id
  BY <1>1 DEF WorkerWorks
<1>4. e \in Metadata /\ e.of \in Deployments
  BY <1>0, <1>3 DEF Workers, Metadata
<1>5. \/ worker'.pc = "failed"
      \/ worker'.found = worker.found \ {e}
  <2>1. \/ worker' = [worker EXCEPT !.pc = "describe", !.found = @ \ {worker.element}, !.element = Nothing]
        \/ worker' = [worker EXCEPT !.pc = "failed"]
    BY DEF Published, Goto
  <2> QED BY <1>0, <2>1 DEF Workers
<1>f. \A d \in Deployments \ {e.of} : WillBeFresh(d) => WillBeFresh(d)'
  BY <1>1, <1>2, FreshUntouched
<1> HIDE DEF e
<1>6. ASSUME NEW d \in Deployments, d # e.of, Covered(d) PROVE Covered(d)'
  <2>1. Handled(d)' => Handled(d)
    <3> SUFFICES ASSUME Handled(d)' PROVE Handled(d)
      OBVIOUS
    <3>1. worker'.found = worker.found \ {e}
      BY <1>5 DEF Handled
    <3> QED BY <1>3, <1>6, <3>1 DEF Handled
  <2> QED BY <1>0, <1>1, <1>6, <2>1, CoverKept
<1>7. \A d \in Deployments : d # e.of => d \in missed' \/ Covered(d)' \/ WillBeFresh(d)'
  BY <1>1, <1>6, <1>f DEF AllReached
<1>8. ASSUME NEW d \in Deployments, d = e.of PROVE d \in missed' \/ Covered(d)' \/ WillBeFresh(d)'
  <2>1. CASE ~Informed(e)
    BY <1>1, <1>8, <2>1
  <2>2. CASE Informed(e)
    <3>1. /\ fan["updates"].sub[BrokerOf[d]] # "waiting" /\ BrokerOf[d] \notin fan["updates"].err
          /\ engine[d] # Nothing /\ engine[d].id = e.id
      BY <1>1, <1>8, <2>2, BrokersAssumption DEF Informed, Returned, Deployments
    <3>2. /\ LastWord(d, fan["updates"].msg.desc)
          /\ fan["updates"].msg.desc = Described(d) \/ CoveredLater(GroupOf[d])
      BY <1>1, <1>3, <1>8, <3>1 DEF Sent, Says, Took, IsLast
    <3>3. CASE fan["updates"].msg.desc = Described(d)
      <4>1. LastWord(d, Described(d))
        BY <3>2, <3>3
      <4>2. /\ \A i \in DOMAIN queue[d] : ~Created(queue[d][i])
            /\ \A c \in Creators : ~Waiting(c, d)
        BY <3>1 DEF CreatedOnce
      <4>3. WillBeFresh(d)
        BY <4>1, <4>2 DEF WillBeFresh
      <4> QED BY <1>1, <1>2, <4>3, FreshUntouched
    <3>4. CASE CoveredLater(GroupOf[d])
      <4>0. committed \in Nat /\ Len(topic) \in Nat
        BY <1>0 DEF TypeOK
      <4>1. CASE GroupOf[d] \in unsaid
        BY <1>1, <4>1 DEF Covered
      <4>2. ASSUME NEW k \in committed + 2 .. Len(topic), PutAt(k, GroupOf[d]) PROVE Covered(d)'
        <5>1. k \in committed + 1 .. Len(topic) /\ k # committed + 1
          BY <4>0
        <5> QED BY <1>1, <4>2, <5>1 DEF Covered, PutAt
      <4> QED BY <3>4, <4>1, <4>2 DEF CoveredLater
    <3> QED BY <3>2, <3>3, <3>4
  <2> QED BY <2>1, <2>2
<1> QED BY <1>7, <1>8 DEF AllReached

(* A creator sends the group as it is, or the history tells.               *)
LEMMA SentReaches ==
    ASSUME TypeOK, CreatedOnce, AllReached, NEW c \in Creators, NEW d \in Deployments, NEW m,
           Publish(c, m), m.of = d, Absent(d), \A x \in Creators \ {c} : ~Waiting(x, d),
           UNCHANGED <<queue, engine, repo, unsaid, topic, committed, worker>>,
           missed \ {d} \subseteq missed', d \in missed' \/ m.desc = Described(d)
    PROVE  AllReached'
<1>1. Creators \subseteq Callers
  BY CallersAssumption DEF Creators
<1>2. fan'[c].msg = m /\ \A x \in Creators \ {c} : fan'[x] = fan[x]
  BY <1>1, PublishedCall
<1>3. \A x \in Creators, y \in Deployments : Waiting(x, y)' /\ y # d => Waiting(x, y) /\ fan'[x].msg = fan[x].msg
  BY <1>2 DEF Waiting
<1>4. \A x \in Creators : Waiting(x, d)' => x = c
  BY <1>2 DEF Waiting
<1>5. \A y \in Deployments : Covered(y) => Covered(y)'
  BY DEF Covered, PutAt, Handled
<1>6. ASSUME NEW y \in Deployments, y # d, WillBeFresh(y) PROVE WillBeFresh(y)'
  <2>1. Described(y)' = Described(y)
    BY DEF Described
  <2>2. engine'[y] # Nothing => LastWord(y, Described(y))'
    BY <1>6, <2>1 DEF WillBeFresh, LastWord, Updates
  <2>3. \A x \in Creators : Waiting(x, y)' => fan'[x].msg.desc = Described(y)'
    BY <1>3, <1>6, <2>1 DEF WillBeFresh
  <2> QED BY <1>6, <2>1, <2>2, <2>3 DEF WillBeFresh
<1>7. ASSUME m.desc = Described(d) PROVE WillBeFresh(d)'
  <2>1. engine'[d] = Nothing /\ \A i \in DOMAIN queue'[d] : ~Created(queue'[d][i])
    BY DEF Absent, Created
  <2>2. \A x \in Creators : Waiting(x, d)' => fan'[x].msg.desc = Described(d)'
    BY <1>2, <1>4, <1>7 DEF Described
  <2> QED BY <2>1, <2>2 DEF WillBeFresh
<1>8. \A y \in Deployments : y # d => y \in missed' \/ Covered(y)' \/ WillBeFresh(y)'
  BY <1>5, <1>6 DEF AllReached
<1> QED BY <1>7, <1>8 DEF AllReached

LEMMA CreationsReach ==
    ASSUME AgeInv, CreatorsApart, CreatedOnce, AllReached, NEW d \in Deployments, ApiDescribes(d) \/ Redeploy(d)
    PROVE  AllReached'
<1>0. TypeOK
  BY DEF AgeInv
<1>1. CASE ApiDescribes(d)
  <2> DEFINE m == [cmd |-> "deployment", of |-> d, id |-> 0, desc |-> Described(d)]
  <2>1. /\ Publish("api", m) /\ Absent(d) /\ guard[d] = Nothing
        /\ UNCHANGED <<queue, engine, repo, unsaid, topic, committed, worker>>
        /\ missed' = missed \ {d}
    BY <1>1 DEF ApiDescribes, external, stored
  <2>2. ~Waiting("warden", d)
    BY <2>1 DEF Waiting, CreatorsApart
  <2>3. m.of = d /\ m.desc = Described(d)
    OBVIOUS
  <2> HIDE DEF m
  <2> QED BY <1>0, <2>1, <2>2, <2>3, SentReaches DEF Creators
<1>2. CASE Redeploy(d)
  <2> DEFINE m == [cmd |-> "deployment", of |-> d, id |-> 0, desc |-> guard[d]]
  <2>1. /\ Publish("warden", m) /\ Absent(d) /\ guard[d] # Nothing
        /\ UNCHANGED <<queue, engine, repo, unsaid, topic, committed, worker>>
        /\ missed' = IF guard[d] = Described(d) THEN missed \ {d} ELSE missed \cup {d}
    BY <1>2 DEF Redeploy, external
  <2>2. ~Waiting("api", d)
    BY <2>1 DEF Waiting, CreatorsApart
  <2>3. m.of = d /\ m.desc = guard[d]
    OBVIOUS
  <2>4. missed \ {d} \subseteq missed' /\ (d \in missed' \/ m.desc = Described(d))
    BY <2>1, <2>3
  <2> HIDE DEF m
  <2> QED BY <1>0, <2>1, <2>2, <2>3, <2>4, SentReaches DEF Creators
<1> QED BY <1>1, <1>2

(* An update comes while its command is at work; a creation tells of the   *)
(* group what the call was to tell.                                        *)
LEMMA ArrivesReaches ==
    ASSUME AgeInv, WorkerWorks, CreatedOnce, AllReached, NEW c \in Callers, NEW b \in Brokers, Arrives(c, b), Unheard
    PROVE  AllReached'
<1>0. TypeOK
  BY DEF AgeInv
<1>1. UNCHANGED <<repo, unsaid, topic, engine, committed, worker, missed>>
  BY DEF Unheard, external, stored, process
<1>2. fan[c] # Nothing /\ CreatorsQuiet /\ Lessened
  BY <1>0, <1>1, CallGoesOn, QuietCreators DEF Lessened
<1>m. PICK m : m = fan[c].msg
  OBVIOUS
<1>t. PICK t \in Deployments : t = m.of
  BY <1>0, <1>m, ArrivesOrNot
<1>3. \/ queue' = queue
      \/ BrokerOf[t] = b /\ fan[c].sub[b] = "waiting" /\ Appended(t, m)
  BY <1>0, <1>m, <1>t, ArrivesOrNot
<1>4. \A d \in Deployments : Covered(d) => Covered(d)'
  BY <1>1 DEF Covered, PutAt, Handled
<1>5. CASE queue' = queue
  BY <1>1, <1>2, <1>4, <1>5, ReachedUntouched
<1>6. CASE BrokerOf[t] = b /\ fan[c].sub[b] = "waiting" /\ Appended(t, m)
  <2>1. PICK n \in Nat :
          /\ DOMAIN queue[t] = 1 .. n /\ DOMAIN queue'[t] = 1 .. (n + 1)
          /\ queue'[t][n + 1] = m
          /\ \A i \in 1 .. n : queue'[t][i] = queue[t][i]
    BY <1>6 DEF Appended
  <2>2. \A d \in Deployments \ {t} : WillBeFresh(d) => WillBeFresh(d)'
    BY <1>1, <1>2, <1>6, FreshUntouched DEF Appended
  <2>3. CASE c = "updates"
    <3>1. /\ worker.pc = "publish" /\ worker.element \in worker.found /\ worker.element.of = t
          /\ Command.command = "PUT" /\ GroupOf[t] = Command.id
      BY <1>2, <1>m, <1>t, <2>3 DEF WorkerWorks
    <3>2. committed + 1 \in committed + 1 .. Len(topic)
      BY <3>1 DEF AgeInv, TypeOK, WorkerBusy
    <3>3. ~Handled(t) /\ PutAt(committed + 1, GroupOf[t])
      BY <3>1 DEF Handled, PutAt, Command
    <3>4. Covered(t)
      BY <3>2, <3>3 DEF Covered
    <3> QED BY <1>1, <1>4, <2>2, <3>4 DEF AllReached
  <2>4. CASE c \in Creators
    <3>1. Waiting(c, t)
      BY <1>2, <1>6, <1>m, <1>t DEF Waiting
    <3>2. engine[t] = Nothing
      BY <2>4, <3>1 DEF CreatedOnce
    <3>3. \A x \in Creators : Waiting(x, t)' => Waiting(x, t) /\ fan'[x].msg = fan[x].msg
      BY <1>2, WaitingQuiet, CallersAssumption DEF CreatorsQuiet, Creators
    <3>4. ASSUME WillBeFresh(t) PROVE WillBeFresh(t)'
      <4>1. Described(t)' = Described(t)
        BY <1>1 DEF Described
      <4>2. m.desc = Described(t)
        BY <1>m, <2>4, <3>1, <3>4 DEF WillBeFresh
      <4>3. \A i \in DOMAIN queue'[t] : Created(queue'[t][i]) => queue'[t][i].desc = Described(t)'
        <5> SUFFICES ASSUME NEW i \in DOMAIN queue'[t], Created(queue'[t][i])
                     PROVE  queue'[t][i].desc = Described(t)'
          OBVIOUS
        <5>1. CASE i = n + 1
          BY <2>1, <4>1, <4>2, <5>1
        <5>2. CASE i # n + 1
          <6>1. i \in 1 .. n
            BY <2>1, <5>2
          <6>2. i \in DOMAIN queue[t] /\ queue'[t][i] = queue[t][i]
            BY <2>1, <6>1
          <6> QED BY <3>4, <4>1, <6>2 DEF WillBeFresh
        <5> QED BY <5>1, <5>2
      <4>4. \A x \in Creators : Waiting(x, t)' => fan'[x].msg.desc = Described(t)'
        BY <3>3, <3>4, <4>1 DEF WillBeFresh
      <4> QED BY <1>1, <3>2, <4>3, <4>4 DEF WillBeFresh
    <3> QED BY <1>1, <1>4, <2>2, <3>4 DEF AllReached
  <2> QED BY <2>3, <2>4, CallersAssumption DEF Creators
<1> QED BY <1>3, <1>5, <1>6

(* The last word stays it when the client takes a message before it.       *)
LEMMA LastWordTaken ==
    ASSUME TypeOK, NEW d \in Deployments, ClientUpdates(d), engine'[d] # Nothing, NEW desc, LastWord(d, desc)
    PROVE  LastWord(d, desc)'
<1>0. queue[d] # <<>> /\ queue' = [queue EXCEPT ![d] = Tail(@)] /\ Update(Head(queue[d]))
  BY DEF ClientUpdates, Update
<1>1. /\ 1 \in DOMAIN queue[d] /\ Head(queue[d]) = queue[d][1]
      /\ \A i \in DOMAIN queue'[d] :
            i \in Nat /\ 1 < i + 1 /\ i + 1 \in DOMAIN queue[d] /\ queue'[d][i] = queue[d][i + 1]
  BY <1>0, Taken
<1>2. engine[d] # Nothing /\ engine'[d].id = engine[d].id
  BY ClientUpdatesEngine
<1>3. \A i \in DOMAIN queue'[d] : Updates(d, i)' <=> Updates(d, i + 1)
  BY <1>1, <1>2 DEF Updates
<1>4. CASE engine[d].desc = desc /\ \A i \in DOMAIN queue[d] : ~Updates(d, i)
  <2>1. engine[d].id # queue[d][1].id
    BY <1>0, <1>1, <1>4 DEF Updates
  <2>2. engine'[d] = engine[d]
    BY <1>1, <2>1 DEF ClientUpdates
  <2>3. \A i \in DOMAIN queue'[d] : ~Updates(d, i)'
    BY <1>1, <1>3, <1>4
  <2> QED BY <1>4, <2>2, <2>3 DEF LastWord
<1>5. ASSUME NEW i \in DOMAIN queue[d], Updates(d, i), queue[d][i].desc = desc,
             \A j \in DOMAIN queue[d] : Updates(d, j) => j <= i
      PROVE  LastWord(d, desc)'
  <2>0. \E n \in Nat : DOMAIN queue[d] = 1 .. n /\ DOMAIN queue'[d] = 1 .. (n - 1)
    <3>1. PICK q \in Seq(Messages) : q = queue[d]
      BY DEF TypeOK
    <3>2. q # <<>> /\ queue'[d] = Tail(q)
      BY <1>0, <3>1 DEF TypeOK
    <3>3. Len(q) \in Nat /\ DOMAIN q = 1 .. Len(q) /\ DOMAIN Tail(q) = 1 .. (Len(q) - 1)
      BY <3>2
    <3> QED BY <3>1, <3>2, <3>3
  <2>1. PICK n \in Nat : DOMAIN queue[d] = 1 .. n /\ DOMAIN queue'[d] = 1 .. (n - 1)
    BY <2>0
  <2>2. CASE i = 1
    <3>1. engine[d].id = queue[d][1].id
      BY <1>5, <2>2 DEF Updates
    <3>2. engine' = [engine EXCEPT ![d].desc = Head(queue[d]).desc]
      BY <1>1, <1>2, <3>1 DEF ClientUpdates
    <3>3. engine'[d].desc = desc
      <4>1. engine'[d] = [engine[d] EXCEPT !.desc = Head(queue[d]).desc]
        BY <3>2 DEF TypeOK
      <4>2. engine[d] \in [id : Nat, desc : Descriptions, first : Descriptions]
        BY <1>2 DEF TypeOK
      <4> QED BY <1>1, <1>5, <2>2, <4>1, <4>2
    <3>4. ASSUME NEW j \in DOMAIN queue'[d] PROVE ~Updates(d, j)'
      <4>1. j + 1 \in DOMAIN queue[d] /\ 1 < j + 1 /\ j + 1 \in Nat
        BY <1>1
      <4>2. ~Updates(d, j + 1)
        BY <1>5, <2>2, <4>1
      <4> QED BY <1>3, <4>2
    <3> QED BY <3>3, <3>4 DEF LastWord
  <2>3. CASE i # 1
    <3> DEFINE k == i - 1
    <3>1. k \in 1 .. (n - 1) /\ k + 1 = i
      BY <2>1, <2>3
    <3> HIDE DEF k
    <3>2. k \in DOMAIN queue'[d] /\ queue'[d][k] = queue[d][i]
      BY <1>1, <2>1, <3>1
    <3>3. Updates(d, k)'
      BY <1>3, <1>5, <3>1, <3>2
    <3>4. ASSUME NEW j \in DOMAIN queue'[d], Updates(d, j)' PROVE j <= k
      <4>1. j + 1 \in DOMAIN queue[d] /\ j \in Nat
        BY <1>1
      <4>2. j + 1 <= i
        BY <1>3, <1>5, <3>4, <4>1
      <4> QED BY <3>1, <4>1, <4>2
    <3> QED BY <1>5, <3>2, <3>3, <3>4 DEF LastWord
  <2> QED BY <2>2, <2>3
<1> QED BY <1>4, <1>5 DEF LastWord

LEMMA ClientReaches ==
    ASSUME AgeInv, CreatedOnce, AllReached, NEW d \in Deployments, ClientDeploys(d) \/ ClientUpdates(d)
    PROVE  AllReached'
<1>0. /\ TypeOK /\ queue[d] # <<>> /\ queue' = [queue EXCEPT ![d] = Tail(@)]
      /\ UNCHANGED <<fan, repo, unsaid, topic, committed, worker, missed>>
  BY DEF AgeInv, ClientDeploys, ClientUpdates, stored, process
<1>1. /\ 1 \in DOMAIN queue[d] /\ Head(queue[d]) = queue[d][1]
      /\ \A i \in DOMAIN queue'[d] :
            i \in Nat /\ 1 < i + 1 /\ i + 1 \in DOMAIN queue[d] /\ queue'[d][i] = queue[d][i + 1]
      /\ \A x \in Deployments \ {d} : queue'[x] = queue[x]
  BY <1>0, Taken
<1>2. \A x \in Deployments \ {d} : engine'[x] = engine[x]
  BY <1>0, ClientUpdatesEngine DEF ClientDeploys, TypeOK
<1>3. \A x \in Deployments : Covered(x) => Covered(x)'
  BY <1>0 DEF Covered, PutAt, Handled
<1>4. ASSUME NEW x \in Deployments \ {d}, WillBeFresh(x) PROVE WillBeFresh(x)'
  <2>1. Described(x)' = Described(x)
    BY <1>0 DEF Described
  <2>2. engine'[x] # Nothing => LastWord(x, Described(x))'
    BY <1>1, <1>2, <1>4, <2>1 DEF WillBeFresh, LastWord, Updates
  <2>3. \A i \in DOMAIN queue'[x] : Created(queue'[x][i]) => queue'[x][i].desc = Described(x)'
    BY <1>1, <1>4, <2>1 DEF WillBeFresh
  <2>4. \A c \in Creators : Waiting(c, x)' => fan'[c].msg.desc = Described(x)'
    BY <1>0, <1>4, <2>1 DEF WillBeFresh, Waiting
  <2> QED BY <2>2, <2>3, <2>4 DEF WillBeFresh
<1>5. ASSUME WillBeFresh(d) PROVE WillBeFresh(d)'
  <2>1. Described(d)' = Described(d)
    BY <1>0 DEF Described
  <2>3. \A i \in DOMAIN queue'[d] : Created(queue'[d][i]) => queue'[d][i].desc = Described(d)'
    BY <1>1, <1>5, <2>1 DEF WillBeFresh
  <2>4. \A c \in Creators : Waiting(c, d)' => fan'[c].msg.desc = Described(d)'
    BY <1>0, <1>5, <2>1 DEF WillBeFresh, Waiting
  <2>5. CASE ClientDeploys(d)
    <3>1. Created(queue[d][1]) /\ queue[d][1].desc = Described(d)
      BY <1>1, <1>5, <2>5 DEF ClientDeploys, Created, WillBeFresh
    <3>2. engine'[d] = [id |-> ids[d] + 1, desc |-> Head(queue[d]).desc, first |-> Head(queue[d]).desc]
      BY <1>0, <2>5 DEF ClientDeploys, TypeOK
    <3>3. engine'[d].id = ids[d] + 1 /\ engine'[d].desc = Described(d)
      BY <1>1, <3>1, <3>2
    <3>4. ASSUME NEW i \in DOMAIN queue'[d] PROVE ~Updates(d, i)'
      <4>1. i + 1 \in DOMAIN queue[d] /\ queue'[d][i] = queue[d][i + 1]
        BY <1>1
      <4>2. Update(queue[d][i + 1]) => queue[d][i + 1].id <= ids[d]
        BY <4>1 DEF AgeInv, IdsKnown
      <4>3. ids[d] \in Nat /\ queue[d][i + 1].id \in Nat
        BY <1>0, <4>1, Numbers
      <4>4. Update(queue[d][i + 1]) => queue[d][i + 1].id # ids[d] + 1
        BY <4>2, <4>3
      <4> QED BY <3>3, <4>1, <4>4 DEF Updates
    <3>5. LastWord(d, Described(d))'
      BY <2>1, <3>3, <3>4 DEF LastWord
    <3> QED BY <2>3, <2>4, <3>5 DEF WillBeFresh
  <2>6. CASE ClientUpdates(d)
    <3> SUFFICES ASSUME engine'[d] # Nothing PROVE LastWord(d, Described(d))'
      BY <2>3, <2>4 DEF WillBeFresh
    <3>1. PICK desc : desc = Described(d)
      OBVIOUS
    <3>2. LastWord(d, desc)
      BY <1>0, <1>5, <2>6, <3>1, ClientUpdatesEngine DEF WillBeFresh
    <3>3. LastWord(d, desc)'
      BY <1>0, <2>6, <3>2, LastWordTaken
    <3>4. desc = Described(d)'
      BY <2>1, <3>1
    <3> QED BY <3>3, <3>4 DEF LastWord
  <2> QED BY <2>5, <2>6
<1> QED BY <1>0, <1>3, <1>4, <1>5 DEF AllReached

LEMMA GroupReaches ==
    ASSUME AgeInv, AllReached, NEW g \in Groups, GroupChanges(g) \/ GroupCommand(g)
    PROVE  AllReached'
<1>0. TypeOK /\ WorkerBusy
  BY DEF AgeInv
<1>1. UNCHANGED <<fan, queue, engine, committed, worker, missed>>
  BY DEF GroupChanges, GroupCommand, mqttVars, stored, process
<1>2. CreatorsQuiet /\ Lessened
  BY <1>1, SameCreators DEF Lessened
<1>3. CASE GroupCommand(g)
  <2>1. \A d \in Deployments : Covered(d) => Covered(d)'
    BY <1>0, <1>3, CoverAnnounced
  <2> QED BY <1>1, <1>2, <1>3, <2>1, ReachedUntouched DEF GroupCommand
<1>4. CASE GroupChanges(g)
  <2>1. /\ UNCHANGED topic /\ unsaid' = unsaid \cup {g}
        /\ \A x \in Groups \ {g} : repo'[x] = repo[x]
    BY <1>0, <1>4 DEF GroupChanges, TypeOK
  <2>2. \A d \in Deployments : Covered(d) \/ GroupOf[d] = g => Covered(d)'
    BY <1>1, <2>1 DEF Covered, PutAt, Handled
  <2>3. \A d \in Deployments : WillBeFresh(d) /\ GroupOf[d] # g => WillBeFresh(d)'
    BY <1>1, <1>2, <2>1, FreshUntouched, GroupsAssumption
  <2> QED BY <1>1, <2>2, <2>3 DEF AllReached
<1> QED BY <1>3, <1>4

LEMMA RestReaches ==
    ASSUME AgeInv, AllReached,
           \/ Start \/ Reconnects \/ OtherCommand \/ ApiCreates \/ Redeployed \/ UNCHANGED vars
           \/ up /\ (\E b \in Brokers : ConnectionLost(b)) /\ Unheard
           \/ \E d \in Deployments :
                 DeviceRemoved(d) \/ DeviceBack(d) \/ DeleteUnknownDeployments(d) \/ ClientLoses(d)
                   \/ UpdateDeploymentMetadata(d)
           \/ (\E c \in Callers, b \in Brokers : Answered(c, b) \/ SendFails(c, b)) /\ Unheard
    PROVE  AllReached'
<1>0. TypeOK
  BY DEF AgeInv
<1>1. UNCHANGED <<queue, repo, unsaid, committed, worker, missed>>
  BY DEF Start, Reconnects, Reconnect, OtherCommand, ApiCreates, Redeployed, ConnectionLost, Unheard, DeviceRemoved,
         DeviceBack, DeleteUnknownDeployments, ClientLoses, UpdateDeploymentMetadata, Answered, SendFails,
         vars, mqttVars, external, stored, process
<1>2. topic' = topic \/ \E m \in Commands : topic' = Append(topic, m)
  <2>1. CASE OtherCommand
    BY <2>1 DEF OtherCommand, Commands
  <2>2. CASE ~OtherCommand
    BY <2>2 DEF Start, Reconnects, ApiCreates, Redeployed, Unheard, DeviceRemoved, DeviceBack,
         DeleteUnknownDeployments, ClientLoses, UpdateDeploymentMetadata, vars, mqttVars, external, stored, process
  <2> QED BY <2>1, <2>2
<1>3. Lessened
  <2>1. CASE \E d \in Deployments : ClientLoses(d)
    BY <1>0, <2>1 DEF ClientLoses, Lessened, TypeOK
  <2>2. CASE ~\E d \in Deployments : ClientLoses(d)
    <3>1. engine' = engine
      BY <2>2 DEF Start, Reconnects, OtherCommand, ApiCreates, Redeployed, Unheard, DeviceRemoved, DeviceBack,
         DeleteUnknownDeployments, UpdateDeploymentMetadata, vars, mqttVars, external, stored, process
    <3> QED BY <3>1 DEF Lessened
  <2> QED BY <2>1, <2>2
<1>4. CreatorsQuiet
  <2>1. CASE ApiCreates \/ Redeployed
    BY <1>0, <2>1, FreedFan, QuietCreators, CallersAssumption DEF ApiCreates, Redeployed
  <2>2. CASE \E c \in Callers, b \in Brokers : Answered(c, b) \/ SendFails(c, b)
    BY <1>0, <2>2, CallGoesOn, QuietCreators
  <2>3. CASE ~(ApiCreates \/ Redeployed) /\ ~\E c \in Callers, b \in Brokers : Answered(c, b) \/ SendFails(c, b)
    <3>1. fan' = fan
      BY <2>3 DEF Start, Reconnects, Reconnect, OtherCommand, ConnectionLost, DeviceRemoved, DeviceBack,
         DeleteUnknownDeployments, ClientLoses, UpdateDeploymentMetadata, vars, mqttVars
    <3> QED BY <3>1, SameCreators
  <2> QED BY <2>1, <2>2, <2>3
<1>5. \A d \in Deployments : Handled(d)' => Handled(d)
  BY <1>1 DEF Handled
<1> QED BY <1>0, <1>1, <1>2, <1>3, <1>4, <1>5, ReachedOn

-----------------------------------------------------------------------------
(* What was sent is the last word                                          *)

LEMMA LaterKept ==
    ASSUME TypeOK, NEW g \in Groups, CoveredLater(g), unsaid \subseteq unsaid', committed' = committed,
           topic' = topic \/ \E m \in Commands : topic' = Append(topic, m)
    PROVE  CoveredLater(g)'
<1>0. committed \in Nat /\ Len(topic) \in Nat
  BY DEF TypeOK
<1>1. CASE g \in unsaid
  BY <1>1 DEF CoveredLater
<1>2. ASSUME NEW k \in committed + 2 .. Len(topic), PutAt(k, g) PROVE CoveredLater(g)'
  <2>1. k \in 1 .. Len(topic) /\ k \in committed + 2 .. Len(topic')
    BY <1>0, TopicIndices
  <2>2. topic'[k] = topic[k]
    BY <2>1, TopicIndices
  <2> QED BY <1>2, <2>1, <2>2 DEF CoveredLater, PutAt
<1> QED BY <1>1, <1>2 DEF CoveredLater

(* A call that goes on takes no message back.                              *)
UpdatesQuiet ==
    fan'["updates"] # Nothing =>
        LET b == BrokerOf[fan["updates"].msg.of] IN
        /\ fan["updates"] # Nothing /\ fan'["updates"].msg = fan["updates"].msg
        /\ fan'["updates"].sub[b] # "waiting" /\ b \notin fan'["updates"].err => Took(b)

LEMMA SentKept ==
    ASSUME TypeOK, Sent, UpdatesQuiet,
           \A m \in Messages :
              fan["updates"] # Nothing /\ m = fan["updates"].msg => (Says(m) => Says(m)') /\ (IsLast(m) => IsLast(m)')
    PROVE  Sent'
<1> SUFFICES ASSUME fan'["updates"] # Nothing PROVE Sent'
  BY DEF Sent
<1>1. PICK m : m = fan["updates"].msg
  OBVIOUS
<1>2. fan["updates"] # Nothing /\ m \in Messages /\ fan'["updates"].msg = m
  BY <1>1, FanAt, CallersAssumption DEF UpdatesQuiet
<1>3. Says(m)'
  BY <1>1, <1>2 DEF Sent
<1>4. ASSUME fan'["updates"].sub[BrokerOf[m.of]] # "waiting" /\ BrokerOf[m.of] \notin fan'["updates"].err
      PROVE  IsLast(m)'
  BY <1>1, <1>2, <1>4 DEF Sent, UpdatesQuiet
<1>5. Says(fan["updates"].msg)'
  BY <1>2, <1>3 DEF Says, CoveredLater, Described, PutAt
<1>6. Took(BrokerOf[fan["updates"].msg.of])' => IsLast(fan["updates"].msg)'
  BY <1>2, <1>4 DEF Took, IsLast, LastWord, Updates
<1> QED BY <1>5, <1>6 DEF Sent

LEMMA SameUpdates == ASSUME TypeOK, fan'["updates"] = fan["updates"] PROVE UpdatesQuiet
BY DEF UpdatesQuiet, Took

(* Steps that leave the group and what was sent alone.                     *)
LEMMA SentUntouched ==
    ASSUME TypeOK, Sent, UpdatesQuiet, Lessened, UNCHANGED <<queue, repo, unsaid, committed>>,
           topic' = topic \/ \E m \in Commands : topic' = Append(topic, m)
    PROVE  Sent'
<1>1. ASSUME NEW m \in Messages, Says(m) PROVE Says(m)'
  <2>1. m.of \in Deployments /\ GroupOf[m.of] \in Groups
    BY GroupsAssumption DEF Messages
  <2>2. CASE m.desc = Described(m.of)
    BY <2>2 DEF Says, Described
  <2>3. CASE CoveredLater(GroupOf[m.of])
    <3>1. PICK g \in Groups : g = GroupOf[m.of]
      BY <2>1
    <3>2. CoveredLater(g)'
      BY <2>3, <3>1, LaterKept
    <3> QED BY <3>1, <3>2 DEF Says, CoveredLater, PutAt
  <2> QED BY <1>1, <2>2, <2>3 DEF Says
<1>2. ASSUME NEW m \in Messages, IsLast(m) PROVE IsLast(m)'
  <2>1. m.of \in Deployments
    BY DEF Messages
  <2>2. engine'[m.of] # Nothing => engine'[m.of] = engine[m.of]
    BY <2>1 DEF Lessened
  <2> QED BY <1>2, <2>2 DEF IsLast, LastWord, Updates
<1> QED BY <1>1, <1>2, SentKept

LEMMA WorkerSent ==
    ASSUME AgeInv, WorkerWorks, Sent,
           \/ Fetch \/ GetAdminToken \/ ListConcerned \/ AllPublished \/ Retry \/ DescribeFails
           \/ TokenRefused \/ CallFails \/ ExpireToken \/ Commit \/ Published \/ ProcessEnds
    PROVE  Sent'
<1>0. TypeOK
  BY DEF AgeInv
<1>1. CASE ProcessEnds
  BY <1>1, CallersAssumption DEF ProcessEnds, Sent
<1>2. CASE Published
  BY <1>0, <1>2, CallersAssumption DEF Published, TypeOK, Sent
<1>3. CASE Commit
  BY <1>3 DEF Commit, At, mqttVars, WorkerWorks, Sent
<1>4. CASE \/ Fetch \/ GetAdminToken \/ ListConcerned \/ AllPublished \/ Retry \/ DescribeFails
           \/ TokenRefused \/ CallFails \/ ExpireToken
  <2>1. UNCHANGED <<fan, queue, repo, unsaid, topic, committed, engine>>
    BY <1>4 DEF Fetch, GetAdminToken, ListConcerned, AllPublished, Retry, DescribeFails, TokenRefused, CallFails,
         ExpireToken, mqttVars, external, stored
  <2> QED BY <1>0, <2>1, SameUpdates, SentUntouched DEF Lessened
<1> QED BY <1>1, <1>2, <1>3, <1>4

(* What is computed is the group as it is.                                 *)
LEMMA DescribeSent ==
    ASSUME AgeInv, NEW e \in worker.found, Describe(e)
    PROVE  Sent'
<1> DEFINE m == [cmd |-> "event-descriptions", of |-> e.of, id |-> e.id, desc |-> Described(e.of)]
<1>0. TypeOK /\ e \in Metadata /\ e.of \in Deployments
  BY DEF AgeInv, TypeOK, Workers, Metadata
<1>1. Publish("updates", m) /\ UNCHANGED repo
  BY DEF Describe, external
<1>2. m.of = e.of /\ m.desc = Described(e.of)
  OBVIOUS
<1> HIDE DEF m
<1>3. fan'["updates"] = Call(m)
  BY <1>0, <1>1, CallersAssumption DEF Publish, TypeOK
<1>4. BrokerOf[e.of] \in Brokers
  BY <1>0, BrokersAssumption DEF Deployments
<1>5. fan'["updates"].msg = m
  BY <1>3 DEF Call
<1>6. fan'["updates"].sub[BrokerOf[e.of]] = "waiting" \/ BrokerOf[e.of] \in fan'["updates"].err
  BY <1>3, <1>4 DEF Call
<1>7. Says(fan["updates"].msg)'
  BY <1>1, <1>2, <1>5 DEF Says, Described
<1>8. ~Took(BrokerOf[fan["updates"].msg.of])'
  BY <1>2, <1>5, <1>6 DEF Took
<1> QED BY <1>7, <1>8 DEF Sent

LEMMA RestSent ==
    ASSUME AgeInv, Sent,
           \/ Start \/ Reconnects \/ OtherCommand \/ ApiCreates \/ Redeployed \/ UNCHANGED vars
           \/ up /\ (\E b \in Brokers : ConnectionLost(b)) /\ Unheard
           \/ \E d \in Deployments :
                 DeviceRemoved(d) \/ DeviceBack(d) \/ DeleteUnknownDeployments(d) \/ ClientLoses(d)
                   \/ UpdateDeploymentMetadata(d) \/ ApiDescribes(d) \/ Redeploy(d)
           \/ (\E c \in Callers, b \in Brokers : Answered(c, b) \/ SendFails(c, b)) /\ Unheard
    PROVE  Sent'
<1>0. TypeOK
  BY DEF AgeInv
<1>1. UNCHANGED <<queue, repo, unsaid, committed>>
  BY DEF Start, Reconnects, Reconnect, OtherCommand, ApiCreates, Redeployed, ConnectionLost, Unheard, DeviceRemoved,
         DeviceBack, DeleteUnknownDeployments, ClientLoses, UpdateDeploymentMetadata, ApiDescribes, Redeploy,
         Answered, SendFails, vars, mqttVars, external, stored, process
<1>2. topic' = topic \/ \E m \in Commands : topic' = Append(topic, m)
  <2>1. CASE OtherCommand
    BY <2>1 DEF OtherCommand, Commands
  <2>2. CASE ~OtherCommand
    BY <2>2 DEF Start, Reconnects, ApiCreates, Redeployed, Unheard, DeviceRemoved, DeviceBack, ApiDescribes, Redeploy,
         DeleteUnknownDeployments, ClientLoses, UpdateDeploymentMetadata, vars, mqttVars, external, stored, process
  <2> QED BY <2>1, <2>2
<1>3. Lessened
  <2>1. CASE \E d \in Deployments : ClientLoses(d)
    BY <1>0, <2>1 DEF ClientLoses, Lessened, TypeOK
  <2>2. CASE ~\E d \in Deployments : ClientLoses(d)
    <3>1. engine' = engine
      BY <2>2 DEF Start, Reconnects, OtherCommand, ApiCreates, Redeployed, Unheard, DeviceRemoved, DeviceBack,
         DeleteUnknownDeployments, UpdateDeploymentMetadata, ApiDescribes, Redeploy, vars, mqttVars, external,
         stored, process
    <3> QED BY <3>1 DEF Lessened
  <2> QED BY <2>1, <2>2
<1>4. UpdatesQuiet
  <2>1. CASE ApiCreates \/ Redeployed \/ \E d \in Deployments : ApiDescribes(d) \/ Redeploy(d)
    <3>1. fan'["updates"] = fan["updates"]
      BY <1>0, <2>1, PublishedCall, CallersAssumption DEF ApiCreates, Redeployed, ApiDescribes, Redeploy, TypeOK
    <3> QED BY <1>0, <3>1, SameUpdates
  <2>2. CASE \E c \in Callers, b \in Brokers : Answered(c, b) \/ SendFails(c, b)
    <3>1. PICK c \in Callers, b \in Brokers : Answered(c, b) \/ SendFails(c, b)
      BY <2>2
    <3>2. /\ fan[c] \in Calls(Messages) /\ fan[c] # Nothing
          /\ \A x \in Callers \ {c} : fan'[x] = fan[x]
          /\ fan'[c].msg = fan[c].msg
          /\ \A x \in Brokers \ {b} : fan'[c].sub[x] = fan[c].sub[x]
          /\ fan'[c].err = IF SendFails(c, b) THEN fan[c].err \cup {b} ELSE fan[c].err
      BY <1>0, <3>1, CallGoesOn
    <3>3. CASE c # "updates"
      BY <1>0, <3>2, <3>3, SameUpdates, CallersAssumption
    <3>4. CASE c = "updates"
      <4>1. BrokerOf[fan[c].msg.of] \in Brokers
        BY <1>0, <3>2, FanAt, BrokersAssumption DEF Deployments
      <4>2. Answered(c, b) => fan[c].sub[b] # "waiting"
        BY DEF Answered
      <4> QED BY <3>1, <3>2, <3>4, <4>1, <4>2 DEF UpdatesQuiet, Took
    <3> QED BY <3>3, <3>4
  <2>3. CASE /\ ~(ApiCreates \/ Redeployed \/ \E d \in Deployments : ApiDescribes(d) \/ Redeploy(d))
             /\ ~\E c \in Callers, b \in Brokers : Answered(c, b) \/ SendFails(c, b)
    <3>1. fan' = fan
      BY <2>3 DEF Start, Reconnects, Reconnect, OtherCommand, ConnectionLost, DeviceRemoved, DeviceBack,
         DeleteUnknownDeployments, ClientLoses, UpdateDeploymentMetadata, vars, mqttVars
    <3> QED BY <1>0, <3>1, SameUpdates
  <2> QED BY <2>1, <2>2, <2>3
<1> QED BY <1>0, <1>1, <1>2, <1>3, <1>4, SentUntouched

LEMMA ArrivesSent ==
    ASSUME AgeInv, Sent, NEW c \in Callers, NEW b \in Brokers, Arrives(c, b), Unheard
    PROVE  Sent'
<1>0. TypeOK
  BY DEF AgeInv
<1>1. UNCHANGED <<repo, unsaid, topic, engine, committed>>
  BY DEF Unheard, external, stored
<1>2. /\ fan[c] \in Calls(Messages) /\ fan[c] # Nothing /\ fan'[c].msg = fan[c].msg
      /\ \A x \in Callers \ {c} : fan'[x] = fan[x]
      /\ \A x \in Brokers \ {b} : fan'[c].sub[x] = fan[c].sub[x]
  BY <1>0, CallGoesOn
<1>3. fan'[c].err = fan[c].err
  <2>1. PICK s \in {"arrived", "joined"} : fan' = [fan EXCEPT ![c].sub[b] = s]
    BY DEF Arrives
  <2>2. fan'[c] = [fan[c] EXCEPT !.sub[b] = s]
    BY <1>0, <2>1 DEF TypeOK
  <2> QED BY <1>2, <2>2 DEF Calls
<1>m. PICK m : m = fan[c].msg
  OBVIOUS
<1>t. PICK t \in Deployments : t = m.of /\ m \in Messages
  BY <1>0, <1>m, ArrivesOrNot
<1>4. \/ queue' = queue /\ BrokerOf[t] # b
      \/ BrokerOf[t] = b /\ fan[c].sub[b] = "waiting" /\ Appended(t, m)
  BY <1>0, <1>m, <1>t, ArrivesOrNot
<1>5. CASE queue' = queue /\ BrokerOf[t] # b
  <2>1. UpdatesQuiet
    <3>1. CASE c = "updates"
      BY <1>2, <1>3, <1>5, <1>m, <1>t, <3>1, BrokersAssumption DEF UpdatesQuiet, Took, Deployments
    <3>2. CASE c # "updates"
      BY <1>0, <1>2, <3>2, SameUpdates, CallersAssumption
    <3> QED BY <3>1, <3>2
  <2> QED BY <1>0, <1>1, <1>5, <2>1, SentUntouched DEF Lessened
<1>6. CASE BrokerOf[t] = b /\ fan[c].sub[b] = "waiting" /\ Appended(t, m)
  <2>1. PICK n \in Nat :
          /\ DOMAIN queue[t] = 1 .. n /\ DOMAIN queue'[t] = 1 .. (n + 1)
          /\ queue'[t][n + 1] = m
          /\ \A i \in 1 .. n : queue'[t][i] = queue[t][i]
    BY <1>6 DEF Appended
  <2>2. CASE c = "updates"
    <3>1. fan'["updates"] # Nothing => fan'["updates"].msg = m
      BY <1>2, <1>m, <2>2
    <3>2. Update(m)
      BY <1>2, <1>m, <2>2 DEF AgeInv, IdsKnown
    <3>3. Says(m)
      BY <1>2, <1>m, <2>2 DEF Sent
    <3>4. Says(m)'
      BY <1>1, <3>3 DEF Says, Described, CoveredLater, PutAt
    <3>5. ASSUME engine'[t] # Nothing, engine'[t].id = m.id PROVE LastWord(t, m.desc)'
      <4>1. n + 1 \in DOMAIN queue'[t] /\ Updates(t, n + 1)'
        BY <2>1, <3>2, <3>5 DEF Updates
      <4>2. \A j \in DOMAIN queue'[t] : j <= n + 1
        BY <2>1
      <4> QED BY <2>1, <4>1, <4>2 DEF LastWord
    <3>6. IsLast(m)'
      BY <1>t, <3>5 DEF IsLast, LastWord, Updates
    <3>7. fan'["updates"] # Nothing => Says(fan["updates"].msg)' /\ IsLast(fan["updates"].msg)'
      BY <3>1, <3>4, <3>6 DEF Says, Described, CoveredLater, PutAt, IsLast, LastWord, Updates
    <3> QED BY <3>7 DEF Sent
  <2>3. CASE c # "updates"
    <3>1. UpdatesQuiet
      BY <1>0, <1>2, <2>3, SameUpdates, CallersAssumption
    <3>2. ~Update(m)
      BY <1>2, <1>m, <2>3 DEF AgeInv, IdsKnown
    <3>3. \A p \in Messages : Says(p) => Says(p)'
      BY <1>1 DEF Says, Described, CoveredLater, PutAt
    <3>4. ASSUME NEW p \in Messages, IsLast(p) PROVE IsLast(p)'
      <4>1. CASE p.of # t
        <5>1. queue'[p.of] = queue[p.of]
          BY <1>6, <4>1 DEF Appended, Messages
        <5> QED BY <1>1, <3>4, <5>1 DEF IsLast, LastWord, Updates
      <4>2. CASE p.of = t
        <5> SUFFICES ASSUME engine'[t] # Nothing, engine'[t].id = p.id PROVE LastWord(t, p.desc)'
          BY <4>2 DEF IsLast, LastWord, Updates
        <5>1. LastWord(t, p.desc)
          BY <1>1, <3>4, <4>2 DEF IsLast
        <5>2. \A i \in 1 .. n : Updates(t, i)' <=> Updates(t, i)
          BY <1>1, <2>1 DEF Updates
        <5>3. ~Updates(t, n + 1)'
          BY <2>1, <3>2 DEF Updates
        <5>4. \A i \in DOMAIN queue'[t] : Updates(t, i)' => i \in DOMAIN queue[t] /\ Updates(t, i)
          <6> SUFFICES ASSUME NEW i \in DOMAIN queue'[t], Updates(t, i)' PROVE i \in DOMAIN queue[t] /\ Updates(t, i)
            OBVIOUS
          <6>1. i # n + 1
            BY <5>3
          <6>2. i \in 1 .. n
            BY <2>1, <6>1
          <6> QED BY <2>1, <5>2, <6>2
        <5>5. CASE engine[t].desc = p.desc /\ \A i \in DOMAIN queue[t] : ~Updates(t, i)
          BY <1>1, <5>4, <5>5 DEF LastWord
        <5>6. ASSUME NEW i \in DOMAIN queue[t], Updates(t, i), queue[t][i].desc = p.desc,
                     \A j \in DOMAIN queue[t] : Updates(t, j) => j <= i
              PROVE  LastWord(t, p.desc)'
          <6>1. i \in DOMAIN queue'[t] /\ Updates(t, i)' /\ queue'[t][i].desc = p.desc
            BY <2>1, <5>2, <5>6
          <6>2. \A j \in DOMAIN queue'[t] : Updates(t, j)' => j <= i
            BY <5>4, <5>6
          <6> QED BY <6>1, <6>2 DEF LastWord
        <5> QED BY <5>1, <5>5, <5>6 DEF LastWord
      <4> QED BY <4>1, <4>2
    <3> QED BY <1>0, <3>1, <3>3, <3>4, SentKept
  <2> QED BY <2>2, <2>3
<1> QED BY <1>4, <1>5, <1>6

(* A client that takes a deployment gives it an id no message knows.       *)
LEMMA ClientSent ==
    ASSUME AgeInv, Sent, NEW d \in Deployments, ClientDeploys(d) \/ ClientUpdates(d)
    PROVE  Sent'
<1>0. /\ TypeOK /\ queue[d] # <<>> /\ queue' = [queue EXCEPT ![d] = Tail(@)]
      /\ UNCHANGED <<fan, repo, unsaid, topic, committed>>
  BY DEF AgeInv, ClientDeploys, ClientUpdates, stored
<1>1. \A x \in Deployments \ {d} : queue'[x] = queue[x] /\ engine'[x] = engine[x]
  BY <1>0, Taken, ClientUpdatesEngine DEF ClientDeploys, TypeOK
<1>2. \A p \in Messages : Says(p) => Says(p)'
  BY <1>0 DEF Says, Described, CoveredLater, PutAt
<1>3. ASSUME NEW p \in Messages, fan["updates"] # Nothing, p = fan["updates"].msg, IsLast(p) PROVE IsLast(p)'
  <2>1. CASE p.of # d
    BY <1>1, <1>3, <2>1 DEF Messages, IsLast, LastWord, Updates
  <2>2. CASE p.of = d /\ ClientDeploys(d)
    <3>1. p.id <= ids[d] /\ ids[d] \in Nat /\ p.id \in Nat
      BY <1>0, <1>3, <2>2, Numbers, CallersAssumption DEF AgeInv, IdsKnown
    <3>2. engine'[d].id = ids[d] + 1
      BY <1>0, <2>2 DEF ClientDeploys, TypeOK
    <3>3. engine'[d].id # p.id
      BY <3>1, <3>2
    <3> QED BY <2>2, <3>3 DEF IsLast
  <2>3. CASE p.of = d /\ ClientUpdates(d)
    <3>1. PICK desc : desc = p.desc
      OBVIOUS
    <3>2. ASSUME engine'[d] # Nothing, engine'[d].id = p.id PROVE LastWord(d, desc)'
      <4>1. engine[d] # Nothing /\ engine[d].id = p.id
        BY <1>0, <2>3, <3>2, ClientUpdatesEngine
      <4>2. LastWord(d, desc)
        BY <1>3, <2>3, <3>1, <4>1 DEF IsLast
      <4> QED BY <1>0, <2>3, <3>2, <4>2, LastWordTaken
    <3> QED BY <2>3, <3>1, <3>2 DEF IsLast, LastWord, Updates
  <2> QED BY <2>1, <2>2, <2>3
<1>4. UpdatesQuiet
  BY <1>0, SameUpdates
<1> QED BY <1>0, <1>2, <1>3, <1>4, SentKept

(* The command of a change that comes while an update is on its way is not *)
(* the one the update is for.                                              *)
LEMMA GroupSent ==
    ASSUME AgeInv, WorkerWorks, Sent, NEW g \in Groups, GroupChanges(g) \/ GroupCommand(g)
    PROVE  Sent'
<1>0. TypeOK /\ UNCHANGED <<fan, queue, engine, committed>>
  BY DEF AgeInv, GroupChanges, GroupCommand, mqttVars, stored
<1>1. UpdatesQuiet
  BY <1>0, SameUpdates
<1>2. \A p \in Messages : IsLast(p) => IsLast(p)'
  BY <1>0 DEF IsLast, LastWord, Updates
<1>3. ASSUME NEW p \in Messages, fan["updates"] # Nothing, Says(p) PROVE Says(p)'
  <2>1. PICK h \in Groups : h = GroupOf[p.of]
    BY GroupsAssumption DEF Messages
  <2>2. CASE GroupChanges(g)
    <3>1. unsaid' = unsaid \cup {g} /\ UNCHANGED topic /\ \A x \in Groups \ {g} : repo'[x] = repo[x]
      BY <1>0, <2>2 DEF GroupChanges, TypeOK
    <3>2. CASE h = g
      BY <2>1, <3>1, <3>2 DEF Says, CoveredLater
    <3>3. CASE h # g
      BY <1>0, <1>3, <2>1, <3>1, <3>3 DEF Says, CoveredLater, Described, PutAt
    <3> QED BY <3>2, <3>3
  <2>3. CASE GroupCommand(g)
    <3> DEFINE m == [command |-> "PUT", id |-> g, group |-> repo[g]]
    <3>1. m \in Commands /\ topic' = Append(topic, m) /\ unsaid' = unsaid \ {g} /\ UNCHANGED repo
      BY <1>0, <2>3 DEF GroupCommand, Commands, TypeOK
    <3>2. m.command = "PUT" /\ m.id = g
      OBVIOUS
    <3> HIDE DEF m
    <3>3. committed \in Nat /\ Len(topic) \in Nat /\ committed < Len(topic)
      BY <1>0, <1>3 DEF TypeOK, WorkerWorks, AgeInv, WorkerBusy
    <3>4. CASE h = g
      <4>1. Len(topic) + 1 \in committed + 2 .. Len(topic')
        BY <1>0, <3>1, <3>3, TopicIndices
      <4>2. topic'[Len(topic) + 1].command = "PUT" /\ topic'[Len(topic) + 1].id = g
        BY <1>0, <3>1, <3>2, TopicIndices
      <4>3. \E k \in committed + 2 .. Len(topic') : topic'[k].command = "PUT" /\ topic'[k].id = g
        BY <4>1, <4>2
      <4> QED BY <1>0, <2>1, <3>4, <4>3 DEF Says, CoveredLater, PutAt
    <3>5. CASE h # g /\ CoveredLater(h)
      <4>1. CASE h \in unsaid
        BY <2>1, <3>1, <3>5, <4>1 DEF Says, CoveredLater
      <4>2. ASSUME NEW k \in committed + 2 .. Len(topic), PutAt(k, h) PROVE Says(p)'
        <5>1. k \in 1 .. Len(topic) /\ k \in committed + 2 .. Len(topic')
          BY <1>0, <3>1, <3>3, TopicIndices
        <5>2. topic'[k] = topic[k]
          BY <1>0, <3>1, <5>1, TopicIndices
        <5> QED BY <1>0, <2>1, <4>2, <5>1, <5>2 DEF Says, CoveredLater, PutAt
      <4> QED BY <3>5, <4>1, <4>2 DEF CoveredLater
    <3>6. CASE p.desc = Described(p.of)
      BY <3>1, <3>6 DEF Says, Described
    <3> QED BY <1>3, <2>1, <3>4, <3>5, <3>6 DEF Says
  <2> QED BY <2>2, <2>3
<1> QED BY <1>0, <1>1, <1>2, <1>3, SentKept

-----------------------------------------------------------------------------
(* The invariant behind Fresh, and the theorem                             *)

LEMMA InitFresh == Init => FreshInv
<1> SUFFICES ASSUME Init PROVE FreshInv
  OBVIOUS
<1>1. AgeInv
  BY InitAges
<1>2. /\ \A d \in Deployments : engine[d] = Nothing /\ queue[d] = <<>>
      /\ \A c \in Callers : fan[c] = Nothing
      /\ worker = Idle
  BY DEF Init, MqttInit, Deployments
<1>3. \A d \in Deployments : \A i \in DOMAIN queue[d] : FALSE
  BY <1>2
<1>4. \A c \in Creators : fan[c] = Nothing
  BY <1>2, CallersAssumption DEF Creators
<1>5. WorkerWorks /\ CreatorsApart /\ Sent
  BY <1>2, CallersAssumption DEF WorkerWorks, CreatorsApart, Sent, Idle
<1>6. CreatedOnce /\ AllReached
  BY <1>2, <1>3, <1>4 DEF CreatedOnce, AllReached, WillBeFresh, Waiting, Creators
<1> QED BY <1>1, <1>5, <1>6 DEF FreshInv

(* Steps of the consumer, of a call, and of everybody else.                *)
WorkerActs ==
    \/ Fetch \/ GetAdminToken \/ ListConcerned \/ AllPublished \/ Retry \/ DescribeFails
    \/ TokenRefused \/ CallFails \/ ExpireToken \/ Commit \/ Published

Ends == Crash \/ HandlerError \/ CommitError

CreationActs == \E d \in Deployments : ApiDescribes(d) \/ Redeploy(d)

ClientActs == \E d \in Deployments : ClientDeploys(d) \/ ClientUpdates(d)

GroupActs == \E g \in Groups : GroupChanges(g) \/ GroupCommand(g)

Others ==
    \/ Start \/ Reconnects \/ OtherCommand \/ ApiCreates \/ Redeployed \/ UNCHANGED vars
    \/ up /\ (\E b \in Brokers : ConnectionLost(b)) /\ Unheard
    \/ \E d \in Deployments :
          DeviceRemoved(d) \/ DeviceBack(d) \/ DeleteUnknownDeployments(d) \/ ClientLoses(d)
            \/ UpdateDeploymentMetadata(d)
    \/ (\E c \in Callers, b \in Brokers : Answered(c, b) \/ SendFails(c, b)) /\ Unheard

LEMMA AllSteps ==
    ASSUME [Next]_vars
    PROVE  \/ WorkerActs \/ Ends \/ CreationActs \/ ClientActs \/ GroupActs \/ Others
           \/ \E e \in worker.found : Describe(e)
           \/ \E c \in Callers, b \in Brokers : Arrives(c, b) /\ Unheard
<1>1. CASE WorkerSteps
  BY <1>1 DEF WorkerSteps, WorkerActs
<1>2. CASE (\E c \in Callers : FanOutSteps(c)) \/ Reconnects \/ Start
  BY <1>2 DEF FanOutSteps, FanOut, Others
<1>3. CASE CreationSteps \/ ClientSteps \/ Reports \/ Repairs
  BY <1>3 DEF CreationSteps, ClientSteps, Reports, Repairs, CreationActs, ClientActs, Others
<1>4. CASE Changes \/ Announcements
  BY <1>4 DEF Changes, Announcements, CreationActs, GroupActs, Others
<1>5. CASE Failures \/ HandlerError
  BY <1>5 DEF Failures, WorkerActs, Ends, Others
<1>6. CASE UNCHANGED vars
  BY <1>6 DEF Others
<1> QED BY <1>1, <1>2, <1>3, <1>4, <1>5, <1>6 DEF Next

LEMMA OthersFresh ==
    ASSUME FreshInv, Others
    PROVE  WorkerWorks' /\ CreatorsApart' /\ CreatedOnce' /\ AllReached' /\ Sent'
<1>0. /\ AgeInv /\ TypeOK /\ WorkerBusy /\ WorkerWorks /\ CreatorsApart /\ CreatedOnce /\ AllReached /\ Sent
  BY DEF FreshInv, AgeInv
<1>1. AllReached' /\ Sent'
  BY <1>0, RestReaches, RestSent DEF Others
<1>2. UNCHANGED <<queue, committed, worker>>
  BY DEF Others, Start, Reconnects, Reconnect, OtherCommand, ApiCreates, Redeployed, ConnectionLost, Unheard,
         DeviceRemoved, DeviceBack, DeleteUnknownDeployments, ClientLoses, UpdateDeploymentMetadata,
         Answered, SendFails, vars, mqttVars, external, stored, process
<1>3. topic' = topic \/ \E m \in Commands : topic' = Append(topic, m)
  <2>1. CASE OtherCommand
    BY <2>1 DEF OtherCommand, Commands
  <2>2. CASE ~OtherCommand
    BY <2>2 DEF Others, Start, Reconnects, ApiCreates, Redeployed, Unheard, DeviceRemoved, DeviceBack,
         DeleteUnknownDeployments, ClientLoses, UpdateDeploymentMetadata, vars, mqttVars, external, stored, process
  <2> QED BY <2>1, <2>2
<1>4. FanQuiet
  <2>1. CASE ApiCreates \/ Redeployed
    BY <1>0, <2>1, FreedFan, CallersAssumption DEF ApiCreates, Redeployed
  <2>2. CASE \E c \in Callers, b \in Brokers : Answered(c, b) \/ SendFails(c, b)
    BY <1>0, <2>2, CallGoesOn
  <2>3. CASE ~(ApiCreates \/ Redeployed) /\ ~\E c \in Callers, b \in Brokers : Answered(c, b) \/ SendFails(c, b)
    <3>1. fan' = fan
      BY <2>3 DEF Others, Start, Reconnects, Reconnect, OtherCommand, ConnectionLost, DeviceRemoved, DeviceBack,
         DeleteUnknownDeployments, ClientLoses, UpdateDeploymentMetadata, vars, mqttVars
    <3> QED BY <3>1, SameFan
  <2> QED BY <2>1, <2>2, <2>3
<1>5. Lessened
  <2>1. CASE \E d \in Deployments : ClientLoses(d)
    BY <1>0, <2>1 DEF ClientLoses, Lessened, TypeOK
  <2>2. CASE ~\E d \in Deployments : ClientLoses(d)
    <3>1. engine' = engine
      BY <2>2 DEF Others, Start, Reconnects, OtherCommand, ApiCreates, Redeployed, Unheard, DeviceRemoved, DeviceBack,
         DeleteUnknownDeployments, UpdateDeploymentMetadata, vars, mqttVars, external, stored, process
    <3> QED BY <3>1 DEF Lessened
  <2> QED BY <2>1, <2>2
<1>6. WorkerWorks'
  BY <1>0, <1>2, <1>3, <1>4, WorkerUntouched, CallersAssumption DEF FanQuiet
<1>7. CreatedOnce'
  BY <1>0, <1>2, <1>4, <1>5, OnceUntouched, QuietCreators
<1>8. CreatorsApart'
  <2>1. CASE ApiCreates \/ Redeployed
    BY <1>0, <2>1, CreatorsStay
  <2>2. CASE ~(ApiCreates \/ Redeployed)
    <3>1. UNCHANGED <<guard, request, bringing>>
      BY <2>2 DEF Others, Start, Reconnects, Reconnect, OtherCommand, ConnectionLost, Unheard,
         DeviceRemoved, DeviceBack, DeleteUnknownDeployments, ClientLoses, UpdateDeploymentMetadata,
         vars, mqttVars, external, stored, process
    <3> QED BY <1>0, <1>4, <3>1, CreatorsUntouched, CallersAssumption DEF FanQuiet
  <2> QED BY <2>1, <2>2
<1> QED BY <1>1, <1>6, <1>7, <1>8

LEMMA StepFresh == FreshInv /\ [Next]_vars => FreshInv'
<1> SUFFICES ASSUME FreshInv, [Next]_vars PROVE FreshInv'
  OBVIOUS
<1>0. /\ AgeInv /\ TypeOK /\ WorkerBusy /\ WorkerWorks /\ CreatorsApart /\ CreatedOnce /\ AllReached /\ Sent
  BY DEF FreshInv, AgeInv
<1>1. AgeInv'
  BY <1>0, StepAges
<1> SUFFICES WorkerWorks' /\ CreatorsApart' /\ CreatedOnce' /\ AllReached' /\ Sent'
  BY <1>1 DEF FreshInv
<1>2. CASE WorkerActs
  <2>1. WorkerWorks' /\ Sent'
    BY <1>0, <1>2, WorkerWorksOn, WorkerSent DEF WorkerActs, WorkerSteps
  <2>2. AllReached'
    BY <1>0, <1>2, WorkerReaches, ListReaches, CommitReaches, PublishedReaches DEF WorkerActs
  <2>3. FanQuiet /\ UNCHANGED <<queue, engine, guard, request, bringing>>
    <3>1. CASE Published
      BY <1>0, <3>1, FreedFan, CallersAssumption DEF Published, external, stored
    <3>2. CASE ~Published
      BY <1>2, <3>2, SameFan DEF WorkerActs, Fetch, GetAdminToken, ListConcerned, AllPublished, Retry, DescribeFails,
         TokenRefused, CallFails, ExpireToken, Commit, mqttVars, external, stored
    <3> QED BY <3>1, <3>2
  <2>4. CreatorsApart' /\ CreatedOnce'
    BY <1>0, <2>3, CreatorsUntouched, OnceUntouched, QuietCreators, CallersAssumption DEF FanQuiet, Lessened
  <2> QED BY <2>1, <2>2, <2>4
<1>3. CASE Ends
  <2>1. ProcessEnds /\ UNCHANGED <<queue, engine>>
    BY <1>3 DEF Ends, Crash, HandlerError, CommitError, external
  <2>2. WorkerWorks' /\ CreatorsApart' /\ Sent'
    BY <1>0, <2>1, EndedWorks, CreatorsStay, WorkerSent
  <2>3. AllReached'
    BY <1>0, <1>3, EndReaches, CommitReaches DEF Ends
  <2>4. CreatorsQuiet /\ Lessened
    BY <2>1, CallersAssumption DEF ProcessEnds, CreatorsQuiet, CallQuiet, Creators, Lessened
  <2>5. CreatedOnce'
    BY <1>0, <2>1, <2>4, OnceUntouched
  <2> QED BY <2>2, <2>3, <2>5
<1>4. ASSUME NEW d \in Deployments, ApiDescribes(d) \/ Redeploy(d)
      PROVE  WorkerWorks' /\ CreatorsApart' /\ CreatedOnce' /\ AllReached' /\ Sent'
  <2>1. CreatorsApart' /\ CreatedOnce' /\ AllReached' /\ Sent'
    BY <1>0, <1>4, CreatorsStay, CreationsOnce, CreationsReach, RestSent
  <2>2. UNCHANGED <<topic, committed, worker>>
    BY <1>4 DEF ApiDescribes, Redeploy, external, stored
  <2>3. fan'["updates"] = fan["updates"]
    BY <1>0, <1>4, PublishedCall, CallersAssumption DEF ApiDescribes, Redeploy
  <2>4. WorkerWorks'
    BY <1>0, <2>2, <2>3, WorkerUntouched DEF CallQuiet
  <2> QED BY <2>1, <2>4
<1>5. ASSUME NEW d \in Deployments, ClientDeploys(d) \/ ClientUpdates(d)
      PROVE  WorkerWorks' /\ CreatorsApart' /\ CreatedOnce' /\ AllReached' /\ Sent'
  <2>1. CreatedOnce' /\ AllReached' /\ Sent'
    BY <1>0, <1>5, ClientOnce, ClientReaches, ClientSent
  <2>2. UNCHANGED <<fan, topic, committed, worker, guard, request, bringing>>
    BY <1>5 DEF ClientDeploys, ClientUpdates, stored, process
  <2>3. WorkerWorks' /\ CreatorsApart'
    BY <1>0, <2>2, WorkerUntouched, CreatorsUntouched DEF CallQuiet
  <2> QED BY <2>1, <2>3
<1>6. ASSUME NEW g \in Groups, GroupChanges(g) \/ GroupCommand(g)
      PROVE  WorkerWorks' /\ CreatorsApart' /\ CreatedOnce' /\ AllReached' /\ Sent'
  <2>1. AllReached' /\ Sent'
    BY <1>0, <1>6, GroupReaches, GroupSent
  <2>2. UNCHANGED <<fan, queue, engine, committed, worker, guard, request, bringing>>
    BY <1>6 DEF GroupChanges, GroupCommand, mqttVars, stored, process
  <2>3. topic' = topic \/ \E m \in Commands : topic' = Append(topic, m)
    BY <1>0, <1>6 DEF GroupChanges, GroupCommand, Commands, TypeOK
  <2>4. WorkerWorks'
    BY <1>0, <2>2, <2>3, WorkerUntouched DEF CallQuiet
  <2>5. CreatorsApart' /\ CreatedOnce'
    BY <1>0, <2>2, CreatorsUntouched, OnceUntouched, SameCreators DEF CallQuiet, Lessened
  <2> QED BY <2>1, <2>4, <2>5
<1>7. ASSUME NEW e \in worker.found, Describe(e)
      PROVE  WorkerWorks' /\ CreatorsApart' /\ CreatedOnce' /\ AllReached' /\ Sent'
  <2>1. e \in Metadata /\ e.of \in Deployments
    BY <1>0 DEF TypeOK, Workers, Metadata
  <2>2. WorkerWorks' /\ Sent'
    BY <1>0, <1>7, <2>1, WorkerWorksOn, DescribeSent DEF WorkerSteps
  <2>3. UNCHANGED <<queue, engine, repo, unsaid, topic, committed, guard, request, bringing, missed>>
    BY <1>7 DEF Describe, external, stored
  <2>4. \A x \in Callers \ {"updates"} : fan'[x] = fan[x]
    BY <1>0, <1>7, PublishedCall, CallersAssumption DEF Describe
  <2>5. CallQuiet("api") /\ CallQuiet("warden")
    BY <2>4, CallersAssumption DEF CallQuiet
  <2>6. CreatorsApart' /\ CreatedOnce'
    BY <1>0, <2>3, <2>5, CreatorsUntouched, OnceUntouched DEF CreatorsQuiet, Creators, Lessened
  <2>7. \A d \in Deployments : Handled(d)' => Handled(d)
    BY <1>0, <1>7 DEF Describe, At, Handled, TypeOK, Workers
  <2>8. AllReached'
    BY <1>0, <2>3, <2>5, <2>7, ReachedOn DEF CreatorsQuiet, Creators, Lessened
  <2> QED BY <2>2, <2>6, <2>8
<1>8. ASSUME NEW c \in Callers, NEW b \in Brokers, Arrives(c, b), Unheard
      PROVE  WorkerWorks' /\ CreatorsApart' /\ CreatedOnce' /\ AllReached' /\ Sent'
  <2>1. UNCHANGED <<engine, topic, committed, worker, guard, request, bringing>>
    BY <1>8 DEF Unheard, external, stored, process
  <2>2. CreatedOnce' /\ AllReached' /\ Sent'
    BY <1>0, <1>8, <2>1, ArrivesOnce, ArrivesReaches, ArrivesSent
  <2>3. FanQuiet
    BY <1>0, <1>8, CallGoesOn
  <2>4. WorkerWorks' /\ CreatorsApart'
    BY <1>0, <2>1, <2>3, WorkerUntouched, CreatorsUntouched, CallersAssumption DEF FanQuiet
  <2> QED BY <2>2, <2>4
<1>9. CASE Others
  BY <1>9, OthersFresh
<1> QED BY <1>2, <1>3, <1>4, <1>5, <1>6, <1>7, <1>8, <1>9, AllSteps DEF CreationActs, ClientActs, GroupActs

(* What is covered by no command will be fresh, and is when no message is  *)
(* left.                                                                   *)
LEMMA FreshFollows == FreshInv => Fresh
<1> SUFFICES ASSUME FreshInv, NEW d \in Deployments, engine[d] # Nothing, GroupOf[d] \notin unsaid,
                    ~Pending(GroupOf[d]), queue[d] = <<>>, d \notin missed
             PROVE  engine[d].desc = repo[GroupOf[d]]
  BY DEF Fresh
<1>1. ~Covered(d)
  BY DEF Covered, Pending, PutAt
<1>2. LastWord(d, Described(d))
  BY <1>1 DEF FreshInv, AllReached, WillBeFresh
<1>3. DOMAIN queue[d] = {}
  OBVIOUS
<1> QED BY <1>2, <1>3 DEF LastWord, Described

(* When the commands of a group are committed and no message is left, each *)
(* client that the history does not excuse works with the group as it is   *)
(* (Fresh, the promise of UpdateDeviceGroup), whatever crashes, retries,   *)
(* failed calls and changes meanwhile the consumer goes through, for any   *)
(* number of groups, deployments, brokers and commands.                    *)
THEOREM ReachesAll == Spec => []Fresh
<1> QED BY InitFresh, StepFresh, FreshFollows, PTL DEF Spec
=============================================================================
