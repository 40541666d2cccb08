----------------------- MODULE DeploymentSync_proofs ------------------------
(***************************************************************************)
(* Proofs about DeploymentSync, for any deployments, keys and bounds: type *)
(* correctness, that a created deployment stays guarded, that it has one   *)
(* guard, that GuardedDeployments is implemented, that what is             *)
(* synchronised exists at the client, and that the client has a deployment *)
(* once while nothing disturbs the prompt behaviours of MCDeploymentSync.  *)
(***************************************************************************)
EXTENDS MCDeploymentSync, FiniteSetTheorems, TLAPS

(* What a message of each type carries.                                    *)
LEMMA MessageFields ==
    ASSUME NEW m \in Message
    PROVE  /\ m.type \in {"deployment", "delete", "metadata"} => m.id \in Ids
           /\ m.type = "metadata" => m.model \in Ids
           /\ m.type = "known" => m.ids \subseteq Ids
BY DEF Message

(* What a request under way has at each of its steps.                      *)
LEMMA ApiFields ==
    ASSUME api \in ApiCall
    PROVE  /\ api.at \in {"create-save", "create-guard", "delete-guard", "delete-read", "start"}
                => api.id \in Ids
           /\ api.at = "start" => api.key \in Keys
           /\ api.at = "delete-write" => api.doc \in Doc
           /\ api.at = "sync" => api.docs \subseteq Doc /\ api = [at |-> "sync", docs |-> api.docs]
BY DEF ApiCall

(* What a handler under way has at each of its steps.                      *)
LEMMA HandlerFields ==
    ASSUME handler \in HandlerCall
    PROVE  /\ handler.at = "mark" => handler.doc \in Doc
           /\ handler.at = "unknown" => handler.known \subseteq Ids /\ handler.docs \subseteq Doc
           /\ handler.at \in {"set", "remove", "find"} =>
                /\ handler.old \in Ids /\ handler.new \in Ids
                /\ handler = [at |-> handler.at, old |-> handler.old, new |-> handler.new]
           /\ handler.at = "rewrite" =>
                /\ handler.new \in Ids /\ handler.infos \subseteq Info
                /\ handler = [at |-> "rewrite", new |-> handler.new, infos |-> handler.infos]
BY DEF HandlerCall

(* The documents the code writes are documents.                            *)
LEMMA DocTypes ==
    /\ \A i \in Ids : PlaceholderDoc(i) \in Doc /\ SyncedDoc(i) \in Doc
    /\ \A d \in Doc : d.id \in Ids /\ MarkedAsMissing(d) \in Doc /\ MarkedForDelete(d) \in Doc
    /\ \A c \in Deployments : PlatformId(c) \in Ids
<1>1. \A i \in Ids : PlaceholderDoc(i) \in Doc /\ SyncedDoc(i) \in Doc
  BY DEF Doc, PlaceholderDoc, SyncedDoc
<1>2. \A d \in Doc : d.id \in Ids /\ MarkedAsMissing(d) \in Doc /\ MarkedForDelete(d) \in Doc
  BY DEF Doc, MarkedAsMissing, MarkedForDelete
<1>3. \A c \in Deployments : PlatformId(c) \in Ids
  BY BoundsAssumption DEF PlatformId, Ids
<1> QED
  BY <1>1, <1>2, <1>3

LEMMA CommandTypes ==
    \A i \in Ids : DeployCommand(i) \in Command /\ DeleteCommand(i) \in Command
BY DEF DeployCommand, DeleteCommand, Command

(* Sending appends commands.                                               *)
LEMMA SendType ==
    ASSUME cmds \in Seq(Command), NEW s \in Seq(Command), Send(s)
    PROVE  cmds' \in Seq(Command)
BY DEF Send

(* Taking the first message leaves a sequence of messages.                 *)
LEMMA ReceiveType ==
    ASSUME msgs \in Seq(Message), NEW type, Receive(type)
    PROVE  Head(msgs) \in Message /\ Head(msgs).type = type /\ msgs' \in Seq(Message)
BY DEF Receive

(* The idle request and the idle handler.                                  *)
LEMMA IdleType == Idle \in ApiCall /\ Idle \in HandlerCall
BY DEF Idle, ApiCall, HandlerCall

-----------------------------------------------------------------------------
(* The initial states are well-typed.                                      *)
LEMMA InitTypeOK == Init => TypeOK
<1> SUFFICES ASSUME Init PROVE TypeOK
  OBVIOUS
<1>1. engine \subseteq Ids /\ IsFiniteSet(engine)
  BY FS_EmptySet DEF Init
<1>2. api \in ApiCall /\ handler \in HandlerCall
  BY IdleType DEF Init
<1>3. cmds \in Seq(Command) /\ msgs \in Seq(Message)
  BY DEF Init
<1> QED
  BY <1>1, <1>2, <1>3 DEF Init, TypeOK

(* The steps of REST requests keep the types.                              *)
LEMMA ApiTypeOK ==
    ASSUME TypeOK, Requests \/ ApiSteps
    PROVE  TypeOK'
<1> USE DEF clientVars, loopVars, ghostVars
<1>1. ASSUME NEW c \in Deployments, CreateSends(c) PROVE TypeOK'
  <2>1. PlatformId(c) \in Ids
    BY DocTypes
  <2>2. cmds' \in Seq(Command)
    <3>1. <<DeployCommand(PlatformId(c))>> \in Seq(Command)
      BY <2>1, CommandTypes
    <3> QED
      BY <1>1, <3>1, SendType DEF CreateSends, TypeOK
  <2>3. api' \in ApiCall
    BY <1>1, <2>1 DEF CreateSends, ApiCall
  <2> QED
    BY <1>1, <2>2, <2>3 DEF CreateSends, TypeOK
<1>2. ASSUME CreateSaves PROVE TypeOK'
  <2>1. api.id \in Ids
    BY <1>2, ApiFields DEF CreateSaves, TypeOK
  <2>2. docs' \subseteq Doc
    BY <1>2, <2>1, DocTypes DEF CreateSaves, Save, TypeOK
  <2>3. api' \in ApiCall
    BY <1>2, <2>1 DEF CreateSaves, ApiCall
  <2> QED
    BY <1>2, <2>2, <2>3 DEF CreateSaves, TypeOK
<1>3. ASSUME CreateGuards PROVE TypeOK'
  <2>1. api.id \in Ids /\ api.id.of \in Deployments
    BY <1>3, ApiFields DEF CreateGuards, TypeOK, Ids
  <2> QED
    BY <1>3, <2>1, IdleType DEF CreateGuards, TypeOK
<1>4. ASSUME NEW d \in docs, DeleteRemovesInfos(d) PROVE TypeOK'
  <2>1. d.id \in Ids /\ d.id.of \in Deployments
    BY DocTypes DEF TypeOK, Ids
  <2>2. api' \in ApiCall
    BY <1>4, <2>1 DEF DeleteRemovesInfos, ApiCall
  <2> QED
    BY <1>4, <2>1, <2>2 DEF DeleteRemovesInfos, TypeOK
<1>5. ASSUME DeleteRemovesGuard PROVE TypeOK'
  <2>1. api.id \in Ids
    BY <1>5, ApiFields DEF DeleteRemovesGuard, TypeOK
  <2>2. api' \in ApiCall
    BY <1>5, <2>1 DEF DeleteRemovesGuard, ApiCall
  <2> QED
    BY <1>5, <2>2 DEF DeleteRemovesGuard, TypeOK
<1>6. ASSUME DeleteReads PROVE TypeOK'
  <2>1. docs' \subseteq Doc /\ metadata' \subseteq Metadata
    BY <1>6 DEF DeleteReads, deleteDeployment, Without, TypeOK
  <2>2. api' \in ApiCall
    <3>1. api' = Idle \/ \E d \in docs : api' = [at |-> "delete-write", doc |-> d]
      BY <1>6 DEF DeleteReads
    <3> QED
      BY <3>1, IdleType DEF ApiCall, TypeOK
  <2> QED
    BY <1>6, <2>1, <2>2 DEF DeleteReads, TypeOK
<1>7. ASSUME DeleteWrites PROVE TypeOK'
  <2>1. api.doc \in Doc /\ api.doc.id \in Ids /\ MarkedForDelete(api.doc) \in Doc
    BY <1>7, ApiFields, DocTypes DEF DeleteWrites, TypeOK
  <2>2. cmds' \in Seq(Command)
    <3>1. <<DeleteCommand(api.doc.id)>> \in Seq(Command)
      BY <2>1, CommandTypes
    <3> QED
      BY <1>7, <3>1, SendType DEF DeleteWrites, TypeOK
  <2>3. docs' \subseteq Doc
    BY <1>7, <2>1 DEF DeleteWrites, Save, TypeOK
  <2> QED
    BY <1>7, <2>2, <2>3, IdleType DEF DeleteWrites, TypeOK
<1>8. ASSUME NEW k \in Keys, NEW d \in docs, StartGuards(k, d) PROVE TypeOK'
  <2>1. d.id \in Ids
    BY DocTypes DEF TypeOK
  <2>2. infos' \subseteq Info
    <3>1. [key |-> k, id |-> d.id, young |-> TRUE] \in Info
      BY <2>1 DEF Info
    <3> QED
      BY <1>8, <3>1 DEF StartGuards, TypeOK
  <2>3. api' \in ApiCall
    BY <1>8, <2>1 DEF StartGuards, ApiCall
  <2> QED
    BY <1>8, <2>2, <2>3 DEF StartGuards, TypeOK
<1>9. ASSUME StartReads PROVE TypeOK'
  <2>1. infos' \subseteq Info
    BY <1>9 DEF StartReads, TypeOK
  <2> QED
    BY <1>9, <2>1, IdleType DEF StartReads, TypeOK
<1>10. ASSUME SyncLists PROVE TypeOK'
  <2>1. docs' \subseteq Doc
    BY <1>10 DEF SyncLists, RemovePlaceholderDeployments, TypeOK
  <2>2. api' \in ApiCall
    BY <1>10, <2>1 DEF SyncLists, ApiCall
  <2> QED
    BY <1>10, <2>1, <2>2 DEF SyncLists, TypeOK
<1>11. ASSUME api.at = "sync", NEW d \in api.docs, SyncDeployment(d) PROVE TypeOK'
  <2>1. /\ api.docs \subseteq Doc /\ api = [at |-> "sync", docs |-> api.docs]
        /\ d \in Doc /\ d.id \in Ids
    BY <1>11, ApiFields, DocTypes DEF TypeOK
  <2>2. api' \in ApiCall
    <3>1. api' = [at |-> "sync", docs |-> api.docs \ {d}]
      BY <1>11, <2>1 DEF SyncDeployment
    <3> QED
      BY <3>1, <2>1 DEF ApiCall
  <2>3. SyncRepeatsDelete(d) \in Seq(Command)
    BY <2>1, CommandTypes DEF SyncRepeatsDelete
  <2>4. docs' \subseteq Doc /\ metadata' \subseteq Metadata
    BY <1>11, <2>1, DocTypes DEF SyncDeployment, Save, Without, TypeOK
  <2>5. cmds' \in Seq(Command)
    <3>1. \A m \in metadata : SyncRepeatsDelete(d) \o <<DeployCommand(m.model)>> \in Seq(Command)
      BY <2>3, CommandTypes DEF TypeOK, Metadata
    <3> QED
      BY <1>11, <2>3, <3>1, SendType DEF SyncDeployment, TypeOK
  <2> QED
    BY <1>11, <2>2, <2>4, <2>5 DEF SyncDeployment, TypeOK
<1>12. ASSUME SyncEnds PROVE TypeOK'
  BY <1>12, IdleType DEF SyncEnds, TypeOK
<1> QED
  BY <1>1, <1>2, <1>3, <1>4, <1>5, <1>6, <1>7, <1>8, <1>9, <1>10, <1>11, <1>12
  DEF Requests, ApiSteps

(* The steps of the handlers keep the types.                               *)
LEMMA HandlersTypeOK ==
    ASSUME TypeOK, Handlers
    PROVE  TypeOK'
<1> USE DEF clientVars, loopVars, ghostVars
<1>1. ASSUME UpdateDeployment PROVE TypeOK'
  <2>1. Head(msgs).id \in Ids /\ msgs' \in Seq(Message)
    BY <1>1, ReceiveType, MessageFields DEF UpdateDeployment, TypeOK
  <2>2. docs' \subseteq Doc
    BY <1>1, <2>1, DocTypes DEF UpdateDeployment, RemovePlaceholderDeployments, Save, TypeOK
  <2> QED
    BY <1>1, <2>1, <2>2 DEF UpdateDeployment, TypeOK
<1>2. ASSUME DeleteDeployment PROVE TypeOK'
  <2>1. msgs' \in Seq(Message)
    BY <1>2, ReceiveType DEF DeleteDeployment, TypeOK
  <2>2. docs' \subseteq Doc /\ metadata' \subseteq Metadata
    BY <1>2 DEF DeleteDeployment, deleteDeployment, Without, TypeOK
  <2>3. handler' \in HandlerCall
    <3>1. handler' = handler \/ \E d \in docs : handler' = [at |-> "mark", doc |-> d]
      BY <1>2 DEF DeleteDeployment
    <3> QED
      BY <3>1 DEF HandlerCall, TypeOK
  <2> QED
    BY <1>2, <2>1, <2>2, <2>3 DEF DeleteDeployment, TypeOK
<1>3. ASSUME SaveMissing PROVE TypeOK'
  <2>1. MarkedAsMissing(handler.doc) \in Doc
    BY <1>3, HandlerFields, DocTypes DEF SaveMissing, TypeOK
  <2> QED
    BY <1>3, <2>1, IdleType DEF SaveMissing, Save, TypeOK
<1>4. ASSUME ListUnknownDeployments PROVE TypeOK'
  <2>1. Head(msgs).ids \subseteq Ids /\ msgs' \in Seq(Message)
    BY <1>4, ReceiveType, MessageFields DEF ListUnknownDeployments, TypeOK
  <2>2. handler' \in HandlerCall
    BY <1>4, <2>1 DEF ListUnknownDeployments, HandlerCall, Without, TypeOK
  <2> QED
    BY <1>4, <2>1, <2>2 DEF ListUnknownDeployments, TypeOK
<1>5. ASSUME DeleteUnknownDeployments PROVE TypeOK'
  <2>1. handler.docs \subseteq Doc
    BY <1>5, HandlerFields DEF DeleteUnknownDeployments, TypeOK
  <2>2. docs' \subseteq Doc /\ metadata' \subseteq Metadata
    BY <1>5, <2>1, DocTypes DEF DeleteUnknownDeployments, TypeOK
  <2> QED
    BY <1>5, <2>2, IdleType DEF DeleteUnknownDeployments, TypeOK
<1>6. ASSUME UpdateDeploymentMetadata PROVE TypeOK'
  <2>1. Head(msgs).id \in Ids /\ Head(msgs).model \in Ids /\ msgs' \in Seq(Message)
    BY <1>6, ReceiveType, MessageFields DEF UpdateDeploymentMetadata, TypeOK
  <2>2. metadata' \subseteq Metadata
    BY <1>6, <2>1 DEF UpdateDeploymentMetadata, Save, Metadata, TypeOK
  <2>3. handler' \in HandlerCall
    BY <1>6, <2>1 DEF UpdateDeploymentMetadata, HandlerCall
  <2> QED
    BY <1>6, <2>1, <2>2, <2>3 DEF UpdateDeploymentMetadata, TypeOK
<1>7. ASSUME SetNewGuard PROVE TypeOK'
  <2>1. handler.new \in Ids /\ handler' = [at |-> "remove", old |-> handler.old, new |-> handler.new]
        /\ handler.old \in Ids
    BY <1>7, HandlerFields DEF SetNewGuard, TypeOK
  <2>2. handler' \in HandlerCall
    BY <2>1 DEF HandlerCall
  <2> QED
    BY <1>7, <2>1, <2>2 DEF SetNewGuard, TypeOK
<1>8. ASSUME RemoveOldGuard PROVE TypeOK'
  <2>1. handler.new \in Ids /\ handler' = [at |-> "find", old |-> handler.old, new |-> handler.new]
        /\ handler.old \in Ids
    BY <1>8, HandlerFields DEF RemoveOldGuard, TypeOK
  <2>2. handler' \in HandlerCall
    BY <2>1 DEF HandlerCall
  <2> QED
    BY <1>8, <2>2 DEF RemoveOldGuard, TypeOK
<1>9. ASSUME FindOldInfos PROVE TypeOK'
  <2>1. handler.new \in Ids
    BY <1>9, HandlerFields DEF FindOldInfos, TypeOK
  <2>2. {x \in infos : x.id = handler.old} \subseteq Info
    BY DEF TypeOK
  <2>3. handler' \in HandlerCall
    BY <1>9, <2>1, <2>2 DEF FindOldInfos, HandlerCall
  <2> QED
    BY <1>9, <2>3 DEF FindOldInfos, TypeOK
<1>10. ASSUME RewriteInfos PROVE TypeOK'
  <2>1. handler.new \in Ids /\ handler.infos \subseteq Info
    BY <1>10, HandlerFields DEF RewriteInfos, TypeOK
  <2>2. \A y \in Info : [y EXCEPT !.id = handler.new] \in Info
    BY <2>1 DEF Info
  <2>3. infos' \subseteq Info
    BY <1>10, <2>1, <2>2 DEF RewriteInfos, TypeOK
  <2> QED
    BY <1>10, <2>3, IdleType DEF RewriteInfos, TypeOK
<1> QED
  BY <1>1, <1>2, <1>3, <1>4, <1>5, <1>6, <1>7, <1>8, <1>9, <1>10 DEF Handlers

(* A redeployment keeps the types.                                         *)
LEMMA RedeployType ==
    ASSUME TypeOK, NEW i \in Ids, RedeploySends(i)
    PROVE  metadata' \subseteq Metadata /\ cmds' \in Seq(Command) /\ saving' \subseteq Ids
<1>1. <<DeployCommand(i)>> \in Seq(Command)
  BY CommandTypes
<1>2. cmds' \in Seq(Command)
  BY <1>1, SendType DEF RedeploySends, TypeOK
<1> QED
  BY <1>2 DEF RedeploySends, Without, TypeOK

(* The steps of the warden loop keep the types.                            *)
LEMMA LoopTypeOK ==
    ASSUME TypeOK, BeginDeploymentLoop \/ LoopSteps
    PROVE  TypeOK'
<1> USE DEF clientVars, loopVars, ghostVars
<1>1. ASSUME BeginDeploymentLoop PROVE TypeOK'
  BY <1>1 DEF BeginDeploymentLoop, TypeOK
<1>2. ASSUME NEW i \in guardTodo, CheckDeploymentWardenInfo(i) PROVE TypeOK'
  <2>1. i \in Ids
    BY DEF TypeOK
  <2>2. /\ metadata' \subseteq Metadata /\ cmds' \in Seq(Command) /\ saving' \subseteq Ids
        /\ guards' \subseteq Ids /\ guardTodo' \subseteq Ids
    BY <1>2, <2>1, RedeployType DEF CheckDeploymentWardenInfo, RedeployForgets, TypeOK
  <2> QED
    BY <1>2, <2>2 DEF CheckDeploymentWardenInfo, TypeOK
<1>3. ASSUME NEW i \in saving, SavePlaceholder(i) PROVE TypeOK'
  BY <1>3, DocTypes DEF SavePlaceholder, Save, TypeOK
<1>4. ASSUME BeginInfoLoop PROVE TypeOK'
  BY <1>4 DEF BeginInfoLoop, TypeOK
<1>5. ASSUME NEW x \in infoTodo, CheckWardenInfo(x) PROVE TypeOK'
  <2>1. x.id \in Ids
    BY DEF TypeOK, Info
  <2>2. /\ metadata' \subseteq Metadata /\ cmds' \in Seq(Command) /\ saving' \subseteq Ids
        /\ guards' \subseteq Ids /\ infos' \subseteq Info
    <3>1. CASE InfoNeedsNoDeployment(x)
      BY <3>1 DEF InfoNeedsNoDeployment, TypeOK
    <3>2. CASE InfoRedeploys(x)
      BY <3>2, <2>1, RedeployType DEF InfoRedeploys, TypeOK
    <3>3. CASE InfoIsFinal(x)
      BY <3>3 DEF InfoIsFinal, RedeployForgets, DropInfo, TypeOK
    <3> QED
      BY <1>5, <3>1, <3>2, <3>3 DEF CheckWardenInfo
  <2> QED
    BY <1>5, <2>2 DEF CheckWardenInfo, TypeOK
<1>6. ASSUME EndLoop PROVE TypeOK'
  BY <1>6 DEF EndLoop, TypeOK
<1> QED
  BY <1>1, <1>2, <1>3, <1>4, <1>5, <1>6 DEF LoopSteps

(* Time and restarts keep the types.                                       *)
LEMMA TimeTypeOK ==
    ASSUME TypeOK, AgeGatePasses \/ Restart \/ RemoveOldElements
    PROVE  TypeOK'
<1> USE DEF clientVars, loopVars, ghostVars
<1>1. ASSUME AgeGatePasses PROVE TypeOK'
  <2>1. \A S \in SUBSET Info : Older(S) \subseteq Info
    BY DEF Older, Info
  <2>2. handler' \in HandlerCall
    <3>1. CASE handler.at = "rewrite"
      <4>1. /\ handler.new \in Ids /\ handler.infos \subseteq Info
            /\ handler = [at |-> "rewrite", new |-> handler.new, infos |-> handler.infos]
        BY <3>1, HandlerFields DEF TypeOK
      <4>2. handler' = [at |-> "rewrite", new |-> handler.new, infos |-> Older(handler.infos)]
        BY <1>1, <3>1, <4>1 DEF AgeGatePasses
      <4> QED
        BY <2>1, <4>1, <4>2 DEF HandlerCall
    <3>2. CASE handler.at # "rewrite"
      BY <1>1, <3>2 DEF AgeGatePasses, TypeOK
    <3> QED
      BY <3>1, <3>2
  <2> QED
    BY <1>1, <2>1, <2>2 DEF AgeGatePasses, TypeOK
<1>2. ASSUME Restart PROVE TypeOK'
  <2>1. torn' \subseteq Deployments
    BY <1>2, HandlerFields DEF Restart, TypeOK, Ids
  <2>2. gap' \in BOOLEAN
    BY <1>2 DEF Restart, TypeOK
  <2> QED
    BY <1>2, <2>1, <2>2, IdleType DEF Restart, TypeOK
<1>3. ASSUME RemoveOldElements PROVE TypeOK'
  BY <1>3 DEF RemoveOldElements, TypeOK
<1> QED
  BY <1>1, <1>2, <1>3

(* Reporting appends messages.                                             *)
LEMMA ReportType ==
    ASSUME msgs \in Seq(Message), NEW s \in Seq(Message), Report(s)
    PROVE  msgs' \in Seq(Message)
BY DEF Report

(* What the client reports are messages.                                   *)
LEMMA ReportedTypes ==
    /\ \A i \in Ids : DeploymentMessage(i) \in Message /\ DeleteMessage(i) \in Message
    /\ \A i, j \in Ids : MetadataMessage(i, j) \in Message
    /\ \A S \in SUBSET Ids : KnownMessage(S) \in Message
<1>1. \A i \in Ids : DeploymentMessage(i) \in Message /\ DeleteMessage(i) \in Message
  BY DEF DeploymentMessage, DeleteMessage, Message
<1>2. \A i, j \in Ids : MetadataMessage(i, j) \in Message
  BY DEF MetadataMessage, Message
<1>3. \A S \in SUBSET Ids : KnownMessage(S) \in Message
  BY DEF KnownMessage, Message
<1> QED
  BY <1>1, <1>2, <1>3

(* The reports of a finite set of deployments are sequences of messages.   *)
LEMMA ReportsType ==
    ASSUME NEW S \in SUBSET Ids, IsFiniteSet(S), NEW s \in Reports(S)
    PROVE  s \in Seq(Message)
<1>1. Cardinality(S) \in Nat
  BY FS_CardinalityType
<1>2. s \in [1..Cardinality(S) -> {DeploymentMessage(i) : i \in S}]
  BY DEF Reports
<1>3. {DeploymentMessage(i) : i \in S} \subseteq Message
  BY ReportedTypes
<1>4. s \in [1..Cardinality(S) -> Message]
  BY <1>2, <1>3
<1> QED
  BY <1>1, <1>4

(* Taking the first command leaves a sequence of commands.                 *)
LEMMA ObeyType ==
    ASSUME cmds \in Seq(Command), cmds # <<>>
    PROVE  Head(cmds).id \in Ids /\ Tail(cmds) \in Seq(Command)
<1>1. Head(cmds) \in Command /\ Tail(cmds) \in Seq(Command)
  OBVIOUS
<1>2. \A x \in Command : x.id \in Ids
  BY DEF Command
<1> QED
  BY <1>1, <1>2

(* The steps of the client and losses keep the types.                      *)
LEMMA ClientTypeOK ==
    ASSUME TypeOK, ClientObeys \/ ClientReconnects \/ ClientReset \/ Losses
    PROVE  TypeOK'
<1> USE DEF loopVars, ghostVars
<1>1. ASSUME ClientDeploys PROVE TypeOK'
  <2>1. Head(cmds).id \in Ids /\ cmds' \in Seq(Command)
    BY <1>1, ObeyType DEF ClientDeploys, TypeOK
  <2>2. PICK i \in Ids, order \in ReportOrders :
          /\ engine' = engine \cup {i}
          /\ Report(IF order = "deployment first"
                    THEN <<DeploymentMessage(i), MetadataMessage(i, Head(cmds).id)>>
                    ELSE <<MetadataMessage(i, Head(cmds).id), DeploymentMessage(i)>>)
    BY <1>1 DEF ClientDeploys
  <2>3. /\ <<DeploymentMessage(i), MetadataMessage(i, Head(cmds).id)>> \in Seq(Message)
        /\ <<MetadataMessage(i, Head(cmds).id), DeploymentMessage(i)>> \in Seq(Message)
    BY <2>1, ReportedTypes
  <2>4. msgs' \in Seq(Message)
    BY <2>2, <2>3, ReportType DEF TypeOK
  <2>5. engine' \subseteq Ids /\ IsFiniteSet(engine')
    BY <2>2, FS_AddElement DEF TypeOK
  <2> QED
    BY <1>1, <2>1, <2>4, <2>5 DEF ClientDeploys, TypeOK
<1>2. ASSUME ClientDeletes PROVE TypeOK'
  <2>1. Head(cmds).id \in Ids /\ cmds' \in Seq(Command)
    BY <1>2, ObeyType DEF ClientDeletes, TypeOK
  <2>2. <<DeleteMessage(Head(cmds).id)>> \in Seq(Message)
    BY <2>1, ReportedTypes
  <2>3. msgs' \in Seq(Message)
    BY <1>2, <2>2, ReportType DEF ClientDeletes, TypeOK
  <2>4. engine' \subseteq Ids /\ IsFiniteSet(engine')
    BY <1>2, FS_RemoveElement DEF ClientDeletes, TypeOK
  <2> QED
    BY <1>2, <2>1, <2>3, <2>4 DEF ClientDeletes, TypeOK
<1>3. ASSUME ClientReconnects PROVE TypeOK'
  <2>1. PICK s \in Reports(engine) : Report(<<KnownMessage(engine)>> \o s)
    BY <1>3 DEF ClientReconnects
  <2>2. <<KnownMessage(engine)>> \o s \in Seq(Message)
    <3>1. s \in Seq(Message)
      BY ReportsType DEF TypeOK
    <3>2. <<KnownMessage(engine)>> \in Seq(Message)
      BY ReportedTypes DEF TypeOK
    <3> QED
      BY <3>1, <3>2
  <2>3. msgs' \in Seq(Message)
    BY <2>1, <2>2, ReportType DEF TypeOK
  <2> QED
    BY <1>3, <2>3 DEF ClientReconnects, TypeOK
<1>4. ASSUME ClientReset PROVE TypeOK'
  <2>1. <<KnownMessage({})>> \in Seq(Message)
    BY ReportedTypes
  <2>2. msgs' \in Seq(Message)
    BY <1>4, <2>1, ReportType DEF ClientReset, TypeOK
  <2> QED
    BY <1>4, <2>2, FS_EmptySet DEF ClientReset, TypeOK
<1>5. ASSUME LoseCommands PROVE TypeOK'
  BY <1>5 DEF LoseCommands, TypeOK
<1>6. ASSUME LoseMessages PROVE TypeOK'
  BY <1>6 DEF LoseMessages, TypeOK
<1> QED
  BY <1>1, <1>2, <1>3, <1>4, <1>5, <1>6 DEF ClientObeys, Losses

(* Every step keeps the types.                                             *)
LEMMA NextTypeOK == TypeOK /\ [Next]_vars => TypeOK'
<1> SUFFICES ASSUME TypeOK, [Next]_vars PROVE TypeOK'
  OBVIOUS
<1>1. CASE Requests \/ ApiSteps
  BY <1>1, ApiTypeOK
<1>2. CASE Handlers
  BY <1>2, HandlersTypeOK
<1>3. CASE BeginDeploymentLoop \/ LoopSteps
  BY <1>3, LoopTypeOK
<1>4. CASE AgeGatePasses \/ Restart \/ RemoveOldElements
  BY <1>4, TimeTypeOK
<1>5. CASE ClientObeys \/ ClientReconnects \/ ClientReset \/ Losses
  BY <1>5, ClientTypeOK
<1>6. CASE UNCHANGED vars
  BY <1>6 DEF TypeOK, vars, clientVars, loopVars, ghostVars
<1> QED
  BY <1>1, <1>2, <1>3, <1>4, <1>5, <1>6 DEF Next

(* Every reachable state is well-typed.                                    *)
THEOREM TypeCorrect == Spec => []TypeOK
BY InitTypeOK, NextTypeOK, PTL DEF Spec

-----------------------------------------------------------------------------
(* The invariant behind CreatedStaysGuarded and OneGuardEach.              *)

(* Metadata move a guard to another id of the same deployment.             *)
Moves(old, new) == old # new /\ old.of = new.of

MovingMessage == {m \in Message : m.type = "metadata" => Moves(m.model, m.id)}

(* Only created deployments are guarded, and one that is being created is  *)
(* none of them.                                                           *)
GuardedWereCreated ==
    /\ \A i \in guards : i.of \in created
    /\ api.at \in {"create-save", "create-guard"} => api.id.of \notin created

(* Every mark for delete, in the database or in the hands of a step, goes  *)
(* back to a user.                                                         *)
DeletesWereAsked ==
    /\ \A d \in docs : d.deleting => d.id.of \in deleted
    /\ api.at \in {"delete-guard", "delete-read"} => api.id.of \in deleted
    /\ api.at = "delete-write" => api.doc.id.of \in deleted
    /\ handler.at = "mark" => ~handler.doc.deleting
    /\ handler.at = "unknown" => \A d \in handler.docs : d.deleting => d.id.of \in deleted

(* While a guard moves, its deployment has no third guard, and the new one *)
(* is not lost before the old one goes.                                    *)
MoveIsSafe ==
    /\ handler.at \in {"set", "remove"} =>
          Moves(handler.old, handler.new) /\ handler.old.of \in created
    /\ handler.at = "set" =>
          \A i \in guards : i.of = handler.old.of => i = handler.old \/ i.of \in torn
    /\ handler.at = "remove" =>
          /\ \A i \in guards :
                i.of = handler.old.of => i \in {handler.old, handler.new} \/ i.of \in torn
          /\ handler.new \in guards \/ handler.new.of \in deleted

GuardCore ==
    /\ msgs \in Seq(MovingMessage)
    /\ GuardedWereCreated
    /\ DeletesWereAsked
    /\ MoveIsSafe
    /\ CreatedStaysGuarded
    /\ OneGuardEach

GuardInv == TypeOK /\ GuardCore

(* The initial states satisfy the invariant.                               *)
LEMMA InitGuardCore == Init => GuardCore
<1> SUFFICES ASSUME Init PROVE GuardCore
  OBVIOUS
<1>1. msgs \in Seq(MovingMessage)
  BY DEF Init
<1>2. GuardedWereCreated /\ DeletesWereAsked /\ MoveIsSafe
  BY DEF Init, Idle, GuardedWereCreated, DeletesWereAsked, MoveIsSafe
<1>3. CreatedStaysGuarded /\ OneGuardEach
  BY DEF Init, CreatedStaysGuarded, OneGuardEach
<1> QED
  BY <1>1, <1>2, <1>3 DEF GuardCore

(* Marks of the documents that code writes.                                *)
LEMMA DocMarks ==
    /\ \A i \in Ids : PlaceholderDoc(i).id = i /\ ~PlaceholderDoc(i).deleting
    /\ \A i \in Ids : SyncedDoc(i).id = i /\ ~SyncedDoc(i).deleting
    /\ \A d \in Doc : MarkedAsMissing(d).id = d.id /\ MarkedAsMissing(d).deleting = d.deleting
    /\ \A d \in Doc : MarkedForDelete(d).id = d.id
BY DEF Doc, PlaceholderDoc, SyncedDoc, MarkedAsMissing, MarkedForDelete

(* A step that leaves guards, handler and ghosts alone keeps what is said  *)
(* of them.                                                                *)
LEMMA GuardsUntouched ==
    ASSUME GuardCore, UNCHANGED <<guards, handler, created, deleted, torn>>
    PROVE  MoveIsSafe' /\ CreatedStaysGuarded' /\ OneGuardEach'
BY DEF GuardCore, MoveIsSafe, CreatedStaysGuarded, OneGuardEach

(* The steps of REST requests keep the invariant.                          *)
LEMMA ApiGuardCore ==
    ASSUME GuardInv, Requests \/ ApiSteps
    PROVE  GuardCore'
<1> USE DEF clientVars, loopVars, ghostVars
<1>0. /\ TypeOK /\ GuardedWereCreated /\ DeletesWereAsked /\ MoveIsSafe
      /\ CreatedStaysGuarded /\ OneGuardEach /\ msgs \in Seq(MovingMessage)
  BY DEF GuardInv, GuardCore
<1>1. ASSUME NEW c \in Deployments, CreateSends(c) PROVE GuardCore'
  <2>1. GuardedWereCreated'
    BY <1>0, <1>1 DEF CreateSends, GuardedWereCreated, PlatformId
  <2>2. DeletesWereAsked'
    BY <1>0, <1>1 DEF CreateSends, DeletesWereAsked
  <2> QED
    BY <1>0, <1>1, <2>1, <2>2, GuardsUntouched DEF CreateSends, GuardCore
<1>2. ASSUME CreateSaves PROVE GuardCore'
  <2>1. api.id \in Ids
    BY <1>0, <1>2, ApiFields DEF CreateSaves, TypeOK
  <2>2. GuardedWereCreated'
    BY <1>0, <1>2 DEF CreateSaves, GuardedWereCreated
  <2>3. DeletesWereAsked'
    BY <1>0, <1>2, <2>1, DocMarks DEF CreateSaves, Save, DeletesWereAsked
  <2> QED
    BY <1>0, <1>2, <2>2, <2>3, GuardsUntouched DEF CreateSaves, GuardCore
<1>3. ASSUME CreateGuards PROVE GuardCore'
  <2>1. GuardedWereCreated' /\ DeletesWereAsked'
    BY <1>0, <1>3 DEF CreateGuards, GuardedWereCreated, DeletesWereAsked, Idle
  <2>2. MoveIsSafe'
    BY <1>0, <1>3 DEF CreateGuards, GuardedWereCreated, MoveIsSafe
  <2>3. CreatedStaysGuarded'
    BY <1>0, <1>3 DEF CreateGuards, CreatedStaysGuarded
  <2>4. OneGuardEach'
    BY <1>0, <1>3 DEF CreateGuards, GuardedWereCreated, OneGuardEach
  <2> QED
    BY <1>0, <1>3, <2>1, <2>2, <2>3, <2>4 DEF CreateGuards, GuardCore
<1>4. ASSUME NEW d \in docs, DeleteRemovesInfos(d) PROVE GuardCore'
  <2>1. GuardedWereCreated' /\ DeletesWereAsked'
    BY <1>0, <1>4 DEF DeleteRemovesInfos, GuardedWereCreated, DeletesWereAsked
  <2>2. MoveIsSafe' /\ CreatedStaysGuarded' /\ OneGuardEach'
    BY <1>0, <1>4 DEF DeleteRemovesInfos, MoveIsSafe, CreatedStaysGuarded, OneGuardEach
  <2> QED
    BY <1>0, <1>4, <2>1, <2>2 DEF DeleteRemovesInfos, GuardCore
<1>5. ASSUME DeleteRemovesGuard PROVE GuardCore'
  <2>1. GuardedWereCreated' /\ DeletesWereAsked'
    BY <1>0, <1>5 DEF DeleteRemovesGuard, GuardedWereCreated, DeletesWereAsked
  <2>2. api.id.of \in deleted
    BY <1>0, <1>5 DEF DeleteRemovesGuard, DeletesWereAsked
  <2>3. MoveIsSafe' /\ CreatedStaysGuarded' /\ OneGuardEach'
    BY <1>0, <1>5, <2>2 DEF DeleteRemovesGuard, MoveIsSafe, CreatedStaysGuarded, OneGuardEach
  <2> QED
    BY <1>0, <1>5, <2>1, <2>3 DEF DeleteRemovesGuard, GuardCore
<1>6. ASSUME DeleteReads PROVE GuardCore'
  <2>1. /\ docs' \subseteq docs /\ api.id.of \in deleted
        /\ \/ api' = Idle
           \/ \E d \in docs : d.id = api.id /\ api' = [at |-> "delete-write", doc |-> d]
    BY <1>0, <1>6 DEF DeleteReads, deleteDeployment, Without, DeletesWereAsked
  <2>2. /\ api'.at \in {"idle", "delete-write"}
        /\ api'.at = "delete-write" => api'.doc.id.of \in deleted
    BY <2>1 DEF Idle
  <2>3. GuardedWereCreated'
    BY <1>0, <1>6, <2>2 DEF DeleteReads, GuardedWereCreated
  <2>4. DeletesWereAsked'
    BY <1>0, <1>6, <2>1, <2>2 DEF DeleteReads, DeletesWereAsked
  <2> QED
    BY <1>0, <1>6, <2>3, <2>4, GuardsUntouched DEF DeleteReads, GuardCore
<1>7. ASSUME DeleteWrites PROVE GuardCore'
  <2>1. GuardedWereCreated'
    BY <1>0, <1>7 DEF DeleteWrites, GuardedWereCreated, Idle
  <2>2. api.doc \in Doc
    BY <1>0, <1>7, ApiFields DEF DeleteWrites, TypeOK
  <2>3. DeletesWereAsked'
    BY <1>0, <1>7, <2>2, DocMarks DEF DeleteWrites, Save, DeletesWereAsked, Idle
  <2> QED
    BY <1>0, <1>7, <2>1, <2>3, GuardsUntouched DEF DeleteWrites, GuardCore
<1>8. ASSUME NEW k \in Keys, NEW d \in docs, StartGuards(k, d) PROVE GuardCore'
  <2>1. GuardedWereCreated' /\ DeletesWereAsked'
    BY <1>0, <1>8 DEF StartGuards, GuardedWereCreated, DeletesWereAsked
  <2> QED
    BY <1>0, <1>8, <2>1, GuardsUntouched DEF StartGuards, GuardCore
<1>9. ASSUME StartReads \/ SyncEnds PROVE GuardCore'
  <2>1. GuardedWereCreated' /\ DeletesWereAsked'
    BY <1>0, <1>9 DEF StartReads, SyncEnds, GuardedWereCreated, DeletesWereAsked, Idle
  <2> QED
    BY <1>0, <1>9, <2>1, GuardsUntouched DEF StartReads, SyncEnds, GuardCore
<1>10. ASSUME SyncLists PROVE GuardCore'
  <2>1. GuardedWereCreated' /\ DeletesWereAsked'
    BY <1>0, <1>10
    DEF SyncLists, RemovePlaceholderDeployments, GuardedWereCreated, DeletesWereAsked
  <2> QED
    BY <1>0, <1>10, <2>1, GuardsUntouched DEF SyncLists, GuardCore
<1>11. ASSUME api.at = "sync", NEW d \in api.docs, SyncDeployment(d) PROVE GuardCore'
  <2>1. /\ d \in Doc /\ d.id \in Ids
        /\ api = [at |-> "sync", docs |-> api.docs]
    BY <1>0, <1>11, ApiFields, DocTypes DEF TypeOK
  <2>2. api'.at = "sync"
    BY <1>11, <2>1 DEF SyncDeployment
  <2>3. GuardedWereCreated'
    BY <1>0, <1>11, <2>2 DEF SyncDeployment, GuardedWereCreated
  <2>4. \A x \in docs' : x \in docs \/ x = PlaceholderDoc(d.id)
    BY <1>11 DEF SyncDeployment, Save
  <2>5. DeletesWereAsked'
    BY <1>0, <1>11, <2>1, <2>2, <2>4, DocMarks DEF SyncDeployment, DeletesWereAsked
  <2> QED
    BY <1>0, <1>11, <2>3, <2>5, GuardsUntouched DEF SyncDeployment, GuardCore
<1> QED
  BY <1>1, <1>2, <1>3, <1>4, <1>5, <1>6, <1>7, <1>8, <1>9, <1>10, <1>11
  DEF Requests, ApiSteps

(* Taking the first message leaves messages that move guards.              *)
LEMMA ReceiveMoves ==
    ASSUME msgs \in Seq(MovingMessage), NEW type, Receive(type)
    PROVE  /\ handler = Idle /\ msgs' \in Seq(MovingMessage)
           /\ Head(msgs).type = "metadata" => Moves(Head(msgs).model, Head(msgs).id)
<1>1. Head(msgs) \in MovingMessage /\ msgs' \in Seq(MovingMessage)
  BY DEF Receive
<1> QED
  BY <1>1 DEF Receive, MovingMessage

(* A handler that neither begins nor ends a move leaves the guards safe.   *)
LEMMA GuardsKept ==
    ASSUME GuardCore, UNCHANGED <<guards, created, deleted, torn>>,
           handler.at # "remove", handler'.at \notin {"set", "remove"}
    PROVE  MoveIsSafe' /\ CreatedStaysGuarded' /\ OneGuardEach'
BY DEF GuardCore, MoveIsSafe, CreatedStaysGuarded, OneGuardEach

(* The steps of the handlers keep the invariant.                           *)
LEMMA HandlersGuardCore ==
    ASSUME GuardInv, Handlers
    PROVE  GuardCore'
<1> USE DEF clientVars, loopVars, ghostVars
<1>0. /\ TypeOK /\ GuardCore /\ GuardedWereCreated /\ DeletesWereAsked /\ MoveIsSafe
      /\ CreatedStaysGuarded /\ OneGuardEach /\ msgs \in Seq(MovingMessage)
  BY DEF GuardInv, GuardCore
<1>a. Idle.at = "idle"
  BY DEF Idle
<1>1. ASSUME UpdateDeployment PROVE GuardCore'
  <2>1. Head(msgs).id \in Ids /\ handler = Idle /\ msgs' \in Seq(MovingMessage)
    BY <1>0, <1>1, ReceiveType, ReceiveMoves, MessageFields DEF UpdateDeployment, TypeOK
  <2>2. GuardedWereCreated'
    BY <1>0, <1>1 DEF UpdateDeployment, GuardedWereCreated
  <2>3. DeletesWereAsked'
    BY <1>0, <1>1, <2>1, DocMarks
    DEF UpdateDeployment, RemovePlaceholderDeployments, Save, DeletesWereAsked
  <2> QED
    BY <1>0, <1>1, <2>1, <2>2, <2>3, GuardsUntouched DEF UpdateDeployment, GuardCore
<1>2. ASSUME DeleteDeployment PROVE GuardCore'
  <2>1. handler = Idle /\ msgs' \in Seq(MovingMessage)
    BY <1>0, <1>2, ReceiveMoves DEF DeleteDeployment
  <2>2. /\ docs' \subseteq docs
        /\ handler' = Idle \/ \E d \in docs : ~d.deleting /\ handler' = [at |-> "mark", doc |-> d]
    BY <1>2, <2>1 DEF DeleteDeployment, deleteDeployment, Without
  <2>3. handler'.at \in {"idle", "mark"} /\ (handler'.at = "mark" => ~handler'.doc.deleting)
    BY <2>2, <1>a
  <2>4. GuardedWereCreated' /\ DeletesWereAsked'
    BY <1>0, <1>2, <2>2, <2>3 DEF DeleteDeployment, GuardedWereCreated, DeletesWereAsked
  <2>5. MoveIsSafe' /\ CreatedStaysGuarded' /\ OneGuardEach'
    BY <1>0, <1>2, <1>a, <2>1, <2>3, GuardsKept DEF DeleteDeployment
  <2> QED
    BY <2>1, <2>4, <2>5 DEF GuardCore
<1>3. ASSUME SaveMissing PROVE GuardCore'
  <2>1. handler.doc \in Doc
    BY <1>0, <1>3, HandlerFields DEF SaveMissing, TypeOK
  <2>2. GuardedWereCreated' /\ DeletesWereAsked'
    BY <1>0, <1>3, <1>a, <2>1, DocMarks
    DEF SaveMissing, Save, GuardedWereCreated, DeletesWereAsked
  <2>3. MoveIsSafe' /\ CreatedStaysGuarded' /\ OneGuardEach'
    BY <1>0, <1>3, <1>a, GuardsKept DEF SaveMissing
  <2> QED
    BY <1>0, <1>3, <2>2, <2>3 DEF SaveMissing, GuardCore
<1>4. ASSUME ListUnknownDeployments PROVE GuardCore'
  <2>1. handler = Idle /\ msgs' \in Seq(MovingMessage)
    BY <1>0, <1>4, ReceiveMoves DEF ListUnknownDeployments
  <2>2. handler'.at = "unknown" /\ handler'.docs \subseteq docs
    BY <1>4 DEF ListUnknownDeployments, Without
  <2>3. GuardedWereCreated' /\ DeletesWereAsked'
    BY <1>0, <1>4, <2>2 DEF ListUnknownDeployments, GuardedWereCreated, DeletesWereAsked
  <2>4. MoveIsSafe' /\ CreatedStaysGuarded' /\ OneGuardEach'
    BY <1>0, <1>4, <1>a, <2>1, <2>2, GuardsKept DEF ListUnknownDeployments
  <2> QED
    BY <2>1, <2>3, <2>4 DEF GuardCore
<1>5. ASSUME DeleteUnknownDeployments PROVE GuardCore'
  <2>1. handler.docs \subseteq Doc
    BY <1>0, <1>5, HandlerFields DEF DeleteUnknownDeployments, TypeOK
  <2>2. \A x \in docs' : x \in docs \/ \E d \in handler.docs : ~d.deleting /\ x = MarkedAsMissing(d)
    BY <1>5 DEF DeleteUnknownDeployments
  <2>3. GuardedWereCreated' /\ DeletesWereAsked'
    BY <1>0, <1>5, <1>a, <2>1, <2>2, DocMarks
    DEF DeleteUnknownDeployments, GuardedWereCreated, DeletesWereAsked
  <2>4. MoveIsSafe' /\ CreatedStaysGuarded' /\ OneGuardEach'
    BY <1>0, <1>5, <1>a, GuardsKept DEF DeleteUnknownDeployments
  <2> QED
    BY <1>0, <1>5, <2>3, <2>4 DEF DeleteUnknownDeployments, GuardCore
<1>6. ASSUME UpdateDeploymentMetadata PROVE GuardCore'
  <2> DEFINE m == Head(msgs)
  <2>1. handler = Idle /\ msgs' \in Seq(MovingMessage) /\ Moves(m.model, m.id)
    BY <1>0, <1>6, ReceiveMoves DEF UpdateDeploymentMetadata, Receive
  <2>2. /\ handler'.at = IF m.model \in guards THEN "set" ELSE "find"
        /\ handler'.old = m.model /\ handler'.new = m.id
    BY <1>6 DEF UpdateDeploymentMetadata
  <2> HIDE DEF m
  <2>3. GuardedWereCreated' /\ DeletesWereAsked'
    BY <1>0, <1>6, <2>2 DEF UpdateDeploymentMetadata, GuardedWereCreated, DeletesWereAsked
  <2>4. UNCHANGED <<guards, created, deleted, torn>>
    BY <1>6 DEF UpdateDeploymentMetadata
  <2>5. MoveIsSafe'
    <3>1. CASE m.model \in guards
      <4>1. handler'.at = "set" /\ m.model.of \in created
        BY <1>0, <2>2, <3>1 DEF GuardedWereCreated
      <4>2. \A i \in guards : i.of = m.model.of => i = m.model \/ i.of \in torn
        BY <1>0, <1>a, <2>1, <3>1 DEF OneGuardEach
      <4> QED
        BY <2>1, <2>2, <2>4, <4>1, <4>2 DEF MoveIsSafe
    <3>2. CASE m.model \notin guards
      BY <2>2, <3>2 DEF MoveIsSafe
    <3> QED
      BY <3>1, <3>2
  <2>6. CreatedStaysGuarded' /\ OneGuardEach'
    BY <1>0, <1>a, <2>1, <2>4 DEF CreatedStaysGuarded, OneGuardEach
  <2> QED
    BY <2>1, <2>3, <2>5, <2>6 DEF GuardCore
<1>7. ASSUME SetNewGuard PROVE GuardCore'
  <2>1. handler' = [at |-> "remove", old |-> handler.old, new |-> handler.new]
    BY <1>0, <1>7, HandlerFields DEF SetNewGuard, TypeOK
  <2>2. /\ handler'.at = "remove" /\ handler'.old = handler.old /\ handler'.new = handler.new
        /\ Moves(handler.old, handler.new) /\ handler.old.of \in created
    BY <1>0, <1>7, <2>1 DEF SetNewGuard, MoveIsSafe
  <2>3. GuardedWereCreated' /\ DeletesWereAsked'
    BY <1>0, <1>7, <2>2 DEF SetNewGuard, GuardedWereCreated, DeletesWereAsked, Moves
  <2>4. MoveIsSafe'
    BY <1>0, <1>7, <2>2 DEF SetNewGuard, MoveIsSafe
  <2>5. CreatedStaysGuarded' /\ OneGuardEach'
    BY <1>0, <1>7, <2>2 DEF SetNewGuard, CreatedStaysGuarded, OneGuardEach, Moves
  <2> QED
    BY <1>0, <1>7, <2>3, <2>4, <2>5 DEF SetNewGuard, GuardCore
<1>8. ASSUME RemoveOldGuard PROVE GuardCore'
  <2>1. handler' = [at |-> "find", old |-> handler.old, new |-> handler.new]
    BY <1>0, <1>8, HandlerFields DEF RemoveOldGuard, TypeOK
  <2>2. /\ Moves(handler.old, handler.new)
        /\ \A i \in guards :
             i.of = handler.old.of => i \in {handler.old, handler.new} \/ i.of \in torn
        /\ handler.new \in guards \/ handler.new.of \in deleted
    BY <1>0, <1>8 DEF RemoveOldGuard, MoveIsSafe
  <2>3. GuardedWereCreated' /\ DeletesWereAsked' /\ MoveIsSafe'
    BY <1>0, <1>8, <2>1 DEF RemoveOldGuard, GuardedWereCreated, DeletesWereAsked, MoveIsSafe
  <2>4. CreatedStaysGuarded'
    BY <1>0, <1>8, <2>2 DEF RemoveOldGuard, CreatedStaysGuarded, Moves
  <2>5. OneGuardEach'
    BY <1>0, <1>8, <2>2 DEF RemoveOldGuard, OneGuardEach
  <2> QED
    BY <1>0, <1>8, <2>3, <2>4, <2>5 DEF RemoveOldGuard, GuardCore
<1>9. ASSUME FindOldInfos \/ RewriteInfos PROVE GuardCore'
  <2>1. handler.at # "remove" /\ handler'.at \in {"rewrite", "idle"}
    BY <1>9, <1>a DEF FindOldInfos, RewriteInfos
  <2>2. GuardedWereCreated' /\ DeletesWereAsked'
    BY <1>0, <1>9, <2>1 DEF FindOldInfos, RewriteInfos, GuardedWereCreated, DeletesWereAsked
  <2>3. MoveIsSafe' /\ CreatedStaysGuarded' /\ OneGuardEach'
    BY <1>0, <1>9, <2>1, GuardsKept DEF FindOldInfos, RewriteInfos
  <2> QED
    BY <1>0, <1>9, <2>2, <2>3 DEF FindOldInfos, RewriteInfos, GuardCore
<1> QED
  BY <1>1, <1>2, <1>3, <1>4, <1>5, <1>6, <1>7, <1>8, <1>9 DEF Handlers

(* A redeployment sends a command and leaves the guards; one of a          *)
(* deployment that a user wants deleted drops its guard.                   *)
LEMMA RedeployKeepsGuards ==
    ASSUME GuardInv, NEW i \in Ids,
           guards' = guards \/ RedeployForgets(i),
           UNCHANGED <<docs, msgs, api, handler, created, deleted, torn>>
    PROVE  GuardCore'
<1>0. /\ GuardedWereCreated /\ DeletesWereAsked /\ MoveIsSafe
      /\ CreatedStaysGuarded /\ OneGuardEach /\ msgs \in Seq(MovingMessage)
  BY DEF GuardInv, GuardCore
<1>1. GuardedWereCreated'
  BY <1>0 DEF RedeployForgets, GuardedWereCreated
<1>2. DeletesWereAsked'
  BY <1>0 DEF DeletesWereAsked
<1>3. CASE guards' = guards
  BY <1>0, <1>1, <1>2, <1>3, GuardsUntouched DEF GuardInv, GuardCore
<1>4. CASE RedeployForgets(i)
  <2>1. i.of \in deleted
    BY <1>0, <1>4 DEF RedeployForgets, MarkedForDeleteAt, DeletesWereAsked
  <2>2. MoveIsSafe' /\ CreatedStaysGuarded' /\ OneGuardEach'
    BY <1>0, <1>4, <2>1 DEF RedeployForgets, MoveIsSafe, CreatedStaysGuarded, OneGuardEach
  <2> QED
    BY <1>0, <1>1, <1>2, <2>2 DEF GuardCore
<1> QED
  BY <1>3, <1>4

(* The steps of the warden loop keep the invariant.                        *)
LEMMA LoopGuardCore ==
    ASSUME GuardInv, BeginDeploymentLoop \/ LoopSteps
    PROVE  GuardCore'
<1> USE DEF clientVars, loopVars, ghostVars
<1>0. TypeOK /\ GuardCore /\ GuardedWereCreated /\ DeletesWereAsked
  BY DEF GuardInv, GuardCore
<1>1. ASSUME BeginDeploymentLoop \/ BeginInfoLoop \/ EndLoop PROVE GuardCore'
  <2>1. UNCHANGED <<docs, guards, msgs, api, handler, created, deleted, torn>>
    BY <1>1 DEF BeginDeploymentLoop, BeginInfoLoop, EndLoop
  <2>2. GuardedWereCreated' /\ DeletesWereAsked'
    BY <1>0, <2>1 DEF GuardedWereCreated, DeletesWereAsked
  <2> QED
    BY <1>0, <2>1, <2>2, GuardsUntouched DEF GuardCore
<1>2. ASSUME NEW i \in guardTodo, CheckDeploymentWardenInfo(i) PROVE GuardCore'
  <2>1. i \in Ids
    BY <1>0 DEF TypeOK
  <2>2. /\ guards' = guards \/ RedeployForgets(i)
        /\ UNCHANGED <<docs, msgs, api, handler, created, deleted, torn>>
    BY <1>2 DEF CheckDeploymentWardenInfo
  <2> QED
    BY <2>1, <2>2, RedeployKeepsGuards
<1>3. ASSUME NEW i \in saving, SavePlaceholder(i) PROVE GuardCore'
  <2>1. i \in Ids
    BY <1>0 DEF TypeOK
  <2>2. GuardedWereCreated'
    BY <1>0, <1>3 DEF SavePlaceholder, GuardedWereCreated
  <2>3. DeletesWereAsked'
    BY <1>0, <1>3, <2>1, DocMarks DEF SavePlaceholder, Save, DeletesWereAsked
  <2> QED
    BY <1>0, <1>3, <2>2, <2>3, GuardsUntouched DEF SavePlaceholder, GuardCore
<1>4. ASSUME NEW x \in infoTodo, CheckWardenInfo(x) PROVE GuardCore'
  <2>1. x.id \in Ids
    BY <1>0 DEF TypeOK, Info
  <2>2. guards' = guards \/ RedeployForgets(x.id)
    BY <1>4 DEF CheckWardenInfo, InfoNeedsNoDeployment, InfoRedeploys, InfoIsFinal
  <2>3. UNCHANGED <<docs, msgs, api, handler, created, deleted, torn>>
    BY <1>4 DEF CheckWardenInfo
  <2> QED
    BY <2>1, <2>2, <2>3, RedeployKeepsGuards
<1> QED
  BY <1>1, <1>2, <1>3, <1>4 DEF LoopSteps

(* Time keeps the invariant, and so does a restart: it forgets the move    *)
(* under way, whose deployment is torn from then on.                       *)
LEMMA TimeGuardCore ==
    ASSUME GuardInv, AgeGatePasses \/ Restart \/ RemoveOldElements
    PROVE  GuardCore'
<1> USE DEF clientVars, loopVars, ghostVars
<1>0. /\ TypeOK /\ GuardCore /\ GuardedWereCreated /\ DeletesWereAsked /\ MoveIsSafe
      /\ CreatedStaysGuarded /\ OneGuardEach /\ msgs \in Seq(MovingMessage)
  BY DEF GuardInv, GuardCore
<1>1. ASSUME AgeGatePasses PROVE GuardCore'
  <2>1. UNCHANGED <<docs, msgs, api, guards, created, deleted, torn>>
    BY <1>1 DEF AgeGatePasses
  <2>2. handler'.at = handler.at /\ (handler.at # "rewrite" => handler' = handler)
    <3>1. CASE handler.at = "rewrite"
      <4>1. handler = [at |-> "rewrite", new |-> handler.new, infos |-> handler.infos]
        BY <1>0, <3>1, HandlerFields DEF TypeOK
      <4> QED
        BY <1>1, <3>1, <4>1 DEF AgeGatePasses
    <3>2. CASE handler.at # "rewrite"
      BY <1>1, <3>2 DEF AgeGatePasses
    <3> QED
      BY <3>1, <3>2
  <2>3. GuardedWereCreated' /\ DeletesWereAsked'
    BY <1>0, <2>1, <2>2 DEF GuardedWereCreated, DeletesWereAsked
  <2>4. MoveIsSafe' /\ CreatedStaysGuarded' /\ OneGuardEach'
    BY <1>0, <2>1, <2>2 DEF MoveIsSafe, CreatedStaysGuarded, OneGuardEach
  <2> QED
    BY <1>0, <2>1, <2>3, <2>4 DEF GuardCore
<1>2. ASSUME Restart PROVE GuardCore'
  <2>1. /\ UNCHANGED <<docs, msgs, guards, created, deleted>>
        /\ api'.at = "idle" /\ handler'.at = "idle"
        /\ torn' = IF handler.at = "remove" THEN torn \cup {handler.old.of} ELSE torn
    BY <1>2 DEF Restart, Idle
  <2>2. GuardedWereCreated' /\ DeletesWereAsked'
    BY <1>0, <2>1 DEF GuardedWereCreated, DeletesWereAsked
  <2>3. MoveIsSafe' /\ CreatedStaysGuarded' /\ OneGuardEach'
    BY <1>0, <2>1 DEF MoveIsSafe, CreatedStaysGuarded, OneGuardEach
  <2> QED
    BY <1>0, <2>1, <2>2, <2>3 DEF GuardCore
<1>3. ASSUME RemoveOldElements PROVE GuardCore'
  <2>1. GuardedWereCreated' /\ DeletesWereAsked'
    BY <1>0, <1>3 DEF RemoveOldElements, GuardedWereCreated, DeletesWereAsked
  <2> QED
    BY <1>0, <1>3, <2>1, GuardsUntouched DEF RemoveOldElements, GuardCore
<1> QED
  BY <1>1, <1>2, <1>3

(* Messages without metadata move nothing.                                 *)
LEMMA MovesNothing ==
    /\ \A i \in Ids : DeploymentMessage(i) \in MovingMessage /\ DeleteMessage(i) \in MovingMessage
    /\ \A S \in SUBSET Ids : KnownMessage(S) \in MovingMessage
<1>1. /\ \A i \in Ids : DeploymentMessage(i).type # "metadata" /\ DeleteMessage(i).type # "metadata"
      /\ \A S \in SUBSET Ids : KnownMessage(S).type # "metadata"
  BY DEF DeploymentMessage, DeleteMessage, KnownMessage
<1> QED
  BY <1>1, ReportedTypes DEF MovingMessage

(* The reports of a connecting client move nothing.                        *)
LEMMA ReportsMoveNothing ==
    ASSUME NEW S \in SUBSET Ids, IsFiniteSet(S), NEW s \in Reports(S)
    PROVE  s \in Seq(MovingMessage)
<1>1. Cardinality(S) \in Nat
  BY FS_CardinalityType
<1>2. s \in [1..Cardinality(S) -> {DeploymentMessage(i) : i \in S}]
  BY DEF Reports
<1>3. {DeploymentMessage(i) : i \in S} \subseteq MovingMessage
  BY MovesNothing
<1>4. s \in [1..Cardinality(S) -> MovingMessage]
  BY <1>2, <1>3
<1> QED
  BY <1>1, <1>4

(* The metadata of a deployment move it to an id nobody has used.          *)
LEMMA NextIdMoves ==
    ASSUME cmds # <<>>, cmds \in Seq(Command), NEW i \in Ids, IsNext(i, Head(cmds).id.of)
    PROVE  /\ Moves(Head(cmds).id, i)
           /\ MetadataMessage(i, Head(cmds).id) \in MovingMessage
<1>1. Head(cmds).id \in UsedIds
  <2>1. 1 \in DOMAIN cmds /\ Head(cmds) = cmds[1]
    OBVIOUS
  <2> QED
    BY <2>1 DEF UsedIds
<1>2. Moves(Head(cmds).id, i)
  BY <1>1 DEF IsNext, Moves
<1>3. Head(cmds).id \in Ids
  BY ObeyType
<1>4. MetadataMessage(i, Head(cmds).id) \in Message
  BY <1>3, ReportedTypes
<1> QED
  BY <1>2, <1>4 DEF MovingMessage, MetadataMessage

(* Reporting appends messages that move guards.                            *)
LEMMA ReportMoves ==
    ASSUME msgs \in Seq(MovingMessage), NEW s \in Seq(MovingMessage), Report(s)
    PROVE  msgs' \in Seq(MovingMessage)
BY DEF Report

(* The steps of the client and losses keep the invariant.                  *)
LEMMA ClientGuardCore ==
    ASSUME GuardInv, ClientObeys \/ ClientReconnects \/ ClientReset \/ Losses
    PROVE  GuardCore'
<1> USE DEF loopVars, ghostVars
<1>0. /\ TypeOK /\ GuardCore /\ GuardedWereCreated /\ DeletesWereAsked
      /\ msgs \in Seq(MovingMessage) /\ cmds \in Seq(Command)
      /\ engine \subseteq Ids /\ IsFiniteSet(engine)
  BY DEF GuardInv, GuardCore, TypeOK
<1>1. UNCHANGED <<docs, guards, api, handler, created, deleted, torn>>
  BY DEF ClientObeys, Losses, ClientDeploys, ClientDeletes, ClientReconnects, ClientReset,
         LoseCommands, LoseMessages
<1>2. msgs' \in Seq(MovingMessage)
  <2>1. CASE ClientDeploys
    <3>1. PICK i \in Ids, order \in ReportOrders :
            /\ IsNext(i, Head(cmds).id.of)
            /\ Report(IF order = "deployment first"
                      THEN <<DeploymentMessage(i), MetadataMessage(i, Head(cmds).id)>>
                      ELSE <<MetadataMessage(i, Head(cmds).id), DeploymentMessage(i)>>)
      BY <2>1 DEF ClientDeploys
    <3>2. DeploymentMessage(i) \in MovingMessage
      BY MovesNothing
    <3>3. MetadataMessage(i, Head(cmds).id) \in MovingMessage
      BY <1>0, <2>1, <3>1, NextIdMoves DEF ClientDeploys
    <3>4. /\ <<DeploymentMessage(i), MetadataMessage(i, Head(cmds).id)>> \in Seq(MovingMessage)
          /\ <<MetadataMessage(i, Head(cmds).id), DeploymentMessage(i)>> \in Seq(MovingMessage)
      BY <3>2, <3>3
    <3> QED
      BY <1>0, <3>1, <3>4, ReportMoves
  <2>2. CASE ClientDeletes
    <3>1. <<DeleteMessage(Head(cmds).id)>> \in Seq(MovingMessage)
      BY <1>0, <2>2, ObeyType, MovesNothing DEF ClientDeletes
    <3> QED
      BY <1>0, <2>2, <3>1, ReportMoves DEF ClientDeletes
  <2>3. CASE ClientReconnects
    <3>1. PICK s \in Reports(engine) : Report(<<KnownMessage(engine)>> \o s)
      BY <2>3 DEF ClientReconnects
    <3>2. s \in Seq(MovingMessage)
      BY <1>0, ReportsMoveNothing
    <3>3. <<KnownMessage(engine)>> \in Seq(MovingMessage)
      BY <1>0, MovesNothing
    <3>4. <<KnownMessage(engine)>> \o s \in Seq(MovingMessage)
      BY <3>2, <3>3
    <3> QED
      BY <1>0, <3>1, <3>4, ReportMoves
  <2>4. CASE ClientReset
    <3>1. <<KnownMessage({})>> \in Seq(MovingMessage)
      BY MovesNothing
    <3> QED
      BY <1>0, <2>4, <3>1, ReportMoves DEF ClientReset
  <2>5. CASE LoseCommands
    BY <1>0, <2>5 DEF LoseCommands
  <2>6. CASE LoseMessages
    BY <2>6 DEF LoseMessages
  <2> QED
    BY <2>1, <2>2, <2>3, <2>4, <2>5, <2>6 DEF ClientObeys, Losses
<1>3. GuardedWereCreated' /\ DeletesWereAsked'
  BY <1>0, <1>1 DEF GuardedWereCreated, DeletesWereAsked
<1> QED
  BY <1>0, <1>1, <1>2, <1>3, GuardsUntouched DEF GuardCore

(* Every step keeps the invariant.                                         *)
LEMMA NextGuardInv == GuardInv /\ [Next]_vars => GuardInv'
<1> SUFFICES ASSUME GuardInv, [Next]_vars PROVE GuardInv'
  OBVIOUS
<1>1. TypeOK'
  BY NextTypeOK DEF GuardInv
<1>2. CASE Requests \/ ApiSteps
  BY <1>1, <1>2, ApiGuardCore DEF GuardInv
<1>3. CASE Handlers
  BY <1>1, <1>3, HandlersGuardCore DEF GuardInv
<1>4. CASE BeginDeploymentLoop \/ LoopSteps
  BY <1>1, <1>4, LoopGuardCore DEF GuardInv
<1>5. CASE AgeGatePasses \/ Restart \/ RemoveOldElements
  BY <1>1, <1>5, TimeGuardCore DEF GuardInv
<1>6. CASE ClientObeys \/ ClientReconnects \/ ClientReset \/ Losses
  BY <1>1, <1>6, ClientGuardCore DEF GuardInv
<1>7. CASE UNCHANGED vars
  <2>1. UNCHANGED <<docs, guards, msgs, api, handler, created, deleted, torn>>
    BY <1>7 DEF vars, clientVars, ghostVars
  <2>2. GuardCore'
    BY <2>1 DEF GuardInv, GuardCore, GuardedWereCreated, DeletesWereAsked, MoveIsSafe,
                CreatedStaysGuarded, OneGuardEach
  <2> QED
    BY <1>1, <2>2 DEF GuardInv
<1> QED
  BY <1>2, <1>3, <1>4, <1>5, <1>6, <1>7 DEF Next

(* The invariant holds in every reachable state.                           *)
LEMMA GuardInvariant == Spec => []GuardInv
<1>1. Init => GuardInv
  BY InitTypeOK, InitGuardCore DEF GuardInv
<1> QED
  BY <1>1, NextGuardInv, PTL DEF Spec

(* A created deployment that no user asked to delete always has a guard:   *)
(* neither the move of its guard to the client's id, nor the loop, nor a   *)
(* restart between any two of their database commands loses it.            *)
THEOREM CreatedGuarded == Spec => []CreatedStaysGuarded
<1>1. GuardInv => CreatedStaysGuarded
  BY DEF GuardInv, GuardCore
<1> QED
  BY <1>1, GuardInvariant, PTL

(* A deployment has two guards only while one of them moves, or after a    *)
(* restart interrupted a move.                                             *)
THEOREM OneGuard == Spec => []OneGuardEach
<1>1. GuardInv => OneGuardEach
  BY DEF GuardInv, GuardCore
<1> QED
  BY <1>1, GuardInvariant, PTL

-----------------------------------------------------------------------------
(* The refinement of GuardedDeployments                                    *)

Guarded(S) == {i.of : i \in S}

(* A step of GuardedDeployments or a stutter, under the mapping.           *)
PromiseStep == [Promise!Next]_Promise!vars

LEMMA Stutters ==
    ASSUME Guarded(guards') = Guarded(guards), UNCHANGED <<created, deleted>>
    PROVE  PromiseStep
BY DEF PromiseStep, Promise!vars, Guarded

(* The guard of a deployment that was asked to be deleted goes.            *)
LEMMA ForgetsDeleted ==
    ASSUME guards \subseteq Ids, NEW i \in Ids, i.of \in deleted, guards' = guards \ {i},
           UNCHANGED <<created, deleted>>
    PROVE  PromiseStep
<1>1. i.of \in Deployments
  BY DEF Ids
<1>2. CASE \E j \in guards' : j.of = i.of
  <2>1. Guarded(guards') = Guarded(guards)
    BY <1>2 DEF Guarded
  <2> QED
    BY <2>1, Stutters
<1>3. CASE \A j \in guards' : j.of # i.of
  <2>1. Guarded(guards') = Guarded(guards) \ {i.of}
    BY <1>3 DEF Guarded
  <2>2. Promise!Forget(i.of)
    BY <2>1 DEF Promise!Forget, Guarded
  <2> QED
    BY <1>1, <2>2 DEF PromiseStep, Promise!Next
<1> QED
  BY <1>2, <1>3

LEMMA RequestsKeepPromise ==
    ASSUME GuardInv, Requests \/ ApiSteps
    PROVE  PromiseStep
<1> USE DEF clientVars, loopVars, ghostVars
<1>1. TypeOK /\ GuardedWereCreated /\ DeletesWereAsked /\ guards \subseteq Ids
  BY DEF GuardInv, GuardCore, TypeOK
<1>2. ASSUME CreateGuards PROVE PromiseStep
  <2>1. api.id \in Ids /\ api.id.of \in Deployments /\ api.id.of \notin created
    BY <1>1, <1>2, ApiFields DEF CreateGuards, TypeOK, GuardedWereCreated, Ids
  <2>2. Guarded(guards') = Guarded(guards) \cup {api.id.of}
    BY <1>2 DEF CreateGuards, Guarded
  <2>3. PICK c \in Deployments : c = api.id.of
    BY <2>1
  <2>4. Promise!Create(c)
    BY <1>2, <2>1, <2>2, <2>3 DEF CreateGuards, Promise!Create, Guarded
  <2> QED
    BY <2>4 DEF PromiseStep, Promise!Next
<1>3. ASSUME NEW d \in docs, DeleteRemovesInfos(d) PROVE PromiseStep
  <2>1. d.id.of \in Deployments
    BY <1>1 DEF TypeOK, Doc, Ids
  <2>2. Promise!AskToDelete(d.id.of)
    BY <1>3 DEF DeleteRemovesInfos, Promise!AskToDelete
  <2> QED
    BY <2>1, <2>2 DEF PromiseStep, Promise!Next
<1>4. ASSUME DeleteRemovesGuard PROVE PromiseStep
  <2>1. api.id \in Ids /\ api.id.of \in deleted
    BY <1>1, <1>4, ApiFields DEF DeleteRemovesGuard, TypeOK, DeletesWereAsked
  <2> QED
    BY <1>1, <1>4, <2>1, ForgetsDeleted DEF DeleteRemovesGuard
<1>5. ASSUME UNCHANGED <<guards, created, deleted>> PROVE PromiseStep
  BY <1>5, Stutters
<1>6. CASE Requests
  BY <1>3, <1>5, <1>6 DEF Requests, CreateSends, StartGuards, SyncLists
<1>7. CASE ApiSteps
  BY <1>2, <1>4, <1>5, <1>7
  DEF ApiSteps, CreateSaves, DeleteReads, DeleteWrites, StartReads, SyncDeployment, SyncEnds
<1> QED
  BY <1>6, <1>7

(* A move keeps its deployment guarded, unless a user deletes it meanwhile. *)
LEMMA HandlersKeepPromise ==
    ASSUME GuardInv, Handlers
    PROVE  PromiseStep
<1> USE DEF clientVars, loopVars, ghostVars
<1>1. TypeOK /\ MoveIsSafe /\ CreatedStaysGuarded /\ guards \subseteq Ids
  BY DEF GuardInv, GuardCore, TypeOK
<1>2. ASSUME SetNewGuard PROVE PromiseStep
  <2>0. handler.new \in Ids /\ handler.new.of \in Deployments /\ handler.new.of \in created
    BY <1>1, <1>2, HandlerFields DEF SetNewGuard, TypeOK, MoveIsSafe, Moves, Ids
  <2>1. PICK c \in Deployments : c = handler.new.of /\ c \in created
    BY <2>0
  <2>2. Guarded(guards') = Guarded(guards) \cup {c}
    BY <1>2, <2>1 DEF SetNewGuard, Guarded
  <2>3. UNCHANGED <<created, deleted>>
    BY <1>2 DEF SetNewGuard
  <2>4. CASE c \in Guarded(guards)
    <3>1. Guarded(guards') = Guarded(guards)
      BY <2>2, <2>4
    <3> QED
      BY <2>3, <3>1, Stutters
  <2>5. CASE c \notin Guarded(guards)
    <3>1. c \in deleted
      BY <1>1, <2>1, <2>5 DEF CreatedStaysGuarded, Guarded
    <3>2. Promise!Return(c)
      BY <2>1, <2>2, <2>3, <3>1 DEF Promise!Return, Guarded
    <3> QED
      BY <2>1, <3>2 DEF PromiseStep, Promise!Next
  <2> QED
    BY <2>4, <2>5
<1>3. ASSUME RemoveOldGuard PROVE PromiseStep
  <2>1. handler.old \in Ids /\ Moves(handler.old, handler.new)
    BY <1>1, <1>3, HandlerFields DEF RemoveOldGuard, TypeOK, MoveIsSafe
  <2>2. handler.new \in guards \/ handler.new.of \in deleted
    BY <1>1, <1>3 DEF RemoveOldGuard, MoveIsSafe
  <2>3. guards' = guards \ {handler.old} /\ UNCHANGED <<created, deleted>>
    BY <1>3 DEF RemoveOldGuard
  <2>4. CASE handler.new \in guards
    <3>1. Guarded(guards') = Guarded(guards)
      BY <2>1, <2>3, <2>4 DEF Guarded, Moves
    <3> QED
      BY <2>3, <3>1, Stutters
  <2>5. CASE handler.new.of \in deleted
    BY <1>1, <2>1, <2>3, <2>5, ForgetsDeleted DEF Moves
  <2> QED
    BY <2>2, <2>4, <2>5
<1>4. ASSUME UNCHANGED <<guards, created, deleted>> PROVE PromiseStep
  BY <1>4, Stutters
<1> QED
  BY <1>2, <1>3, <1>4
  DEF Handlers, UpdateDeployment, DeleteDeployment, SaveMissing, ListUnknownDeployments,
      DeleteUnknownDeployments, UpdateDeploymentMetadata, FindOldInfos, RewriteInfos

(* The loop forgets only what is marked for delete.                        *)
LEMMA LoopKeepsPromise ==
    ASSUME GuardInv, BeginDeploymentLoop \/ LoopSteps
    PROVE  PromiseStep
<1> USE DEF clientVars, loopVars, ghostVars
<1>1. TypeOK /\ DeletesWereAsked /\ guards \subseteq Ids
  BY DEF GuardInv, GuardCore, TypeOK
<1>2. ASSUME NEW i \in Ids, RedeployForgets(i), UNCHANGED <<created, deleted>> PROVE PromiseStep
  <2>1. i.of \in deleted
    BY <1>1, <1>2 DEF RedeployForgets, MarkedForDeleteAt, DeletesWereAsked
  <2> QED
    BY <1>1, <1>2, <2>1, ForgetsDeleted DEF RedeployForgets
<1>3. ASSUME UNCHANGED <<guards, created, deleted>> PROVE PromiseStep
  BY <1>3, Stutters
<1>4. ASSUME NEW i \in guardTodo, CheckDeploymentWardenInfo(i) PROVE PromiseStep
  <2>1. i \in Ids
    BY <1>1 DEF TypeOK
  <2> QED
    BY <1>2, <1>3, <1>4, <2>1 DEF CheckDeploymentWardenInfo, RedeploySends
<1>5. ASSUME NEW x \in infoTodo, CheckWardenInfo(x) PROVE PromiseStep
  <2>1. x.id \in Ids
    BY <1>1 DEF TypeOK, Info
  <2> QED
    BY <1>2, <1>3, <1>5, <2>1 DEF CheckWardenInfo, InfoNeedsNoDeployment, InfoRedeploys, InfoIsFinal
<1>6. CASE BeginDeploymentLoop
  BY <1>3, <1>6 DEF BeginDeploymentLoop
<1>7. CASE LoopSteps
  BY <1>3, <1>4, <1>5, <1>7 DEF LoopSteps, SavePlaceholder, BeginInfoLoop, EndLoop
<1> QED
  BY <1>6, <1>7

LEMMA OthersKeepPromise ==
    ASSUME \/ AgeGatePasses \/ Restart \/ RemoveOldElements \/ ClientObeys \/ ClientReconnects \/ ClientReset
           \/ Losses \/ UNCHANGED vars
    PROVE  PromiseStep
<1>1. UNCHANGED <<guards, created, deleted>>
  BY DEF AgeGatePasses, Restart, RemoveOldElements, ClientObeys, ClientDeploys, ClientDeletes, ClientReconnects,
         ClientReset, Losses, LoseCommands, LoseMessages, vars, ghostVars
<1> QED
  BY <1>1, Stutters

(* Requests, handlers, loop, losses and restarts together implement        *)
(* GuardedDeployments: a deployment becomes guarded with its creation and  *)
(* the guard goes, or returns, only after a user asked to delete it.       *)
THEOREM PromiseKept == Spec => KeepsPromise
<1>1. Init => Promise!Init
  BY DEF Init, Promise!Init
<1>2. GuardInv /\ [Next]_vars => [Promise!Next]_Promise!vars
  <2> SUFFICES ASSUME GuardInv, [Next]_vars PROVE PromiseStep
    BY DEF PromiseStep
  <2> QED
    BY RequestsKeepPromise, HandlersKeepPromise, LoopKeepsPromise, OthersKeepPromise DEF Next
<1> QED
  BY <1>1, <1>2, GuardInvariant, PTL DEF Spec, KeepsPromise, Promise!Spec

-----------------------------------------------------------------------------
(* What becomes of the guards of processes                                 *)

(* The check of one process drops its guard, and no other.                 *)
LEMMA OnlyItsCheckDrops ==
    ASSUME TypeOK, [Next]_vars, NEW x \in infoTodo, Drops(x)
    PROVE  InfoIsFinal(x)
<1>1. CASE \E y \in infoTodo : CheckWardenInfo(y)
  <2>1. PICK y \in infoTodo : CheckWardenInfo(y)
    BY <1>1
  <2>2. y = x
    BY <2>1 DEF CheckWardenInfo, Drops
  <2>3. infos' # infos
    BY DEF Drops
  <2> QED
    BY <2>1, <2>2, <2>3 DEF CheckWardenInfo, InfoNeedsNoDeployment, InfoRedeploys
<1>2. CASE AgeGatePasses
  <2>1. \A y \in infos : [y EXCEPT !.young = FALSE] \in infos' /\ [y EXCEPT !.young = FALSE].key = y.key
    BY <1>2 DEF AgeGatePasses, Older, TypeOK, Info
  <2> QED
    BY <2>1 DEF Drops
<1>3. CASE UNCHANGED infos \/ UNCHANGED infoTodo
  BY <1>3 DEF Drops
<1>4. CASE Requests \/ ApiSteps \/ Handlers
  <2>1. UNCHANGED infoTodo
    BY <1>4 DEF Requests, CreateSends, DeleteRemovesInfos, StartGuards, SyncLists,
                ApiSteps, CreateSaves, CreateGuards, DeleteRemovesGuard, DeleteReads, DeleteWrites,
                StartReads, SyncDeployment, SyncEnds,
                Handlers, UpdateDeployment, DeleteDeployment, SaveMissing, ListUnknownDeployments,
                DeleteUnknownDeployments, UpdateDeploymentMetadata, SetNewGuard, RemoveOldGuard,
                FindOldInfos, RewriteInfos, loopVars
  <2> QED
    BY <1>3, <2>1
<1>5. CASE BeginDeploymentLoop \/ BeginInfoLoop \/ EndLoop
           \/ (\E i \in guardTodo : CheckDeploymentWardenInfo(i)) \/ (\E i \in saving : SavePlaceholder(i))
  <2>1. UNCHANGED infos
    BY <1>5 DEF BeginDeploymentLoop, BeginInfoLoop, EndLoop, CheckDeploymentWardenInfo, SavePlaceholder
  <2> QED
    BY <1>3, <2>1
<1>6. CASE ClientObeys \/ ClientReconnects \/ ClientReset \/ Losses \/ Restart \/ RemoveOldElements \/ UNCHANGED vars
  <2>1. UNCHANGED infos
    BY <1>6 DEF ClientObeys, ClientDeploys, ClientDeletes, ClientReconnects, ClientReset, Losses,
                LoseCommands, LoseMessages, Restart, RemoveOldElements, vars
  <2> QED
    BY <1>3, <2>1
<1> QED
  BY <1>1, <1>2, <1>4, <1>5, <1>6 DEF Next, LoopSteps

(* LoopWardenDb takes a process for one without deployment only if a user  *)
(* deleted it or its guard is under another id (DroppedOnlyAfterDelete):   *)
(* as the guards of deployments are there (CreatedStaysGuarded), whatever  *)
(* else moves or removes them between the two loops.                       *)
THEOREM DropsAfterDelete == Spec => DroppedOnlyAfterDelete
<1>1. ASSUME GuardInv, [Next]_vars, NEW x \in infoTodo, Drops(x)
      PROVE  \/ x.id.of \notin created \ deleted
             \/ \E i \in guards : i.of = x.id.of /\ i # x.id
  <2>1. InfoIsFinal(x)
    BY <1>1, OnlyItsCheckDrops DEF GuardInv
  <2>2. CASE x.id \in guards
    <3>1. PICK d \in docs : d.id = x.id /\ d.deleting
      BY <2>1, <2>2 DEF InfoIsFinal, RedeployForgets, MarkedForDeleteAt
    <3> QED
      BY <1>1, <3>1 DEF GuardInv, GuardCore, DeletesWereAsked
  <2>3. CASE x.id \notin guards
    BY <1>1, <2>3 DEF GuardInv, GuardCore, CreatedStaysGuarded
  <2> QED
    BY <2>2, <2>3
<1>2. GuardInv /\ [Next]_vars => \A x \in infoTodo :
          Drops(x) => \/ x.id.of \notin created \ deleted
                      \/ \E i \in guards : i.of = x.id.of /\ i # x.id
  BY <1>1
<1> QED
  BY <1>2, GuardInvariant, PTL DEF Spec, DroppedOnlyAfterDelete

-----------------------------------------------------------------------------
(* What is synchronised exists at the client                               *)

(* A document that the platform takes for a deployment of the client.      *)
Synced(d) == ~d.placeholder /\ ~d.deleting /\ ~d.missing

(* What tells the platform that the client has no deployment i: its        *)
(* removal, or a list of the client's deployments that leaves it out.      *)
Removes(m, i) ==
    \/ m.type = "delete" /\ m.id = i
    \/ m.type = "known" /\ i \notin m.ids

(* The handler is about to mark or remove what it has of i.                *)
HandlerRemoves(i) ==
    \/ handler.at = "mark" /\ handler.doc.id = i
    \/ handler.at = "unknown" /\ i \notin handler.known

(* A synchronised deployment that the client does not have is on its way   *)
(* out: in the handler at work or by a message it has yet to receive.      *)
AbsentIsLeaving ==
    \A d \in docs : Synced(d) /\ d.id \notin engine =>
        HandlerRemoves(d.id) \/ \E n \in DOMAIN msgs : Removes(msgs[n], d.id)

(* A report of what the client no longer has is taken back behind it.      *)
StaleReportsRetracted ==
    \A n \in DOMAIN msgs :
        msgs[n].type = "deployment" /\ msgs[n].id \notin engine =>
            \E m \in DOMAIN msgs : n < m /\ Removes(msgs[m], msgs[n].id)

(* DeleteUnknownDeployments works on the list it read: no deployment that  *)
(* is not known became synchronised since.                                 *)
UnknownAreListed ==
    handler.at = "unknown" =>
        \A d \in docs : Synced(d) /\ d.id \notin handler.known => d \in handler.docs

SyncedCore ==
    /\ ~gap => AbsentIsLeaving /\ StaleReportsRetracted
    /\ UnknownAreListed

SyncedInv == TypeOK /\ SyncedCore

LEMMA InitSyncedCore == Init => SyncedCore
BY DEF Init, SyncedCore, AbsentIsLeaving, StaleReportsRetracted, UnknownAreListed, Idle

(* What the code writes over a document, but for the report of the client, *)
(* is no synchronised deployment.                                          *)
LEMMA SyncedMarks ==
    /\ \A i \in Ids : ~Synced(PlaceholderDoc(i))
    /\ \A d \in Doc : ~Synced(MarkedAsMissing(d)) /\ ~Synced(MarkedForDelete(d))
    /\ \A d \in Doc : MarkedAsMissing(d).id = d.id
BY DEF Synced, Doc, PlaceholderDoc, MarkedAsMissing, MarkedForDelete

(* Nothing but the report of a deployment makes it a synchronised one.     *)
NothingNewSynced == \A d \in docs' : Synced(d) => d \in docs

(* A step that synchronises nothing and leaves the client, its messages    *)
(* and what the handler is about to remove alone keeps the invariant.      *)
LEMMA SyncedUntouched ==
    ASSUME SyncedCore, NothingNewSynced, UNCHANGED clientVars,
           \/ UNCHANGED handler
           \/ handler.at \notin {"mark", "unknown"} /\ handler'.at \notin {"mark", "unknown"}
    PROVE  SyncedCore'
<1>1. AbsentIsLeaving => AbsentIsLeaving'
  BY DEF NothingNewSynced, AbsentIsLeaving, HandlerRemoves, clientVars
<1>2. StaleReportsRetracted => StaleReportsRetracted'
  BY DEF StaleReportsRetracted, clientVars
<1>3. UnknownAreListed => UnknownAreListed'
  BY DEF NothingNewSynced, UnknownAreListed
<1> QED
  BY <1>1, <1>2, <1>3 DEF SyncedCore, clientVars

(* Requests synchronise nothing: what they save is a placeholder or marked *)
(* for delete.                                                             *)
LEMMA ApiSyncedCore ==
    ASSUME SyncedInv, Requests \/ ApiSteps
    PROVE  SyncedCore'
<1>1. UNCHANGED clientVars /\ UNCHANGED handler
  BY DEF Requests, ApiSteps, CreateSends, DeleteRemovesInfos, StartGuards, SyncLists, CreateSaves, CreateGuards,
         DeleteRemovesGuard, DeleteReads, DeleteWrites, StartReads, SyncDeployment, SyncEnds
<1>2. NothingNewSynced
  <2>1. CASE CreateSaves
    BY <2>1, ApiFields, SyncedMarks DEF CreateSaves, Save, NothingNewSynced, SyncedInv, TypeOK
  <2>2. CASE DeleteReads
    BY <2>2 DEF DeleteReads, deleteDeployment, Without, NothingNewSynced
  <2>3. CASE DeleteWrites
    BY <2>3, ApiFields, SyncedMarks DEF DeleteWrites, Save, NothingNewSynced, SyncedInv, TypeOK
  <2>4. CASE SyncLists
    BY <2>4 DEF SyncLists, RemovePlaceholderDeployments, NothingNewSynced
  <2>5. ASSUME api.at = "sync", NEW d \in api.docs, SyncDeployment(d) PROVE NothingNewSynced
    <3>1. d.id \in Ids
      BY <2>5, ApiFields, DocTypes DEF SyncedInv, TypeOK
    <3>2. docs' = docs \/ docs' = Save(docs, PlaceholderDoc(d.id))
      BY <2>5 DEF SyncDeployment
    <3> QED
      BY <3>1, <3>2, SyncedMarks DEF Save, NothingNewSynced
  <2>6. ASSUME UNCHANGED docs PROVE NothingNewSynced
    BY <2>6 DEF NothingNewSynced
  <2> QED
    BY <2>1, <2>2, <2>3, <2>4, <2>5, <2>6
    DEF Requests, ApiSteps, CreateSends, DeleteRemovesInfos, StartGuards, CreateGuards, DeleteRemovesGuard,
        StartReads, SyncEnds
<1> QED
  BY <1>1, <1>2, SyncedUntouched DEF SyncedInv

(* The loop saves placeholders.                                            *)
LEMMA LoopSyncedCore ==
    ASSUME SyncedInv, BeginDeploymentLoop \/ LoopSteps \/ AgeGatePasses
    PROVE  SyncedCore'
<1>1. UNCHANGED clientVars
  BY DEF BeginDeploymentLoop, LoopSteps, CheckDeploymentWardenInfo, SavePlaceholder, BeginInfoLoop,
         CheckWardenInfo, EndLoop, AgeGatePasses
<1>2. \/ UNCHANGED handler
      \/ handler.at \notin {"mark", "unknown"} /\ handler'.at \notin {"mark", "unknown"}
  <2>1. CASE AgeGatePasses /\ handler.at = "rewrite"
    <3>1. handler = [at |-> "rewrite", new |-> handler.new, infos |-> handler.infos]
      BY <2>1, HandlerFields DEF SyncedInv, TypeOK
    <3>2. handler'.at = "rewrite"
      BY <2>1, <3>1 DEF AgeGatePasses
    <3> QED
      BY <2>1, <3>2
  <2> QED
    BY <2>1 DEF BeginDeploymentLoop, LoopSteps, CheckDeploymentWardenInfo, SavePlaceholder, BeginInfoLoop,
                CheckWardenInfo, EndLoop, AgeGatePasses
<1>3. NothingNewSynced
  <2>1. ASSUME NEW i \in saving, SavePlaceholder(i) PROVE NothingNewSynced
    BY <2>1, SyncedMarks DEF SavePlaceholder, Save, NothingNewSynced, SyncedInv, TypeOK
  <2>2. ASSUME UNCHANGED docs PROVE NothingNewSynced
    BY <2>2 DEF NothingNewSynced
  <2> QED
    BY <2>1, <2>2 DEF BeginDeploymentLoop, LoopSteps, CheckDeploymentWardenInfo, BeginInfoLoop,
                      CheckWardenInfo, EndLoop, AgeGatePasses
<1> QED
  BY <1>1, <1>2, <1>3, SyncedUntouched DEF SyncedInv

(* What is in the queue before and after the first message is taken.       *)
LEMMA ReceivedQueue ==
    ASSUME msgs \in Seq(Message), NEW type, Receive(type)
    PROVE  /\ 1 \in DOMAIN msgs /\ Head(msgs) = msgs[1] /\ msgs[1].type = type
           /\ DOMAIN msgs \subseteq Nat /\ DOMAIN msgs' \subseteq Nat
           /\ \A n \in DOMAIN msgs : n # 1 => n - 1 \in DOMAIN msgs' /\ msgs'[n - 1] = msgs[n]
           /\ \A n \in DOMAIN msgs' : n + 1 \in DOMAIN msgs /\ msgs'[n] = msgs[n + 1]
BY DEF Receive

(* A removal that is not the message taken stays in the queue.             *)
LEMMA RemovalsStay ==
    ASSUME msgs \in Seq(Message), NEW type, Receive(type), NEW i,
           ~Removes(Head(msgs), i),
           \E n \in DOMAIN msgs : Removes(msgs[n], i)
    PROVE  \E n \in DOMAIN msgs' : Removes(msgs'[n], i)
<1>1. PICK n \in DOMAIN msgs : Removes(msgs[n], i)
  OBVIOUS
<1>2. n # 1
  BY <1>1, ReceivedQueue
<1> QED
  BY <1>1, <1>2, ReceivedQueue

(* Reports that wait behind the message taken keep what takes them back.   *)
LEMMA RetractionsStay ==
    ASSUME msgs \in Seq(Message), NEW type, Receive(type), UNCHANGED engine, StaleReportsRetracted
    PROVE  StaleReportsRetracted'
<1> SUFFICES ASSUME NEW n \in DOMAIN msgs', msgs'[n].type = "deployment", msgs'[n].id \notin engine'
             PROVE  \E m \in DOMAIN msgs' : n < m /\ Removes(msgs'[m], msgs'[n].id)
  BY DEF StaleReportsRetracted
<1>1. n \in Nat /\ n + 1 \in DOMAIN msgs /\ msgs'[n] = msgs[n + 1]
  BY ReceivedQueue
<1>2. PICK m \in DOMAIN msgs : n + 1 < m /\ Removes(msgs[m], msgs[n + 1].id)
  BY <1>1 DEF StaleReportsRetracted
<1>3. m \in Nat /\ m # 1 /\ m - 1 \in DOMAIN msgs' /\ msgs'[m - 1] = msgs[m] /\ n < m - 1
  BY <1>1, <1>2, ReceivedQueue
<1> QED
  BY <1>1, <1>2, <1>3

(* The steps of the handlers keep the invariant.                           *)
LEMMA HandlersSyncedCore ==
    ASSUME SyncedInv, Handlers
    PROVE  SyncedCore'
<1> USE DEF clientVars
<1>0. TypeOK /\ msgs \in Seq(Message) /\ UnknownAreListed /\ (~gap => AbsentIsLeaving /\ StaleReportsRetracted)
  BY DEF SyncedInv, SyncedCore, TypeOK
<1>1. ASSUME UpdateDeployment PROVE SyncedCore'
  <2>1. /\ Receive("deployment") /\ handler = Idle /\ UNCHANGED <<engine, gap, handler>>
        /\ Head(msgs).id \in Ids /\ Head(msgs).type = "deployment"
    BY <1>0, <1>1, ReceiveType, MessageFields DEF UpdateDeployment, Receive
  <2>2. UnknownAreListed'
    BY <2>1 DEF UnknownAreListed, Idle
  <2>3. ~gap => StaleReportsRetracted'
    BY <1>0, <2>1, RetractionsStay
  <2>4. ASSUME ~gap, NEW d \in docs', Synced(d), d.id \notin engine
        PROVE  \E n \in DOMAIN msgs' : Removes(msgs'[n], d.id)
    <3>1. d \in docs \/ d.id = Head(msgs).id
      BY <1>1, <2>1, DocMarks DEF UpdateDeployment, Save, RemovePlaceholderDeployments
    <3>2. \E n \in DOMAIN msgs : Removes(msgs[n], d.id)
      <4>1. CASE d \in docs
        BY <1>0, <2>1, <2>4, <4>1 DEF AbsentIsLeaving, HandlerRemoves, Idle
      <4>2. CASE d.id = Head(msgs).id
        BY <1>0, <2>1, <2>4, <4>2, ReceivedQueue DEF StaleReportsRetracted
      <4> QED
        BY <3>1, <4>1, <4>2
    <3>3. ~Removes(Head(msgs), d.id)
      BY <2>1 DEF Removes
    <3> QED
      BY <1>0, <2>1, <3>2, <3>3, RemovalsStay
  <2> QED
    BY <2>1, <2>2, <2>3, <2>4 DEF SyncedCore, AbsentIsLeaving
<1>2. ASSUME DeleteDeployment PROVE SyncedCore'
  <2>1. /\ Receive("delete") /\ handler = Idle /\ UNCHANGED <<engine, gap>>
        /\ Head(msgs).type = "delete"
    BY <1>0, <1>2, ReceiveType DEF DeleteDeployment, Receive
  <2>2. \/ UNCHANGED handler /\ docs' = Without(docs, {Head(msgs).id})
        \/ /\ UNCHANGED docs
           /\ \E d \in docs : d.id = Head(msgs).id /\ handler' = [at |-> "mark", doc |-> d]
    BY <1>2 DEF DeleteDeployment, deleteDeployment
  <2>3. UnknownAreListed'
    BY <2>1, <2>2 DEF UnknownAreListed, Idle
  <2>4. ~gap => StaleReportsRetracted'
    BY <1>0, <2>1, RetractionsStay
  <2>5. ASSUME ~gap, NEW d \in docs', Synced(d), d.id \notin engine
        PROVE  HandlerRemoves(d.id)' \/ \E n \in DOMAIN msgs' : Removes(msgs'[n], d.id)
    <3>1. d \in docs
      BY <2>2 DEF Without
    <3>2. \E n \in DOMAIN msgs : Removes(msgs[n], d.id)
      BY <1>0, <2>1, <2>5, <3>1 DEF AbsentIsLeaving, HandlerRemoves, Idle
    <3>3. CASE d.id = Head(msgs).id
      BY <2>2, <3>3 DEF HandlerRemoves, Without
    <3>4. CASE d.id # Head(msgs).id
      <4>1. ~Removes(Head(msgs), d.id)
        BY <2>1, <3>4 DEF Removes
      <4> QED
        BY <1>0, <2>1, <3>2, <4>1, RemovalsStay
    <3> QED
      BY <3>3, <3>4
  <2> QED
    BY <2>1, <2>3, <2>4, <2>5 DEF SyncedCore, AbsentIsLeaving
<1>3. ASSUME SaveMissing PROVE SyncedCore'
  <2>1. /\ handler.at = "mark" /\ handler.doc \in Doc /\ handler' = Idle /\ UNCHANGED <<engine, gap, msgs>>
        /\ docs' = Save(docs, MarkedAsMissing(handler.doc))
    BY <1>0, <1>3, HandlerFields DEF SaveMissing, TypeOK
  <2>2. \A d \in docs' : Synced(d) => d \in docs /\ d.id # handler.doc.id
    BY <2>1, SyncedMarks DEF Save
  <2>3. UnknownAreListed' /\ (~gap => StaleReportsRetracted')
    BY <1>0, <2>1 DEF UnknownAreListed, Idle, StaleReportsRetracted
  <2>4. ~gap => AbsentIsLeaving'
    BY <1>0, <2>1, <2>2 DEF AbsentIsLeaving, HandlerRemoves
  <2> QED
    BY <2>1, <2>3, <2>4 DEF SyncedCore
<1>4. ASSUME ListUnknownDeployments PROVE SyncedCore'
  <2>1. /\ Receive("known") /\ handler = Idle /\ UNCHANGED <<docs, engine, gap>>
        /\ Head(msgs).type = "known"
        /\ handler' = [at |-> "unknown", known |-> Head(msgs).ids, docs |-> Without(docs, Head(msgs).ids)]
    BY <1>0, <1>4, ReceiveType DEF ListUnknownDeployments, Receive
  <2>2. UnknownAreListed'
    BY <2>1 DEF UnknownAreListed, Without
  <2>3. ~gap => StaleReportsRetracted'
    BY <1>0, <2>1, RetractionsStay
  <2>4. ASSUME ~gap, NEW d \in docs, Synced(d), d.id \notin engine
        PROVE  HandlerRemoves(d.id)' \/ \E n \in DOMAIN msgs' : Removes(msgs'[n], d.id)
    <3>1. \E n \in DOMAIN msgs : Removes(msgs[n], d.id)
      BY <1>0, <2>1, <2>4 DEF AbsentIsLeaving, HandlerRemoves, Idle
    <3>2. CASE d.id \notin Head(msgs).ids
      BY <2>1, <3>2 DEF HandlerRemoves
    <3>3. CASE d.id \in Head(msgs).ids
      <4>1. ~Removes(Head(msgs), d.id)
        BY <2>1, <3>3 DEF Removes
      <4> QED
        BY <1>0, <2>1, <3>1, <4>1, RemovalsStay
    <3> QED
      BY <3>2, <3>3
  <2> QED
    BY <2>1, <2>2, <2>3, <2>4 DEF SyncedCore, AbsentIsLeaving
<1>5. ASSUME DeleteUnknownDeployments PROVE SyncedCore'
  <2> DEFINE gone == {d \in handler.docs : d.deleting \/ d.placeholder}
             kept == handler.docs \ gone
             marked == {d \in kept : ~d.missing}
  <2>1. /\ handler.at = "unknown" /\ handler.docs \subseteq Doc /\ handler' = Idle
        /\ UNCHANGED <<engine, gap, msgs>>
        /\ docs' = {x \in docs : \/ x.id \in handler.known
                                 \/ x.id \in IdsOf(kept) \ IdsOf(marked)}
                      \cup {MarkedAsMissing(d) : d \in marked}
    BY <1>0, <1>5, HandlerFields DEF DeleteUnknownDeployments, TypeOK
  <2>2. ASSUME NEW d \in docs', Synced(d) PROVE d \in docs /\ d.id \in handler.known
    <3>1. d \notin {MarkedAsMissing(e) : e \in marked}
      BY <2>1, <2>2, SyncedMarks
    <3>2. d \in docs /\ (d.id \in handler.known \/ d.id \in IdsOf(kept) \ IdsOf(marked))
      BY <2>1, <3>1
    <3>3. CASE d.id \notin handler.known
      <4>1. d \in handler.docs
        BY <1>0, <2>1, <2>2, <3>2, <3>3 DEF UnknownAreListed
      <4>2. d \in marked
        BY <2>2, <4>1 DEF Synced
      <4> QED
        BY <3>2, <3>3, <4>2 DEF IdsOf
    <3> QED
      BY <3>2, <3>3
  <2>3. UnknownAreListed' /\ (~gap => StaleReportsRetracted')
    BY <1>0, <2>1 DEF UnknownAreListed, Idle, StaleReportsRetracted
  <2>4. ~gap => AbsentIsLeaving'
    BY <1>0, <2>1, <2>2 DEF AbsentIsLeaving, HandlerRemoves
  <2> QED
    BY <2>1, <2>3, <2>4 DEF SyncedCore
<1>6. ASSUME UpdateDeploymentMetadata PROVE SyncedCore'
  <2>1. /\ Receive("metadata") /\ handler = Idle /\ UNCHANGED <<docs, engine, gap>>
        /\ Head(msgs).type = "metadata" /\ handler'.at \in {"set", "find"}
    BY <1>0, <1>6, ReceiveType DEF UpdateDeploymentMetadata, Receive
  <2>2. UnknownAreListed'
    BY <2>1 DEF UnknownAreListed
  <2>3. ~gap => StaleReportsRetracted'
    BY <1>0, <2>1, RetractionsStay
  <2>4. ASSUME ~gap, NEW d \in docs, Synced(d), d.id \notin engine
        PROVE  \E n \in DOMAIN msgs' : Removes(msgs'[n], d.id)
    <3>1. \E n \in DOMAIN msgs : Removes(msgs[n], d.id)
      BY <1>0, <2>1, <2>4 DEF AbsentIsLeaving, HandlerRemoves, Idle
    <3>2. ~Removes(Head(msgs), d.id)
      BY <2>1 DEF Removes
    <3> QED
      BY <1>0, <2>1, <3>1, <3>2, RemovalsStay
  <2> QED
    BY <2>1, <2>2, <2>3, <2>4 DEF SyncedCore, AbsentIsLeaving
<1>7. ASSUME SetNewGuard \/ RemoveOldGuard \/ FindOldInfos \/ RewriteInfos PROVE SyncedCore'
  <2>1. handler.at \in {"set", "remove", "find", "rewrite"} /\ UNCHANGED <<docs, engine, msgs, gap>>
    BY <1>7 DEF SetNewGuard, RemoveOldGuard, FindOldInfos, RewriteInfos
  <2>2. handler'.at \notin {"mark", "unknown"}
    BY <1>0, <1>7, HandlerFields DEF SetNewGuard, RemoveOldGuard, FindOldInfos, RewriteInfos, Idle, TypeOK
  <2> QED
    BY <2>1, <2>2, SyncedUntouched DEF SyncedInv, NothingNewSynced
<1> QED
  BY <1>1, <1>2, <1>3, <1>4, <1>5, <1>6, <1>7 DEF Handlers

(* What is in the queue after the client's report.                         *)
LEMMA ReportedQueue ==
    ASSUME msgs \in Seq(Message), NEW s \in Seq(Message), Report(s)
    PROVE  /\ DOMAIN msgs \subseteq Nat /\ DOMAIN s \subseteq Nat
           /\ \A n \in DOMAIN msgs : n \in DOMAIN msgs' /\ msgs'[n] = msgs[n]
           /\ \A k \in DOMAIN s : Len(msgs) + k \in DOMAIN msgs' /\ msgs'[Len(msgs) + k] = s[k]
           /\ \A n \in DOMAIN msgs' : n \in DOMAIN msgs \/ \E k \in DOMAIN s : n = Len(msgs) + k
           /\ \A n \in DOMAIN msgs, k \in DOMAIN s : n < Len(msgs) + k
<1>1. msgs' = msgs \o s /\ DOMAIN msgs = 1..Len(msgs) /\ DOMAIN s = 1..Len(s)
  BY DEF Report
<1>2. Len(msgs) \in Nat /\ Len(s) \in Nat
  OBVIOUS
<1>3. DOMAIN msgs' = 1..(Len(msgs) + Len(s))
  BY <1>1, <1>2
<1>4. \A n \in 1..Len(msgs) : msgs'[n] = msgs[n]
  BY <1>1, <1>2
<1>5. \A k \in 1..Len(s) : msgs'[Len(msgs) + k] = s[k]
  BY <1>1, <1>2
<1>6. \A n \in DOMAIN msgs' : n \in DOMAIN msgs \/ \E k \in DOMAIN s : n = Len(msgs) + k
  <2> SUFFICES ASSUME NEW n \in DOMAIN msgs', n \notin DOMAIN msgs
               PROVE  \E k \in DOMAIN s : n = Len(msgs) + k
    OBVIOUS
  <2>1. n - Len(msgs) \in DOMAIN s /\ n = Len(msgs) + (n - Len(msgs))
    BY <1>1, <1>2, <1>3
  <2> QED
    BY <2>1
<1> QED
  BY <1>1, <1>2, <1>3, <1>4, <1>5, <1>6

(* A report appended by a step in which the client's deployments change:   *)
(* those that the report adds are still there, those that the client       *)
(* dropped are taken back by it.                                           *)
LEMMA ReportKeepsSynced ==
    ASSUME SyncedInv, UNCHANGED <<docs, handler>>, NEW s \in Seq(Message), Report(s),
           \/ ~gap
           \/ \A i \in Ids \ engine' : \E k \in DOMAIN s : Removes(s[k], i),
           \A i \in engine \ engine' : \E k \in DOMAIN s : Removes(s[k], i),
           \A k \in DOMAIN s : s[k].type = "deployment" => s[k].id \in engine'
    PROVE  AbsentIsLeaving' /\ StaleReportsRetracted' /\ UnknownAreListed'
<1>0. /\ msgs \in Seq(Message) /\ docs \subseteq Doc
      /\ UnknownAreListed /\ (~gap => AbsentIsLeaving /\ StaleReportsRetracted)
  BY DEF SyncedInv, SyncedCore, TypeOK
<1>1. ASSUME NEW d \in docs, Synced(d), d.id \notin engine'
      PROVE  HandlerRemoves(d.id) \/ \E n \in DOMAIN msgs' : Removes(msgs'[n], d.id)
  <2>1. d.id \in Ids
    BY <1>0, DocTypes
  <2>2. CASE \E k \in DOMAIN s : Removes(s[k], d.id)
    BY <1>0, <2>2, ReportedQueue
  <2>3. CASE ~gap /\ d.id \notin engine
    BY <1>0, <1>1, <2>3, ReportedQueue DEF AbsentIsLeaving
  <2> QED
    BY <1>1, <2>1, <2>2, <2>3
<1>2. ASSUME NEW n \in DOMAIN msgs', msgs'[n].type = "deployment", msgs'[n].id \notin engine'
      PROVE  \E m \in DOMAIN msgs' : n < m /\ Removes(msgs'[m], msgs'[n].id)
  <2>1. n \in DOMAIN msgs /\ msgs'[n] = msgs[n]
    BY <1>0, <1>2, ReportedQueue
  <2>2. msgs[n].id \in Ids
    <3>1. msgs[n] \in Message
      BY <1>0, <2>1
    <3> QED
      BY <1>2, <2>1, <3>1, MessageFields
  <2>3. CASE \E k \in DOMAIN s : Removes(s[k], msgs[n].id)
    BY <1>0, <2>1, <2>3, ReportedQueue
  <2>4. CASE ~gap /\ msgs[n].id \notin engine
    <3>1. PICK m \in DOMAIN msgs : n < m /\ Removes(msgs[m], msgs[n].id)
      BY <1>0, <1>2, <2>1, <2>4 DEF StaleReportsRetracted
    <3> QED
      BY <1>0, <2>1, <3>1, ReportedQueue
  <2> QED
    BY <1>2, <2>1, <2>2, <2>3, <2>4
<1> QED
  BY <1>0, <1>1, <1>2 DEF AbsentIsLeaving, StaleReportsRetracted, UnknownAreListed, HandlerRemoves

(* The same for a report of one message that takes back what the client    *)
(* dropped.                                                                *)
LEMMA OneReportKeepsSynced ==
    ASSUME SyncedInv, UNCHANGED <<docs, handler>>, NEW m \in Message, Report(<<m>>),
           m.type # "deployment",
           ~gap \/ \A i \in Ids \ engine' : Removes(m, i),
           \A i \in engine \ engine' : Removes(m, i)
    PROVE  AbsentIsLeaving' /\ StaleReportsRetracted' /\ UnknownAreListed'
<1>1. PICK s \in Seq(Message) : s = <<m>>
  <2>1. <<m>> \in Seq(Message)
    OBVIOUS
  <2> QED
    BY <2>1
<1>2. 1 \in DOMAIN s /\ s[1] = m /\ \A k \in DOMAIN s : s[k] = m
  BY <1>1
<1>3. Report(s)
  BY <1>1
<1> QED
  BY <1>2, <1>3, ReportKeepsSynced

(* The steps of the client keep the invariant.                             *)
LEMMA ClientSyncedCore ==
    ASSUME SyncedInv, ClientObeys \/ ClientReset \/ ClientReconnects
    PROVE  SyncedCore'
<1>0. TypeOK /\ cmds \in Seq(Command) /\ msgs \in Seq(Message) /\ engine \subseteq Ids /\ IsFiniteSet(engine)
  BY DEF SyncedInv, TypeOK
<1>1. ASSUME ClientDeploys PROVE SyncedCore'
  <2>1. Head(cmds).id \in Ids /\ UNCHANGED <<docs, handler, gap>>
    BY <1>0, <1>1, ObeyType DEF ClientDeploys
  <2>2. PICK i \in Ids, order \in ReportOrders :
          /\ engine' = engine \cup {i}
          /\ Report(IF order = "deployment first"
                    THEN <<DeploymentMessage(i), MetadataMessage(i, Head(cmds).id)>>
                    ELSE <<MetadataMessage(i, Head(cmds).id), DeploymentMessage(i)>>)
    BY <1>1 DEF ClientDeploys
  <2>3. PICK s \in Seq(Message) :
          /\ Report(s)
          /\ \A k \in DOMAIN s : s[k].type = "deployment" => s[k].id \in engine'
    <3>1. DeploymentMessage(i).id \in engine' /\ MetadataMessage(i, Head(cmds).id).id \in engine'
      BY <2>2 DEF DeploymentMessage, MetadataMessage
    <3>2. ASSUME NEW a \in Message, NEW b \in Message, a.id \in engine', b.id \in engine', Report(<<a, b>>)
          PROVE  \E s \in Seq(Message) :
                    Report(s) /\ \A k \in DOMAIN s : s[k].type = "deployment" => s[k].id \in engine'
      <4>1. <<a, b>> \in Seq(Message) /\ \A k \in DOMAIN <<a, b>> : <<a, b>>[k] \in {a, b}
        OBVIOUS
      <4> QED
        BY <3>2, <4>1
    <3>3. DeploymentMessage(i) \in Message /\ MetadataMessage(i, Head(cmds).id) \in Message
      BY <2>1, ReportedTypes
    <3> QED
      BY <2>2, <3>1, <3>2, <3>3
  <2>4. CASE ~gap
    BY <2>1, <2>2, <2>3, <2>4, ReportKeepsSynced DEF SyncedCore
  <2>5. CASE gap
    BY <2>1, <2>5 DEF SyncedCore, SyncedInv, UnknownAreListed
  <2> QED
    BY <2>4, <2>5
<1>2. ASSUME ClientDeletes PROVE SyncedCore'
  <2>1. Head(cmds).id \in Ids /\ engine' = engine \ {Head(cmds).id} /\ UNCHANGED <<docs, handler, gap>>
    BY <1>0, <1>2, ObeyType DEF ClientDeletes
  <2>2. DeleteMessage(Head(cmds).id) \in Message
    BY <2>1, ReportedTypes
  <2>3. Removes(DeleteMessage(Head(cmds).id), Head(cmds).id) /\ DeleteMessage(Head(cmds).id).type # "deployment"
    BY DEF Removes, DeleteMessage
  <2>4. CASE ~gap /\ Head(cmds).id \in engine
    <3>1. Report(<<DeleteMessage(Head(cmds).id)>>)
      BY <1>2, <2>4 DEF ClientDeletes
    <3> QED
      BY <2>1, <2>2, <2>3, <2>4, <3>1, OneReportKeepsSynced DEF SyncedCore
  <2>5. CASE Head(cmds).id \notin engine
    BY <1>2, <2>1, <2>5, SyncedUntouched DEF ClientDeletes, NothingNewSynced, clientVars, SyncedInv
  <2>6. CASE gap
    BY <2>1, <2>6 DEF SyncedCore, SyncedInv, UnknownAreListed
  <2> QED
    BY <1>0, <2>4, <2>5, <2>6
<1>3. ASSUME ClientReset PROVE SyncedCore'
  <2>1. engine' = {} /\ Report(<<KnownMessage({})>>) /\ UNCHANGED <<docs, handler, gap>>
    BY <1>3 DEF ClientReset
  <2>2. KnownMessage({}) \in Message
    BY ReportedTypes
  <2>3. (\A i \in Ids : Removes(KnownMessage({}), i)) /\ KnownMessage({}).type # "deployment"
    BY DEF Removes, KnownMessage
  <2> QED
    BY <1>0, <2>1, <2>2, <2>3, OneReportKeepsSynced DEF SyncedCore
<1>4. ASSUME ClientReconnects PROVE SyncedCore'
  <2>1. UNCHANGED <<docs, handler, engine>>
    BY <1>4 DEF ClientReconnects
  <2>2. PICK s \in Reports(engine) : Report(<<KnownMessage(engine)>> \o s)
    BY <1>4 DEF ClientReconnects
  <2>3. s \in Seq(Message)
    BY <1>0, ReportsType
  <2>4. KnownMessage(engine) \in Message
    BY <1>0, ReportedTypes
  <2>5. \A k \in DOMAIN s : s[k].id \in engine
    <3>1. Cardinality(engine) \in Nat
      BY <1>0, FS_CardinalityType
    <3>2. s \in [1..Cardinality(engine) -> {DeploymentMessage(i) : i \in engine}]
      BY DEF Reports
    <3>3. \A m \in {DeploymentMessage(i) : i \in engine} : m.id \in engine
      BY DEF DeploymentMessage
    <3> QED
      BY <3>2, <3>3
  <2> DEFINE r == <<KnownMessage(engine)>> \o s
  <2>6. r \in Seq(Message) /\ 1 \in DOMAIN r /\ r[1] = KnownMessage(engine)
        /\ \A k \in DOMAIN r : k # 1 => k - 1 \in DOMAIN s /\ r[k] = s[k - 1]
    BY <2>3, <2>4
  <2>7. (\A i \in Ids \ engine : Removes(KnownMessage(engine), i)) /\ KnownMessage(engine).type # "deployment"
    BY DEF Removes, KnownMessage
  <2>8. \A k \in DOMAIN r : r[k].type = "deployment" => r[k].id \in engine'
    BY <2>1, <2>5, <2>6, <2>7
  <2>9. \A i \in Ids \ engine' : \E k \in DOMAIN r : Removes(r[k], i)
    BY <2>1, <2>6, <2>7
  <2>10. \A i \in engine \ engine' : \E k \in DOMAIN r : Removes(r[k], i)
    BY <2>1
  <2> HIDE DEF r
  <2>11. Report(r)
    BY <2>2 DEF r
  <2> QED
    BY <2>1, <2>6, <2>8, <2>9, <2>10, <2>11, ReportKeepsSynced DEF SyncedCore
<1> QED
  BY <1>1, <1>2, <1>3, <1>4 DEF ClientObeys

(* What is lost leaves a gap; a restart that interrupts no handler, and    *)
(* the cleanup, lose nothing that would remove a deployment.               *)
LEMMA FailuresSyncedCore ==
    ASSUME SyncedInv, Losses \/ Restart \/ RemoveOldElements
    PROVE  SyncedCore'
<1>1. CASE Losses
  BY <1>1 DEF Losses, LoseCommands, LoseMessages, SyncedInv, SyncedCore, UnknownAreListed
<1>2. CASE Restart
  BY <1>2 DEF Restart, Idle, SyncedInv, SyncedCore, UnknownAreListed, AbsentIsLeaving, StaleReportsRetracted,
              HandlerRemoves
<1>3. CASE RemoveOldElements
  BY <1>3 DEF RemoveOldElements, SyncedCore, UnknownAreListed
<1> QED
  BY <1>1, <1>2, <1>3

(* Every step keeps the invariant.                                         *)
LEMMA NextSyncedInv == SyncedInv /\ [Next]_vars => SyncedInv'
<1> SUFFICES ASSUME SyncedInv, [Next]_vars PROVE SyncedInv'
  OBVIOUS
<1>1. TypeOK'
  BY NextTypeOK DEF SyncedInv
<1>2. SyncedCore'
  <2>1. CASE Requests \/ ApiSteps
    BY <2>1, ApiSyncedCore
  <2>2. CASE Handlers
    BY <2>2, HandlersSyncedCore
  <2>3. CASE BeginDeploymentLoop \/ LoopSteps \/ AgeGatePasses
    BY <2>3, LoopSyncedCore
  <2>4. CASE ClientObeys \/ ClientReset \/ ClientReconnects
    BY <2>4, ClientSyncedCore
  <2>5. CASE Losses \/ Restart \/ RemoveOldElements
    BY <2>5, FailuresSyncedCore
  <2>6. CASE UNCHANGED vars
    BY <2>6, SyncedUntouched DEF vars, NothingNewSynced, SyncedInv
  <2> QED
    BY <2>1, <2>2, <2>3, <2>4, <2>5, <2>6 DEF Next
<1> QED
  BY <1>1, <1>2 DEF SyncedInv

(* Once every message is handled and none was lost, a deployment that the  *)
(* platform takes for synchronised is at the client, whatever was deployed *)
(* again, deleted, reset, lost and reported again before.                  *)
THEOREM SyncedExist == Spec => []SyncedExistAtClient
<1>1. Init => SyncedInv
  BY InitTypeOK, InitSyncedCore DEF SyncedInv
<1>2. SyncedInv => SyncedExistAtClient
  BY DEF SyncedInv, SyncedCore, SyncedExistAtClient, Quiet, AbsentIsLeaving, HandlerRemoves, Synced, Idle
<1> QED
  BY <1>1, <1>2, NextSyncedInv, PTL DEF Spec

-----------------------------------------------------------------------------
(* The invariant behind DeployedOnce, for the deployments that no user     *)
(* asked to delete, while nothing is lost, reset or restarted.             *)

CommandOf(n, c) == cmds[n].id.of = c

Commanded(c) == \E n \in DOMAIN cmds : CommandOf(n, c)

MessageOf(n, c) == msgs[n].type # "known" /\ msgs[n].id.of = c

Creating(c) == api.at \in {"create-save", "create-guard"} /\ api.id.of = c

Moving(c) == handler.at \in {"set", "remove"} /\ handler.new.of = c

HandlerInfos == IF handler.at = "rewrite" THEN handler.infos ELSE {}

(* Everything the client had to say of c has reached the documents.        *)
Arrived(c) ==
    /\ c \in created
    /\ ~Commanded(c) /\ ~Moving(c)
    /\ \A n \in DOMAIN msgs : ~MessageOf(n, c)

(* The one command for c is that of its creation, and once it is obeyed,   *)
(* the client has one id for c.                                            *)
CommandedOnce(c) ==
    /\ \A n \in DOMAIN cmds : CommandOf(n, c) => cmds[n] = DeployCommand(PlatformId(c))
    /\ \A m, n \in DOMAIN cmds : CommandOf(m, c) /\ CommandOf(n, c) => m = n
    /\ \A i, j \in engine : i.of = c /\ j.of = c => i = j
    /\ Commanded(c) => \A i \in engine : i.of # c

(* The client's id is reported or has a synchronised document.             *)
ReportsArrive(c) ==
    /\ \A n \in DOMAIN msgs : MessageOf(n, c) =>
          /\ msgs[n].id \in engine /\ msgs[n].type # "delete"
          /\ msgs[n].type = "metadata" => msgs[n].model = PlatformId(c)
    /\ \A i \in engine : i.of = c =>
          (\E n \in DOMAIN msgs : msgs[n] = DeploymentMessage(i)) \/ SyncedDoc(i) \in docs
    /\ \A d \in docs : d.id.of = c => ~d.missing

(* A guard under the platform's id still has its move before it.           *)
GuardArrives(c) ==
    /\ \A g \in guards : g.of = c => g = PlatformId(c) \/ g \in engine
    /\ PlatformId(c) \in guards =>
          \/ Commanded(c) \/ Moving(c)
          \/ \E n \in DOMAIN msgs : MessageOf(n, c) /\ msgs[n].type = "metadata"
    /\ handler.at \in {"set", "remove", "find"} /\ handler.new.of = c =>
          handler.old = PlatformId(c) /\ handler.new \in engine
    /\ handler.at = "mark" => handler.doc.id.of # c

(* Before c is created there is nothing of it but its command.             *)
CreationComesFirst(c) ==
    /\ Creating(c) => Commanded(c) /\ api.id = PlatformId(c)
    /\ c \notin created /\ ~Creating(c) =>
          ~Commanded(c) /\ (\A i \in engine : i.of # c) /\ (\A d \in docs : d.id.of # c)
    /\ \A x \in infos \cup infoTodo \cup HandlerInfos : x.id.of = c => c \in created

(* What the loop or a sync may find of c needs no redeployment.            *)
NothingToRedeploy(c) ==
    /\ \A i \in saving : i.of # c
    /\ \A i \in guardTodo : i.of = c => i \in engine /\ Arrived(c)
    /\ \A x \in infos \cup infoTodo \cup HandlerInfos : x.id.of = c /\ ~x.young => Arrived(c)
    /\ api.at = "sync" => \A d \in api.docs : d.id.of = c => ~d.missing /\ ~d.deleting

Kept(c) ==
    /\ CommandedOnce(c) /\ ReportsArrive(c) /\ GuardArrives(c)
    /\ CreationComesFirst(c) /\ NothingToRedeploy(c)

(* No full report is under way, and nothing mixes two deployments up.      *)
Undisrupted ==
    /\ ~gap /\ handler.at # "unknown" /\ \A n \in DOMAIN msgs : msgs[n].type # "known"
    /\ \A m \in metadata : m.id.of = m.model.of
    /\ handler.at = "find" => handler.old.of = handler.new.of
    /\ handler.at = "rewrite" => \A y \in handler.infos : y.id.of = handler.new.of

Calm == Undisrupted /\ \A c \in Deployments \ deleted : Kept(c)

CalmInv ==
    /\ GuardInv
    /\ disturbances \in Nat
    /\ disturbances = 0 => Calm

(* Commands for other deployments change nothing for c.                    *)
LEMMA SentElsewhere ==
    ASSUME cmds \in Seq(Command), NEW s \in Seq(Command), Send(s), NEW c,
           \A n \in DOMAIN s : s[n].id.of # c
    PROVE  /\ Commanded(c)' <=> Commanded(c)
           /\ CommandedOnce(c) /\ UNCHANGED engine => CommandedOnce(c)'
<1>1. /\ Len(cmds) \in Nat /\ Len(s) \in Nat
      /\ DOMAIN cmds = 1..Len(cmds) /\ DOMAIN s = 1..Len(s)
      /\ DOMAIN cmds' = 1..(Len(cmds) + Len(s))
      /\ \A n \in 1..Len(cmds) : cmds'[n] = cmds[n]
      /\ \A n \in 1..Len(s) : cmds'[Len(cmds) + n] = s[n]
  BY DEF Send
<1>2. \A n \in DOMAIN cmds : n \in DOMAIN cmds' /\ cmds'[n] = cmds[n]
  BY <1>1
<1>3. ASSUME NEW n \in DOMAIN cmds', cmds'[n].id.of = c
      PROVE  n \in DOMAIN cmds
  <2>1. CASE n > Len(cmds)
    <3>1. n - Len(cmds) \in 1..Len(s) /\ Len(cmds) + (n - Len(cmds)) = n
      BY <1>1, <2>1
    <3>2. cmds'[n] = s[n - Len(cmds)]
      BY <1>1, <3>1
    <3> QED
      BY <1>1, <1>3, <3>1, <3>2
  <2> QED
    BY <1>1, <2>1
<1>4. Commanded(c)' <=> Commanded(c)
  BY <1>2, <1>3 DEF Commanded, CommandOf
<1>5. ASSUME CommandedOnce(c), UNCHANGED engine PROVE CommandedOnce(c)'
  BY <1>2, <1>3, <1>4, <1>5 DEF CommandedOnce, CommandOf
<1> QED
  BY <1>4, <1>5

(* Commands joined come from either part.                                  *)
LEMMA JoinedCommands ==
    ASSUME NEW r \in Seq(Command), NEW t \in Seq(Command)
    PROVE  /\ r \o t \in Seq(Command)
           /\ \A n \in DOMAIN (r \o t) : \/ \E k \in DOMAIN r : (r \o t)[n] = r[k]
                                         \/ \E k \in DOMAIN t : (r \o t)[n] = t[k]
<1>1. /\ Len(r) \in Nat /\ DOMAIN r = 1..Len(r)
      /\ Len(t) \in Nat /\ DOMAIN t = 1..Len(t)
  OBVIOUS
<1>2. r \o t \in Seq(Command) /\ Len(r \o t) = Len(r) + Len(t)
  OBVIOUS
<1>3. DOMAIN (r \o t) = 1..(Len(r) + Len(t))
  BY <1>2
<1>4. \A n \in 1..Len(r) : (r \o t)[n] = r[n]
  OBVIOUS
<1>5. \A n \in 1..(Len(r) + Len(t)) : n > Len(r) => (r \o t)[n] = t[n - Len(r)]
  BY <1>1
<1>6. \A n \in 1..(Len(r) + Len(t)) : n \in 1..Len(r) \/ (n > Len(r) /\ n - Len(r) \in 1..Len(t))
  BY <1>1
<1> QED
  BY <1>1, <1>2, <1>3, <1>4, <1>5, <1>6

(* The command of its creation is the first for c.                         *)
LEMMA SentFirst ==
    ASSUME cmds \in Seq(Command), NEW c \in Deployments, Send(<<DeployCommand(PlatformId(c))>>),
           ~Commanded(c), \A i \in engine : i.of # c, UNCHANGED engine
    PROVE  Commanded(c)' /\ CommandedOnce(c)'
<1> DEFINE x == DeployCommand(PlatformId(c))
<1>0. x.id.of = c
  BY DEF DeployCommand, PlatformId
<1> HIDE DEF x
<1>1. /\ Len(cmds) \in Nat /\ DOMAIN cmds = 1..Len(cmds)
      /\ DOMAIN cmds' = 1..(Len(cmds) + 1)
      /\ \A n \in 1..Len(cmds) : cmds'[n] = cmds[n]
      /\ cmds'[Len(cmds) + 1] = x
  BY DEF Send, x
<1>2. \A n \in DOMAIN cmds' : cmds'[n].id.of = c => n = Len(cmds) + 1
  BY <1>1 DEF Commanded, CommandOf
<1>3. Commanded(c)'
  BY <1>0, <1>1 DEF Commanded, CommandOf
<1> QED
  BY <1>1, <1>2, <1>3 DEF CommandedOnce, CommandOf, x

(* What is in the queue of commands after the first is obeyed.             *)
LEMMA ObeyedQueue ==
    ASSUME cmds \in Seq(Command), cmds # <<>>, cmds' = Tail(cmds)
    PROVE  /\ 1 \in DOMAIN cmds /\ Head(cmds) = cmds[1]
           /\ DOMAIN cmds \subseteq Nat /\ DOMAIN cmds' \subseteq Nat
           /\ \A n \in DOMAIN cmds : n # 1 => n - 1 \in DOMAIN cmds' /\ cmds'[n - 1] = cmds[n]
           /\ \A n \in DOMAIN cmds' : n + 1 \in DOMAIN cmds /\ cmds'[n] = cmds[n + 1]
OBVIOUS

(* Obeying a command changes nothing for the deployments it does not name, *)
(* and leaves none for the one it names.                                   *)
LEMMA ObeyedElsewhere ==
    ASSUME cmds \in Seq(Command), cmds # <<>>, cmds' = Tail(cmds), NEW c
    PROVE  /\ Head(cmds).id.of # c => (Commanded(c)' <=> Commanded(c))
           /\ /\ Head(cmds).id.of # c
              /\ \A i : i.of = c => (i \in engine' <=> i \in engine)
              /\ CommandedOnce(c)
              => CommandedOnce(c)'
           /\ Head(cmds).id.of = c /\ CommandedOnce(c) => ~Commanded(c)'
<1>1. ASSUME Head(cmds).id.of # c PROVE Commanded(c)' <=> Commanded(c)
  <2>1. ASSUME Commanded(c) PROVE Commanded(c)'
    <3>1. PICK n \in DOMAIN cmds : cmds[n].id.of = c
      BY <2>1 DEF Commanded, CommandOf
    <3>2. n # 1
      BY <1>1, <3>1, ObeyedQueue
    <3> QED
      BY <3>1, <3>2, ObeyedQueue DEF Commanded, CommandOf
  <2>2. ASSUME Commanded(c)' PROVE Commanded(c)
    BY <2>2, ObeyedQueue DEF Commanded, CommandOf
  <2> QED
    BY <2>1, <2>2
<1>2. ASSUME Head(cmds).id.of # c, CommandedOnce(c),
             \A i : i.of = c => (i \in engine' <=> i \in engine)
      PROVE  CommandedOnce(c)'
  <2>1. \A n \in DOMAIN cmds' : cmds'[n].id.of = c => cmds'[n] = DeployCommand(PlatformId(c))
    BY <1>2, ObeyedQueue DEF CommandedOnce, CommandOf
  <2>2. ASSUME NEW m \in DOMAIN cmds', NEW n \in DOMAIN cmds',
               cmds'[m].id.of = c, cmds'[n].id.of = c
        PROVE  m = n
    <3>1. m + 1 = n + 1 /\ m \in Nat /\ n \in Nat
      BY <1>2, <2>2, ObeyedQueue DEF CommandedOnce, CommandOf
    <3> QED
      BY <3>1
  <2>3. /\ \A i, j \in engine' : i.of = c /\ j.of = c => i = j
        /\ Commanded(c)' => \A i \in engine' : i.of # c
    BY <1>1, <1>2 DEF CommandedOnce
  <2> QED
    BY <2>1, <2>2, <2>3 DEF CommandedOnce, CommandOf
<1>3. ASSUME Head(cmds).id.of = c, CommandedOnce(c), Commanded(c)' PROVE FALSE
  <2>1. PICK n \in DOMAIN cmds' : cmds'[n].id.of = c
    BY <1>3 DEF Commanded, CommandOf
  <2>2. n \in Nat /\ n + 1 = 1
    BY <1>3, <2>1, ObeyedQueue DEF CommandedOnce, CommandOf
  <2> QED
    BY <2>2
<1> QED
  BY <1>1, <1>2, <1>3

(* Requests and their steps spare what nobody asked to delete.             *)
LEMMA ApiSpares ==
    ASSUME GuardInv, Calm, Requests \/ ApiSteps, NEW c \in Deployments \ deleted'
    PROVE  Kept(c)'
<1> USE DEF clientVars, loopVars, ghostVars, Commanded, CommandOf, Moving, Creating, MessageOf,
            HandlerInfos, Arrived
<1>a. Idle.at = "idle"
  BY DEF Idle
<1>b. deleted \subseteq deleted'
  BY DEF Requests, ApiSteps, CreateSends, CreateSaves, CreateGuards, DeleteRemovesInfos,
         DeleteRemovesGuard, DeleteReads, DeleteWrites, StartGuards, StartReads, SyncLists,
         SyncDeployment, SyncEnds
<1>0. /\ TypeOK /\ GuardedWereCreated /\ DeletesWereAsked /\ c \in Deployments \ deleted
      /\ CommandedOnce(c) /\ ReportsArrive(c) /\ GuardArrives(c)
      /\ CreationComesFirst(c) /\ NothingToRedeploy(c)
  BY <1>b DEF GuardInv, GuardCore, Calm, Kept
<1>1. ASSUME NEW k \in Deployments, CreateSends(k) PROVE Kept(c)'
  <2>1. PlatformId(k) \in Ids /\ PlatformId(k).of = k
    BY DocTypes DEF PlatformId
  <2>2. <<DeployCommand(PlatformId(k))>> \in Seq(Command)
    BY <2>1, CommandTypes
  <2>3. /\ api = Idle /\ k \notin created /\ Send(<<DeployCommand(PlatformId(k))>>)
        /\ api' = [at |-> "create-save", id |-> PlatformId(k)]
        /\ UNCHANGED <<docs, metadata, guards, infos, engine, msgs, gap, handler, phase, guardTodo,
                       infoTodo, saving, created, deleted, torn>>
    BY <1>1 DEF CreateSends
  <2>4. CommandedOnce(c)' /\ (IF c = k THEN Commanded(c)' ELSE Commanded(c)' <=> Commanded(c))
    <3>1. CASE c = k
      <4>1. ~Commanded(c) /\ \A i \in engine : i.of # c
        BY <1>0, <1>a, <2>3, <3>1 DEF CreationComesFirst
      <4> QED
        BY <1>0, <2>3, <3>1, <4>1, SentFirst DEF TypeOK
    <3>2. CASE c # k
      <4>1. \A n \in DOMAIN <<DeployCommand(PlatformId(k))>> :
               <<DeployCommand(PlatformId(k))>>[n].id.of # c
        BY <2>1, <3>2 DEF DeployCommand
      <4> HIDE DEF Commanded
      <4> QED
        BY <1>0, <2>2, <2>3, <3>2, <4>1, SentElsewhere DEF TypeOK
    <3> QED
      BY <3>1, <3>2
  <2> HIDE DEF Commanded
  <2>5. ReportsArrive(c)' /\ GuardArrives(c)'
    BY <1>0, <2>3, <2>4 DEF ReportsArrive, GuardArrives
  <2>6. CreationComesFirst(c)'
    BY <1>0, <1>a, <2>1, <2>3, <2>4 DEF CreationComesFirst
  <2>7. NothingToRedeploy(c)'
    BY <1>0, <2>3, <2>4 DEF NothingToRedeploy
  <2> QED
    BY <2>4, <2>5, <2>6, <2>7 DEF Kept
<1>2. ASSUME CreateSaves PROVE Kept(c)'
  <2>1. api.id \in Ids /\ PlaceholderDoc(api.id).id = api.id /\ ~PlaceholderDoc(api.id).missing
    BY <1>0, <1>2, ApiFields DEF CreateSaves, TypeOK, PlaceholderDoc
  <2>2. CommandedOnce(c)' /\ GuardArrives(c)'
    BY <1>0, <1>2 DEF CreateSaves, CommandedOnce, GuardArrives
  <2>3. \A d \in docs' : d = PlaceholderDoc(api.id) \/ d \in docs
    BY <1>2 DEF CreateSaves, Save
  <2>4. \A i \in engine : i.of = c => i # api.id
    BY <1>0, <1>2 DEF CreateSaves, CreationComesFirst, CommandedOnce
  <2>5. \A i \in engine : SyncedDoc(i) \in docs /\ i # api.id => SyncedDoc(i) \in docs'
    BY <1>0, <1>2, <2>1, DocMarks DEF CreateSaves, Save, TypeOK
  <2>6. ReportsArrive(c)'
    BY <1>0, <1>2, <2>1, <2>3, <2>4, <2>5 DEF CreateSaves, ReportsArrive
  <2>7. CreationComesFirst(c)'
    BY <1>0, <1>2, <2>1, <2>3 DEF CreateSaves, CreationComesFirst
  <2>8. NothingToRedeploy(c)'
    BY <1>0, <1>2 DEF CreateSaves, NothingToRedeploy
  <2> QED
    BY <2>2, <2>6, <2>7, <2>8 DEF Kept
<1>3. ASSUME CreateGuards PROVE Kept(c)'
  <2>1. CommandedOnce(c)' /\ ReportsArrive(c)'
    BY <1>0, <1>3 DEF CreateGuards, CommandedOnce, ReportsArrive
  <2>2. GuardArrives(c)'
    BY <1>0, <1>3 DEF CreateGuards, GuardArrives, CreationComesFirst, PlatformId
  <2>3. CreationComesFirst(c)' /\ NothingToRedeploy(c)'
    BY <1>0, <1>3, <1>a DEF CreateGuards, CreationComesFirst, NothingToRedeploy
  <2> QED
    BY <2>1, <2>2, <2>3 DEF Kept
<1>4. ASSUME NEW d \in docs, DeleteRemovesInfos(d) PROVE Kept(c)'
  <2>1. CommandedOnce(c)' /\ ReportsArrive(c)' /\ GuardArrives(c)'
    BY <1>0, <1>4 DEF DeleteRemovesInfos, CommandedOnce, ReportsArrive, GuardArrives
  <2>2. CreationComesFirst(c)' /\ NothingToRedeploy(c)'
    BY <1>0, <1>4, <1>a DEF DeleteRemovesInfos, CreationComesFirst, NothingToRedeploy
  <2> QED
    BY <2>1, <2>2 DEF Kept
<1>5. ASSUME DeleteRemovesGuard PROVE Kept(c)'
  <2>1. CommandedOnce(c)' /\ ReportsArrive(c)' /\ GuardArrives(c)'
    BY <1>0, <1>5 DEF DeleteRemovesGuard, CommandedOnce, ReportsArrive, GuardArrives
  <2>2. CreationComesFirst(c)' /\ NothingToRedeploy(c)'
    BY <1>0, <1>5 DEF DeleteRemovesGuard, CreationComesFirst, NothingToRedeploy
  <2> QED
    BY <2>1, <2>2 DEF Kept
<1>6. ASSUME DeleteReads PROVE Kept(c)'
  <2>1. /\ docs' \subseteq docs /\ api.id.of \in deleted
        /\ \A d \in docs : d.id # api.id => d \in docs'
        /\ api' = Idle \/ \E d \in docs : api' = [at |-> "delete-write", doc |-> d]
    BY <1>0, <1>6 DEF DeleteReads, deleteDeployment, Without, DeletesWereAsked
  <2>2. api'.at \in {"idle", "delete-write"}
    BY <2>1, <1>a
  <2>3. CommandedOnce(c)' /\ GuardArrives(c)'
    BY <1>0, <1>6 DEF DeleteReads, CommandedOnce, GuardArrives
  <2>4. \A i \in engine : i.of = c /\ SyncedDoc(i) \in docs => SyncedDoc(i) \in docs'
    BY <1>0, <2>1, DocMarks DEF TypeOK
  <2>5. ReportsArrive(c)'
    BY <1>0, <1>6, <2>1, <2>4 DEF DeleteReads, ReportsArrive
  <2>6. CreationComesFirst(c)' /\ NothingToRedeploy(c)'
    BY <1>0, <1>6, <2>1, <2>2 DEF DeleteReads, CreationComesFirst, NothingToRedeploy
  <2> QED
    BY <2>3, <2>5, <2>6 DEF Kept
<1>7. ASSUME DeleteWrites PROVE Kept(c)'
  <2>1. api.doc \in Doc /\ api.doc.id \in Ids /\ api.doc.id.of \in deleted
    BY <1>0, <1>7, ApiFields, DocTypes DEF DeleteWrites, TypeOK, DeletesWereAsked
  <2>2. /\ <<DeleteCommand(api.doc.id)>> \in Seq(Command)
        /\ \A n \in DOMAIN <<DeleteCommand(api.doc.id)>> :
              <<DeleteCommand(api.doc.id)>>[n].id.of # c
    BY <1>0, <2>1, CommandTypes DEF DeleteCommand
  <2> HIDE DEF Commanded
  <2>3. CommandedOnce(c)' /\ (Commanded(c)' <=> Commanded(c))
    BY <1>0, <1>7, <2>2, SentElsewhere DEF DeleteWrites, TypeOK
  <2>4. /\ \A d \in docs' : d.id.of = c => d \in docs
        /\ \A d \in docs : d.id.of = c => d \in docs'
    BY <1>0, <1>7, <2>1, DocMarks DEF DeleteWrites, Save
  <2>5. \A i \in engine : i.of = c /\ SyncedDoc(i) \in docs => SyncedDoc(i) \in docs'
    BY <1>0, <2>4, DocMarks DEF TypeOK
  <2>6. ReportsArrive(c)' /\ GuardArrives(c)'
    BY <1>0, <1>7, <2>3, <2>4, <2>5 DEF DeleteWrites, ReportsArrive, GuardArrives
  <2>7. CreationComesFirst(c)' /\ NothingToRedeploy(c)'
    BY <1>0, <1>7, <1>a, <2>3, <2>4 DEF DeleteWrites, CreationComesFirst, NothingToRedeploy
  <2> QED
    BY <2>3, <2>6, <2>7 DEF Kept
<1>8. ASSUME NEW k \in Keys, NEW d \in docs, StartGuards(k, d) PROVE Kept(c)'
  <2>1. CommandedOnce(c)' /\ ReportsArrive(c)' /\ GuardArrives(c)'
    BY <1>0, <1>8 DEF StartGuards, CommandedOnce, ReportsArrive, GuardArrives
  <2>2. \A x \in infos' : x \in infos \/ (x.id = d.id /\ x.young)
    BY <1>8 DEF StartGuards
  <2>3. CreationComesFirst(c)'
    BY <1>0, <1>8, <1>a, <2>2 DEF StartGuards, CreationComesFirst
  <2>4. NothingToRedeploy(c)'
    BY <1>0, <1>8, <1>a, <2>2 DEF StartGuards, NothingToRedeploy
  <2> QED
    BY <2>1, <2>3, <2>4 DEF Kept
<1>9. ASSUME StartReads \/ SyncEnds PROVE Kept(c)'
  <2>1. /\ infos' \subseteq infos /\ api' = Idle /\ api.at \in {"start", "sync"}
        /\ UNCHANGED <<docs, guards, cmds, engine, msgs, handler, guardTodo, infoTodo, saving,
                       created, deleted>>
    BY <1>9 DEF StartReads, SyncEnds
  <2>2. CommandedOnce(c)' /\ ReportsArrive(c)' /\ GuardArrives(c)'
    BY <1>0, <2>1 DEF CommandedOnce, ReportsArrive, GuardArrives
  <2>3. CreationComesFirst(c)' /\ NothingToRedeploy(c)'
    BY <1>0, <1>a, <2>1 DEF CreationComesFirst, NothingToRedeploy
  <2> QED
    BY <2>2, <2>3 DEF Kept
<1>10. ASSUME SyncLists PROVE Kept(c)'
  <2>1. docs' = {d \in docs : ~d.placeholder} /\ api' = [at |-> "sync", docs |-> docs']
    BY <1>10 DEF SyncLists, RemovePlaceholderDeployments
  <2>2. CommandedOnce(c)' /\ GuardArrives(c)'
    BY <1>0, <1>10 DEF SyncLists, CommandedOnce, GuardArrives
  <2>3. \A i : SyncedDoc(i) \in docs => SyncedDoc(i) \in docs'
    BY <2>1 DEF SyncedDoc, PlaceholderDoc
  <2>4. ReportsArrive(c)'
    BY <1>0, <1>10, <2>1, <2>3 DEF SyncLists, ReportsArrive
  <2>5. CreationComesFirst(c)'
    BY <1>0, <1>10, <1>a, <2>1 DEF SyncLists, CreationComesFirst
  <2>6. \A d \in docs' : d.id.of = c => ~d.missing /\ ~d.deleting
    BY <1>0, <2>1 DEF ReportsArrive, DeletesWereAsked
  <2>7. NothingToRedeploy(c)'
    BY <1>0, <1>10, <2>1, <2>6 DEF SyncLists, NothingToRedeploy
  <2> QED
    BY <2>2, <2>4, <2>5, <2>7 DEF Kept
<1>11. ASSUME api.at = "sync", NEW d \in api.docs, SyncDeployment(d) PROVE Kept(c)'
  <2>1. /\ d \in Doc /\ d.id \in Ids /\ api = [at |-> "sync", docs |-> api.docs]
        /\ api' = [at |-> "sync", docs |-> api.docs \ {d}]
        /\ UNCHANGED <<guards, infos, engine, msgs, gap, handler, phase, guardTodo, infoTodo,
                       saving, created, deleted, torn>>
    BY <1>0, <1>11, ApiFields, DocTypes DEF TypeOK, SyncDeployment
  <2>2. PICK s \in Seq(Command) :
           /\ Send(s) /\ \A n \in DOMAIN s : s[n].id.of # c
           /\ docs' = docs \/ (docs' = Save(docs, PlaceholderDoc(d.id)) /\ d.id.of # c)
    <3>1. SyncRepeatsDelete(d) \in Seq(Command)
      BY <2>1, CommandTypes DEF SyncRepeatsDelete
    <3>2. \A n \in DOMAIN SyncRepeatsDelete(d) : SyncRepeatsDelete(d)[n].id.of # c
      BY <1>0, <1>11 DEF SyncRepeatsDelete, DeleteCommand, NothingToRedeploy
    <3>3. CASE d.missing /\ d.id \notin guards /\ d.id \in IdsOf(metadata)
      <4>1. PICK m \in metadata :
               /\ m.id = d.id /\ docs' = Save(docs, PlaceholderDoc(d.id))
               /\ Send(SyncRepeatsDelete(d) \o <<DeployCommand(m.model)>>)
        BY <1>11, <3>3 DEF SyncDeployment
      <4>2. d.id.of # c /\ m.model.of # c /\ m.model \in Ids
        BY <1>0, <1>11, <3>3, <4>1 DEF NothingToRedeploy, Calm, Undisrupted, TypeOK, Metadata
      <4> DEFINE r == SyncRepeatsDelete(d)
                 t == <<DeployCommand(m.model)>>
      <4>3. t \in Seq(Command) /\ Len(t) = 1 /\ t[1].id.of # c
        BY <4>2, CommandTypes DEF DeployCommand
      <4>4. r \in Seq(Command) /\ \A n \in DOMAIN r : r[n].id.of # c
        BY <3>1, <3>2
      <4> HIDE DEF r, t
      <4>5. r \o t \in Seq(Command) /\ \A n \in DOMAIN (r \o t) : (r \o t)[n].id.of # c
        <5>1. DOMAIN t = {1}
          BY <4>3
        <5> QED
          BY <4>3, <4>4, <5>1, JoinedCommands
      <4> QED
        BY <4>1, <4>2, <4>5 DEF r, t
    <3>4. CASE ~(d.missing /\ d.id \notin guards /\ d.id \in IdsOf(metadata))
      BY <1>11, <3>1, <3>2, <3>4 DEF SyncDeployment
    <3> QED
      BY <3>3, <3>4
  <2> HIDE DEF Commanded
  <2>3. CommandedOnce(c)' /\ (Commanded(c)' <=> Commanded(c))
    BY <1>0, <2>1, <2>2, SentElsewhere DEF TypeOK
  <2>4. /\ \A x \in docs' : x.id.of = c => x \in docs
        /\ \A x \in docs : x.id.of = c => x \in docs'
    BY <2>1, <2>2, DocMarks DEF Save
  <2>5. \A i \in engine : i.of = c /\ SyncedDoc(i) \in docs => SyncedDoc(i) \in docs'
    BY <1>0, <2>4, DocMarks DEF TypeOK
  <2>6. ReportsArrive(c)' /\ GuardArrives(c)'
    BY <1>0, <2>1, <2>3, <2>4, <2>5 DEF ReportsArrive, GuardArrives
  <2>7. CreationComesFirst(c)' /\ NothingToRedeploy(c)'
    BY <1>0, <1>11, <2>1, <2>3, <2>4 DEF CreationComesFirst, NothingToRedeploy
  <2> QED
    BY <2>3, <2>6, <2>7 DEF Kept
<1> QED
  BY <1>1, <1>2, <1>3, <1>4, <1>5, <1>6, <1>7, <1>8, <1>9, <1>10, <1>11
  DEF Requests, ApiSteps

(* The steps of the handlers leave these alone.                            *)
LEMMA HandlersFrame ==
    ASSUME Handlers
    PROVE  UNCHANGED <<cmds, engine, gap, api, phase, guardTodo, infoTodo, saving, created, deleted>>
BY DEF Handlers, UpdateDeployment, DeleteDeployment, SaveMissing, ListUnknownDeployments,
       DeleteUnknownDeployments, UpdateDeploymentMetadata, SetNewGuard, RemoveOldGuard, FindOldInfos,
       RewriteInfos, loopVars, ghostVars, clientVars

(* Messages of c that wait behind the one taken stay.                      *)
LEMMA MessagesStay ==
    ASSUME msgs \in Seq(Message), NEW type, Receive(type)
    PROVE  /\ \A n \in DOMAIN msgs' : \E m \in DOMAIN msgs : msgs'[n] = msgs[m]
           /\ \A m \in DOMAIN msgs : msgs[m] = Head(msgs) \/ \E n \in DOMAIN msgs' : msgs'[n] = msgs[m]
<1>1. \A n \in DOMAIN msgs' : \E m \in DOMAIN msgs : msgs'[n] = msgs[m]
  BY ReceivedQueue
<1>2. ASSUME NEW m \in DOMAIN msgs, msgs[m] # Head(msgs)
      PROVE  \E n \in DOMAIN msgs' : msgs'[n] = msgs[m]
  <2>1. m # 1
    BY <1>2, ReceivedQueue
  <2> QED
    BY <2>1, ReceivedQueue
<1> QED
  BY <1>1, <1>2

(* The MQTT handlers spare what nobody asked to delete.                    *)
LEMMA HandlersSpare ==
    ASSUME GuardInv, Calm, Handlers, NEW c \in Deployments \ deleted'
    PROVE  Kept(c)'
<1> USE DEF clientVars, loopVars, ghostVars, Creating, Moving, MessageOf, HandlerInfos
<1>a. Idle.at = "idle"
  BY DEF Idle
<1>f. UNCHANGED <<cmds, engine, gap, api, phase, guardTodo, infoTodo, saving, created, deleted>>
  BY HandlersFrame
<1>0. /\ TypeOK /\ MoveIsSafe /\ DeletesWereAsked /\ Undisrupted /\ c \in Deployments \ deleted
      /\ CommandedOnce(c) /\ ReportsArrive(c) /\ GuardArrives(c)
      /\ CreationComesFirst(c) /\ NothingToRedeploy(c)
  BY <1>f DEF GuardInv, GuardCore, Calm, Kept
<1>c. CommandedOnce(c)' /\ (Commanded(c)' <=> Commanded(c))
  BY <1>0, <1>f DEF CommandedOnce, Commanded, CommandOf
<1>1. ASSUME UpdateDeployment PROVE Kept(c)'
  <2> DEFINE h == Head(msgs)
  <2>1. /\ h \in Message /\ h.type = "deployment" /\ h.id \in Ids /\ handler = Idle
        /\ SyncedDoc(h.id).id = h.id /\ ~SyncedDoc(h.id).missing
        /\ \E n \in DOMAIN msgs : msgs[n] = h
        /\ UNCHANGED <<guards, infos, handler>>
    BY <1>0, <1>1, ReceiveType, MessageFields, ReceivedQueue, DocMarks
    DEF UpdateDeployment, Receive, TypeOK, SyncedDoc, PlaceholderDoc
  <2>2. /\ \A n \in DOMAIN msgs' : \E m \in DOMAIN msgs : msgs'[n] = msgs[m]
        /\ \A m \in DOMAIN msgs : msgs[m] = h \/ \E n \in DOMAIN msgs' : msgs'[n] = msgs[m]
    BY <1>0, <1>1, MessagesStay DEF UpdateDeployment, TypeOK
  <2>3. /\ SyncedDoc(h.id) \in docs'
        /\ \A d \in docs' : d \in docs \/ d = SyncedDoc(h.id)
        /\ \A d \in docs : ~d.placeholder /\ d.id # h.id => d \in docs'
    BY <1>1, <2>1 DEF UpdateDeployment, Save, RemovePlaceholderDeployments
  <2> HIDE DEF h
  <2>4. ReportsArrive(c)'
    <3>1. ASSUME NEW i \in engine, i.of = c
          PROVE  (\E n \in DOMAIN msgs' : msgs'[n] = DeploymentMessage(i)) \/ SyncedDoc(i) \in docs'
      <4>1. CASE SyncedDoc(i) \in docs
        <5>1. SyncedDoc(i).id = i /\ ~SyncedDoc(i).placeholder
          BY <1>0, DocMarks DEF TypeOK, SyncedDoc, PlaceholderDoc
        <5> QED
          BY <2>3, <4>1, <5>1
      <4>2. CASE \E n \in DOMAIN msgs : msgs[n] = DeploymentMessage(i)
        <5>1. h = DeploymentMessage(i) => h.id = i
          BY DEF DeploymentMessage
        <5> QED
          BY <2>2, <2>3, <4>2, <5>1
      <4> QED
        BY <1>0, <3>1, <4>1, <4>2 DEF ReportsArrive
    <3> QED
      BY <1>0, <1>f, <2>1, <2>2, <2>3, <3>1 DEF ReportsArrive
  <2>5. GuardArrives(c)'
    <3>1. ASSUME NEW n \in DOMAIN msgs, MessageOf(n, c), msgs[n].type = "metadata"
          PROVE  \E m \in DOMAIN msgs' : MessageOf(m, c)' /\ msgs'[m].type = "metadata"
      BY <2>1, <2>2, <3>1
    <3> QED
      BY <1>0, <1>f, <1>c, <2>1, <3>1 DEF GuardArrives
  <2>6. h.id.of = c => c \in created \/ Creating(c)
    BY <1>0, <2>1 DEF ReportsArrive, CreationComesFirst
  <2>7. CreationComesFirst(c)'
    BY <1>0, <1>c, <1>f, <2>1, <2>3, <2>6 DEF CreationComesFirst
  <2>8. NothingToRedeploy(c)'
    BY <1>0, <1>c, <1>f, <2>1, <2>2 DEF NothingToRedeploy, Arrived
  <2> QED
    BY <1>c, <2>4, <2>5, <2>7, <2>8 DEF Kept
<1>2. ASSUME DeleteDeployment PROVE Kept(c)'
  <2> DEFINE h == Head(msgs)
  <2>1. /\ h.type = "delete" /\ h.id \in Ids /\ handler = Idle
        /\ \E n \in DOMAIN msgs : msgs[n] = h
        /\ UNCHANGED <<guards, infos>>
    BY <1>0, <1>2, ReceiveType, MessageFields, ReceivedQueue DEF DeleteDeployment, Receive, TypeOK
  <2>2. /\ \A n \in DOMAIN msgs' : \E m \in DOMAIN msgs : msgs'[n] = msgs[m]
        /\ \A m \in DOMAIN msgs : msgs[m] = h \/ \E n \in DOMAIN msgs' : msgs'[n] = msgs[m]
    BY <1>0, <1>2, MessagesStay DEF DeleteDeployment, TypeOK
  <2>3. /\ docs' \subseteq docs /\ \A d \in docs : d.id # h.id => d \in docs'
        /\ handler' = Idle \/ \E d \in docs : d.id = h.id /\ handler' = [at |-> "mark", doc |-> d]
    BY <1>2, <2>1 DEF DeleteDeployment, deleteDeployment, Without
  <2> HIDE DEF h
  <2>4. h.id.of # c
    BY <1>0, <2>1 DEF ReportsArrive
  <2>5. /\ handler'.at \in {"idle", "mark"}
        /\ handler'.at = "mark" => handler'.doc.id.of # c
    BY <2>3, <2>4, <1>a
  <2>6. \A i \in engine : i.of = c /\ SyncedDoc(i) \in docs => SyncedDoc(i) \in docs'
    BY <1>0, <2>3, <2>4, DocMarks DEF TypeOK
  <2>7. \A n \in DOMAIN msgs : msgs[n].id.of = c => \E m \in DOMAIN msgs' : msgs'[m] = msgs[n]
    BY <2>2, <2>4
  <2>8. ReportsArrive(c)'
    <3>1. ASSUME NEW i \in engine, i.of = c
          PROVE  (\E n \in DOMAIN msgs' : msgs'[n] = DeploymentMessage(i)) \/ SyncedDoc(i) \in docs'
      <4>1. DeploymentMessage(i).id = i
        BY DEF DeploymentMessage
      <4> QED
        BY <1>0, <2>6, <2>7, <3>1, <4>1 DEF ReportsArrive
    <3> QED
      BY <1>0, <1>f, <2>2, <2>3, <3>1 DEF ReportsArrive
  <2>9. GuardArrives(c)'
    BY <1>0, <1>f, <1>c, <1>a, <2>1, <2>5, <2>7 DEF GuardArrives
  <2>10. CreationComesFirst(c)' /\ NothingToRedeploy(c)'
    BY <1>0, <1>c, <1>f, <2>1, <2>2, <2>3, <2>5 DEF CreationComesFirst, NothingToRedeploy, Arrived
  <2> QED
    BY <1>c, <2>8, <2>9, <2>10 DEF Kept
<1>3. ASSUME SaveMissing PROVE Kept(c)'
  <2>1. /\ handler.doc \in Doc /\ handler.doc.id.of # c /\ handler' = Idle
        /\ UNCHANGED <<guards, infos, msgs>>
    BY <1>0, <1>3, HandlerFields DEF SaveMissing, TypeOK, GuardArrives
  <2>2. /\ \A d \in docs' : d.id.of = c => d \in docs
        /\ \A d \in docs : d.id.of = c => d \in docs'
    BY <1>0, <1>3, <2>1, DocMarks DEF SaveMissing, Save
  <2>3. \A i \in engine : i.of = c /\ SyncedDoc(i) \in docs => SyncedDoc(i) \in docs'
    BY <1>0, <2>2, DocMarks DEF TypeOK
  <2>4. ReportsArrive(c)' /\ GuardArrives(c)'
    BY <1>0, <1>3, <1>a, <1>c, <1>f, <2>1, <2>2, <2>3 DEF SaveMissing, ReportsArrive, GuardArrives
  <2>5. CreationComesFirst(c)' /\ NothingToRedeploy(c)'
    BY <1>0, <1>a, <1>c, <1>f, <2>1, <2>2 DEF CreationComesFirst, NothingToRedeploy, Arrived
  <2> QED
    BY <1>c, <2>4, <2>5 DEF Kept
<1>4. ASSUME ListUnknownDeployments PROVE Kept(c)'
  BY <1>0, <1>4, ReceivedQueue DEF ListUnknownDeployments, Undisrupted, TypeOK
<1>5. ASSUME DeleteUnknownDeployments PROVE Kept(c)'
  BY <1>0, <1>5 DEF DeleteUnknownDeployments, Undisrupted
<1>6. ASSUME UpdateDeploymentMetadata PROVE Kept(c)'
  <2> DEFINE h == Head(msgs)
  <2>1. /\ h \in Message /\ h.type = "metadata" /\ handler = Idle
        /\ \E n \in DOMAIN msgs : msgs[n] = h
        /\ handler' = [at |-> IF h.model \in guards THEN "set" ELSE "find", old |-> h.model, new |-> h.id]
        /\ UNCHANGED <<docs, guards, infos>>
    BY <1>0, <1>6, ReceiveType, ReceivedQueue DEF UpdateDeploymentMetadata, Receive, TypeOK
  <2>2. /\ \A n \in DOMAIN msgs' : \E m \in DOMAIN msgs : msgs'[n] = msgs[m]
        /\ \A m \in DOMAIN msgs : msgs[m] = h \/ \E n \in DOMAIN msgs' : msgs'[n] = msgs[m]
    BY <1>0, <1>6, MessagesStay DEF UpdateDeploymentMetadata, TypeOK
  <2> HIDE DEF h
  <2>3. /\ handler'.at = (IF h.model \in guards THEN "set" ELSE "find")
        /\ handler'.old = h.model /\ handler'.new = h.id
    BY <2>1
  <2>4. h.id.of = c => h.model = PlatformId(c) /\ h.id \in engine
    BY <1>0, <2>1 DEF ReportsArrive
  <2>5. ReportsArrive(c)'
    <3>1. \A i : DeploymentMessage(i) # h
      BY <2>1 DEF DeploymentMessage
    <3> QED
      BY <1>0, <1>f, <2>1, <2>2, <3>1 DEF ReportsArrive
  <2>6. GuardArrives(c)'
    <3>1. ASSUME PlatformId(c) \in guards, NEW n \in DOMAIN msgs, MessageOf(n, c), msgs[n].type = "metadata"
          PROVE  \/ Moving(c)'
                 \/ \E m \in DOMAIN msgs' : MessageOf(m, c)' /\ msgs'[m].type = "metadata"
      BY <2>2, <2>3, <2>4, <3>1
    <3> QED
      BY <1>0, <1>f, <1>c, <1>a, <2>1, <2>3, <2>4, <3>1 DEF GuardArrives
  <2>7. CreationComesFirst(c)'
    BY <1>0, <1>c, <1>f, <2>1, <2>3 DEF CreationComesFirst
  <2>8. Arrived(c) => Arrived(c)'
    BY <1>c, <1>f, <2>1, <2>2, <2>3 DEF Arrived
  <2>9. NothingToRedeploy(c)'
    BY <1>0, <1>f, <2>1, <2>3, <2>8 DEF NothingToRedeploy
  <2> QED
    BY <1>c, <2>5, <2>6, <2>7, <2>9 DEF Kept
<1>7. ASSUME SetNewGuard PROVE Kept(c)'
  <2>1. /\ handler' = [at |-> "remove", old |-> handler.old, new |-> handler.new]
        /\ guards' = guards \cup {handler.new} /\ handler.at = "set"
        /\ UNCHANGED <<docs, infos, msgs>>
    BY <1>0, <1>7, HandlerFields DEF SetNewGuard, TypeOK
  <2>2. ReportsArrive(c)'
    BY <1>0, <1>f, <2>1 DEF ReportsArrive
  <2>3. GuardArrives(c)'
    BY <1>0, <1>c, <1>f, <2>1 DEF GuardArrives, PlatformId
  <2>4. CreationComesFirst(c)' /\ NothingToRedeploy(c)'
    BY <1>0, <1>c, <1>f, <2>1 DEF CreationComesFirst, NothingToRedeploy, Arrived
  <2> QED
    BY <1>c, <2>2, <2>3, <2>4 DEF Kept
<1>8. ASSUME RemoveOldGuard PROVE Kept(c)'
  <2>1. /\ handler' = [at |-> "find", old |-> handler.old, new |-> handler.new]
        /\ guards' = guards \ {handler.old} /\ handler.at = "remove"
        /\ UNCHANGED <<docs, infos, msgs>>
    BY <1>0, <1>8, HandlerFields DEF RemoveOldGuard, TypeOK
  <2>2. ReportsArrive(c)'
    BY <1>0, <1>f, <2>1 DEF ReportsArrive
  <2>3. GuardArrives(c)'
    BY <1>0, <1>c, <1>f, <2>1 DEF GuardArrives
  <2>4. CreationComesFirst(c)' /\ NothingToRedeploy(c)'
    BY <1>0, <1>c, <1>f, <2>1 DEF CreationComesFirst, NothingToRedeploy, Arrived
  <2> QED
    BY <1>c, <2>2, <2>3, <2>4 DEF Kept
<1>9. ASSUME FindOldInfos PROVE Kept(c)'
  <2>1. /\ handler' = [at |-> "rewrite", new |-> handler.new, infos |-> {x \in infos : x.id = handler.old}]
        /\ handler.at = "find"
        /\ UNCHANGED <<docs, guards, infos, msgs>>
    BY <1>0, <1>9 DEF FindOldInfos
  <2>2. ReportsArrive(c)' /\ GuardArrives(c)'
    BY <1>0, <1>c, <1>f, <2>1 DEF ReportsArrive, GuardArrives
  <2>3. CreationComesFirst(c)' /\ NothingToRedeploy(c)'
    BY <1>0, <1>c, <1>f, <2>1 DEF CreationComesFirst, NothingToRedeploy, Arrived
  <2> QED
    BY <1>c, <2>2, <2>3 DEF Kept
<1>10. ASSUME RewriteInfos PROVE Kept(c)'
  <2>1. /\ handler' = Idle /\ handler.at = "rewrite" /\ handler.infos \subseteq Info
        /\ UNCHANGED <<docs, guards, msgs>>
    BY <1>0, <1>10, HandlerFields DEF RewriteInfos, TypeOK
  <2>2. \A x \in infos' : \/ x \in infos
                          \/ \E y \in handler.infos : x.id.of = y.id.of /\ x.young = y.young
    <3>1. ASSUME NEW y \in handler.infos
          PROVE  [y EXCEPT !.id = handler.new].id.of = y.id.of /\ [y EXCEPT !.id = handler.new].young = y.young
      BY <1>0, <2>1, <3>1 DEF Info, Undisrupted
    <3> QED
      BY <1>10, <3>1 DEF RewriteInfos
  <2>3. ReportsArrive(c)' /\ GuardArrives(c)'
    BY <1>0, <1>a, <1>c, <1>f, <2>1 DEF ReportsArrive, GuardArrives
  <2>4. CreationComesFirst(c)'
    BY <1>0, <1>a, <1>c, <1>f, <2>1, <2>2 DEF CreationComesFirst
  <2>5. Arrived(c) => Arrived(c)'
    BY <1>a, <1>c, <1>f, <2>1 DEF Arrived
  <2>6. NothingToRedeploy(c)'
    BY <1>0, <1>a, <1>f, <2>1, <2>2, <2>5 DEF NothingToRedeploy
  <2> QED
    BY <1>c, <2>3, <2>4, <2>6 DEF Kept
<1> QED
  BY <1>1, <1>2, <1>3, <1>4, <1>5, <1>6, <1>7, <1>8, <1>9, <1>10 DEF Handlers

(* A redeployment concerns a deployment that does not exist: none of these.*)
LEMMA RedeploySpares ==
    ASSUME TypeOK, NEW i \in Ids, RedeploySends(i), NEW c, i.of # c, CommandedOnce(c), UNCHANGED engine
    PROVE  /\ CommandedOnce(c)' /\ (Commanded(c)' <=> Commanded(c))
           /\ \A j \in saving' : j.of # c
<1>1. <<DeployCommand(i)>> \in Seq(Command)
  BY CommandTypes
<1>2. \A n \in DOMAIN <<DeployCommand(i)>> : <<DeployCommand(i)>>[n].id.of # c
  BY DEF DeployCommand
<1> QED
  BY <1>1, <1>2, SentElsewhere DEF RedeploySends, TypeOK

(* What has arrived exists.                                                *)
LEMMA ArrivedExists ==
    ASSUME TypeOK, NEW c, ReportsArrive(c), Arrived(c), NEW i \in engine, i.of = c
    PROVE  Exists(i)
<1>1. DeploymentMessage(i).id = i /\ DeploymentMessage(i).type = "deployment"
  BY DEF DeploymentMessage
<1>2. SyncedDoc(i) \in docs
  BY <1>1 DEF ReportsArrive, Arrived, MessageOf
<1>3. SyncedDoc(i).id = i /\ ~SyncedDoc(i).deleting /\ ~SyncedDoc(i).missing
  BY DEF SyncedDoc, PlaceholderDoc
<1> QED
  BY <1>2, <1>3 DEF Exists

(* The warden loop, begun when nothing is in flight, and the age gate      *)
(* spare what nobody asked to delete.                                      *)
LEMMA LoopSpares ==
    ASSUME GuardInv, Calm, NEW c \in Deployments \ deleted',
           \/ BeginDeploymentLoop /\ NothingInFlight
           \/ AgeGatePasses /\ NothingInFlight /\ api = Idle
           \/ LoopSteps
    PROVE  Kept(c)'
<1> USE DEF clientVars, loopVars, ghostVars, Creating, Moving, MessageOf, HandlerInfos
<1>a. Idle.at = "idle"
  BY DEF Idle
<1>f. UNCHANGED <<docs, engine, gap, msgs, api, created, deleted>> \/ \E i \in saving : SavePlaceholder(i)
  BY DEF BeginDeploymentLoop, AgeGatePasses, LoopSteps, CheckDeploymentWardenInfo, BeginInfoLoop,
         CheckWardenInfo, EndLoop
<1>g. UNCHANGED deleted
  BY <1>f DEF SavePlaceholder
<1>0. /\ TypeOK /\ GuardedWereCreated /\ Undisrupted /\ c \in Deployments \ deleted
      /\ CommandedOnce(c) /\ ReportsArrive(c) /\ GuardArrives(c)
      /\ CreationComesFirst(c) /\ NothingToRedeploy(c)
  BY <1>g DEF GuardInv, GuardCore, Calm, Kept
<1>1. ASSUME BeginDeploymentLoop, NothingInFlight PROVE Kept(c)'
  <2>1. /\ UNCHANGED <<docs, guards, infos, cmds, engine, msgs, api, handler, infoTodo, saving, created, deleted>>
        /\ guardTodo' = guards /\ handler = Idle /\ cmds = <<>> /\ msgs = <<>>
    BY <1>1 DEF BeginDeploymentLoop, NothingInFlight
  <2>2. ~Commanded(c)
    BY <2>1 DEF Commanded
  <2>3. CommandedOnce(c)' /\ (Commanded(c)' <=> Commanded(c)) /\ ReportsArrive(c)' /\ GuardArrives(c)'
    BY <1>0, <2>1 DEF CommandedOnce, Commanded, CommandOf, ReportsArrive, GuardArrives
  <2>4. CreationComesFirst(c)'
    BY <1>0, <2>1, <2>3 DEF CreationComesFirst
  <2>5. \A i \in guards : i.of = c => i \in engine /\ Arrived(c)
    BY <1>0, <1>a, <2>1, <2>2 DEF GuardArrives, GuardedWereCreated, Arrived
  <2>6. Arrived(c) => Arrived(c)'
    BY <2>1, <2>3 DEF Arrived
  <2>7. NothingToRedeploy(c)'
    BY <1>0, <2>1, <2>5, <2>6 DEF NothingToRedeploy
  <2> QED
    BY <2>3, <2>4, <2>7 DEF Kept
<1>2. ASSUME AgeGatePasses, NothingInFlight, api = Idle PROVE Kept(c)'
  <2>1. /\ UNCHANGED <<docs, guards, cmds, engine, msgs, api, guardTodo, saving, created, deleted>>
        /\ infos' = Older(infos) /\ infoTodo' = Older(infoTodo)
        /\ handler = Idle /\ handler' = Idle /\ cmds = <<>> /\ msgs = <<>>
    BY <1>2, <1>a DEF AgeGatePasses, NothingInFlight
  <2>2. ~Commanded(c)
    BY <2>1 DEF Commanded
  <2>3. CommandedOnce(c)' /\ (Commanded(c)' <=> Commanded(c)) /\ ReportsArrive(c)' /\ GuardArrives(c)'
    BY <1>0, <2>1 DEF CommandedOnce, Commanded, CommandOf, ReportsArrive, GuardArrives
  <2>4. \A x \in infos' \cup infoTodo' : \E y \in infos \cup infoTodo : x.id = y.id
    <3>1. \A y \in infos \cup infoTodo : [y EXCEPT !.young = FALSE].id = y.id
      BY <1>0 DEF TypeOK, Info
    <3> QED
      BY <2>1, <3>1 DEF Older
  <2>5. CreationComesFirst(c)'
    BY <1>0, <1>a, <2>1, <2>3, <2>4 DEF CreationComesFirst
  <2>6. (\E x \in infos \cup infoTodo : x.id.of = c) => Arrived(c)
    BY <1>0, <1>a, <2>1, <2>2 DEF CreationComesFirst, Arrived
  <2>7. Arrived(c) => Arrived(c)'
    BY <2>1, <2>3 DEF Arrived
  <2>8. NothingToRedeploy(c)'
    BY <1>0, <1>a, <2>1, <2>4, <2>6, <2>7 DEF NothingToRedeploy
  <2> QED
    BY <2>3, <2>5, <2>8 DEF Kept
<1>3. ASSUME NEW i \in guardTodo, CheckDeploymentWardenInfo(i) PROVE Kept(c)'
  <2>1. /\ i \in Ids /\ guardTodo' \subseteq guardTodo
        /\ UNCHANGED <<docs, infos, engine, msgs, api, handler, infoTodo, created, deleted>>
    BY <1>0, <1>3 DEF CheckDeploymentWardenInfo, TypeOK
  <2>2. i.of = c => Exists(i)
    BY <1>0, <1>3, ArrivedExists DEF NothingToRedeploy
  <2>3. /\ guards' \subseteq guards
        /\ CommandedOnce(c)' /\ (Commanded(c)' <=> Commanded(c)) /\ \A j \in saving' : j.of # c
    <3>1. CASE RedeploySends(i) /\ UNCHANGED guards
      <4>1. i.of # c
        BY <2>2, <3>1 DEF RedeploySends
      <4> QED
        BY <1>0, <2>1, <3>1, <4>1, RedeploySpares
    <3>2. CASE UNCHANGED <<cmds, saving>> /\ (UNCHANGED guards \/ RedeployForgets(i))
      BY <1>0, <2>1, <3>2 DEF RedeployForgets, CommandedOnce, Commanded, CommandOf, NothingToRedeploy
    <3> QED
      BY <1>3, <3>1, <3>2 DEF CheckDeploymentWardenInfo
  <2>4. ReportsArrive(c)' /\ GuardArrives(c)'
    BY <1>0, <2>1, <2>3 DEF ReportsArrive, GuardArrives
  <2>5. CreationComesFirst(c)'
    BY <1>0, <2>1, <2>3 DEF CreationComesFirst
  <2>6. Arrived(c) => Arrived(c)'
    BY <2>1, <2>3 DEF Arrived
  <2>7. NothingToRedeploy(c)'
    BY <1>0, <2>1, <2>3, <2>6 DEF NothingToRedeploy
  <2> QED
    BY <2>3, <2>4, <2>5, <2>7 DEF Kept
<1>4. ASSUME NEW i \in saving, SavePlaceholder(i) PROVE Kept(c)'
  <2>1. /\ i \in Ids /\ i.of # c /\ saving' = {}
        /\ UNCHANGED <<guards, infos, cmds, engine, msgs, api, handler, guardTodo, infoTodo, created, deleted>>
    BY <1>0, <1>4 DEF SavePlaceholder, TypeOK, NothingToRedeploy
  <2>2. /\ \A d \in docs' : d.id.of = c => d \in docs
        /\ \A d \in docs : d.id.of = c => d \in docs'
    BY <1>4, <2>1, DocMarks DEF SavePlaceholder, Save
  <2>3. \A j \in engine : j.of = c /\ SyncedDoc(j) \in docs => SyncedDoc(j) \in docs'
    BY <1>0, <2>2, DocMarks DEF TypeOK
  <2>4. CommandedOnce(c)' /\ (Commanded(c)' <=> Commanded(c)) /\ GuardArrives(c)'
    BY <1>0, <2>1 DEF CommandedOnce, Commanded, CommandOf, GuardArrives
  <2>5. ReportsArrive(c)' /\ CreationComesFirst(c)'
    BY <1>0, <2>1, <2>2, <2>3, <2>4 DEF ReportsArrive, CreationComesFirst
  <2>6. NothingToRedeploy(c)'
    BY <1>0, <2>1, <2>4 DEF NothingToRedeploy, Arrived
  <2> QED
    BY <2>4, <2>5, <2>6 DEF Kept
<1>5. ASSUME BeginInfoLoop \/ EndLoop PROVE Kept(c)'
  <2>1. /\ infoTodo' \in {infos, infoTodo}
        /\ UNCHANGED <<docs, guards, infos, cmds, engine, msgs, api, handler, guardTodo, saving, created, deleted>>
    BY <1>5 DEF BeginInfoLoop, EndLoop
  <2>2. CommandedOnce(c)' /\ (Commanded(c)' <=> Commanded(c)) /\ ReportsArrive(c)' /\ GuardArrives(c)'
    BY <1>0, <2>1 DEF CommandedOnce, Commanded, CommandOf, ReportsArrive, GuardArrives
  <2>3. CreationComesFirst(c)' /\ NothingToRedeploy(c)'
    BY <1>0, <2>1, <2>2 DEF CreationComesFirst, NothingToRedeploy, Arrived
  <2> QED
    BY <2>2, <2>3 DEF Kept
<1>6. ASSUME NEW x \in infoTodo, CheckWardenInfo(x) PROVE Kept(c)'
  <2>1. /\ x \in Info /\ x.id \in Ids /\ infoTodo' \subseteq infoTodo
        /\ UNCHANGED <<docs, engine, msgs, api, handler, guardTodo, created, deleted>>
    BY <1>0, <1>6 DEF CheckWardenInfo, TypeOK, Info
  <2>2. x.id.of = c /\ ~x.young /\ x.id \in guards => Exists(x.id)
    <3>1. SUFFICES ASSUME x.id.of = c, ~x.young, x.id \in guards PROVE Exists(x.id)
      OBVIOUS
    <3>2. Arrived(c)
      BY <1>0, <3>1 DEF NothingToRedeploy
    <3>3. x.id \in engine
      BY <1>0, <3>1, <3>2 DEF GuardArrives, Arrived
    <3> QED
      BY <1>0, <3>1, <3>2, <3>3, ArrivedExists
  <2>3. /\ guards' \subseteq guards /\ infos' \subseteq infos
        /\ CommandedOnce(c)' /\ (Commanded(c)' <=> Commanded(c)) /\ \A j \in saving' : j.of # c
    <3>1. CASE InfoRedeploys(x)
      <4>1. x.id.of # c
        BY <2>2, <3>1 DEF InfoRedeploys, RedeploySends
      <4> QED
        BY <1>0, <2>1, <3>1, <4>1, RedeploySpares DEF InfoRedeploys
    <3>2. CASE InfoNeedsNoDeployment(x) \/ InfoIsFinal(x)
      <4>1. UNCHANGED <<cmds, saving>> /\ guards' \subseteq guards /\ infos' \subseteq infos
        BY <3>2 DEF InfoNeedsNoDeployment, InfoIsFinal, RedeployForgets, DropInfo
      <4> QED
        BY <1>0, <2>1, <4>1 DEF CommandedOnce, Commanded, CommandOf, NothingToRedeploy
    <3> QED
      BY <1>6, <3>1, <3>2 DEF CheckWardenInfo
  <2>4. ReportsArrive(c)' /\ GuardArrives(c)'
    BY <1>0, <2>1, <2>3 DEF ReportsArrive, GuardArrives
  <2>5. CreationComesFirst(c)'
    BY <1>0, <2>1, <2>3 DEF CreationComesFirst
  <2>6. Arrived(c) => Arrived(c)'
    BY <2>1, <2>3 DEF Arrived
  <2>7. NothingToRedeploy(c)'
    BY <1>0, <2>1, <2>3, <2>6 DEF NothingToRedeploy
  <2> QED
    BY <2>3, <2>4, <2>5, <2>7 DEF Kept
<1> QED
  BY <1>1, <1>2, <1>3, <1>4, <1>5, <1>6 DEF LoopSteps

(* What is in the queue after the client reported two messages, or one.    *)
LEMMA ReportedTwo ==
    ASSUME msgs \in Seq(Message), NEW a \in Message, NEW b \in Message, Report(<<a, b>>)
    PROVE  /\ \A n \in DOMAIN msgs : n \in DOMAIN msgs' /\ msgs'[n] = msgs[n]
           /\ \A n \in DOMAIN msgs' : n \in DOMAIN msgs \/ msgs'[n] \in {a, b}
           /\ \A m \in {a, b} : \E n \in DOMAIN msgs' : msgs'[n] = m
<1> DEFINE s == <<a, b>>
<1>1. s \in Seq(Message) /\ Report(s)
  OBVIOUS
<1>2. DOMAIN s = {1, 2} /\ s[1] = a /\ s[2] = b
  OBVIOUS
<1> HIDE DEF s
<1>3. \A n \in DOMAIN msgs : n \in DOMAIN msgs' /\ msgs'[n] = msgs[n]
  BY <1>1, ReportedQueue
<1>4. ASSUME NEW n \in DOMAIN msgs', n \notin DOMAIN msgs PROVE msgs'[n] \in {a, b}
  <2>1. PICK k \in DOMAIN s : n = Len(msgs) + k
    BY <1>1, <1>4, ReportedQueue
  <2>2. msgs'[n] = s[k]
    BY <1>1, <2>1, ReportedQueue
  <2> QED
    BY <1>2, <2>1, <2>2
<1>5. \A k \in {1, 2} : Len(msgs) + k \in DOMAIN msgs' /\ msgs'[Len(msgs) + k] = s[k]
  BY <1>1, <1>2, ReportedQueue
<1> QED
  BY <1>2, <1>3, <1>4, <1>5

LEMMA ReportedOne ==
    ASSUME msgs \in Seq(Message), NEW a \in Message, Report(<<a>>)
    PROVE  /\ \A n \in DOMAIN msgs : n \in DOMAIN msgs' /\ msgs'[n] = msgs[n]
           /\ \A n \in DOMAIN msgs' : n \in DOMAIN msgs \/ msgs'[n] = a
<1> DEFINE s == <<a>>
<1>1. s \in Seq(Message) /\ Report(s)
  OBVIOUS
<1>2. DOMAIN s = {1} /\ s[1] = a
  OBVIOUS
<1> HIDE DEF s
<1> QED
  BY <1>1, <1>2, ReportedQueue

(* The client, between two requests and two saves of the loop, deploys     *)
(* under one id what nobody asked to delete, and keeps it.                 *)
LEMMA ClientSpares ==
    ASSUME GuardInv, Calm, NEW c \in Deployments \ deleted', ClientObeys, api = Idle
    PROVE  Kept(c)'
<1> USE DEF clientVars, loopVars, ghostVars, Creating, Moving, MessageOf, HandlerInfos
<1>a. Idle.at = "idle"
  BY DEF Idle
<1>f. /\ cmds \in Seq(Command) /\ cmds # <<>> /\ cmds' = Tail(cmds)
      /\ UNCHANGED <<docs, guards, infos, api, handler, guardTodo, infoTodo, saving, created, deleted>>
  BY DEF ClientObeys, ClientDeploys, ClientDeletes, GuardInv, TypeOK
<1>0. /\ TypeOK /\ Undisrupted /\ c \in Deployments \ deleted
      /\ CommandedOnce(c) /\ ReportsArrive(c) /\ GuardArrives(c)
      /\ CreationComesFirst(c) /\ NothingToRedeploy(c)
  BY <1>f DEF GuardInv, Calm, Kept
<1>1. ASSUME ClientDeploys PROVE Kept(c)'
  <2>1. Head(cmds).id \in Ids
    BY <1>f, ObeyType
  <2>2. PICK i \in Ids, a \in Message, b \in Message :
           /\ IsNext(i, Head(cmds).id.of) /\ engine' = engine \cup {i}
           /\ Report(<<a, b>>)
           /\ {a, b} = {DeploymentMessage(i), MetadataMessage(i, Head(cmds).id)}
    <3>1. PICK i \in Ids, order \in ReportOrders :
             /\ IsNext(i, Head(cmds).id.of) /\ engine' = engine \cup {i}
             /\ Report(IF order = "deployment first"
                       THEN <<DeploymentMessage(i), MetadataMessage(i, Head(cmds).id)>>
                       ELSE <<MetadataMessage(i, Head(cmds).id), DeploymentMessage(i)>>)
      BY <1>1 DEF ClientDeploys
    <3>2. DeploymentMessage(i) \in Message /\ MetadataMessage(i, Head(cmds).id) \in Message
      BY <2>1, ReportedTypes
    <3> QED
      BY <3>1, <3>2
  <2>3. i.of = Head(cmds).id.of
    BY <2>2 DEF IsNext
  <2>5. /\ \A n \in DOMAIN msgs : n \in DOMAIN msgs' /\ msgs'[n] = msgs[n]
        /\ \A n \in DOMAIN msgs' : n \in DOMAIN msgs \/ msgs'[n] \in {a, b}
        /\ \A m \in {a, b} : \E n \in DOMAIN msgs' : msgs'[n] = m
    BY <1>0, <2>2, ReportedTwo DEF TypeOK
  <2>6. /\ DeploymentMessage(i).id = i /\ DeploymentMessage(i).type = "deployment"
        /\ MetadataMessage(i, Head(cmds).id).id = i
        /\ MetadataMessage(i, Head(cmds).id).type = "metadata"
        /\ MetadataMessage(i, Head(cmds).id).model = Head(cmds).id
    BY DEF DeploymentMessage, MetadataMessage
  <2>7. CASE Head(cmds).id.of = c
    <3>1. Commanded(c) /\ Head(cmds) = DeployCommand(PlatformId(c)) /\ ~Commanded(c)'
      BY <1>0, <1>f, <2>7, ObeyedQueue, ObeyedElsewhere DEF Commanded, CommandOf, CommandedOnce
    <3>2. Head(cmds).id = PlatformId(c)
      BY <3>1 DEF DeployCommand
    <3>3. \A j \in engine : j.of # c
      BY <1>0, <3>1 DEF CommandedOnce
    <3>4. CommandedOnce(c)'
      BY <2>2, <3>1, <3>3 DEF CommandedOnce, Commanded
    <3>5. ReportsArrive(c)'
      BY <1>0, <1>f, <2>2, <2>5, <2>6, <3>2, <3>3 DEF ReportsArrive
    <3>6. \E n \in DOMAIN msgs' : MessageOf(n, c)' /\ msgs'[n].type = "metadata"
      BY <2>2, <2>3, <2>5, <2>6, <2>7
    <3>7. GuardArrives(c)'
      BY <1>0, <1>f, <2>2, <3>6 DEF GuardArrives
    <3>8. c \in created /\ ~Arrived(c)
      BY <1>0, <1>a, <3>1 DEF CreationComesFirst, Arrived
    <3>9. CreationComesFirst(c)'
      BY <1>0, <1>a, <1>f, <3>8 DEF CreationComesFirst
    <3>10. NothingToRedeploy(c)'
      BY <1>0, <1>f, <3>8 DEF NothingToRedeploy
    <3> QED
      BY <3>4, <3>5, <3>7, <3>9, <3>10 DEF Kept
  <2>8. CASE Head(cmds).id.of # c
    <3>1. \A j : j.of = c => (j \in engine' <=> j \in engine)
      BY <2>2, <2>3, <2>8
    <3>2. CommandedOnce(c)' /\ (Commanded(c)' <=> Commanded(c))
      BY <1>0, <1>f, <2>8, <3>1, ObeyedElsewhere
    <3>3. \A n \in DOMAIN msgs' : msgs'[n].id.of = c => n \in DOMAIN msgs
      BY <2>2, <2>3, <2>5, <2>6, <2>8
    <3>4. ReportsArrive(c)' /\ GuardArrives(c)'
      BY <1>0, <1>f, <2>5, <3>1, <3>2, <3>3 DEF ReportsArrive, GuardArrives
    <3>5. Arrived(c) => Arrived(c)'
      BY <1>f, <2>5, <3>2, <3>3 DEF Arrived
    <3>6. CreationComesFirst(c)' /\ NothingToRedeploy(c)'
      BY <1>0, <1>f, <3>1, <3>2, <3>5 DEF CreationComesFirst, NothingToRedeploy
    <3> QED
      BY <3>2, <3>4, <3>6 DEF Kept
  <2> QED
    BY <2>7, <2>8
<1>2. ASSUME ClientDeletes PROVE Kept(c)'
  <2>1. /\ Head(cmds).type = "delete" /\ Head(cmds).id \in Ids
        /\ engine' = engine \ {Head(cmds).id}
        /\ UNCHANGED msgs \/ Report(<<DeleteMessage(Head(cmds).id)>>)
    BY <1>2, <1>f, ObeyType DEF ClientDeletes
  <2>2. Head(cmds).id.of # c
    BY <1>0, <1>f, <2>1, ObeyedQueue DEF CommandedOnce, CommandOf, DeployCommand
  <2>3. \A j : j.of = c => (j \in engine' <=> j \in engine)
    BY <2>1, <2>2
  <2>4. CommandedOnce(c)' /\ (Commanded(c)' <=> Commanded(c))
    BY <1>0, <1>f, <2>2, <2>3, ObeyedElsewhere
  <2>5. /\ \A n \in DOMAIN msgs : n \in DOMAIN msgs' /\ msgs'[n] = msgs[n]
        /\ \A n \in DOMAIN msgs' : n \in DOMAIN msgs \/ msgs'[n] = DeleteMessage(Head(cmds).id)
    <3>1. CASE UNCHANGED msgs
      BY <3>1
    <3>2. CASE Report(<<DeleteMessage(Head(cmds).id)>>)
      BY <1>0, <2>1, <3>2, ReportedOne, ReportedTypes DEF TypeOK
    <3> QED
      BY <2>1, <3>1, <3>2
  <2>6. \A n \in DOMAIN msgs' : msgs'[n].id.of = c => n \in DOMAIN msgs
    BY <2>2, <2>5 DEF DeleteMessage
  <2>7. ReportsArrive(c)' /\ GuardArrives(c)'
    BY <1>0, <1>f, <2>3, <2>4, <2>5, <2>6 DEF ReportsArrive, GuardArrives
  <2>8. Arrived(c) => Arrived(c)'
    BY <1>f, <2>4, <2>5, <2>6 DEF Arrived
  <2>9. CreationComesFirst(c)' /\ NothingToRedeploy(c)'
    BY <1>0, <1>f, <2>3, <2>4, <2>8 DEF CreationComesFirst, NothingToRedeploy
  <2> QED
    BY <2>4, <2>7, <2>9 DEF Kept
<1> QED
  BY <1>1, <1>2 DEF ClientObeys

(* None of these steps brings a full report or mixes two deployments up.   *)
LEMMA StaysUndisrupted ==
    ASSUME GuardInv, Undisrupted,
           \/ Requests \/ ApiSteps \/ Handlers \/ LoopSteps \/ ClientObeys
           \/ BeginDeploymentLoop
           \/ AgeGatePasses /\ handler = Idle
    PROVE  Undisrupted'
<1> USE DEF clientVars, loopVars, ghostVars
<1>a. Idle.at = "idle"
  BY DEF Idle
<1>0. TypeOK /\ MoveIsSafe /\ msgs \in Seq(MovingMessage)
  BY DEF GuardInv, GuardCore
<1>1. CASE Requests \/ ApiSteps
  <2>1. metadata' \subseteq metadata /\ UNCHANGED <<gap, handler, msgs>>
    BY <1>1 DEF Requests, ApiSteps, CreateSends, CreateSaves, CreateGuards, DeleteRemovesInfos,
                DeleteRemovesGuard, DeleteReads, DeleteWrites, StartGuards, StartReads, SyncLists,
                SyncDeployment, SyncEnds, deleteDeployment, Without
  <2> QED
    BY <2>1 DEF Undisrupted
<1>2. CASE LoopSteps \/ BeginDeploymentLoop
  <2>1. metadata' \subseteq metadata /\ UNCHANGED <<gap, handler, msgs>>
    BY <1>2 DEF LoopSteps, BeginDeploymentLoop, CheckDeploymentWardenInfo, RedeploySends,
                RedeployForgets, SavePlaceholder, BeginInfoLoop, CheckWardenInfo,
                InfoNeedsNoDeployment, InfoRedeploys, InfoIsFinal, EndLoop, Without
  <2> QED
    BY <2>1 DEF Undisrupted
<1>3. CASE AgeGatePasses /\ handler = Idle
  BY <1>3, <1>a DEF AgeGatePasses, Undisrupted
<1>4. CASE ClientObeys
  <2>1. /\ UNCHANGED <<gap, metadata, handler>> /\ cmds # <<>>
        /\ \/ \E i \in Ids, order \in ReportOrders :
                  Report(IF order = "deployment first"
                         THEN <<DeploymentMessage(i), MetadataMessage(i, Head(cmds).id)>>
                         ELSE <<MetadataMessage(i, Head(cmds).id), DeploymentMessage(i)>>)
           \/ Report(<<DeleteMessage(Head(cmds).id)>>)
           \/ UNCHANGED msgs
    BY <1>4 DEF ClientObeys, ClientDeploys, ClientDeletes
  <2>2. Head(cmds).id \in Ids
    BY <1>0, <2>1, ObeyType DEF TypeOK
  <2>3. \A i : /\ DeploymentMessage(i).type = "deployment" /\ DeleteMessage(i).type = "delete"
               /\ \A j : MetadataMessage(i, j).type = "metadata"
    BY DEF DeploymentMessage, DeleteMessage, MetadataMessage
  <2>4. \A n \in DOMAIN msgs' : msgs'[n].type # "known"
    <3>1. CASE UNCHANGED msgs
      BY <3>1 DEF Undisrupted
    <3>2. CASE Report(<<DeleteMessage(Head(cmds).id)>>)
      BY <1>0, <2>2, <2>3, <3>2, ReportedOne, ReportedTypes DEF TypeOK, Undisrupted
    <3>3. ASSUME NEW i \in Ids, Report(<<DeploymentMessage(i), MetadataMessage(i, Head(cmds).id)>>)
          PROVE  \A n \in DOMAIN msgs' : msgs'[n].type # "known"
      BY <1>0, <2>2, <2>3, <3>3, ReportedTwo, ReportedTypes DEF TypeOK, Undisrupted
    <3>4. ASSUME NEW i \in Ids, Report(<<MetadataMessage(i, Head(cmds).id), DeploymentMessage(i)>>)
          PROVE  \A n \in DOMAIN msgs' : msgs'[n].type # "known"
      BY <1>0, <2>2, <2>3, <3>4, ReportedTwo, ReportedTypes DEF TypeOK, Undisrupted
    <3> QED
      BY <2>1, <3>1, <3>2, <3>3, <3>4
  <2> QED
    BY <2>1, <2>4 DEF Undisrupted
<1>5. CASE Handlers
  <2>0. UNCHANGED gap
    BY <1>5, HandlersFrame
  <2>1. ASSUME NEW type, Receive(type)
        PROVE  /\ \A n \in DOMAIN msgs' : msgs'[n].type # "known"
               /\ type # "known" /\ handler = Idle
               /\ Head(msgs) \in MovingMessage /\ Head(msgs).type = type
    <3>1. \E n \in DOMAIN msgs : msgs[n] = Head(msgs)
      BY <1>0, <2>1, ReceivedQueue DEF TypeOK
    <3>2. Head(msgs) \in MovingMessage
      BY <1>0, <2>1 DEF Receive
    <3> QED
      BY <1>0, <2>1, <3>1, <3>2, MessagesStay DEF TypeOK, Undisrupted, Receive
  <2>2. CASE UpdateDeployment \/ DeleteDeployment
    <3>1. /\ \A n \in DOMAIN msgs' : msgs'[n].type # "known"
          /\ metadata' \subseteq metadata
          /\ handler' = handler \/ handler'.at = "mark"
      BY <2>1, <2>2 DEF UpdateDeployment, DeleteDeployment, deleteDeployment, Without
    <3> QED
      BY <2>0, <3>1 DEF Undisrupted
  <2>3. CASE SaveMissing \/ ListUnknownDeployments \/ DeleteUnknownDeployments
    <3>1. SaveMissing
      BY <2>1, <2>3 DEF ListUnknownDeployments, DeleteUnknownDeployments, Undisrupted
    <3> QED
      BY <2>0, <3>1, <1>a DEF SaveMissing, Undisrupted
  <2>4. CASE UpdateDeploymentMetadata
    <3> DEFINE h == Head(msgs)
    <3>1. /\ \A n \in DOMAIN msgs' : msgs'[n].type # "known"
          /\ Moves(h.model, h.id)
          /\ metadata' = Save(metadata, [id |-> h.id, model |-> h.model])
          /\ handler' = [at |-> IF h.model \in guards THEN "set" ELSE "find", old |-> h.model, new |-> h.id]
      BY <2>1, <2>4 DEF UpdateDeploymentMetadata, MovingMessage
    <3> HIDE DEF h
    <3>2. handler'.at \in {"set", "find"} /\ handler'.old = h.model /\ handler'.new = h.id
      BY <3>1
    <3>3. \A m \in metadata' : m \in metadata \/ (m.id = h.id /\ m.model = h.model)
      BY <3>1 DEF Save
    <3> QED
      BY <2>0, <3>1, <3>2, <3>3 DEF Undisrupted, Moves
  <2>5. CASE SetNewGuard \/ RemoveOldGuard
    <3>1. /\ UNCHANGED <<metadata, msgs>> /\ handler.at \in {"set", "remove"}
          /\ \E at \in {"remove", "find"} : handler' = [at |-> at, old |-> handler.old, new |-> handler.new]
      BY <1>0, <2>5, HandlerFields DEF SetNewGuard, RemoveOldGuard, TypeOK
    <3>2. /\ handler'.at \in {"remove", "find"}
          /\ handler'.old = handler.old /\ handler'.new = handler.new
      BY <3>1
    <3> QED
      BY <1>0, <2>0, <3>1, <3>2 DEF Undisrupted, MoveIsSafe, Moves
  <2>6. CASE FindOldInfos
    <3>1. /\ UNCHANGED <<metadata, msgs>> /\ handler.at = "find"
          /\ handler' = [at |-> "rewrite", new |-> handler.new,
                         infos |-> {x \in infos : x.id = handler.old}]
      BY <2>6 DEF FindOldInfos
    <3> QED
      BY <2>0, <3>1 DEF Undisrupted
  <2>7. CASE RewriteInfos
    BY <2>0, <2>7, <1>a DEF RewriteInfos, Undisrupted
  <2> QED
    BY <1>5, <2>2, <2>3, <2>4, <2>5, <2>6, <2>7 DEF Handlers
<1> QED
  BY <1>1, <1>2, <1>3, <1>4, <1>5

(* A step that changes nothing changes nothing for c.                      *)
LEMMA Unmoved ==
    ASSUME Calm, UNCHANGED vars
    PROVE  Calm'
BY DEF Calm, Undisrupted, Kept, CommandedOnce, ReportsArrive, GuardArrives, CreationComesFirst,
       NothingToRedeploy, Arrived, Creating, Moving, MessageOf, HandlerInfos, Commanded, CommandOf,
       vars, clientVars, loopVars, ghostVars

(* No step ends the calm but a disturbance, which is counted.              *)
LEMMA NextCalmInv ==
    ASSUME Prompt = TRUE, Overlap = FALSE, CalmInv, [MCNext]_mcVars
    PROVE  CalmInv'
<1>1. [Next]_vars
  BY DEF MCNext, MCRequest, MCDisturbance, MCBeginLoop, MCAge, MCClient, Undisturbed, mcVars, Next
<1>2. GuardInv'
  BY <1>1, NextGuardInv DEF CalmInv
<1>3. CASE MCDisturbance
  <2>1. disturbances' = disturbances + 1
    BY <1>3 DEF MCDisturbance
  <2> QED
    BY <1>2, <2>1 DEF CalmInv
<1>4. CASE ~MCDisturbance
  <2>1. UNCHANGED disturbances
    BY <1>4 DEF MCNext, MCRequest, MCBeginLoop, MCAge, MCClient, Undisturbed, mcVars
  <2>2. SUFFICES ASSUME disturbances = 0 PROVE Calm'
    BY <1>2, <2>1 DEF CalmInv
  <2>3. GuardInv /\ Calm /\ Undisrupted
    BY <2>2 DEF CalmInv, Calm
  <2>4. CASE Requests \/ ApiSteps
    BY <2>3, <2>4, ApiSpares, StaysUndisrupted DEF Calm
  <2>5. CASE Handlers
    BY <2>3, <2>5, HandlersSpare, StaysUndisrupted DEF Calm
  <2>6. CASE LoopSteps \/ (BeginDeploymentLoop /\ NothingInFlight)
    BY <2>3, <2>6, LoopSpares, StaysUndisrupted DEF Calm
  <2>7. CASE AgeGatePasses /\ NothingInFlight /\ api = Idle
    BY <2>3, <2>7, LoopSpares, StaysUndisrupted DEF Calm, NothingInFlight
  <2>8. CASE ClientObeys /\ api = Idle
    BY <2>3, <2>8, ClientSpares, StaysUndisrupted DEF Calm
  <2>9. ~ClientReconnects
    BY <2>3 DEF ClientReconnects, Undisrupted
  <2>10. CASE UNCHANGED vars
    BY <2>3, <2>10, Unmoved
  <2>11. \/ Requests \/ ApiSteps \/ Handlers \/ LoopSteps
         \/ BeginDeploymentLoop /\ NothingInFlight
         \/ AgeGatePasses /\ NothingInFlight /\ api = Idle
         \/ ClientObeys /\ api = Idle
         \/ UNCHANGED vars
    BY <1>4, <2>9 DEF MCNext, MCRequest, MCBeginLoop, MCAge, MCClient, Settled, Undisturbed, mcVars
  <2> QED
    BY <2>4, <2>5, <2>6, <2>7, <2>8, <2>10, <2>11
<1> QED
  BY <1>3, <1>4

LEMMA InitCalmInv == MCInit => CalmInv
<1> SUFFICES ASSUME MCInit PROVE CalmInv
  OBVIOUS
<1>1. GuardInv
  BY InitTypeOK, InitGuardCore DEF GuardInv, MCInit
<1>2. Undisrupted
  BY DEF MCInit, Init, Idle, Undisrupted
<1>3. \A c \in Deployments : Kept(c)
  BY DEF MCInit, Init, Idle, Kept, CommandedOnce, ReportsArrive, GuardArrives, CreationComesFirst,
         NothingToRedeploy, Arrived, Creating, Moving, MessageOf, HandlerInfos, Commanded, CommandOf
<1> QED
  BY <1>1, <1>2, <1>3 DEF CalmInv, Calm, MCInit

(* While nothing is lost, reset or restarted, the client holds a created   *)
(* deployment once until a user asks to delete it, if the loops begin only *)
(* when nothing is in flight and the client and the channels leave a       *)
(* command and its placeholder together.                                   *)
THEOREM OnceAtClient ==
    ASSUME Prompt = TRUE, Overlap = FALSE
    PROVE  MCSpec => []DeployedOnce
<1>1. CalmInv => DeployedOnce
  <2> SUFFICES ASSUME CalmInv, disturbances = 0, NEW c \in created \ deleted
               PROVE  Cardinality({i \in engine : i.of = c}) <= 1
    BY DEF DeployedOnce
  <2> DEFINE S == {i \in engine : i.of = c}
  <2>1. c \in Deployments
    BY DEF CalmInv, GuardInv, TypeOK
  <2>2. \A i, j \in S : i = j
    BY <2>1 DEF CalmInv, Calm, Kept, CommandedOnce
  <2>3. CASE S = {}
    BY <2>3, FS_EmptySet
  <2>4. ASSUME NEW i \in S PROVE Cardinality(S) <= 1
    <3>1. S = {i}
      BY <2>2
    <3> HIDE DEF S
    <3>2. Cardinality({i}) = 1
      BY FS_Singleton
    <3>3. Cardinality(S) = 1
      BY <3>1, <3>2
    <3> QED
      BY <3>3
  <2> QED
    BY <2>3, <2>4
<1>2. MCInit => CalmInv
  BY InitCalmInv
<1>3. CalmInv /\ [MCNext]_mcVars => CalmInv'
  BY NextCalmInv
<1> QED
  BY <1>1, <1>2, <1>3, PTL DEF MCSpec
=============================================================================
