------------------------------- MODULE Lists -------------------------------
(***************************************************************************)
(* How process-sync reads its collections. Whoever needs all documents of  *)
(* one reads it page by page, by limit and offset, while others write: the *)
(* three loops of the warden (pkg/warden), ApiSyncDeployments, and users   *)
(* of the REST API, who ask for each page and for whom each page begins    *)
(* with a check of their rights. What is done to a document is the subject *)
(* of the other modules; here a document is its network and its id.        *)
(*                                                                         *)
(* MongoDB, permissions-v2, the device repository and the users are        *)
(* external. A user who pages on asks for the page after the last full one.*)
(***************************************************************************)
EXTENDS Naturals, SequencesExt

CONSTANTS
    Networks,
    Documents,  \* documents that may be in the collection, [of, id]
    Matching,   \* documents a search finds
    BatchSize,  \* documents of a page: 100, 1000 or what the user asks for
    ConstructionSvg,  \* the diagram of what is under construction
    UserQueries,      \* the lists users ask for
    Nothing

ASSUME DocumentsAssumption == Documents \subseteq [of : Networks, id : Nat] /\ IsFiniteSet(Documents)
ASSUME ConstructionAssumption == ConstructionSvg \notin Documents \cup {Nothing}
ASSUME NothingAssumption == Nothing \notin Documents
ASSUME BatchSizeAssumption == BatchSize \in Nat \ {0}

(* What the endpoints take: networks, a search or filter, an order, and    *)
(* the length of a page, where 0 is no limit. Sorting by a name or time is *)
(* not sorting by id, and "other" is a name the code does not know.        *)
Lists(collection, networks, searches, limits) ==
    [collection : {collection}, networks : networks, search : searches,
     by : {"id", "name", "time", "other"}, direction : {"asc", "desc"}, limit : limits]

SomeNetworkIds == SUBSET Networks \ {{}}
OneNetworkId == {{n} : n \in Networks}

DeploymentEndpoints == Lists("deployments", SomeNetworkIds, BOOLEAN, {0, BatchSize})
HistoryEndpoints == Lists("histories", SomeNetworkIds, BOOLEAN, {0, BatchSize})
IncidentEndpoints == Lists("incidents", SomeNetworkIds, BOOLEAN, {0, BatchSize})
ProcessInstanceEndpoints == Lists("instances", SomeNetworkIds, {FALSE}, {0, BatchSize})
ProcessDefinitionEndpoints == Lists("definitions", SomeNetworkIds, {FALSE}, {0, BatchSize})
MetadataEndpoints == Lists("metadata", OneNetworkId, BOOLEAN, {0})

ASSUME UserQueriesAssumption ==
    UserQueries \subseteq
        UNION {DeploymentEndpoints, HistoryEndpoints, IncidentEndpoints, ProcessInstanceEndpoints,
               ProcessDefinitionEndpoints, MetadataEndpoints}

VARIABLES
    kind,      \* who reads: never changes
    docs,      \* external: the documents in the collection
    allowed,   \* external: networks the user has the right for
    admin,     \* the user's token has the role admin
    reader,    \* the loop, request or series of requests
    answer,    \* the answer a user just got
    \* history, of a pass
    seen,      \* document |-> how many pages it was on
    inserted,
    removed,   \* documents removed from the pages that were read
    checked    \* networks the user had the right for at the last check

history == <<seen, inserted, removed, checked>>
vars == <<kind, docs, allowed, admin, reader, answer, history>>

Loops == {"infos", "guards", "instances"}
Kinds == Loops \cup {"sync", "user"}

Collections == {"infos", "guards", "instances", "deployments", "histories", "incidents", "definitions", "metadata"}

Readers ==
    [pc : {"idle", "check", "clear", "page", "visit", "end"},
     collection : Collections, networks : SUBSET Networks, search : BOOLEAN,
     sort : {"asc", "desc", "none"}, limit : {0, BatchSize}, offset : Nat, batch : Seq(Documents), full : BOOLEAN]

Elements ==
    [doc : Documents, definition : Documents \cup {Nothing},
     diagram : Documents \cup {Nothing, ConstructionSvg}, error : Networks \cup {Nothing}]

Idle == [pc |-> "idle", collection |-> "deployments", networks |-> {}, search |-> FALSE, sort |-> "none",
         limit |-> 0, offset |-> 0, batch |-> <<>>, full |-> FALSE]

NoneSeen == [d \in Documents |-> 0]

NoAnswer == [networks |-> {}, elements |-> {}]

Init ==
    /\ kind \in Kinds
    /\ docs \in SUBSET Documents
    /\ allowed \in SUBSET Networks
    /\ admin \in BOOLEAN
    /\ kind \in Loops => ~admin
    /\ kind \in Loops \/ admin => allowed = {}
    /\ reader = Idle
    /\ answer = NoAnswer
    /\ seen = NoneSeen
    /\ inserted = {} /\ removed = {} /\ checked = {}

(* An answer is gone with the next step.                                   *)
Delivered == answer' = NoAnswer

-----------------------------------------------------------------------------
(* The collection.                                                         *)

(* Whether d may come before e in a result sorted by s.                    *)
MayPrecede(d, e, s) ==
    CASE s = "asc" -> d.id <= e.id
      [] s = "desc" -> d.id >= e.id
      [] s = "none" -> TRUE

(* The results of Find without limit and offset: any order that agrees     *)
(* with the sorted field, each time anew.                                  *)
Found(D, s) ==
    {q \in SetToSeqs(D) : \A i, j \in DOMAIN q : i < j => MayPrecede(q[i], q[j], s)}

(* SetSkip and SetLimit, where 0 is no limit.                              *)
Page(q, limit, offset) ==
    SubSeq(q, offset + 1, IF limit = 0 THEN Len(q) ELSE Min({offset + limit, Len(q)}))

(* What the filter of the reader's query leaves.                           *)
Wanted(d) == d.of \in reader.networks /\ (reader.search => d \in Matching)

Listed == {d \in docs : Wanted(d)}

(* Only the sorted field orders the results, or nothing at all.            *)
Tied(d, e) == d # e /\ MayPrecede(d, e, reader.sort) /\ MayPrecede(e, d, reader.sort)

(* It was on a page, or may have a place in the pages that were read.      *)
InPages(d) ==
    /\ reader.offset > 0
    /\ seen[d] > 0 \/ d \in inserted \/ \E e \in Listed : Tied(d, e)

Removed(D) ==
    /\ docs' = docs \ D
    /\ removed' = removed \cup {d \in D \cap Listed : InPages(d)}

(* Handlers of MQTT messages, other requests and the cleanup.              *)
Comes(d) ==
    /\ d \notin docs
    /\ docs' = docs \cup {d}
    /\ inserted' = IF reader = Idle THEN {} ELSE inserted \cup {d}
    /\ Delivered
    /\ UNCHANGED <<kind, allowed, admin, reader, seen, removed, checked>>

Goes(d) ==
    /\ d \in docs
    /\ Removed({d})
    /\ Delivered
    /\ UNCHANGED <<kind, allowed, admin, reader, seen, inserted, checked>>

ChangeRights(n) ==
    /\ kind \in {"sync", "user"} /\ ~admin
    /\ allowed' = IF n \in allowed THEN allowed \ {n} ELSE allowed \cup {n}
    /\ Delivered
    /\ UNCHANGED <<kind, docs, admin, reader, history>>

-----------------------------------------------------------------------------
(* Passes. The loops of the warden read their whole collections. They sort *)
(* by a field of instances, which orders none of the guards and infos; an  *)
(* order the code does not know falls back to a field of definitions,      *)
(* which deployments and incidents do not have.                            *)

At(pc) == reader.pc = pc
Goto(pc) == reader' = [reader EXCEPT !.pc = pc, !.batch = <<>>]

(* The pass is over, and so is its history.                                *)
Stop == reader' = Idle /\ seen' = NoneSeen /\ inserted' = {} /\ removed' = {}

(* Fault: the reader asks for more than it moves on by.                    *)
FaultFindProcessInstances ==
    [collection |-> "instances", networks |-> Networks, search |-> FALSE, sort |-> "asc", limit |-> BatchSize + 1]

(* The queries of the loops, over all networks.                            *)
FindDeploymentWardenInfo ==
    [collection |-> "infos", networks |-> Networks, search |-> FALSE, sort |-> "none", limit |-> BatchSize]
FindWardenInfo ==
    [collection |-> "guards", networks |-> Networks, search |-> FALSE, sort |-> "none", limit |-> BatchSize]
FindProcessInstances ==
    [collection |-> "instances", networks |-> Networks, search |-> FALSE, sort |-> "asc", limit |-> BatchSize]

(* The query of ApiSyncDeployments: one network, id.asc.                   *)
SyncQuery(n) ==
    [collection |-> "deployments", networks |-> {n}, search |-> FALSE, sort |-> "asc", limit |-> BatchSize]

(* How the results of a user's query are ordered.                          *)
ListDeployments(q) == IF q.by = "id" THEN q.direction ELSE "none"
ListIncidents(q) == IF q.by = "id" THEN q.direction ELSE "none"
ListProcessDefinitions(q) == IF q.by = "name" THEN "none" ELSE q.direction
ListProcessInstances(q) == q.direction
ListHistoricProcessInstances(q) == q.direction
ListDeploymentMetadata == "none"

UserQuery(q) ==
    [collection |-> q.collection, networks |-> q.networks, search |-> q.search,
     sort |-> CASE q.collection = "deployments" -> ListDeployments(q)
                [] q.collection = "incidents" -> ListIncidents(q)
                [] q.collection = "definitions" -> ListProcessDefinitions(q)
                [] q.collection = "instances" -> ListProcessInstances(q)
                [] q.collection = "histories" -> ListHistoricProcessInstances(q)
                [] q.collection = "metadata" -> ListDeploymentMetadata,
     limit |-> q.limit]

Queries ==
    CASE kind = "infos" -> {FindDeploymentWardenInfo}
      [] kind = "guards" -> {FindWardenInfo}
      [] kind = "instances" -> {FindProcessInstances}
      [] kind = "sync" -> {SyncQuery(n) : n \in Networks}
      [] kind = "user" -> {UserQuery(q) : q \in UserQueries}

(* The ticker of the warden, or a user. Each pass has an iterator of its   *)
(* own, whose offset starts at 0.                                          *)
Begin ==
    /\ At("idle")
    /\ \E q \in Queries :
         reader' = [pc |-> IF kind \in Loops THEN "page" ELSE "check",
                    collection |-> q.collection, networks |-> q.networks, search |-> q.search,
                    sort |-> q.sort, limit |-> q.limit,
                    offset |-> 0, batch |-> <<>>, full |-> FALSE]
    /\ checked' = {}
    /\ Delivered
    /\ UNCHANGED <<kind, docs, allowed, admin, seen, inserted, removed>>

(* The networks a user may read; an administrator is not asked for rights. *)
Rights == IF admin THEN Networks ELSE allowed

CheckBool(n) == n \in Rights
CheckMultiple(N) == [n \in N |-> n \in Rights]

(* Fault: the right to read one of the networks is enough.                 *)
FaultApiCheckAccess ==
    /\ At("check")
    /\ checked' = Rights
    /\ \/ /\ \E n \in reader.networks : CheckMultiple(reader.networks)[n]
          /\ Goto(IF kind = "sync" THEN "clear" ELSE "page")
          /\ UNCHANGED <<seen, inserted, removed>>
       \/ /\ \A n \in reader.networks : ~CheckMultiple(reader.networks)[n]
          /\ Stop
    /\ Delivered
    /\ UNCHANGED <<kind, docs, allowed, admin>>

(* ApiCheckAccess..., at the start of every request: one network without   *)
(* the right refuses all of it.                                            *)
ApiCheckAccess ==
    /\ At("check")
    /\ checked' = Rights
    /\ \/ /\ \A n \in reader.networks : CheckMultiple(reader.networks)[n]
          /\ Goto(IF kind = "sync" THEN "clear" ELSE "page")
          /\ UNCHANGED <<seen, inserted, removed>>
       \/ /\ \E n \in reader.networks : ~CheckMultiple(reader.networks)[n]
          /\ Stop
    /\ Delivered
    /\ UNCHANGED <<kind, docs, allowed, admin>>

(* ApiSyncDeployments removes the placeholders first.                      *)
RemovePlaceholderDeployments ==
    /\ At("clear")
    /\ \E P \in SUBSET Listed : Removed(P)
    /\ Goto("page")
    /\ Delivered
    /\ UNCHANGED <<kind, allowed, admin, seen, inserted, checked>>

(* Fault: the offset stays.                                                *)
FaultReadPage ==
    /\ At("page")
    /\ \E q \in Found(Listed, reader.sort) :
         LET page == Page(q, reader.limit, reader.offset) IN
         /\ reader' = [reader EXCEPT !.pc = "visit", !.batch = page, !.full = Len(page) >= reader.limit]
         /\ seen' = [d \in Documents |-> IF d \in Range(page) /\ seen[d] < 2 THEN seen[d] + 1 ELSE seen[d]]
    /\ Delivered
    /\ UNCHANGED <<kind, docs, allowed, admin, inserted, removed, checked>>

(* One query: the next page, and whether the iterator goes on after it.    *)
ReadPage ==
    /\ At("page")
    /\ \E q \in Found(Listed, reader.sort) :
         LET page == Page(q, reader.limit, reader.offset) IN
         /\ reader' = [reader EXCEPT !.pc = "visit", !.batch = page,
                                     !.offset = @ + reader.limit, !.full = Len(page) >= reader.limit]
         /\ seen' = [d \in Documents |-> IF d \in Range(page) /\ seen[d] < 2 THEN seen[d] + 1 ELSE seen[d]]
    /\ Delivered
    /\ UNCHANGED <<kind, docs, allowed, admin, inserted, removed, checked>>

(* A check, a query or the removal of placeholders fails: the pass is over.*)
QueryFails ==
    /\ reader.pc \in {"check", "clear", "page"}
    /\ ~(At("check") /\ admin)
    /\ Stop
    /\ Delivered
    /\ UNCHANGED <<kind, docs, allowed, admin, checked>>

(* The body of a loop, whose errors are logged or collected: it may remove *)
(* the document; ApiSyncDeployments saves one with the same id instead.    *)
Visit ==
    /\ At("visit") /\ kind # "user" /\ reader.batch # <<>>
    /\ \/ kind \in Loops /\ Removed({Head(reader.batch)})
       \/ UNCHANGED <<docs, removed>>
    /\ reader' = [reader EXCEPT !.batch = Tail(@)]
    /\ Delivered
    /\ UNCHANGED <<kind, allowed, admin, seen, inserted, checked>>

(* Fault: all iterators end after their first page.                        *)
FaultContinues == FALSE

(* len(batch) < batchsize ends the loops of the warden; that a page is at  *)
(* most limit long ends ApiSyncDeployments; users end when they like, at   *)
(* the latest after a page that is not full.                               *)
Continues == reader.full /\ kind # "sync"

PageDone ==
    /\ At("visit") /\ kind # "user" /\ reader.batch = <<>>
    /\ Goto(IF Continues THEN "page" ELSE "end")
    /\ Delivered
    /\ UNCHANGED <<kind, docs, allowed, admin, history>>

End ==
    /\ At("end")
    /\ Stop
    /\ Delivered
    /\ UNCHANGED <<kind, docs, allowed, admin, checked>>

-----------------------------------------------------------------------------
(* Answers to users.                                                       *)

(* Fault: the network is missing in the filter.                            *)
FaultOfDeploymentIdList(found, n, ids) ==
    LET there == {f \in found : f.id \in ids}
    IN [id \in {f.id : f \in there} |-> CHOOSE f \in there : f.id = id]

(* GetDefinitionsOfDeploymentIdList and GetDeploymentMetadataOfDeploymentIdList *)
(* among what there is: a map from the ids.                                *)
OfDeploymentIdList(found, n, ids) ==
    LET there == {f \in found : f.of = n /\ f.id \in ids}
    IN [id \in {f.id : f \in there} |-> CHOOSE f \in there : f.id = id]

(* ExtendDeployments: definitions and metadata are read network by         *)
(* network; an error of one network is told with its own deployments. The  *)
(* deployments in hidden are placeholders or marked as missing.            *)
ExtendDeployments(page, hidden, failed, definitions, metadata) ==
    LET Ids(n) == {d.id : d \in {p \in page \ hidden : p.of = n}}
        Entry(found, d) ==
            LET result == OfDeploymentIdList(found, d.of, Ids(d.of))
            IN IF d.id \in DOMAIN result THEN result[d.id] ELSE Nothing
        Extended(d) ==
            CASE d \in hidden ->
                   [doc |-> d, definition |-> Nothing, diagram |-> ConstructionSvg, error |-> Nothing]
              [] d \notin hidden /\ d.of \in failed ->
                   [doc |-> d, definition |-> Nothing, diagram |-> Nothing, error |-> d.of]
              [] OTHER ->
                   [doc |-> d, definition |-> Entry(definitions, d), diagram |-> Entry(metadata, d), error |-> Nothing]
    IN {Extended(d) : d \in page}

Plain(page) == {[doc |-> d, definition |-> Nothing, diagram |-> Nothing, error |-> Nothing] : d \in page}

Answer(elements) ==
    /\ answer' = [networks |-> {}, elements |-> elements]
    /\ \/ /\ Goto(IF reader.full /\ reader.limit > 0 THEN "check" ELSE "end")
          /\ UNCHANGED <<seen, inserted, removed>>
       \/ Stop
    /\ UNCHANGED <<kind, docs, allowed, admin, checked>>

AnswerList ==
    /\ At("visit") /\ kind = "user"
    /\ Answer(Plain(Range(reader.batch)))

(* With all definitions there may be, all but one or none of the page but  *)
(* those of its ids in other networks; metadata, which are looked up alike,*)
(* are all there or none.                                                  *)
AnswerExtended ==
    /\ At("visit") /\ kind = "user" /\ reader.collection = "deployments"
    /\ LET page == Range(reader.batch)
           there == {e \in Documents : \E d \in page : e.id = d.id}
       IN \E hidden \in SUBSET page, failed \in SUBSET {d.of : d \in page},
            definitions \in {there, there \ page} \cup {there \ {d} : d \in page},
            metadata \in {there, {}} :
              Answer(ExtendDeployments(page, hidden, failed, definitions, metadata))

(* FindOne by network and id.                                              *)
FindOne(d) == {e \in docs : e.of = d.of /\ e.id = d.id}

(* GET of one document: a request of its own.                              *)
ApiRead(d) ==
    /\ At("idle") /\ kind = "user"
    /\ checked' = Rights
    /\ answer' = IF CheckBool(d.of) THEN [networks |-> {}, elements |-> Plain(FindOne(d))] ELSE NoAnswer
    /\ UNCHANGED <<kind, docs, allowed, admin, reader, seen, inserted, removed>>

(* The hubs the device repository lists for the user that had contact.     *)
ApiListNetworks(known) ==
    /\ At("idle") /\ kind = "user"
    /\ checked' = Rights
    /\ answer' = [networks |-> Rights \cap known, elements |-> {}]
    /\ UNCHANGED <<kind, docs, allowed, admin, reader, seen, inserted, removed>>

-----------------------------------------------------------------------------
Steps ==
    \/ ApiCheckAccess \/ RemovePlaceholderDeployments \/ ReadPage \/ Visit \/ PageDone
    \/ AnswerList \/ AnswerExtended \/ End

Requests ==
    \/ \E d \in Documents : ApiRead(d)
    \/ \E known \in SUBSET Networks : ApiListNetworks(known)

Writes ==
    \/ \E d \in Documents : Comes(d) \/ Goes(d)
    \/ \E n \in Networks : ChangeRights(n)

Next == Begin \/ Steps \/ Requests \/ Writes \/ QueryFails

Spec == Init /\ [][Next]_vars

-----------------------------------------------------------------------------
(* Properties                                                              *)

TypeOK ==
    /\ kind \in Kinds
    /\ docs \subseteq Documents
    /\ allowed \subseteq Networks
    /\ admin \in BOOLEAN
    /\ reader \in Readers
    /\ answer \in [networks : SUBSET Networks, elements : SUBSET Elements]
    /\ seen \in [Documents -> 0 .. 2]
    /\ inserted \subseteq Documents
    /\ removed \subseteq Documents
    /\ checked \subseteq Networks

(* An order the database may choose anew for each of several pages.        *)
Several == reader.limit > 0 /\ reader.offset > reader.limit

Shuffled(d) == Several /\ \E e \in Listed : Tied(d, e)

(* A pass to the end misses no document that was there all the time,       *)
(* except: after a removal from the pages it has read all later ones move  *)
(* up, so one of them falls between two pages; the pages are not ordered;  *)
(* or it is ApiSyncDeployments, which ends after its first page.           *)
NothingMissed ==
    At("end") =>
        \A d \in Listed \ inserted :
            seen[d] = 0 =>
                \/ \E r \in removed : MayPrecede(r, d, reader.sort)
                \/ Shuffled(d)
                \/ kind = "sync" /\ reader.full /\ \A e \in Documents : seen[e] > 0 => e.id <= d.id

(* A pass meets no document twice, except when one came in before it, or   *)
(* it came in itself, or the pages are not ordered.                        *)
NothingTwice ==
    \A d \in Documents :
        seen[d] > 1 =>
            \/ \E i \in inserted : MayPrecede(i, d, reader.sort)
            \/ Several /\ \E e \in Documents : Tied(d, e)

(* Users learn of no document, definition, metadata, error or network they *)
(* had no right for when it was checked; that one network of a list is     *)
(* refused must not leave the others.                                      *)
OnlyAllowed ==
    /\ answer.networks \subseteq checked
    /\ \A e \in answer.elements :
         {e.doc.of, e.error} \cup {f.of : f \in {e.definition, e.diagram} \cap Documents} \subseteq checked \cup {Nothing}

(* In a list of deployments of several networks each has the definition    *)
(* and the diagram with its id and of its own network, and neither if the  *)
(* queries for its network failed or it is not at its client.              *)
ExtendedIsOwn ==
    \A e \in answer.elements :
        /\ {e.definition, e.diagram} \subseteq {e.doc, Nothing, ConstructionSvg}
        /\ e.error # Nothing \/ e.diagram = ConstructionSvg => e.definition = Nothing
=============================================================================
