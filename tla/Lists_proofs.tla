---------------------------- MODULE Lists_proofs ----------------------------
(***************************************************************************)
(* Proofs about Lists, for any documents, networks and length of a page:   *)
(* type correctness, that a pass misses nothing and meets nothing twice    *)
(* but for the named exceptions, and that answers tell users nothing they  *)
(* have no right for and nothing of another deployment.                    *)
(***************************************************************************)
EXTENDS Lists, FiniteSetTheorems, TLAPS

-----------------------------------------------------------------------------
(* The invariant behind NothingMissed and NothingTwice                     *)

(* How a pass proceeds: a user's list without limit and ApiSyncDeployments *)
(* read one page, and what reaches its end has read a page that is not     *)
(* full, but for these two.                                                *)
Passing ==
    /\ At("idle") => reader = Idle /\ seen = NoneSeen /\ inserted = {}
    /\ ~At("idle") /\ kind # "user" => reader.limit = BatchSize
    /\ ~At("idle") /\ kind = "sync" => reader.sort = "asc"
    /\ reader.offset = 0 => removed = {}
    /\ reader.limit = 0 => reader.offset = 0
    /\ reader.limit > 0 /\ reader.offset = 0 => seen = NoneSeen
    /\ reader.pc \in {"check", "clear", "page"} /\ (reader.limit = 0 \/ kind = "sync") =>
          reader.offset = 0 /\ seen = NoneSeen
    /\ At("clear") => kind = "sync"
    /\ At("end") => ~reader.full \/ kind = "sync" \/ reader.limit = 0
    /\ \A d \in Range(reader.batch) : seen[d] > 0

(* What comes before d in the results, surely or in one of their orders.   *)
Before(d) == {e \in Listed : e # d /\ MayPrecede(e, d, reader.sort)}
SurelyBefore(d) == {e \in Listed : ~MayPrecede(d, e, reader.sort)}

(* A document that was there all the time, was on no page, and is none of  *)
(* the exceptions of NothingMissed: it is behind the pages that were read. *)
StillToCome(d) ==
    /\ d \in Listed \ inserted /\ seen[d] = 0
    /\ \A r \in removed : ~MayPrecede(r, d, reader.sort)
    /\ ~Shuffled(d)

ToComeIsBehind ==
    \A d \in Documents : StillToCome(d) =>
        /\ Cardinality(Before(d)) >= reader.offset
        /\ reader.pc \in {"visit", "end"} => reader.full /\ reader.limit > 0
        /\ kind = "sync" => \A e \in Documents : seen[e] > 0 => e.id <= d.id

(* A document that was on a page, and is none of the exceptions of         *)
(* NothingTwice, is in the pages that were read.                           *)
Settled(d) ==
    /\ d \in Listed /\ seen[d] > 0
    /\ \A i \in inserted : ~MayPrecede(i, d, reader.sort)
    /\ ~(Several /\ \E e \in Documents : Tied(d, e))

SeenIsInFront ==
    \A d \in Documents : Settled(d) /\ reader.limit > 0 =>
        Cardinality(SurelyBefore(d)) < reader.offset

PassInv == TypeOK /\ Passing /\ ToComeIsBehind /\ SeenIsInFront /\ NothingTwice

-----------------------------------------------------------------------------
(* The invariant behind OnlyAllowed                                        *)

(* What a user's request reads was allowed at its check.                   *)
ReadsAllowed ==
    /\ kind = "user" => ~At("clear")
    /\ kind = "user" /\ reader.pc \in {"page", "visit", "end"} => reader.networks \subseteq checked
    /\ \A d \in Range(reader.batch) : d.of \in reader.networks

AnswerInv == TypeOK /\ ReadsAllowed /\ OnlyAllowed /\ ExtendedIsOwn

-----------------------------------------------------------------------------
(* Results and pages                                                       *)

(* A result holds each document once, in an order that agrees with the     *)
(* sorted field.                                                           *)
LEMMA Results ==
    ASSUME NEW D, IsFiniteSet(D), NEW s, NEW q \in Found(D, s)
    PROVE  /\ q \in Seq(D)
           /\ Len(q) = Cardinality(D) /\ Len(q) \in Nat
           /\ \A i, j \in 1..Len(q) : i # j => q[i] # q[j]
           /\ \A d \in D : \E i \in 1..Len(q) : q[i] = d
           /\ \A i, j \in 1..Len(q) : i < j => MayPrecede(q[i], q[j], s)
<1>1. Cardinality(D) \in Nat
  BY FS_CardinalityType
<1>2. /\ q \in [1..Cardinality(D) -> D]
      /\ \A i, j \in 1..Cardinality(D) : i # j => q[i] # q[j]
      /\ \A i, j \in DOMAIN q : i < j => MayPrecede(q[i], q[j], s)
  BY DEF Found, SetToSeqs
<1>3. q \in Seq(D) /\ Len(q) = Cardinality(D)
  BY <1>1, <1>2
<1>4. q \in Injection(1..Cardinality(D), D)
  BY <1>2 DEF Injection, IsInjective
<1>5. Cardinality(1..Cardinality(D)) = Cardinality(D)
  BY <1>1, FS_Interval
<1>6. q \in Surjection(1..Cardinality(D), D)
  BY <1>4, <1>5, FS_Injection
<1>7. \A d \in D : \E i \in 1..Cardinality(D) : q[i] = d
  BY <1>6 DEF Surjection
<1> QED
  BY <1>1, <1>2, <1>3, <1>7

(* The first k of a result are k documents.                                *)
LEMMA FirstOnes ==
    ASSUME NEW D, IsFiniteSet(D), NEW s, NEW q \in Found(D, s), NEW k \in 0..Len(q)
    PROVE  LET F == {q[i] : i \in 1..k} IN IsFiniteSet(F) /\ Cardinality(F) = k
<1> DEFINE F == {q[i] : i \in 1..k}
           f == [i \in 1..k |-> q[i]]
<1>1. Len(q) \in Nat /\ \A i, j \in 1..Len(q) : i # j => q[i] # q[j]
  BY Results
<1>2. 1..k \subseteq 1..Len(q) /\ k \in Nat
  BY <1>1
<1>3. IsFiniteSet(1..k) /\ Cardinality(1..k) = k
  BY <1>2, FS_Interval
<1>4. f \in Surjection(1..k, F)
  BY DEF Surjection
<1>5. f \in Injection(1..k, F)
  BY <1>1, <1>2 DEF Injection, IsInjective
<1> QED
  BY <1>3, <1>4, <1>5, FS_Surjection

(* A page holds what is behind the offset and within the limit; if it is   *)
(* not full the result ends with it.                                       *)
LEMMA Pages ==
    ASSUME NEW D, NEW q \in Seq(D), NEW limit \in Nat, NEW offset \in Nat
    PROVE  LET page == Page(q, limit, offset) IN
           /\ page \in Seq(D)
           /\ \A i \in 1..Len(q) : offset < i /\ (limit = 0 \/ i <= offset + limit) => q[i] \in Range(page)
           /\ \A e \in Range(page) : \E i \in 1..Len(q) : offset < i /\ (limit = 0 \/ i <= offset + limit) /\ q[i] = e
           /\ Len(page) < limit => Len(q) < offset + limit
<1>1. Len(q) \in Nat
  OBVIOUS
<1> DEFINE last == IF limit = 0 THEN Len(q) ELSE Min({offset + limit, Len(q)})
<1>2. limit # 0 => Min({offset + limit, Len(q)}) = IF offset + limit <= Len(q) THEN offset + limit ELSE Len(q)
  <2> SUFFICES ASSUME NEW a \in Nat, NEW b \in Nat PROVE Min({a, b}) = IF a <= b THEN a ELSE b
    BY <1>1
  <2> DEFINE c == IF a <= b THEN a ELSE b
  <2>1. c \in {a, b} /\ \A y \in {a, b} : c <= y
    OBVIOUS
  <2>2. \A x \in {a, b} : (\A y \in {a, b} : x <= y) => x = c
    OBVIOUS
  <2> QED BY <2>1, <2>2 DEF Min
<1>3. last \in Nat /\ last <= Len(q) /\ (limit = 0 => last = Len(q))
      /\ (limit # 0 => last = IF offset + limit <= Len(q) THEN offset + limit ELSE Len(q))
  BY <1>1, <1>2
<1> DEFINE page == SubSeq(q, offset + 1, last)
<1>4. Page(q, limit, offset) = page
  BY DEF Page
<1> HIDE DEF last
<1>5. CASE offset >= last
  <2>1. page = <<>>
    BY <1>1, <1>3, <1>5
  <2> QED BY <1>1, <1>3, <1>4, <1>5, <2>1 DEF Range
<1>6. CASE offset < last
  <2>1. page \in Seq(D) /\ Len(page) = last - offset /\ \A j \in 1..(last - offset) : page[j] = q[j + offset]
    BY <1>1, <1>3, <1>6
  <2> HIDE DEF page
  <2>2. \A i \in 1..Len(q) : offset < i /\ i <= last => i - offset \in DOMAIN page /\ page[i - offset] = q[i]
    BY <1>1, <1>3, <2>1
  <2>3. \A j \in DOMAIN page : j + offset \in 1..Len(q) /\ j + offset <= last /\ q[j + offset] = page[j]
    BY <1>1, <1>3, <2>1
  <2>4. \A i \in 1..Len(q) : offset < i /\ (limit = 0 \/ i <= offset + limit) => q[i] \in Range(page)
    BY <1>1, <1>3, <2>2 DEF Range
  <2>5. \A e \in Range(page) : \E i \in 1..Len(q) : offset < i /\ (limit = 0 \/ i <= offset + limit) /\ q[i] = e
    <3> SUFFICES ASSUME NEW j \in DOMAIN page
                 PROVE  \E i \in 1..Len(q) : offset < i /\ (limit = 0 \/ i <= offset + limit) /\ q[i] = page[j]
      BY DEF Range
    <3>1. j \in 1..(last - offset) /\ j + offset > offset
      BY <1>1, <1>3, <2>1
    <3>2. limit = 0 \/ j + offset <= offset + limit
      BY <1>1, <1>3, <2>3
    <3> QED BY <2>3, <3>1, <3>2
  <2>6. Len(page) < limit => Len(q) < offset + limit
    BY <1>1, <1>3, <2>1
  <2> QED BY <1>4, <2>1, <2>4, <2>5, <2>6
<1> QED
  BY <1>3, <1>5, <1>6

-----------------------------------------------------------------------------
(* Types                                                                   *)

LEMMA ReaderFields ==
    ASSUME reader \in Readers
    PROVE  /\ reader.networks \in SUBSET Networks /\ reader.search \in BOOLEAN
           /\ reader.sort \in {"asc", "desc", "none"} /\ reader.limit \in {0, BatchSize}
           /\ reader.limit \in Nat /\ reader.offset \in Nat
           /\ reader.batch \in Seq(Documents) /\ reader.full \in BOOLEAN
BY BatchSizeAssumption DEF Readers

LEMMA IdleTypes == Idle \in Readers /\ NoneSeen \in [Documents -> 0..2]
BY DEF Idle, Readers, Collections, NoneSeen

LEMMA QueryTypes ==
    ASSUME kind \in Kinds, NEW q \in Queries
    PROVE  /\ q.collection \in Collections /\ q.networks \in SUBSET Networks /\ q.search \in BOOLEAN
           /\ q.sort \in {"asc", "desc", "none"} /\ q.limit \in {0, BatchSize}
           /\ kind # "user" => q.limit = BatchSize
           /\ kind = "sync" => q.sort = "asc"
<1>1. CASE kind = "user"
  <2>1. PICK u \in UserQueries : q = UserQuery(u)
    BY <1>1 DEF Queries
  <2>2. /\ u.collection \in {"deployments", "histories", "incidents", "instances", "definitions", "metadata"}
        /\ u.networks \in SUBSET Networks /\ u.search \in BOOLEAN
        /\ u.direction \in {"asc", "desc"} /\ u.limit \in {0, BatchSize}
    <3>1. SomeNetworkIds \subseteq SUBSET Networks /\ OneNetworkId \subseteq SUBSET Networks
      BY DEF SomeNetworkIds, OneNetworkId
    <3>2. \/ u \in DeploymentEndpoints \/ u \in HistoryEndpoints \/ u \in IncidentEndpoints
          \/ u \in ProcessInstanceEndpoints \/ u \in ProcessDefinitionEndpoints \/ u \in MetadataEndpoints
      BY UserQueriesAssumption
    <3>3. \A c, N, B, L : u \in Lists(c, N, B, L) =>
            u.collection = c /\ u.networks \in N /\ u.search \in B /\ u.direction \in {"asc", "desc"} /\ u.limit \in L
      BY DEF Lists
    <3> QED
      <4>0. \A x : x \in {FALSE} => x \in BOOLEAN
        BY Zenon
      <4>1. CASE u \in DeploymentEndpoints
        BY <3>1, <3>3, <4>1 DEF DeploymentEndpoints
      <4>2. CASE u \in HistoryEndpoints
        BY <3>1, <3>3, <4>2 DEF HistoryEndpoints
      <4>3. CASE u \in IncidentEndpoints
        BY <3>1, <3>3, <4>3 DEF IncidentEndpoints
      <4>4. CASE u \in ProcessInstanceEndpoints
        <5>1. u \in Lists("instances", SomeNetworkIds, {FALSE}, {0, BatchSize})
          BY <4>4 DEF ProcessInstanceEndpoints
        <5>2. u.collection = "instances" /\ u.networks \in SomeNetworkIds /\ u.search \in {FALSE}
              /\ u.direction \in {"asc", "desc"} /\ u.limit \in {0, BatchSize}
          BY <5>1, <3>3, Zenon
        <5>3. u.search \in BOOLEAN
          BY <5>2, <4>0, Zenon
        <5> QED BY <3>1, <5>2, <5>3
      <4>5. CASE u \in ProcessDefinitionEndpoints
        <5>1. u \in Lists("definitions", SomeNetworkIds, {FALSE}, {0, BatchSize})
          BY <4>5 DEF ProcessDefinitionEndpoints
        <5>2. u.collection = "definitions" /\ u.networks \in SomeNetworkIds /\ u.search \in {FALSE}
              /\ u.direction \in {"asc", "desc"} /\ u.limit \in {0, BatchSize}
          BY <5>1, <3>3, Zenon
        <5>3. u.search \in BOOLEAN
          BY <5>2, <4>0, Zenon
        <5> QED BY <3>1, <5>2, <5>3
      <4>6. CASE u \in MetadataEndpoints
        BY <3>1, <3>3, <4>6 DEF MetadataEndpoints
      <4> QED BY <3>2, <4>1, <4>2, <4>3, <4>4, <4>5, <4>6
  <2>3. q.collection = u.collection /\ q.networks = u.networks /\ q.search = u.search /\ q.limit = u.limit
    BY <2>1 DEF UserQuery
  <2>4. q.sort \in {"asc", "desc", "none"}
    BY <2>1, <2>2 DEF UserQuery, ListDeployments, ListIncidents, ListProcessDefinitions, ListProcessInstances,
       ListHistoricProcessInstances, ListDeploymentMetadata
  <2> QED BY <1>1, <2>2, <2>3, <2>4 DEF Collections
<1>2. CASE kind = "infos"
  <2>1. q = FindDeploymentWardenInfo
    BY <1>2 DEF Queries
  <2> QED BY <1>2, <2>1 DEF Collections, FindDeploymentWardenInfo
<1>3. CASE kind = "guards"
  <2>1. q = FindWardenInfo
    BY <1>3 DEF Queries
  <2> QED BY <1>3, <2>1 DEF Collections, FindWardenInfo
<1>4. CASE kind = "instances"
  <2>1. q = FindProcessInstances
    BY <1>4 DEF Queries
  <2> QED BY <1>4, <2>1 DEF Collections, FindProcessInstances
<1>5. CASE kind = "sync"
  <2>1. PICK n \in Networks : q = SyncQuery(n)
    BY <1>5 DEF Queries
  <2> QED BY <1>5, <2>1 DEF Collections, SyncQuery
<1> QED BY <1>1, <1>2, <1>3, <1>4, <1>5 DEF Kinds, Loops

(* What a page leaves.                                                     *)
LEMMA ReadPageFields ==
    ASSUME TypeOK, ReadPage
    PROVE  /\ IsFiniteSet(Listed) /\ Listed \subseteq Documents
           /\ \E q \in Found(Listed, reader.sort) :
                LET page == Page(q, reader.limit, reader.offset) IN
                /\ page \in Seq(Documents) /\ page \in Seq(Listed)
                /\ reader' = [reader EXCEPT !.pc = "visit", !.batch = page,
                                            !.offset = @ + reader.limit, !.full = Len(page) >= reader.limit]
                /\ seen' = [d \in Documents |-> IF d \in Range(page) /\ seen[d] < 2 THEN seen[d] + 1 ELSE seen[d]]
<1>1. Listed \subseteq Documents /\ IsFiniteSet(Listed)
  BY DocumentsAssumption, FS_Subset DEF TypeOK, Listed
<1>2. PICK q \in Found(Listed, reader.sort) :
        LET page == Page(q, reader.limit, reader.offset) IN
        /\ reader' = [reader EXCEPT !.pc = "visit", !.batch = page,
                                    !.offset = @ + reader.limit, !.full = Len(page) >= reader.limit]
        /\ seen' = [d \in Documents |-> IF d \in Range(page) /\ seen[d] < 2 THEN seen[d] + 1 ELSE seen[d]]
  BY DEF ReadPage
<1>3. reader.limit \in Nat /\ reader.offset \in Nat
  BY ReaderFields DEF TypeOK
<1>4. q \in Seq(Listed)
  BY <1>1, Results
<1>5. Page(q, reader.limit, reader.offset) \in Seq(Listed)
  BY <1>3, <1>4, Pages
<1>6. Page(q, reader.limit, reader.offset) \in Seq(Documents)
  BY <1>1, <1>5
<1> QED BY <1>1, <1>2, <1>5, <1>6

LEMMA PassTypes ==
    ASSUME TypeOK, Begin \/ ApiCheckAccess \/ RemovePlaceholderDeployments \/ ReadPage \/ Visit \/ PageDone \/ End \/ QueryFails
    PROVE  TypeOK'
<1>0. /\ reader \in Readers /\ NoAnswer \in [networks : SUBSET Networks, elements : SUBSET Elements]
      /\ Rights \in SUBSET Networks
  BY DEF TypeOK, NoAnswer, Rights
<1>1. ASSUME Begin PROVE TypeOK'
  <2>1. PICK q \in Queries :
          reader' = [pc |-> IF kind \in Loops THEN "page" ELSE "check",
                     collection |-> q.collection, networks |-> q.networks, search |-> q.search,
                     sort |-> q.sort, limit |-> q.limit, offset |-> 0, batch |-> <<>>, full |-> FALSE]
    BY <1>1 DEF Begin
  <2>2. reader' \in Readers
    BY <2>1, QueryTypes DEF TypeOK, Readers
  <2> QED BY <1>0, <1>1, <2>2 DEF Begin, TypeOK, Delivered
<1>2. ASSUME Stop, UNCHANGED <<kind, docs, allowed, admin>>, Delivered, checked' \in {checked, Rights} PROVE TypeOK'
  BY <1>0, <1>2, IdleTypes DEF TypeOK, Stop, Delivered
<1>3. ASSUME NEW pc \in {"page", "clear", "end"}, Goto(pc) PROVE reader' \in Readers
  <2>1. <<>> \in Seq(Documents)
    OBVIOUS
  <2> QED BY <1>0, <1>3, <2>1 DEF Goto, Readers
<1>4. ASSUME ApiCheckAccess PROVE TypeOK'
  <2>1. CASE Stop
    BY <1>2, <1>4, <2>1 DEF ApiCheckAccess
  <2>2. CASE Goto(IF kind = "sync" THEN "clear" ELSE "page") /\ UNCHANGED <<seen, inserted, removed>>
    <3>1. reader' \in Readers
      BY <1>3, <2>2
    <3> QED BY <1>0, <1>4, <2>2, <3>1 DEF ApiCheckAccess, TypeOK, Delivered
  <2> QED BY <1>4, <2>1, <2>2 DEF ApiCheckAccess
<1>5. ASSUME RemovePlaceholderDeployments PROVE TypeOK'
  <2>1. reader' \in Readers
    BY <1>3, <1>5 DEF RemovePlaceholderDeployments
  <2> QED BY <1>0, <1>5, <2>1 DEF RemovePlaceholderDeployments, TypeOK, Delivered, Removed, Listed
<1>6. ASSUME ReadPage PROVE TypeOK'
  <2>1. PICK q \in Found(Listed, reader.sort) :
          LET page == Page(q, reader.limit, reader.offset) IN
          /\ page \in Seq(Documents)
          /\ reader' = [reader EXCEPT !.pc = "visit", !.batch = page,
                                      !.offset = @ + reader.limit, !.full = Len(page) >= reader.limit]
          /\ seen' = [d \in Documents |-> IF d \in Range(page) /\ seen[d] < 2 THEN seen[d] + 1 ELSE seen[d]]
    BY <1>6, ReadPageFields
  <2> DEFINE page == Page(q, reader.limit, reader.offset)
  <2>2. page \in Seq(Documents) /\ (Len(page) >= reader.limit) \in BOOLEAN /\ reader.offset + reader.limit \in Nat
    BY <1>0, <2>1, ReaderFields
  <2>3. /\ reader' = [reader EXCEPT !.pc = "visit", !.batch = page,
                                      !.offset = @ + reader.limit, !.full = Len(page) >= reader.limit]
        /\ seen' = [d \in Documents |-> IF d \in Range(page) /\ seen[d] < 2 THEN seen[d] + 1 ELSE seen[d]]
    BY <2>1
  <2> HIDE DEF page
  <2>4. reader' \in Readers
    BY <1>0, <2>2, <2>3 DEF Readers
  <2>5. seen' \in [Documents -> 0..2]
    BY <2>3 DEF TypeOK
  <2> QED BY <1>0, <1>6, <2>4, <2>5 DEF ReadPage, TypeOK, Delivered
<1>7. ASSUME Visit PROVE TypeOK'
  <2>1. Tail(reader.batch) \in Seq(Documents)
    BY <1>0, <1>7, ReaderFields DEF Visit
  <2>2. reader' \in Readers
    BY <1>0, <1>7, <2>1 DEF Visit, Readers
  <2> QED BY <1>0, <1>7, <2>2 DEF Visit, TypeOK, Delivered, Removed, Listed
<1>8. ASSUME PageDone PROVE TypeOK'
  <2>1. reader' \in Readers
    BY <1>3, <1>8 DEF PageDone
  <2> QED BY <1>0, <1>8, <2>1 DEF PageDone, TypeOK, Delivered, history
<1>9. ASSUME End \/ QueryFails PROVE TypeOK'
  BY <1>2, <1>9 DEF End, QueryFails
<1> QED BY <1>1, <1>4, <1>5, <1>6, <1>7, <1>8, <1>9

-----------------------------------------------------------------------------
(* Answers                                                                 *)

(* What is looked up by network and id is the document itself.             *)
LEMMA LookedUp ==
    ASSUME NEW found \in SUBSET Documents, NEW d \in Documents, NEW ids,
           d.id \in DOMAIN OfDeploymentIdList(found, d.of, ids)
    PROVE  OfDeploymentIdList(found, d.of, ids)[d.id] = d
<1> DEFINE there == {f \in found : f.of = d.of /\ f.id \in ids}
<1>1. OfDeploymentIdList(found, d.of, ids) = [id \in {f.id : f \in there} |-> CHOOSE f \in there : f.id = id]
  BY DEF OfDeploymentIdList
<1>2. \A e, f \in Documents : e.of = f.of /\ e.id = f.id => e = f
  BY DocumentsAssumption
<1>3. d.id \in {f.id : f \in there}
  BY <1>1
<1>4. PICK g \in there : g.id = d.id
  BY <1>3
<1>5. (CHOOSE f \in there : f.id = d.id) \in there /\ (CHOOSE f \in there : f.id = d.id).id = d.id
  BY <1>4
<1>6. (CHOOSE f \in there : f.id = d.id) = d
  BY <1>2, <1>5
<1> QED BY <1>1, <1>3, <1>6

(* An element of an answer: about one document, and of its own network.    *)
Own(e, page) ==
    /\ e \in Elements
    /\ e.doc \in page
    /\ e.definition \in {e.doc, Nothing}
    /\ e.diagram \in {e.doc, Nothing, ConstructionSvg}
    /\ e.error \in {e.doc.of, Nothing}
    /\ e.error # Nothing \/ e.diagram = ConstructionSvg => e.definition = Nothing

LEMMA ExtendedOwn ==
    ASSUME NEW page \in SUBSET Documents, NEW hidden, NEW failed,
           NEW definitions \in SUBSET Documents, NEW metadata \in SUBSET Documents,
           NEW e \in ExtendDeployments(page, hidden, failed, definitions, metadata)
    PROVE  Own(e, page)
<1> DEFINE Ids(n) == {d.id : d \in {p \in page \ hidden : p.of = n}}
           Entry(found, d) ==
               LET result == OfDeploymentIdList(found, d.of, Ids(d.of))
               IN IF d.id \in DOMAIN result THEN result[d.id] ELSE Nothing
           Extended(d) ==
               CASE d \in hidden ->
                      [doc |-> d, definition |-> Nothing, diagram |-> ConstructionSvg, error |-> Nothing]
                 [] d \notin hidden /\ d.of \in failed ->
                      [doc |-> d, definition |-> Nothing, diagram |-> Nothing, error |-> d.of]
                 [] OTHER ->
                      [doc |-> d, definition |-> Entry(definitions, d), diagram |-> Entry(metadata, d), error |-> Nothing]
<1>1. PICK d \in page : e = Extended(d)
  BY DEF ExtendDeployments
<1>2. d \in Documents /\ d.of \in Networks
  BY DocumentsAssumption
<1>3. \A found \in SUBSET Documents : Entry(found, d) \in {d, Nothing}
  BY <1>2, LookedUp
<1> HIDE DEF Entry
<1>4. CASE d \in hidden
  <2>1. e = [doc |-> d, definition |-> Nothing, diagram |-> ConstructionSvg, error |-> Nothing]
    BY <1>1, <1>4
  <2> QED BY <1>2, <2>1 DEF Own, Elements
<1>5. CASE d \notin hidden /\ d.of \in failed
  <2>1. e = [doc |-> d, definition |-> Nothing, diagram |-> Nothing, error |-> d.of]
    BY <1>1, <1>5
  <2> QED BY <1>2, <2>1 DEF Own, Elements
<1>6. CASE d \notin hidden /\ d.of \notin failed
  <2>1. e = [doc |-> d, definition |-> Entry(definitions, d), diagram |-> Entry(metadata, d), error |-> Nothing]
    BY <1>1, <1>6
  <2>2. Entry(definitions, d) \in {d, Nothing} /\ Entry(metadata, d) \in {d, Nothing}
    BY <1>3
  <2>3. Entry(metadata, d) # ConstructionSvg
    BY <1>2, <2>2, ConstructionAssumption
  <2> QED BY <1>2, <2>1, <2>2, <2>3 DEF Own, Elements
<1> QED BY <1>4, <1>5, <1>6

LEMMA PlainOwn ==
    ASSUME NEW page \in SUBSET Documents, NEW e \in Plain(page)
    PROVE  Own(e, page)
<1>1. PICK d \in page : e = [doc |-> d, definition |-> Nothing, diagram |-> Nothing, error |-> Nothing]
  BY DEF Plain
<1>2. d \in Documents /\ Nothing # ConstructionSvg
  BY ConstructionAssumption
<1> QED BY <1>1, <1>2 DEF Own, Elements

(* An answer made of such elements, from what was allowed.                 *)
LEMMA AnswerIsFine ==
    ASSUME NEW page \in SUBSET Documents, \A d \in page : d.of \in checked',
           answer' \in [networks : SUBSET Networks, elements : SUBSET Elements],
           answer'.networks \subseteq checked',
           \A e \in answer'.elements : Own(e, page)
    PROVE  OnlyAllowed' /\ ExtendedIsOwn'
<1>1. \A e \in answer'.elements : {e.doc.of, e.error} \subseteq checked' \cup {Nothing}
  BY DEF Own
<1>2. \A e \in answer'.elements : {e.definition, e.diagram} \cap Documents \subseteq {e.doc} \cup {Nothing}
  BY ConstructionAssumption DEF Own
<1>3. ASSUME NEW e \in answer'.elements, NEW f \in {e.definition, e.diagram} \cap Documents
      PROVE  f.of \in checked' \cup {Nothing}
  <2>1. f = e.doc
    BY <1>2, <1>3, NothingAssumption
  <2> QED BY <2>1 DEF Own
<1>4. OnlyAllowed'
  BY <1>1, <1>3 DEF OnlyAllowed
<1>5. ExtendedIsOwn'
  BY DEF ExtendedIsOwn, Own
<1> QED BY <1>4, <1>5

LEMMA NoAnswerIsFine ==
    ASSUME Delivered PROVE OnlyAllowed' /\ ExtendedIsOwn'
BY DEF Delivered, NoAnswer, OnlyAllowed, ExtendedIsOwn

(* What a user gets is of the page that was read.                          *)
LEMMA AnswersOwn ==
    ASSUME TypeOK, AnswerList \/ AnswerExtended
    PROVE  \E elements :
              /\ Answer(elements)
              /\ \A e \in elements : Own(e, Range(reader.batch))
<1>1. Range(reader.batch) \in SUBSET Documents
  BY ReaderFields DEF TypeOK, Range
<1>2. CASE AnswerList
  BY <1>1, <1>2, PlainOwn DEF AnswerList
<1>3. CASE AnswerExtended
  <2> DEFINE page == Range(reader.batch)
             there == {e \in Documents : \E d \in page : e.id = d.id}
  <2>1. PICK hidden \in SUBSET page, failed \in SUBSET {d.of : d \in page},
            definitions \in {there, there \ page} \cup {there \ {d} : d \in page},
            metadata \in {there, {}} :
              Answer(ExtendDeployments(page, hidden, failed, definitions, metadata))
    BY <1>3 DEF AnswerExtended
  <2>2. definitions \in SUBSET Documents /\ metadata \in SUBSET Documents
    OBVIOUS
  <2> HIDE DEF page, there
  <2>3. page \in SUBSET Documents
    BY <1>1 DEF page
  <2>4. \A e \in ExtendDeployments(page, hidden, failed, definitions, metadata) : Own(e, page)
    BY <2>2, <2>3, ExtendedOwn
  <2> QED BY <2>1, <2>4 DEF page
<1> QED BY <1>2, <1>3

LEMMA AnswersTypes ==
    ASSUME TypeOK, NEW elements, Answer(elements), \A e \in elements : Own(e, Range(reader.batch))
    PROVE  TypeOK'
<1>1. elements \in SUBSET Elements
  BY DEF Own
<1>2. answer' \in [networks : SUBSET Networks, elements : SUBSET Elements]
  BY <1>1 DEF Answer
<1>3. CASE Stop
  BY <1>2, <1>3, IdleTypes DEF Answer, Stop, TypeOK
<1>4. CASE Goto(IF reader.full /\ reader.limit > 0 THEN "check" ELSE "end") /\ UNCHANGED <<seen, inserted, removed>>
  <2>1. <<>> \in Seq(Documents) /\ reader \in Readers
    BY DEF TypeOK
  <2>2. reader' \in Readers
    BY <1>4, <2>1 DEF Goto, Readers
  <2> QED BY <1>2, <1>4, <2>2 DEF Answer, TypeOK
<1> QED BY <1>3, <1>4 DEF Answer

LEMMA OthersTypes ==
    ASSUME TypeOK, Requests \/ Writes
    PROVE  TypeOK'
<1>0. NoAnswer \in [networks : SUBSET Networks, elements : SUBSET Elements] /\ Rights \in SUBSET Networks
  BY DEF TypeOK, NoAnswer, Rights
<1>1. ASSUME NEW d \in Documents, ApiRead(d) PROVE TypeOK'
  <2>1. FindOne(d) \in SUBSET Documents
    BY DEF FindOne, TypeOK
  <2>2. Plain(FindOne(d)) \in SUBSET Elements
    BY <2>1, PlainOwn DEF Own
  <2>3. answer' \in [networks : SUBSET Networks, elements : SUBSET Elements]
    BY <1>0, <1>1, <2>2 DEF ApiRead
  <2> QED BY <1>0, <1>1, <2>3 DEF ApiRead, TypeOK
<1>2. ASSUME NEW known \in SUBSET Networks, ApiListNetworks(known) PROVE TypeOK'
  BY <1>0, <1>2 DEF ApiListNetworks, TypeOK
<1>3. ASSUME NEW d \in Documents, Comes(d) \/ Goes(d) PROVE TypeOK'
  BY <1>0, <1>3 DEF Comes, Goes, Removed, Listed, Delivered, TypeOK
<1>4. ASSUME NEW n \in Networks, ChangeRights(n) PROVE TypeOK'
  BY <1>0, <1>4 DEF ChangeRights, Delivered, TypeOK, history
<1> QED BY <1>1, <1>2, <1>3, <1>4 DEF Requests, Writes

LEMMA InitTypeOK == Init => TypeOK
BY IdleTypes DEF Init, TypeOK, NoAnswer, Kinds, Loops

LEMMA NextTypeOK == TypeOK /\ [Next]_vars => TypeOK'
<1> SUFFICES ASSUME TypeOK, [Next]_vars PROVE TypeOK'
  OBVIOUS
<1>1. CASE Begin \/ Steps \/ QueryFails
  <2>1. CASE AnswerList \/ AnswerExtended
    BY <2>1, AnswersOwn, AnswersTypes
  <2> QED BY <1>1, <2>1, PassTypes DEF Steps
<1>2. CASE Requests \/ Writes
  BY <1>2, OthersTypes
<1>3. CASE UNCHANGED vars
  BY <1>3 DEF vars, history, TypeOK
<1> QED BY <1>1, <1>2, <1>3 DEF Next

(* Every reachable state of a reader, its collection and its answers is    *)
(* well-typed.                                                             *)
THEOREM TypeCorrect == Spec => []TypeOK
BY InitTypeOK, NextTypeOK, PTL DEF Spec

-----------------------------------------------------------------------------
(* Users learn what they may, of the deployment it belongs to              *)

LEMMA InitAnswers == Init => AnswerInv
BY InitTypeOK DEF Init, AnswerInv, ReadsAllowed, At, OnlyAllowed, ExtendedIsOwn, NoAnswer, Idle, Range

LEMMA StoppedReads ==
    ASSUME Stop PROVE ReadsAllowed'
BY DEF Stop, Idle, ReadsAllowed, Range, At

(* What goes on with its query keeps its networks.                         *)
LEMMA GoneReads ==
    ASSUME TypeOK, ReadsAllowed, NEW pc \in {"check", "clear", "page", "end"}, Goto(pc), UNCHANGED kind,
           kind = "user" => pc # "clear",
           kind = "user" /\ pc \in {"page", "end"} => reader.networks \subseteq checked'
    PROVE  ReadsAllowed'
<1>1. reader'.pc = pc /\ reader'.networks = reader.networks /\ reader'.batch = <<>>
  BY DEF Goto, TypeOK, Readers
<1> QED BY <1>1 DEF ReadsAllowed, At, Range

LEMMA QueriesReads ==
    ASSUME AnswerInv, Begin \/ ApiCheckAccess \/ RemovePlaceholderDeployments \/ QueryFails
    PROVE  ReadsAllowed' /\ Delivered
<1>0. TypeOK /\ ReadsAllowed /\ reader \in Readers
  BY DEF AnswerInv, TypeOK
<1>1. ASSUME Begin PROVE ReadsAllowed'
  <2>1. reader'.batch = <<>> /\ (kind = "user" => reader'.pc = "check") /\ UNCHANGED kind
    BY <1>1 DEF Begin, Loops
  <2> QED BY <2>1 DEF ReadsAllowed, Range, At
<1>2. ASSUME ApiCheckAccess PROVE ReadsAllowed'
  <2>1. CASE Stop
    BY <2>1, StoppedReads
  <2>2. CASE Goto(IF kind = "sync" THEN "clear" ELSE "page") /\ \A n \in reader.networks : CheckMultiple(reader.networks)[n]
    <3>1. reader.networks \subseteq checked' /\ UNCHANGED kind
      BY <1>2, <2>2 DEF ApiCheckAccess, CheckMultiple
    <3> QED BY <1>0, <2>2, <3>1, GoneReads
  <2> QED BY <1>2, <2>1, <2>2 DEF ApiCheckAccess
<1>3. ASSUME RemovePlaceholderDeployments PROVE ReadsAllowed'
  <2>1. Goto("page") /\ UNCHANGED kind /\ kind # "user"
    BY <1>0, <1>3 DEF RemovePlaceholderDeployments, ReadsAllowed
  <2> QED BY <1>0, <2>1, GoneReads
<1>4. ASSUME QueryFails PROVE ReadsAllowed'
  BY <1>4, StoppedReads DEF QueryFails
<1> QED BY <1>1, <1>2, <1>3, <1>4 DEF Begin, ApiCheckAccess, RemovePlaceholderDeployments, QueryFails

LEMMA PagesReads ==
    ASSUME AnswerInv, ReadPage \/ Visit \/ PageDone \/ End
    PROVE  ReadsAllowed' /\ Delivered
<1>0. TypeOK /\ ReadsAllowed /\ reader \in Readers /\ reader.batch \in Seq(Documents)
  BY ReaderFields DEF AnswerInv, TypeOK
<1>1. ASSUME ReadPage PROVE ReadsAllowed'
  <2>1. PICK q \in Found(Listed, reader.sort) :
          LET page == Page(q, reader.limit, reader.offset) IN
          /\ page \in Seq(Listed)
          /\ reader' = [reader EXCEPT !.pc = "visit", !.batch = page,
                                      !.offset = @ + reader.limit, !.full = Len(page) >= reader.limit]
    BY <1>0, <1>1, ReadPageFields
  <2> DEFINE page == Page(q, reader.limit, reader.offset)
  <2>2. page \in Seq(Listed) /\ reader'.batch = page /\ reader'.networks = reader.networks /\ reader'.pc = "visit"
    BY <1>0, <2>1 DEF Readers
  <2> HIDE DEF page
  <2>3. \A d \in Range(page) : d.of \in reader.networks
    BY <2>2 DEF Range, Listed, Wanted
  <2> QED BY <1>0, <1>1, <2>2, <2>3 DEF ReadPage, ReadsAllowed, At
<1>2. ASSUME Visit PROVE ReadsAllowed'
  <2>1. reader.batch # <<>> /\ reader' = [reader EXCEPT !.batch = Tail(@)]
    BY <1>2 DEF Visit
  <2>2. \A d \in Range(Tail(reader.batch)) : d \in Range(reader.batch)
    BY <1>0, <2>1 DEF Range
  <2>3. reader'.batch = Tail(reader.batch) /\ reader'.networks = reader.networks /\ reader'.pc = reader.pc
    BY <1>0, <2>1 DEF Readers
  <2> QED BY <1>0, <1>2, <2>2, <2>3 DEF Visit, ReadsAllowed, At
<1>3. ASSUME PageDone PROVE ReadsAllowed'
  <2>1. UNCHANGED kind /\ kind # "user" /\ Goto(IF Continues THEN "page" ELSE "end")
    BY <1>3 DEF PageDone
  <2> QED BY <1>0, <2>1, GoneReads
<1>4. ASSUME End PROVE ReadsAllowed'
  BY <1>4, StoppedReads DEF End
<1> QED BY <1>1, <1>2, <1>3, <1>4 DEF ReadPage, Visit, PageDone, End

LEMMA AnswersReads ==
    ASSUME AnswerInv, AnswerList \/ AnswerExtended
    PROVE  ReadsAllowed' /\ OnlyAllowed' /\ ExtendedIsOwn'
<1>0. TypeOK /\ ReadsAllowed /\ At("visit") /\ kind = "user"
  BY DEF AnswerInv, AnswerList, AnswerExtended
<1>1. PICK elements : Answer(elements) /\ \A e \in elements : Own(e, Range(reader.batch))
  BY <1>0, AnswersOwn
<1>2. Range(reader.batch) \in SUBSET Documents
  BY <1>0, ReaderFields DEF TypeOK, Range
<1>3. \A d \in Range(reader.batch) : d.of \in checked'
  BY <1>0, <1>1 DEF ReadsAllowed, At, Answer
<1>4. answer' \in [networks : SUBSET Networks, elements : SUBSET Elements]
  BY <1>0, <1>1, AnswersTypes DEF TypeOK
<1>5. answer'.networks = {} /\ answer'.elements = elements
  BY <1>1 DEF Answer
<1>6. OnlyAllowed' /\ ExtendedIsOwn'
  <2>1. \A e \in answer'.elements : Own(e, Range(reader.batch))
    BY <1>1, <1>5
  <2> QED BY <1>2, <1>3, <1>4, <1>5, <2>1, AnswerIsFine
<1>7. ReadsAllowed'
  <2>1. CASE Stop
    BY <2>1, StoppedReads
  <2>2. CASE Goto(IF reader.full /\ reader.limit > 0 THEN "check" ELSE "end")
    <3>1. reader.networks \subseteq checked' /\ UNCHANGED kind
      BY <1>0, <1>1 DEF ReadsAllowed, At, Answer
    <3> QED BY <1>0, <2>2, <3>1, GoneReads
  <2> QED BY <1>1, <2>1, <2>2 DEF Answer
<1> QED BY <1>6, <1>7

LEMMA OthersReads ==
    ASSUME AnswerInv, Requests \/ Writes
    PROVE  ReadsAllowed' /\ OnlyAllowed' /\ ExtendedIsOwn'
<1>0. TypeOK /\ ReadsAllowed
  BY DEF AnswerInv
<1>1. ASSUME NEW d \in Documents, ApiRead(d) PROVE ReadsAllowed' /\ OnlyAllowed' /\ ExtendedIsOwn'
  <2>1. FindOne(d) \in SUBSET Documents /\ \A e \in FindOne(d) : e.of = d.of
    BY <1>0 DEF FindOne, TypeOK
  <2>2. ReadsAllowed'
    BY <1>0, <1>1 DEF ApiRead, ReadsAllowed, At
  <2>3. CASE CheckBool(d.of)
    <3>1. answer' = [networks |-> {}, elements |-> Plain(FindOne(d))] /\ \A e \in FindOne(d) : e.of \in checked'
      BY <1>1, <2>1, <2>3 DEF ApiRead, CheckBool
    <3>2. \A e \in answer'.elements : Own(e, FindOne(d))
      BY <2>1, <3>1, PlainOwn
    <3>3. answer' \in [networks : SUBSET Networks, elements : SUBSET Elements]
      BY <3>1, <3>2 DEF Own
    <3> QED BY <2>1, <2>2, <3>1, <3>2, <3>3, AnswerIsFine
  <2>4. CASE ~CheckBool(d.of)
    BY <1>1, <2>2, <2>4, NoAnswerIsFine DEF ApiRead, Delivered
  <2> QED BY <2>3, <2>4
<1>2. ASSUME NEW known \in SUBSET Networks, ApiListNetworks(known) PROVE ReadsAllowed' /\ OnlyAllowed' /\ ExtendedIsOwn'
  BY <1>0, <1>2 DEF ApiListNetworks, ReadsAllowed, At, OnlyAllowed, ExtendedIsOwn
<1>3. ASSUME NEW d \in Documents, Comes(d) \/ Goes(d) PROVE ReadsAllowed' /\ OnlyAllowed' /\ ExtendedIsOwn'
  BY <1>0, <1>3, NoAnswerIsFine DEF Comes, Goes, ReadsAllowed, At
<1>4. ASSUME NEW n \in Networks, ChangeRights(n) PROVE ReadsAllowed' /\ OnlyAllowed' /\ ExtendedIsOwn'
  BY <1>0, <1>4, NoAnswerIsFine DEF ChangeRights, ReadsAllowed, At, history
<1> QED BY <1>1, <1>2, <1>3, <1>4 DEF Requests, Writes

LEMMA NextAnswers == AnswerInv /\ [Next]_vars => AnswerInv'
<1> SUFFICES ASSUME AnswerInv, [Next]_vars PROVE AnswerInv'
  OBVIOUS
<1>1. TypeOK'
  BY NextTypeOK DEF AnswerInv
<1>2. CASE Begin \/ ApiCheckAccess \/ RemovePlaceholderDeployments \/ QueryFails
  BY <1>1, <1>2, QueriesReads, NoAnswerIsFine DEF AnswerInv
<1>3. CASE ReadPage \/ Visit \/ PageDone \/ End
  BY <1>1, <1>3, PagesReads, NoAnswerIsFine DEF AnswerInv
<1>4. CASE AnswerList \/ AnswerExtended
  BY <1>1, <1>4, AnswersReads DEF AnswerInv
<1>5. CASE Requests \/ Writes
  BY <1>1, <1>5, OthersReads DEF AnswerInv
<1>6. CASE UNCHANGED vars
  BY <1>1, <1>6 DEF AnswerInv, vars, history, ReadsAllowed, At, OnlyAllowed, ExtendedIsOwn
<1> QED BY <1>2, <1>3, <1>4, <1>5, <1>6 DEF Next, Steps

(* Users learn of no document, definition, metadata, error or network that *)
(* they had no right for when it was checked, page for page.               *)
THEOREM AllowedOnly == Spec => []OnlyAllowed
<1>1. AnswerInv => OnlyAllowed
  BY DEF AnswerInv
<1> QED BY <1>1, InitAnswers, NextAnswers, PTL DEF Spec

(* An extended deployment shows definition and diagram of its own network. *)
THEOREM ExtendedOwnOnly == Spec => []ExtendedIsOwn
<1>1. AnswerInv => ExtendedIsOwn
  BY DEF AnswerInv
<1> QED BY <1>1, InitAnswers, NextAnswers, PTL DEF Spec

-----------------------------------------------------------------------------
(* How a pass proceeds                                                     *)

LEMMA InitPassing == Init => Passing
BY DEF Init, Passing, Idle, At, Range

LEMMA StoppedPasses ==
    ASSUME Stop PROVE Passing'
BY DEF Stop, Idle, NoneSeen, Passing, At, Range

LEMMA QueriesPass ==
    ASSUME TypeOK, Passing, Begin \/ ApiCheckAccess \/ RemovePlaceholderDeployments \/ QueryFails
    PROVE  Passing'
<1>0. reader \in Readers
  BY DEF TypeOK
<1>1. ASSUME Begin PROVE Passing'
  <2>1. PICK q \in Queries :
          reader' = [pc |-> IF kind \in Loops THEN "page" ELSE "check",
                     collection |-> q.collection, networks |-> q.networks, search |-> q.search,
                     sort |-> q.sort, limit |-> q.limit, offset |-> 0, batch |-> <<>>, full |-> FALSE]
    BY <1>1 DEF Begin
  <2>2. (kind # "user" => q.limit = BatchSize) /\ (kind = "sync" => q.sort = "asc")
    BY QueryTypes DEF TypeOK
  <2>3. reader.offset = 0 /\ removed = {} /\ seen = NoneSeen
    BY <1>1 DEF Begin, Passing, Idle, At
  <2> QED BY <1>1, <2>1, <2>2, <2>3 DEF Begin, Passing, At, Range, NoneSeen
<1>2. ASSUME ApiCheckAccess PROVE Passing'
  <2>1. CASE Stop
    BY <2>1, StoppedPasses
  <2>2. CASE Goto(IF kind = "sync" THEN "clear" ELSE "page") /\ UNCHANGED <<seen, inserted, removed>>
    BY <1>0, <1>2, <2>2 DEF ApiCheckAccess, Goto, Passing, At, Range, Readers
  <2> QED BY <1>2, <2>1, <2>2 DEF ApiCheckAccess
<1>3. ASSUME RemovePlaceholderDeployments PROVE Passing'
  <2>1. At("clear") /\ kind = "sync" /\ reader.offset = 0 /\ seen = NoneSeen /\ removed = {}
    BY <1>3 DEF RemovePlaceholderDeployments, Passing, At
  <2>2. UNCHANGED <<kind, seen, inserted, removed>> /\ Goto("page")
    BY <1>3, <2>1 DEF RemovePlaceholderDeployments, Removed, InPages
  <2> QED BY <1>0, <2>1, <2>2 DEF Goto, Passing, At, Range, Readers, NoneSeen
<1>4. ASSUME QueryFails PROVE Passing'
  BY <1>4, StoppedPasses DEF QueryFails
<1> QED BY <1>1, <1>2, <1>3, <1>4

LEMMA PagesPass ==
    ASSUME TypeOK, Passing, ReadPage \/ Visit \/ PageDone \/ End
    PROVE  Passing'
<1>0. reader \in Readers /\ reader.limit \in Nat /\ reader.offset \in Nat /\ reader.batch \in Seq(Documents)
  BY ReaderFields DEF TypeOK
<1>1. ASSUME ReadPage PROVE Passing'
  <2>1. PICK q \in Found(Listed, reader.sort) :
          LET page == Page(q, reader.limit, reader.offset) IN
          /\ page \in Seq(Documents)
          /\ reader' = [reader EXCEPT !.pc = "visit", !.batch = page,
                                      !.offset = @ + reader.limit, !.full = Len(page) >= reader.limit]
          /\ seen' = [d \in Documents |-> IF d \in Range(page) /\ seen[d] < 2 THEN seen[d] + 1 ELSE seen[d]]
    BY <1>1, ReadPageFields
  <2> DEFINE page == Page(q, reader.limit, reader.offset)
  <2>2. /\ page \in Seq(Documents)
        /\ reader'.batch = page /\ reader'.pc = "visit" /\ reader'.offset = reader.offset + reader.limit
        /\ reader'.limit = reader.limit /\ reader'.sort = reader.sort
        /\ seen' = [d \in Documents |-> IF d \in Range(page) /\ seen[d] < 2 THEN seen[d] + 1 ELSE seen[d]]
    BY <1>0, <2>1 DEF Readers
  <2> HIDE DEF page
  <2>3. UNCHANGED <<kind, inserted, removed>> /\ At("page")
    BY <1>1 DEF ReadPage
  <2>4. \A d \in Range(page) : seen'[d] > 0
    BY <2>2 DEF TypeOK, Range
  <2>5. reader.offset = 0 => removed = {}
    BY DEF Passing
  <2>6. reader.limit = 0 => reader.offset = 0
    BY DEF Passing
  <2> QED BY <1>0, <2>2, <2>3, <2>4, <2>5, <2>6 DEF Passing, At
<1>2. ASSUME Visit PROVE Passing'
  <2>0. \A D : Removed(D) /\ reader.offset = 0 => removed' = removed
    BY DEF Removed, InPages
  <2>1. reader.batch # <<>> /\ reader' = [reader EXCEPT !.batch = Tail(@)] /\ At("visit")
        /\ UNCHANGED <<kind, seen, inserted>> /\ (reader.offset = 0 => removed' = removed)
    BY <1>2, <2>0 DEF Visit
  <2>2. \A d \in Range(Tail(reader.batch)) : d \in Range(reader.batch)
    BY <1>0, <2>1 DEF Range
  <2>3. /\ reader'.batch = Tail(reader.batch) /\ reader'.pc = "visit" /\ reader'.offset = reader.offset
        /\ reader'.limit = reader.limit /\ reader'.sort = reader.sort
    BY <1>0, <2>1 DEF Readers, At
  <2> QED BY <1>0, <2>1, <2>2, <2>3 DEF Passing, At
<1>3. ASSUME PageDone PROVE Passing'
  <2>1. /\ At("visit") /\ kind # "user" /\ UNCHANGED <<kind, seen, inserted, removed>>
        /\ reader' = [reader EXCEPT !.pc = IF Continues THEN "page" ELSE "end", !.batch = <<>>]
    BY <1>3 DEF PageDone, Goto, history
  <2>2. /\ reader'.batch = <<>> /\ reader'.pc = (IF Continues THEN "page" ELSE "end") /\ reader'.offset = reader.offset
        /\ reader'.limit = reader.limit /\ reader'.sort = reader.sort /\ reader'.full = reader.full
    BY <1>0, <2>1 DEF Readers
  <2>3. reader.limit = BatchSize /\ BatchSize # 0
    BY <2>1, BatchSizeAssumption DEF Passing, At
  <2>4. kind = "sync" => ~Continues
    BY DEF Continues
  <2>5. ~Continues => ~reader.full \/ kind = "sync"
    BY DEF Continues
  <2> QED BY <2>1, <2>2, <2>3, <2>4, <2>5 DEF Passing, At, Range
<1>4. ASSUME End PROVE Passing'
  BY <1>4, StoppedPasses DEF End
<1> QED BY <1>1, <1>2, <1>3, <1>4

LEMMA AnswersPass ==
    ASSUME TypeOK, Passing, NEW elements, Answer(elements), At("visit"), kind = "user"
    PROVE  Passing'
<1>1. CASE Stop
  BY <1>1, StoppedPasses
<1>2. CASE Goto(IF reader.full /\ reader.limit > 0 THEN "check" ELSE "end") /\ UNCHANGED <<seen, inserted, removed>>
  <2>1. /\ reader'.batch = <<>> /\ reader'.pc = (IF reader.full /\ reader.limit > 0 THEN "check" ELSE "end")
        /\ reader'.offset = reader.offset
        /\ reader'.limit = reader.limit /\ reader'.sort = reader.sort /\ reader'.full = reader.full
        /\ reader.limit \in Nat
    BY <1>2, ReaderFields DEF Goto, TypeOK, Readers
  <2> QED BY <1>2, <2>1 DEF Passing, At, Range, Answer
<1> QED BY <1>1, <1>2 DEF Answer

LEMMA OthersPass ==
    ASSUME TypeOK, Passing, Requests \/ Writes \/ UNCHANGED vars
    PROVE  Passing'
<1>1. CASE Requests \/ (\E n \in Networks : ChangeRights(n)) \/ UNCHANGED vars
  <2>1. UNCHANGED <<kind, reader, seen, inserted, removed>>
    BY <1>1 DEF Requests, ApiRead, ApiListNetworks, ChangeRights, vars, history
  <2> QED BY <2>1 DEF Passing, At
<1>2. ASSUME NEW d \in Documents, Comes(d) PROVE Passing'
  BY <1>2 DEF Comes, Passing, At
<1>3. ASSUME NEW d \in Documents, Goes(d) PROVE Passing'
  <2>1. UNCHANGED <<kind, reader, seen, inserted>> /\ (reader.offset = 0 => removed' = removed)
    BY <1>3 DEF Goes, Removed, InPages
  <2> QED BY <2>1 DEF Passing, At
<1> QED BY <1>1, <1>2, <1>3 DEF Writes

LEMMA NextPassing ==
    ASSUME TypeOK, Passing, [Next]_vars
    PROVE  Passing'
<1>1. CASE AnswerList \/ AnswerExtended
  <2>1. At("visit") /\ kind = "user"
    BY <1>1 DEF AnswerList, AnswerExtended
  <2>2. PICK elements : Answer(elements)
    BY <1>1, AnswersOwn
  <2> QED BY <2>1, <2>2, AnswersPass
<1> QED BY <1>1, QueriesPass, PagesPass, OthersPass DEF Next, Steps

-----------------------------------------------------------------------------
(* Places in the results                                                   *)

LEMMA Order ==
    ASSUME NEW s \in {"asc", "desc", "none"}
    PROVE  /\ \A d, e \in Documents : MayPrecede(d, e, s) \/ MayPrecede(e, d, s)
           /\ \A d, e, f \in Documents : MayPrecede(d, e, s) /\ MayPrecede(e, f, s) => MayPrecede(d, f, s)
<1>1. \A d \in Documents : d.id \in Nat
  BY DocumentsAssumption
<1>2. CASE s = "asc"
  BY <1>1, <1>2 DEF MayPrecede
<1>3. CASE s = "desc"
  BY <1>1, <1>3 DEF MayPrecede
<1>4. CASE s = "none"
  BY <1>4 DEF MayPrecede
<1> QED BY <1>2, <1>3, <1>4

LEMMA Sets ==
    ASSUME TypeOK
    PROVE  /\ Listed \subseteq Documents /\ IsFiniteSet(Listed)
           /\ \A d : IsFiniteSet(Before(d)) /\ Cardinality(Before(d)) \in Nat
           /\ \A d : IsFiniteSet(SurelyBefore(d)) /\ Cardinality(SurelyBefore(d)) \in Nat
<1>1. Listed \subseteq Documents /\ IsFiniteSet(Listed)
  BY DocumentsAssumption, FS_Subset DEF TypeOK, Listed
<1>2. \A d : Before(d) \in SUBSET Listed /\ SurelyBefore(d) \in SUBSET Listed
  BY DEF Before, SurelyBefore
<1>3. \A S \in SUBSET Listed : IsFiniteSet(S) /\ Cardinality(S) \in Nat
  BY <1>1, FS_Subset, FS_CardinalityType
<1> QED BY <1>1, <1>2, <1>3

(* The place of a document, the documents before it, and those surely      *)
(* before it; without a tie they are the same.                             *)
LEMMA Places ==
    ASSUME TypeOK, NEW q \in Found(Listed, reader.sort), NEW p \in 1..Len(q)
    PROVE  /\ Cardinality(Before(q[p])) >= p - 1
           /\ Cardinality(SurelyBefore(q[p])) <= p - 1
           /\ (\A e \in Listed : ~Tied(q[p], e)) => Cardinality(Before(q[p])) <= p - 1
<1>0. /\ reader.sort \in {"asc", "desc", "none"} /\ Listed \subseteq Documents /\ IsFiniteSet(Listed)
  BY Sets, ReaderFields DEF TypeOK
<1>1. /\ q \in Seq(Listed) /\ Len(q) \in Nat
      /\ \A i, j \in 1..Len(q) : i # j => q[i] # q[j]
      /\ \A e \in Listed : \E i \in 1..Len(q) : q[i] = e
      /\ \A i, j \in 1..Len(q) : i < j => MayPrecede(q[i], q[j], reader.sort)
  BY <1>0, Results
<1> DEFINE F == {q[i] : i \in 1..(p - 1)}
           d == q[p]
<1>2. p - 1 \in 0..Len(q) /\ d \in Listed
  BY <1>1
<1>3. IsFiniteSet(F) /\ Cardinality(F) = p - 1
  <2>1. \A k \in 0..Len(q) : IsFiniteSet({q[i] : i \in 1..k}) /\ Cardinality({q[i] : i \in 1..k}) = k
    BY <1>0, FirstOnes
  <2> QED BY <1>2, <2>1
<1>4. F \subseteq Before(d)
  <2> SUFFICES ASSUME NEW i \in 1..(p - 1) PROVE q[i] \in Before(d)
    OBVIOUS
  <2>1. i \in 1..Len(q) /\ i < p
    BY <1>2, <1>1
  <2> QED BY <1>1, <2>1 DEF Before
<1>5. SurelyBefore(d) \subseteq F
  <2> SUFFICES ASSUME NEW e \in SurelyBefore(d) PROVE e \in F
    OBVIOUS
  <2>1. PICK i \in 1..Len(q) : q[i] = e
    BY <1>1 DEF SurelyBefore
  <2>2. ~MayPrecede(d, e, reader.sort) /\ MayPrecede(d, d, reader.sort)
    BY <1>0, <1>2, Order DEF SurelyBefore
  <2>3. i # p /\ ~(p < i)
    BY <1>1, <2>1, <2>2
  <2>4. i \in 1..(p - 1)
    BY <1>1, <2>1, <2>3
  <2> QED BY <2>1, <2>4
<1>6. (\A e \in Listed : ~Tied(d, e)) => Before(d) \subseteq SurelyBefore(d)
  BY DEF Tied, Before, SurelyBefore
<1> HIDE DEF F, d
<1>7. Cardinality(Before(d)) >= p - 1
  BY <1>3, <1>4, Sets, FS_Subset
<1>8. Cardinality(SurelyBefore(d)) <= p - 1
  BY <1>3, <1>5, FS_Subset
<1>9. Before(d) \subseteq SurelyBefore(d) => Cardinality(Before(d)) <= Cardinality(SurelyBefore(d))
  BY Sets, FS_Subset
<1> QED
  <2>1. Cardinality(Before(d)) \in Nat /\ Cardinality(SurelyBefore(d)) \in Nat
    BY Sets
  <2> QED BY <1>6, <1>7, <1>8, <1>9, <2>1 DEF d

(* A page of the result q was read.                                        *)
PageRead(q) ==
    /\ \A i \in 1..Len(q) :
          q[i] \in Range(reader'.batch) <=>
              reader.offset < i /\ (reader.limit = 0 \/ i <= reader.offset + reader.limit)
    /\ \A d \in Range(reader'.batch) : d \in Listed
    /\ ~reader'.full => Len(q) < reader.offset + reader.limit
    /\ seen' = [d \in Documents |-> IF d \in Range(reader'.batch) /\ seen[d] < 2 THEN seen[d] + 1 ELSE seen[d]]

LEMMA ReadPageReads ==
    ASSUME TypeOK, ReadPage
    PROVE  /\ \E q \in Found(Listed, reader.sort) : PageRead(q)
           /\ reader'.pc = "visit" /\ reader'.offset = reader.offset + reader.limit
           /\ reader'.limit = reader.limit /\ reader'.sort = reader.sort
           /\ reader'.networks = reader.networks /\ reader'.search = reader.search
<1>0. reader \in Readers /\ reader.limit \in Nat /\ reader.offset \in Nat
  BY ReaderFields DEF TypeOK
<1>1. PICK q \in Found(Listed, reader.sort) :
        LET page == Page(q, reader.limit, reader.offset) IN
        /\ page \in Seq(Listed)
        /\ reader' = [reader EXCEPT !.pc = "visit", !.batch = page,
                                    !.offset = @ + reader.limit, !.full = Len(page) >= reader.limit]
        /\ seen' = [d \in Documents |-> IF d \in Range(page) /\ seen[d] < 2 THEN seen[d] + 1 ELSE seen[d]]
  BY ReadPageFields
<1> DEFINE page == Page(q, reader.limit, reader.offset)
<1>2. /\ page \in Seq(Listed)
      /\ reader'.batch = page /\ reader'.pc = "visit" /\ reader'.offset = reader.offset + reader.limit
      /\ reader'.full = (Len(page) >= reader.limit)
      /\ reader'.limit = reader.limit /\ reader'.sort = reader.sort
      /\ reader'.networks = reader.networks /\ reader'.search = reader.search
      /\ seen' = [d \in Documents |-> IF d \in Range(page) /\ seen[d] < 2 THEN seen[d] + 1 ELSE seen[d]]
  BY <1>0, <1>1 DEF Readers
<1>3. /\ q \in Seq(Listed) /\ Len(q) \in Nat
      /\ \A i, j \in 1..Len(q) : i # j => q[i] # q[j]
  BY Sets, Results
<1>4. /\ \A i \in 1..Len(q) : reader.offset < i /\ (reader.limit = 0 \/ i <= reader.offset + reader.limit)
            => q[i] \in Range(page)
      /\ \A e \in Range(page) : \E i \in 1..Len(q) :
            reader.offset < i /\ (reader.limit = 0 \/ i <= reader.offset + reader.limit) /\ q[i] = e
      /\ Len(page) < reader.limit => Len(q) < reader.offset + reader.limit
  BY <1>0, <1>3, Pages
<1> HIDE DEF page
<1>5. \A i \in 1..Len(q) :
          q[i] \in Range(page) <=>
              reader.offset < i /\ (reader.limit = 0 \/ i <= reader.offset + reader.limit)
  BY <1>3, <1>4
<1>6. \A d \in Range(page) : d \in Listed
  BY <1>2 DEF Range
<1>7. Len(page) \in Nat
  BY <1>2
<1>8. PageRead(q)
  <2>1. ~reader'.full => Len(page) < reader.limit
    <3>1. Len(page) < reader.limit \/ Len(page) >= reader.limit
      BY <1>0, <1>7
    <3>2. Len(page) >= reader.limit => reader'.full
      BY <1>2, Zenon
    <3> QED BY <3>1, <3>2
  <2>2. ~reader'.full => Len(q) < reader.offset + reader.limit
    BY <1>4, <2>1
  <2> QED BY <1>2, <1>5, <1>6, <2>2 DEF PageRead
<1> QED BY <1>2, <1>8

-----------------------------------------------------------------------------
(* A page more                                                             *)

LEMMA ReadPageToCome ==
    ASSUME PassInv, ReadPage
    PROVE  ToComeIsBehind'
<1>0. /\ TypeOK /\ Passing /\ ToComeIsBehind
      /\ reader.sort \in {"asc", "desc", "none"} /\ reader.limit \in Nat /\ reader.offset \in Nat
  BY ReaderFields DEF PassInv, TypeOK
<1>1. PICK q \in Found(Listed, reader.sort) : PageRead(q)
  BY <1>0, ReadPageReads
<1>2. /\ reader'.pc = "visit" /\ reader'.offset = reader.offset + reader.limit
      /\ reader'.limit = reader.limit /\ reader'.sort = reader.sort
      /\ reader'.networks = reader.networks /\ reader'.search = reader.search
  BY <1>0, ReadPageReads
<1>3. UNCHANGED <<kind, docs, inserted, removed>> /\ At("page")
  BY <1>0 DEF ReadPage
<1>4. /\ q \in Seq(Listed) /\ Len(q) \in Nat /\ Listed \subseteq Documents
      /\ \A e \in Listed : \E i \in 1..Len(q) : q[i] = e
      /\ \A i, j \in 1..Len(q) : i < j => MayPrecede(q[i], q[j], reader.sort)
  BY <1>0, Sets, Results
<1>5. Listed' = Listed
  BY <1>2, <1>3 DEF Listed, Wanted
<1> SUFFICES ASSUME NEW d \in Documents, StillToCome(d)'
             PROVE  /\ Cardinality(Before(d)') >= reader'.offset
                    /\ reader'.full /\ reader'.limit > 0
                    /\ kind = "sync" => \A e \in Documents : seen'[e] > 0 => e.id <= d.id
  BY <1>3 DEF ToComeIsBehind
<1>6. /\ d \in Listed \ inserted /\ seen'[d] = 0 /\ ~Shuffled(d)'
      /\ \A r \in removed : ~MayPrecede(r, d, reader.sort)
  BY <1>2, <1>3, <1>5 DEF StillToCome
<1>7. Before(d)' = Before(d)
  BY <1>2, <1>5 DEF Before
<1>8. seen[d] = 0 /\ d \notin Range(reader'.batch)
  BY <1>0, <1>1, <1>6 DEF PageRead, TypeOK
<1>9. PICK p \in 1..Len(q) : q[p] = d
  BY <1>4, <1>6
<1>10. p <= reader.offset \/ (reader.limit # 0 /\ p > reader.offset + reader.limit)
  BY <1>0, <1>1, <1>4, <1>8, <1>9 DEF PageRead
<1>11. Cardinality(Before(d)) >= p - 1 /\ Cardinality(Before(d)) \in Nat
  BY <1>0, <1>9, Places, Sets
<1>12. p > reader.offset
  <2>1. CASE reader.offset = 0
    BY <1>4, <2>1
  <2>2. CASE reader.offset # 0
    <3>1. reader.limit > 0
      BY <1>0, <2>2 DEF Passing
    <3>2. \A e \in Listed : ~Tied(d, e)
      <4>1. Several'
        BY <1>0, <1>2, <2>2, <3>1 DEF Several
      <4>2. \A e \in Listed : Tied(d, e) <=> Tied(d, e)'
        BY <1>2 DEF Tied
      <4> QED BY <1>5, <1>6, <4>1, <4>2 DEF Shuffled
    <3>3. StillToCome(d)
      BY <1>6, <1>8, <3>2 DEF StillToCome, Shuffled
    <3>4. Cardinality(Before(d)) >= reader.offset
      BY <1>0, <3>3 DEF ToComeIsBehind
    <3>5. Cardinality(Before(d)) <= p - 1
      BY <1>0, <1>9, <3>2, Places
    <3> QED BY <1>0, <1>4, <1>11, <3>4, <3>5
  <2> QED BY <2>1, <2>2
<1>13. reader.limit > 0 /\ p > reader.offset + reader.limit
  BY <1>0, <1>4, <1>10, <1>12
<1>14. Cardinality(Before(d)') >= reader'.offset
  BY <1>0, <1>2, <1>4, <1>7, <1>11, <1>13
<1>15. reader'.full
  BY <1>0, <1>1, <1>4, <1>13 DEF PageRead
<1>16. ASSUME kind = "sync", NEW e \in Documents, seen'[e] > 0 PROVE e.id <= d.id
  <2>1. reader.offset = 0 /\ seen = NoneSeen /\ reader.sort = "asc"
    BY <1>3, <1>16 DEF Passing, At, PassInv
  <2>2. e \in Range(reader'.batch)
    BY <1>1, <1>16, <2>1 DEF PageRead, NoneSeen
  <2>3. e \in Listed
    BY <1>1, <2>2 DEF PageRead
  <2>4. PICK i \in 1..Len(q) : q[i] = e
    BY <1>4, <2>3
  <2>5. i <= reader.limit
    BY <1>0, <1>1, <1>13, <2>1, <2>2, <2>4 DEF PageRead
  <2>6. i < p
    BY <1>0, <1>4, <1>13, <2>1, <2>5
  <2>7. MayPrecede(e, d, "asc")
    BY <1>4, <1>9, <2>1, <2>4, <2>6
  <2> QED BY <2>7 DEF MayPrecede
<1> QED BY <1>2, <1>13, <1>14, <1>15, <1>16

LEMMA ReadPageSeen ==
    ASSUME PassInv, ReadPage
    PROVE  SeenIsInFront' /\ NothingTwice'
<1>0. /\ TypeOK /\ Passing /\ SeenIsInFront /\ NothingTwice
      /\ reader.sort \in {"asc", "desc", "none"} /\ reader.limit \in Nat /\ reader.offset \in Nat
  BY ReaderFields DEF PassInv, TypeOK
<1>1. PICK q \in Found(Listed, reader.sort) : PageRead(q)
  BY <1>0, ReadPageReads
<1>2. /\ reader'.pc = "visit" /\ reader'.offset = reader.offset + reader.limit
      /\ reader'.limit = reader.limit /\ reader'.sort = reader.sort
      /\ reader'.networks = reader.networks /\ reader'.search = reader.search
  BY <1>0, ReadPageReads
<1>3. UNCHANGED <<kind, docs, inserted, removed>> /\ At("page")
  BY <1>0 DEF ReadPage
<1>4. /\ q \in Seq(Listed) /\ Len(q) \in Nat /\ Listed \subseteq Documents
      /\ \A e \in Listed : \E i \in 1..Len(q) : q[i] = e
  BY <1>0, Sets, Results
<1>5. Listed' = Listed
  BY <1>2, <1>3 DEF Listed, Wanted
<1>6. \A d, e \in Documents : Tied(d, e) <=> Tied(d, e)'
  BY <1>2 DEF Tied
<1>7. \A d \in Documents : seen'[d] = IF d \in Range(reader'.batch) /\ seen[d] < 2 THEN seen[d] + 1 ELSE seen[d]
  BY <1>1 DEF PageRead
<1>8. \A d \in Documents : seen[d] \in 0..2
  BY <1>0 DEF TypeOK
(* What was seen before and is settled is not on this page.                *)
<1>9. ASSUME NEW d \in Documents, reader.limit > 0, Settled(d)', seen[d] > 0
      PROVE  Cardinality(SurelyBefore(d)) < reader.offset /\ d \notin Range(reader'.batch)
  <2>1. reader.offset > 0
    BY <1>0, <1>9 DEF Passing, NoneSeen
  <2>2. Several'
    BY <1>0, <1>2, <1>9, <2>1 DEF Several
  <2>3. \A e \in Documents : ~Tied(d, e)
    BY <1>6, <1>9, <2>2 DEF Settled
  <2>4. d \in Listed /\ \A i \in inserted : ~MayPrecede(i, d, reader.sort)
    BY <1>2, <1>3, <1>5, <1>9 DEF Settled
  <2>5. Settled(d)
    BY <1>9, <2>3, <2>4 DEF Settled
  <2>6. Cardinality(SurelyBefore(d)) < reader.offset
    BY <1>0, <1>9, <2>5 DEF SeenIsInFront
  <2>7. PICK p \in 1..Len(q) : q[p] = d
    BY <1>4, <2>4
  <2>8. Cardinality(Before(d)) >= p - 1
    BY <1>0, <2>7, Places
  <2>9. Before(d) \subseteq SurelyBefore(d)
    BY <1>4, <2>3 DEF Tied, Before, SurelyBefore
  <2>10. Cardinality(Before(d)) <= Cardinality(SurelyBefore(d))
    BY <1>0, <2>9, Sets, FS_Subset
  <2>11. Cardinality(Before(d)) \in Nat /\ Cardinality(SurelyBefore(d)) \in Nat
    BY <1>0, Sets
  <2>12. p <= reader.offset
    BY <1>0, <1>4, <2>6, <2>8, <2>10, <2>11
  <2>13. d \notin Range(reader'.batch)
    <3>1. p \in Nat /\ ~(reader.offset < p)
      BY <1>0, <1>4, <2>12
    <3>2. q[p] \notin Range(reader'.batch)
      BY <1>1, <3>1 DEF PageRead
    <3> QED BY <2>7, <3>2
  <2> QED BY <2>6, <2>13
<1>10. SeenIsInFront'
  <2> SUFFICES ASSUME NEW d \in Documents, Settled(d)', reader.limit > 0
               PROVE  Cardinality(SurelyBefore(d)') < reader'.offset
    BY <1>2 DEF SeenIsInFront
  <2>1. SurelyBefore(d)' = SurelyBefore(d)
    BY <1>2, <1>5 DEF SurelyBefore
  <2>2. Cardinality(SurelyBefore(d)) \in Nat
    BY <1>0, Sets
  <2>3. CASE seen[d] > 0
    BY <1>0, <1>2, <1>9, <2>1, <2>2, <2>3
  <2>4. CASE seen[d] = 0
    <3>1. d \in Range(reader'.batch) /\ d \in Listed
      BY <1>1, <1>7, <2>4 DEF Settled, PageRead
    <3>2. PICK p \in 1..Len(q) : q[p] = d
      BY <1>4, <3>1
    <3>3. p <= reader.offset + reader.limit
      BY <1>0, <1>1, <3>1, <3>2 DEF PageRead
    <3>4. Cardinality(SurelyBefore(d)) <= p - 1
      BY <1>0, <3>2, Places
    <3> QED BY <1>0, <1>2, <1>4, <2>1, <2>2, <3>3, <3>4
  <2> QED BY <1>8, <2>3, <2>4
<1>11. NothingTwice'
  <2> SUFFICES ASSUME NEW d \in Documents, seen'[d] > 1,
                      \A i \in inserted : ~MayPrecede(i, d, reader.sort)
               PROVE  Several' /\ \E e \in Documents : Tied(d, e)'
    BY <1>2, <1>3 DEF NothingTwice
  <2>1. reader.limit > 0 /\ reader.offset > 0
    <3>1. seen[d] > 0
      BY <1>7, <1>8
    <3>2. seen # NoneSeen
      BY <3>1 DEF NoneSeen
    <3> QED BY <1>0, <1>3, <3>2 DEF Passing, At
  <2>2. Several'
    BY <1>0, <1>2, <2>1 DEF Several
  <2>3. CASE seen[d] > 1
    BY <1>0, <1>6, <2>2, <2>3 DEF NothingTwice
  <2>4. CASE seen[d] <= 1
    <3>1. d \in Range(reader'.batch) /\ seen[d] > 0
      BY <1>7, <1>8, <2>4
    <3>2. d \in Listed'
      BY <1>1, <1>5, <3>1 DEF PageRead
    <3>3. ~Settled(d)'
      BY <1>9, <2>1, <3>1
    <3>4. seen'[d] > 0
      BY <1>7, <1>8, <3>1
    <3>5. \A i \in inserted' : ~MayPrecede(i, d, reader'.sort)
      BY <1>2, <1>3
    <3> QED BY <2>2, <3>2, <3>3, <3>4, <3>5 DEF Settled
  <2> QED BY <1>8, <2>2, <2>3, <2>4
<1> QED BY <1>10, <1>11

-----------------------------------------------------------------------------
(* The other steps of a pass, and of the others                            *)

LEMMA SetsAfter ==
    ASSUME TypeOK'
    PROVE  \A d : Cardinality(Before(d)') \in Nat /\ IsFiniteSet(Before(d)') /\ IsFiniteSet(SurelyBefore(d)')
                  /\ Cardinality(SurelyBefore(d)') \in Nat
<1>1. Listed' \subseteq Documents /\ IsFiniteSet(Listed')
  BY DocumentsAssumption, FS_Subset DEF TypeOK, Listed
<1>2. \A d : Before(d)' \in SUBSET Listed' /\ SurelyBefore(d)' \in SUBSET Listed'
  BY DEF Before, SurelyBefore
<1>3. \A S \in SUBSET Listed' : IsFiniteSet(S) /\ Cardinality(S) \in Nat
  BY <1>1, FS_Subset, FS_CardinalityType
<1> QED BY <1>2, <1>3

(* Before the first page.                                                  *)
LEMMA NothingRead ==
    ASSUME TypeOK', reader'.offset = 0, seen' = NoneSeen, reader'.pc \notin {"visit", "end"}
    PROVE  ToComeIsBehind' /\ SeenIsInFront' /\ NothingTwice'
<1>1. \A d \in Documents : seen'[d] = 0
  BY DEF NoneSeen
<1>2. ToComeIsBehind'
  BY <1>1, SetsAfter DEF ToComeIsBehind
<1>3. SeenIsInFront'
  BY <1>1 DEF SeenIsInFront, Settled
<1>4. NothingTwice'
  BY <1>1 DEF NothingTwice
<1> QED BY <1>2, <1>3, <1>4

LEMMA StoppedBehind ==
    ASSUME TypeOK', Stop
    PROVE  ToComeIsBehind' /\ SeenIsInFront' /\ NothingTwice'
BY NothingRead DEF Stop, Idle

(* The query goes on where it was.                                         *)
SameQuery ==
    /\ UNCHANGED <<kind, seen>>
    /\ reader'.networks = reader.networks /\ reader'.search = reader.search /\ reader'.sort = reader.sort
    /\ reader'.limit = reader.limit /\ reader'.offset = reader.offset /\ reader'.full = reader.full
    /\ reader'.pc \in {"visit", "end"} => reader.pc \in {"visit", "end"}

LEMMA SameDocuments ==
    ASSUME PassInv, SameQuery, UNCHANGED <<docs, inserted, removed>>
    PROVE  ToComeIsBehind' /\ SeenIsInFront' /\ NothingTwice'
<1>1. Listed' = Listed
  BY DEF SameQuery, Listed, Wanted
<1>2. \A d, e : Tied(d, e)' <=> Tied(d, e)
  BY DEF SameQuery, Tied
<1>3. Several' <=> Several
  BY DEF SameQuery, Several
<1>4. \A d : (Shuffled(d)' <=> Shuffled(d)) /\ Before(d)' = Before(d) /\ SurelyBefore(d)' = SurelyBefore(d)
  BY <1>1, <1>2, <1>3 DEF Shuffled, Before, SurelyBefore, SameQuery
<1>5. \A d \in Documents : (StillToCome(d)' <=> StillToCome(d)) /\ (Settled(d)' <=> Settled(d))
  BY <1>1, <1>2, <1>3, <1>4 DEF StillToCome, Settled, SameQuery
<1>6. ToComeIsBehind'
  BY <1>4, <1>5 DEF PassInv, ToComeIsBehind, SameQuery
<1>7. SeenIsInFront'
  BY <1>4, <1>5 DEF PassInv, SeenIsInFront, SameQuery
<1>8. NothingTwice'
  BY <1>2, <1>3 DEF PassInv, NothingTwice, SameQuery
<1> QED BY <1>6, <1>7, <1>8

(* A removal: what is recorded is an exception from now on, and what is    *)
(* not is behind the pages, and with it all that is behind it.             *)
LEMMA RemovalKeeps ==
    ASSUME PassInv, TypeOK', SameQuery, UNCHANGED inserted, NEW r \in Documents, Removed({r})
    PROVE  ToComeIsBehind' /\ SeenIsInFront' /\ NothingTwice'
<1>0. /\ TypeOK /\ ToComeIsBehind /\ SeenIsInFront
      /\ reader.sort \in {"asc", "desc", "none"} /\ reader.limit \in Nat /\ reader.offset \in Nat
      /\ Listed \subseteq Documents
  BY ReaderFields, Sets DEF PassInv, TypeOK
<1>1. /\ Listed' = Listed \ {r}
      /\ removed \subseteq removed' /\ removed \subseteq Documents
      /\ r \in Listed /\ InPages(r) => r \in removed'
  BY <1>0 DEF SameQuery, Listed, Wanted, Removed, TypeOK
<1>2. \A d, e : Tied(d, e)' <=> Tied(d, e)
  BY DEF SameQuery, Tied
<1>3. Several' <=> Several
  BY DEF SameQuery, Several
<1>4. ASSUME NEW d \in Documents, StillToCome(d)'
      PROVE  StillToCome(d) /\ Cardinality(Before(d)') >= reader.offset
  <2>1. /\ d \in Listed \ inserted /\ d # r /\ seen[d] = 0 /\ ~Shuffled(d)'
        /\ \A x \in removed' : ~MayPrecede(x, d, reader.sort)
    BY <1>1, <1>4 DEF StillToCome, SameQuery
  <2>2. ~Shuffled(d)
    <3> SUFFICES ASSUME Several, NEW e \in Listed, Tied(d, e) PROVE FALSE
      BY DEF Shuffled
    <3>1. e = r
      BY <1>1, <1>2, <1>3, <2>1 DEF Shuffled
    <3>2. Tied(r, d) /\ MayPrecede(r, d, reader.sort)
      BY <3>1 DEF Tied
    <3>3. reader.offset > 0
      BY <1>0 DEF Several
    <3>4. InPages(r)
      BY <2>1, <3>2, <3>3 DEF InPages
    <3> QED BY <1>1, <2>1, <3>1, <3>2, <3>4
  <2>3. StillToCome(d)
    BY <1>1, <2>1, <2>2 DEF StillToCome
  <2>4. Cardinality(Before(d)) >= reader.offset
    BY <1>0, <2>3 DEF ToComeIsBehind
  <2>5. Before(d)' = Before(d) \ {r}
    BY <1>1 DEF Before, SameQuery
  <2>6. Cardinality(Before(d)') >= reader.offset
    <3>1. CASE r \notin Before(d)
      <4>1. Before(d)' = Before(d)
        BY <2>5, <3>1
      <4> QED BY <2>4, <4>1
    <3>2. CASE reader.offset = 0
      BY SetsAfter, <3>2
    <3>3. CASE r \in Before(d) /\ reader.offset > 0
      <4>1. r \in Listed /\ MayPrecede(r, d, reader.sort) /\ r \notin removed'
        BY <2>1, <3>3 DEF Before
      <4>2. seen[r] = 0 /\ r \notin inserted /\ \A e \in Listed : ~Tied(r, e)
        <5>1. ~InPages(r)
          BY <1>1, <4>1
        <5>2. seen[r] \in 0..2
          BY <1>0 DEF TypeOK
        <5> QED BY <3>3, <5>1, <5>2 DEF InPages
      <4>3. \A x \in removed : ~MayPrecede(x, r, reader.sort)
        BY <1>0, <1>1, <2>1, <4>1, Order
      <4>4. StillToCome(r)
        BY <4>1, <4>2, <4>3 DEF StillToCome, Shuffled
      <4>5. Cardinality(Before(r)) >= reader.offset
        BY <1>0, <4>4 DEF ToComeIsBehind
      <4>6. Before(r) \subseteq Before(d)'
        <5> SUFFICES ASSUME NEW e \in Before(r) PROVE e \in Before(d)'
          OBVIOUS
        <5>1. e \in Listed /\ e # r /\ MayPrecede(e, r, reader.sort)
          BY DEF Before
        <5>2. MayPrecede(e, d, reader.sort)
          BY <1>0, <4>1, <5>1, Order
        <5>3. e # d
          BY <2>1, <4>1, <4>2, <5>1 DEF Tied
        <5> QED BY <2>5, <5>1, <5>2, <5>3 DEF Before
      <4>7. Cardinality(Before(r)) <= Cardinality(Before(d)')
        BY <4>6, SetsAfter, FS_Subset
      <4>8. Cardinality(Before(r)) \in Nat /\ Cardinality(Before(d)') \in Nat
        BY <1>0, Sets, SetsAfter
      <4> QED BY <1>0, <4>5, <4>7, <4>8
    <3> QED BY <1>0, <3>1, <3>2, <3>3
  <2> QED BY <2>3, <2>6
<1>5. ToComeIsBehind'
  BY <1>0, <1>4 DEF ToComeIsBehind, SameQuery
<1>6. SeenIsInFront'
  <2> SUFFICES ASSUME NEW d \in Documents, Settled(d)', reader.limit > 0
               PROVE  Cardinality(SurelyBefore(d)') < reader.offset
    BY DEF SeenIsInFront, SameQuery
  <2>1. Settled(d)
    BY <1>1, <1>2, <1>3 DEF Settled, SameQuery
  <2>2. Cardinality(SurelyBefore(d)) < reader.offset
    BY <1>0, <2>1 DEF SeenIsInFront
  <2>3. SurelyBefore(d)' \subseteq SurelyBefore(d)
    BY <1>1 DEF SurelyBefore, SameQuery
  <2>4. Cardinality(SurelyBefore(d)') <= Cardinality(SurelyBefore(d))
    BY <1>0, <2>3, Sets, FS_Subset
  <2>5. Cardinality(SurelyBefore(d)) \in Nat /\ Cardinality(SurelyBefore(d)') \in Nat
    BY <1>0, Sets, SetsAfter
  <2> QED BY <1>0, <2>2, <2>4, <2>5
<1>7. NothingTwice'
  BY <1>2, <1>3 DEF PassInv, NothingTwice, SameQuery
<1> QED BY <1>5, <1>6, <1>7

(* What comes in pushes others back only if it is an exception for them.   *)
LEMMA ComesKeeps ==
    ASSUME PassInv, TypeOK', NEW i \in Documents, Comes(i)
    PROVE  ToComeIsBehind' /\ SeenIsInFront' /\ NothingTwice'
<1>0. /\ TypeOK /\ ToComeIsBehind /\ SeenIsInFront
      /\ reader.sort \in {"asc", "desc", "none"} /\ reader.limit \in Nat /\ reader.offset \in Nat
      /\ Listed \subseteq Documents
  BY ReaderFields, Sets DEF PassInv, TypeOK
<1>1. CASE reader = Idle
  <2>1. reader'.offset = 0 /\ seen' = NoneSeen /\ reader'.pc = "idle"
    BY <1>1 DEF Comes, PassInv, Passing, Idle, At
  <2> QED BY <2>1, NothingRead
<1>2. CASE reader # Idle
  <2>1. /\ UNCHANGED <<kind, reader, seen, removed>>
        /\ inserted' = inserted \cup {i} /\ Listed \subseteq Listed' /\ Listed' \subseteq Listed \cup {i}
    BY <1>2 DEF Comes, Listed, Wanted
  <2>2. \A d, e : Tied(d, e)' <=> Tied(d, e)
    BY <2>1 DEF Tied
  <2>3. Several' <=> Several
    BY <2>1 DEF Several
  <2>4. ToComeIsBehind'
    <3> SUFFICES ASSUME NEW d \in Documents, StillToCome(d)'
                 PROVE  StillToCome(d) /\ Cardinality(Before(d)') >= Cardinality(Before(d))
                        /\ Cardinality(Before(d)) \in Nat /\ Cardinality(Before(d)') \in Nat
      BY <1>0, <2>1 DEF ToComeIsBehind
    <3>1. d \in Listed \ inserted /\ seen[d] = 0 /\ ~Shuffled(d)'
          /\ \A x \in removed : ~MayPrecede(x, d, reader.sort)
      BY <2>1 DEF StillToCome
    <3>2. ~Shuffled(d)
      BY <2>1, <2>2, <2>3, <3>1 DEF Shuffled
    <3>3. StillToCome(d)
      BY <3>1, <3>2 DEF StillToCome
    <3>4. Before(d) \subseteq Before(d)'
      BY <2>1 DEF Before
    <3>5. Cardinality(Before(d)) <= Cardinality(Before(d)')
      BY <3>4, SetsAfter, FS_Subset
    <3> QED BY <1>0, <3>3, <3>5, Sets, SetsAfter
  <2>5. SeenIsInFront'
    <3> SUFFICES ASSUME NEW d \in Documents, Settled(d)', reader.limit > 0
                 PROVE  Cardinality(SurelyBefore(d)') < reader.offset
      BY <2>1 DEF SeenIsInFront
    <3>1. /\ d \in Listed' /\ seen[d] > 0 /\ ~MayPrecede(i, d, reader.sort)
          /\ \A x \in inserted : ~MayPrecede(x, d, reader.sort)
          /\ ~(Several /\ \E e \in Documents : Tied(d, e))
      BY <2>1, <2>2, <2>3 DEF Settled
    <3>2. MayPrecede(d, i, reader.sort) /\ MayPrecede(d, d, reader.sort)
      BY <1>0, <3>1, Order
    <3>3. d \in Listed
      BY <2>1, <3>1, <3>2
    <3>4. Settled(d)
      BY <3>1, <3>3 DEF Settled
    <3>5. SurelyBefore(d)' = SurelyBefore(d)
      BY <2>1, <3>2 DEF SurelyBefore
    <3> QED BY <1>0, <3>4, <3>5 DEF SeenIsInFront
  <2>6. NothingTwice'
    BY <2>1, <2>2, <2>3 DEF PassInv, NothingTwice
  <2> QED BY <2>4, <2>5, <2>6
<1> QED BY <1>1, <1>2


-----------------------------------------------------------------------------
(* A pass misses nothing and meets nothing twice                           *)

LEMMA InitPassInv == Init => PassInv
<1> SUFFICES ASSUME Init PROVE PassInv
  OBVIOUS
<1>1. TypeOK /\ Passing
  BY InitTypeOK, InitPassing
<1>2. seen = NoneSeen /\ reader.offset = 0 /\ reader.pc = "idle"
  BY DEF Init, Idle
<1>3. \A d \in Documents : seen[d] = 0
  BY <1>2 DEF NoneSeen
<1>4. ToComeIsBehind
  BY <1>1, <1>2, <1>3, Sets DEF ToComeIsBehind
<1>5. SeenIsInFront /\ NothingTwice
  BY <1>3 DEF SeenIsInFront, Settled, NothingTwice
<1> QED BY <1>1, <1>4, <1>5 DEF PassInv

(* A step within a pass, to another of its places.                         *)
LEMMA GotoSame ==
    ASSUME TypeOK, NEW pc \in {"check", "clear", "page", "end"}, Goto(pc), UNCHANGED <<kind, seen>>,
           pc = "end" => At("visit")
    PROVE  SameQuery
<1>1. reader \in Readers
  BY DEF TypeOK
<1> QED BY <1>1 DEF Goto, SameQuery, Readers, At

LEMMA StartKeeps ==
    ASSUME PassInv, TypeOK', Begin \/ ApiCheckAccess \/ RemovePlaceholderDeployments \/ QueryFails
    PROVE  ToComeIsBehind' /\ SeenIsInFront' /\ NothingTwice'
<1>0. TypeOK /\ Passing /\ reader \in Readers
  BY DEF PassInv, TypeOK
<1>1. CASE Begin
  <2>1. reader'.offset = 0 /\ reader'.pc \in {"page", "check"} /\ UNCHANGED seen
    BY <1>1 DEF Begin
  <2>2. seen = NoneSeen
    BY <1>0, <1>1 DEF Passing, Begin
  <2> QED BY <2>1, <2>2, NothingRead
<1>2. CASE ApiCheckAccess
  <2>1. CASE Stop
    BY <2>1, StoppedBehind
  <2>2. CASE Goto(IF kind = "sync" THEN "clear" ELSE "page") /\ UNCHANGED <<seen, inserted, removed>>
    <3>1. UNCHANGED <<kind, docs>>
      BY <1>2 DEF ApiCheckAccess
    <3>2. SameQuery
      BY <1>0, <2>2, <3>1, GotoSame
    <3> QED BY <2>2, <3>1, <3>2, SameDocuments
  <2> QED BY <1>2, <2>1, <2>2 DEF ApiCheckAccess
<1>3. CASE RemovePlaceholderDeployments
  <2>1. At("clear") /\ Goto("page") /\ UNCHANGED seen
    BY <1>3 DEF RemovePlaceholderDeployments
  <2>2. reader.offset = 0 /\ seen = NoneSeen
    BY <1>0, <2>1 DEF Passing, At
  <2>3. reader'.offset = 0 /\ reader'.pc = "page"
    BY <1>0, <2>1, <2>2 DEF Goto, Readers
  <2> QED BY <2>1, <2>2, <2>3, NothingRead
<1>4. CASE QueryFails
  BY <1>4, StoppedBehind DEF QueryFails
<1> QED BY <1>1, <1>2, <1>3, <1>4

LEMMA VisitKeeps ==
    ASSUME PassInv, TypeOK', Visit \/ PageDone \/ End
    PROVE  ToComeIsBehind' /\ SeenIsInFront' /\ NothingTwice'
<1>0. TypeOK /\ Passing /\ reader \in Readers /\ reader.batch \in Seq(Documents)
  BY ReaderFields DEF PassInv, TypeOK
<1>1. CASE Visit
  <2>1. /\ reader' = [reader EXCEPT !.batch = Tail(@)] /\ UNCHANGED <<kind, seen, inserted>>
        /\ Removed({Head(reader.batch)}) \/ UNCHANGED <<docs, removed>>
        /\ reader.batch # <<>>
    BY <1>1 DEF Visit
  <2>2. SameQuery
    BY <1>0, <2>1 DEF SameQuery, Readers
  <2>3. Head(reader.batch) \in Documents
    BY <1>0, <2>1
  <2>4. CASE Removed({Head(reader.batch)})
    BY <2>1, <2>2, <2>3, <2>4, RemovalKeeps
  <2>5. CASE UNCHANGED <<docs, removed>>
    BY <2>1, <2>2, <2>5, SameDocuments
  <2> QED BY <2>1, <2>4, <2>5
<1>2. CASE PageDone
  <2>1. UNCHANGED <<kind, docs, seen, inserted, removed>> /\ At("visit")
    BY <1>2 DEF PageDone, history
  <2>2. SameQuery
    BY <1>0, <1>2, <2>1, GotoSame DEF PageDone
  <2> QED BY <2>1, <2>2, SameDocuments
<1>3. CASE End
  BY <1>3, StoppedBehind DEF End
<1> QED BY <1>1, <1>2, <1>3

LEMMA AnswersKeep ==
    ASSUME PassInv, TypeOK', AnswerList \/ AnswerExtended
    PROVE  ToComeIsBehind' /\ SeenIsInFront' /\ NothingTwice'
<1>0. TypeOK
  BY DEF PassInv
<1>1. PICK elements : Answer(elements)
  BY <1>0, AnswersOwn
<1>2. At("visit") /\ UNCHANGED <<kind, docs>>
  BY <1>1 DEF Answer, AnswerList, AnswerExtended
<1>3. CASE Stop
  BY <1>3, StoppedBehind
<1>4. CASE Goto(IF reader.full /\ reader.limit > 0 THEN "check" ELSE "end") /\ UNCHANGED <<seen, inserted, removed>>
  <2>1. SameQuery
    BY <1>0, <1>2, <1>4, GotoSame
  <2> QED BY <1>2, <1>4, <2>1, SameDocuments
<1> QED BY <1>1, <1>3, <1>4 DEF Answer

LEMMA OthersKeep ==
    ASSUME PassInv, TypeOK', Requests \/ Writes \/ UNCHANGED vars
    PROVE  ToComeIsBehind' /\ SeenIsInFront' /\ NothingTwice'
<1>1. CASE UNCHANGED <<kind, reader, docs, seen, inserted, removed>>
  <2>1. SameQuery
    BY <1>1 DEF SameQuery
  <2> QED BY <1>1, <2>1, SameDocuments
<1>2. ASSUME NEW d \in Documents, Comes(d) PROVE ToComeIsBehind' /\ SeenIsInFront' /\ NothingTwice'
  BY <1>2, ComesKeeps
<1>3. ASSUME NEW d \in Documents, Goes(d) PROVE ToComeIsBehind' /\ SeenIsInFront' /\ NothingTwice'
  <2>1. Removed({d}) /\ UNCHANGED <<kind, reader, seen, inserted>>
    BY <1>3 DEF Goes
  <2>2. SameQuery
    BY <2>1 DEF SameQuery
  <2> QED BY <2>1, <2>2, RemovalKeeps
<1>4. Requests \/ (\E n \in Networks : ChangeRights(n)) \/ UNCHANGED vars =>
          UNCHANGED <<kind, reader, docs, seen, inserted, removed>>
  BY DEF Requests, ApiRead, ApiListNetworks, ChangeRights, vars, history
<1> QED BY <1>1, <1>2, <1>3, <1>4 DEF Writes

LEMMA NextPassInv == PassInv /\ [Next]_vars => PassInv'
<1> SUFFICES ASSUME PassInv, [Next]_vars PROVE PassInv'
  OBVIOUS
<1>1. TypeOK' /\ Passing'
  BY NextTypeOK, NextPassing DEF PassInv
<1>2. CASE Begin \/ ApiCheckAccess \/ RemovePlaceholderDeployments \/ QueryFails
  BY <1>1, <1>2, StartKeeps DEF PassInv
<1>3. CASE ReadPage
  BY <1>1, <1>3, ReadPageToCome, ReadPageSeen DEF PassInv
<1>4. CASE Visit \/ PageDone \/ End
  BY <1>1, <1>4, VisitKeeps DEF PassInv
<1>5. CASE AnswerList \/ AnswerExtended
  BY <1>1, <1>5, AnswersKeep DEF PassInv
<1>6. CASE Requests \/ Writes \/ UNCHANGED vars
  BY <1>1, <1>6, OthersKeep DEF PassInv
<1> QED BY <1>2, <1>3, <1>4, <1>5, <1>6 DEF Next, Steps

(* At the end the last page was not full, so nothing is behind it, but for *)
(* ApiSyncDeployments and lists without limit.                             *)
LEMMA PassInvMissesNothing == PassInv => NothingMissed
<1> SUFFICES ASSUME PassInv, At("end"), NEW d \in Listed \ inserted, seen[d] = 0,
                    ~\E r \in removed : MayPrecede(r, d, reader.sort), ~Shuffled(d)
             PROVE  kind = "sync" /\ reader.full /\ \A e \in Documents : seen[e] > 0 => e.id <= d.id
  BY DEF NothingMissed
<1>1. TypeOK /\ Passing /\ ToComeIsBehind
  BY DEF PassInv
<1>2. d \in Documents /\ StillToCome(d)
  BY <1>1 DEF StillToCome, Listed, TypeOK
<1>3. reader.full /\ reader.limit > 0
  BY <1>1, <1>2 DEF ToComeIsBehind, At
<1>4. kind = "sync"
  BY <1>1, <1>3, ReaderFields DEF Passing
<1> QED BY <1>1, <1>2, <1>3, <1>4 DEF ToComeIsBehind

(* A pass to the end has visited every document that was there all the     *)
(* time, but for the named exceptions, whatever the length of the pages,   *)
(* the orders the database chooses and what comes and goes meanwhile.      *)
THEOREM MissesNothing == Spec => []NothingMissed
BY InitPassInv, NextPassInv, PassInvMissesNothing, PTL DEF Spec

(* Nor does it visit one twice, except after an insertion before it, or    *)
(* where the pages are not ordered.                                        *)
THEOREM MeetsNothingTwice == Spec => []NothingTwice
<1>1. PassInv => NothingTwice
  BY DEF PassInv
<1> QED BY <1>1, InitPassInv, NextPassInv, PTL DEF Spec
=============================================================================
