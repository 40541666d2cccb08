------------------------------ MODULE MCLists ------------------------------
(***************************************************************************)
(* Bounded behaviours of Lists, the fairness its liveness properties need, *)
(* and these properties.                                                   *)
(***************************************************************************)
EXTENDS Lists

CONSTANTS
    N1, N2,
    MaxDisturbances  \* bound: writes of others, changed rights, failed queries

VARIABLE disturbances

mcVars == <<vars, disturbances>>

(* Four documents: two ids in one network, one of them in the other, too.  *)
SomeNetworks == {N1, N2}
SomeDocuments == {[of |-> N1, id |-> 1], [of |-> N1, id |-> 2], [of |-> N2, id |-> 2], [of |-> N1, id |-> 3]}
Query(collection, networks, search, by, direction, limit) ==
    [collection |-> collection, networks |-> networks, search |-> search,
     by |-> by, direction |-> direction, limit |-> limit]

SomeQueries ==
    {Query("deployments", SomeNetworks, FALSE, "id", "asc", BatchSize),
     Query("deployments", SomeNetworks, TRUE, "name", "asc", 0),
     Query("incidents", SomeNetworks, FALSE, "time", "desc", BatchSize),
     Query("histories", {N1}, TRUE, "id", "asc", BatchSize),
     Query("definitions", {N1}, FALSE, "other", "desc", BatchSize),
     Query("metadata", {N1}, FALSE, "id", "asc", 0)}
SomeMatching == {d \in SomeDocuments : d.id > 1}

MCInit == Init /\ disturbances = 0

Disturbed(A) == disturbances < MaxDisturbances /\ A /\ disturbances' = disturbances + 1
Undisturbed(A) == A /\ UNCHANGED disturbances

MCNext ==
    \/ Undisturbed(Begin) \/ Undisturbed(Steps) \/ Undisturbed(Requests)
    \/ Disturbed(Writes) \/ Disturbed(QueryFails)

MCSpec == MCInit /\ [][MCNext]_mcVars

(* Whoever reads goes on, and the ticker starts the loops of the warden    *)
(* again and again; nobody has to send a request.                          *)
MCFairSpec ==
    /\ MCSpec
    /\ WF_mcVars(Undisturbed(Steps))
    /\ WF_mcVars(kind \in Loops /\ Undisturbed(Begin))

-----------------------------------------------------------------------------
(* Properties                                                              *)

(* However much is written meanwhile, each pass ends: its offset moves on. *)
PassesEnd == reader.pc # "idle" ~> reader.pc = "idle"

(* What stays in a collection of the warden is checked again and again,    *)
(* although passes skip documents and fail: always if the sorted field     *)
(* orders the collection, else as long as it fits in a page.               *)
Ordered(D) == kind = "instances" /\ \A d, e \in D : d.id = e.id => d = e

LastingChecked ==
    \A d \in Documents :
        <>[](kind \in Loops /\ d \in docs /\ (Ordered(docs) \/ Cardinality(docs) <= BatchSize))
            => []<>(seen[d] > 0)
=============================================================================
