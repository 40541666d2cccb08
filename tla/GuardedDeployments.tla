------------------------- MODULE GuardedDeployments -------------------------
(***************************************************************************)
(* What process-sync promises of the deployments its users create: from    *)
(* its creation on a deployment is guarded, and nothing but a user's wish  *)
(* to delete it can end that. Ids, documents, messages and the movement of *)
(* guards from one id to the next do not appear here.                      *)
(***************************************************************************)

CONSTANT Deployments

VARIABLES
    created,  \* deployments whose creation succeeded
    deleted,  \* deployments a user asked to delete
    guarded   \* deployments the warden brings back

vars == <<created, deleted, guarded>>

Init == created = {} /\ deleted = {} /\ guarded = {}

(* A creation succeeds once, and not before the deployment is guarded.     *)
Create(c) ==
    /\ c \notin created
    /\ created' = created \cup {c}
    /\ guarded' = guarded \cup {c}
    /\ UNCHANGED deleted

AskToDelete(c) ==
    /\ deleted' = deleted \cup {c}
    /\ UNCHANGED <<created, guarded>>

(* Only what a user asked to delete is forgotten.                          *)
Forget(c) ==
    /\ c \in deleted
    /\ guarded' = guarded \ {c}
    /\ UNCHANGED <<created, deleted>>

(* A guard that moves to another id while a user deletes the deployment    *)
(* may be back.                                                            *)
Return(c) ==
    /\ c \in created \cap deleted
    /\ guarded' = guarded \cup {c}
    /\ UNCHANGED <<created, deleted>>

Next ==
    \E c \in Deployments : Create(c) \/ AskToDelete(c) \/ Forget(c) \/ Return(c)

Spec == Init /\ [][Next]_vars
=============================================================================
