--------------------------- MODULE MCGroupUpdates ---------------------------
(***************************************************************************)
(* Bounded behaviours of GroupUpdates, the fairness its liveness property  *)
(* needs, and that property.                                               *)
(***************************************************************************)
EXTENDS GroupUpdates, FiniteSetsExt

CONSTANTS
    MaxChanges,       \* bound: changes of groups, other commands, creations
    MaxDisturbances,  \* bound: failures
    MaxQueue          \* bound: messages a client has not handled

VARIABLES changes, disturbances

counters == <<changes, disturbances>>
mcVars == <<vars, counters>>

(* All deployments react to one group; the brokers share the deployments.  *)
SomeGroupOf == [d \in Deployments |-> CHOOSE g \in Groups : TRUE]
SomeBrokerOf ==
    CHOOSE f \in [Deployments -> Brokers] :
        Cardinality({f[d] : d \in Deployments}) = Min({Cardinality(Deployments), Cardinality(Brokers)})
AllCallers == {"updates", "warden", "api"}

MCInit == Init /\ changes = 0 /\ disturbances = 0

MCChange ==
    /\ changes < MaxChanges
    /\ Changes
    /\ changes' = changes + 1
    /\ UNCHANGED disturbances

MCFailure ==
    /\ disturbances < MaxDisturbances
    /\ Failures
    /\ disturbances' = disturbances + 1
    /\ UNCHANGED changes

Undisturbed(A) == A /\ UNCHANGED counters

(* Clients keep up: the broker of one that does not takes no more.         *)
KeptUp == \A d \in Deployments : Len(queue'[d]) <= MaxQueue

MCFanOut(c) == Undisturbed(FanOutSteps(c)) /\ KeptUp

(* A first connection that fails counts as a failure as well.              *)
MCStart ==
    /\ Start
    /\ disturbances' = disturbances + (IF "never" \in {link'[b] : b \in Brokers} THEN 1 ELSE 0)
    /\ disturbances' <= MaxDisturbances
    /\ UNCHANGED changes

MCNext ==
    \/ MCChange \/ MCFailure \/ MCStart
    \/ Undisturbed(WorkerSteps) \/ Undisturbed(HandlerError) \/ (\E c \in Callers : MCFanOut(c))
    \/ Undisturbed(Reconnects) \/ Undisturbed(CreationSteps) \/ Undisturbed(ClientSteps)
    \/ Undisturbed(Reports) \/ Undisturbed(Announcements) \/ Undisturbed(Repairs)

MCSpec == MCInit /\ [][MCNext]_mcVars

(* The process runs on, it is started again when it ended, and paho        *)
(* connects again. No broker must fail, no group must change.              *)
MCFairSpec ==
    /\ MCSpec
    /\ WF_mcVars(Undisturbed(WorkerSteps))
    /\ \A c \in Callers : WF_mcVars(MCFanOut(c))
    /\ WF_mcVars(Undisturbed(ClientSteps))
    /\ WF_mcVars(Undisturbed(Reconnects))
    /\ WF_mcVars(MCStart)

-----------------------------------------------------------------------------
(* Properties                                                              *)

(* Every command is handled and committed in the end, although the process *)
(* ends, tokens expire and brokers are away, unless the descriptions of a  *)
(* deployment can never be computed: such a deployment holds up all later  *)
(* commands of all groups.                                                 *)
CommandsHandled == <>[](removed = {}) => <>[](committed = Len(topic))
=============================================================================
