--------------------------- MODULE MCNetworkCopy ---------------------------
(***************************************************************************)
(* Bounded behaviours of NetworkCopy, the fairness its liveness properties *)
(* need, and these properties.                                             *)
(***************************************************************************)
EXTENDS NetworkCopy

CONSTANTS
    MaxChanges,      \* bound: changes of the engines
    MaxRequests,     \* bound: REST requests
    MaxDisturbances  \* bound: failures, and clients that fall silent or return

VARIABLES changes, requests, disturbances

counters == <<changes, requests, disturbances>>
mcVars == <<vars, counters>>

(* All instances run one definition, all incidents hit one instance.       *)
SomeDefinitionOf == [i \in Instances |-> CHOOSE d \in Definitions : TRUE]
SomeInstanceOf == [x \in Incidents |-> CHOOSE i \in Instances : TRUE]

(* Messages that are sent together are handled with the same result in any *)
(* order: one order by kind stands for them.                               *)
Rank(kind) == CHOOSE k \in DOMAIN ReportOrder : ReportOrder[k] = kind

ByKind ==
    \A a, b \in Len(msgs) + 1 .. Len(msgs') :
        a < b /\ msgs'[a].op = msgs'[b].op => Rank(msgs'[a].kind) <= Rank(msgs'[b].kind)

MCInit == Init /\ changes = 0 /\ requests = 0 /\ disturbances = 0

MCChange ==
    /\ changes < MaxChanges
    /\ ClientChanges /\ ByKind
    /\ changes' = changes + 1
    /\ UNCHANGED <<requests, disturbances>>

MCRequest ==
    /\ requests < MaxRequests
    /\ Requests
    /\ requests' = requests + 1
    /\ UNCHANGED <<changes, disturbances>>

MCDisturbance ==
    /\ disturbances < MaxDisturbances
    /\ Failures \/ Presence
    /\ disturbances' = disturbances + 1
    /\ UNCHANGED <<changes, requests>>

(* A network that says nothing for so long is one that fell silent and may *)
(* return.                                                                 *)
MCAge(n) == n \notin alive /\ ContactAges(n)

Undisturbed(A) == A /\ UNCHANGED counters

MCNext ==
    \/ MCChange \/ MCRequest \/ MCDisturbance
    \/ Undisturbed(HandlerSteps) \/ Undisturbed(Notifications) \/ Undisturbed(ApiSteps)
    \/ Undisturbed(BeginCleanup) \/ Undisturbed(CleanupSteps) \/ (\E n \in Networks : Undisturbed(MCAge(n)))
    \/ Undisturbed(ClientAnswers) /\ ByKind

MCSpec == MCInit /\ [][MCNext]_mcVars

(* Handlers, requests, notifications and the cleanup run to their end, the *)
(* ticker of the cleanup does not stop, time passes, and a client that     *)
(* lost something connects again. Nobody must change an engine or send a   *)
(* request, nothing must fail, and nobody must return.                     *)
MCFairSpec ==
    /\ MCSpec
    /\ WF_mcVars(Undisturbed(HandlerSteps))
    /\ WF_mcVars(Undisturbed(Notifications))
    /\ WF_mcVars(Undisturbed(ApiSteps))
    /\ WF_mcVars(Undisturbed(BeginCleanup))
    /\ WF_mcVars(Undisturbed(CleanupSteps))
    /\ \A n \in Networks : WF_mcVars(Undisturbed(MCAge(n)))
    /\ \A n \in Networks : WF_mcVars(Undisturbed(FullReport(n)) /\ ByKind)

-----------------------------------------------------------------------------
(* Properties                                                              *)

(* A network that stays silent is forgotten: all that its client reported  *)
(* goes, and it is listed no more, although a cleanup fails or process-sync *)
(* stops in the middle of one. (A network without a contact is not found.) *)
Forgotten(n) ==
    /\ \A d \in docs : d.net = n => ~Reported(d)
    /\ n \notin ApiListNetworks(Networks)

SilentForgotten ==
    \A n \in Networks :
        <>[](n \notin alive) => <>[](Forgotten(n) \/ n \in contactless)

(* Users are told of every incident that lasts, although reports of it get *)
(* lost, its document cannot be written, or the network was cleaned up in  *)
(* between. Nobody is told of an incident whose notification was lost: it  *)
(* is sent once, after its document is saved, so a stop in between or an   *)
(* error of the message service ends it. A user who removed the incident   *)
(* knows of it.                                                            *)
IncidentsAreTold ==
    \A n \in Networks, x \in Incidents :
        <>[](n \in alive /\ Holds(n, "incident", x) => <<n, x>> \in told \cup waived \cup lost)
=============================================================================
