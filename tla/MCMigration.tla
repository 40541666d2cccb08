---------------------------- MODULE MCMigration ----------------------------
(***************************************************************************)
(* Bounded behaviours of Migration, the fairness its liveness property     *)
(* needs, and its properties.                                              *)
(***************************************************************************)
EXTENDS Migration

CONSTANTS
    N1, N2, D1, D2, D3, D4, R1, R2, R3, K,
    MaxFailures,  \* bound: failures
    MaxOthers,    \* bound: requests of users and reports of clients
    MaxDelay      \* bound: steps of the migration while a handler has yet to save

VARIABLES failures, others, delay

counters == <<failures, others, delay>>
mcVars == <<vars, counters>>

(* A network with three deployments, two runs of one of them that a user   *)
(* started with the same key, and one run or placeholder of another; and a *)
(* network with one deployment.                                            *)
SomeNetworkOf == [d \in Deployments |-> IF d = D3 THEN N2 ELSE N1]
SomeDeploymentOf == [r \in Runs |-> IF r = R3 THEN D2 ELSE D1]
SomeBusinessKey == [r \in Runs |-> IF r = R3 THEN Nothing ELSE K]

(* The deployment with one run is on the second page of two, if there are  *)
(* three, or is the last one of a first page that is full. So is one of    *)
(* the two runs with the same key.                                         *)
SomeDeploymentId == [d \in Deployments |-> CASE d = D4 -> 1 [] d = D1 -> 2 [] d = D2 -> 3 [] OTHER -> 4]
SomeInstanceId == [r \in Runs |-> CASE r = R3 -> 1 [] r = R1 -> 2 [] OTHER -> 3]

(* What differs is the deployment with two runs, or what is in front of it *)
(* and of them in the lists, or the metadata next to it, which may fill a  *)
(* page.                                                                   *)
Stored(d1, m1, m2, d4, r3) ==
    /\ deployment = [d \in Deployments |-> CASE d = D1 -> d1 [] d = D4 -> d4 [] OTHER -> "deployed"]
    /\ metadata = [d \in Deployments |-> CASE d = D1 -> m1 [] d = D2 -> m2 [] d = D3 -> "plain" [] OTHER -> "none"]
    /\ instance = [r \in Runs |-> IF r = R3 THEN r3 ELSE "running"]
    /\ defined = Deployments

SomeStores ==
    \/ Stored("deployed", "plain", "none", "none", "none")
    \/ Stored("deployed", "plain", "none", "deployed", "placeholder")
    \/ \E d1 \in {"placeholder", "deployed", "missing", "deleting"} :
         Stored(d1, "plain", "none", "deployed", "running")
    \/ Stored("deployed", "parameters", "none", "deployed", "running")
    \/ Stored("deployed", "none", "none", "deployed", "running")
    \/ Stored("deployed", "plain", "plain", "deployed", "running")

MCInit == SomeStores /\ Init /\ failures = 0 /\ others = 0 /\ delay = 0

(* What a slice or the list of networks holds is taken in one order.       *)
InOrder ==
    /\ At("network") => job'.network = N1 \/ N1 \notin job.todo
    /\ At("guard") => \A d, e \in Deployments :
          job'.deployments[d] < job.deployments[d] /\ job.deployments[e] > 0 => DeploymentId[d] <= DeploymentId[e]
    /\ At("runs") => \A r, q \in Runs :
          job'.runs[r] < job.runs[r] /\ job.runs[q] > 0 => InstanceId[r] <= InstanceId[q]

MCStep ==
    /\ saving # Nothing => delay < MaxDelay
    /\ Steps /\ InOrder
    /\ delay' = IF saving' = Nothing THEN 0 ELSE delay + 1
    /\ UNCHANGED <<failures, others>>

MCFailure == failures < MaxFailures /\ Failures /\ failures' = failures + 1 /\ UNCHANGED <<others, delay>>
MCOther == others < MaxOthers /\ Others /\ others' = others + 1 /\ UNCHANGED <<failures, delay>>
MCSave == Saves /\ delay' = 0 /\ UNCHANGED <<failures, others>>

MCNext == MCStep \/ MCFailure \/ MCOther \/ MCSave

MCSpec == MCInit /\ [][MCNext]_mcVars

(* The process runs on and is started again when it ended. Nothing else    *)
(* must happen, but a handler that has begun goes on.                      *)
MCFairSpec == MCSpec /\ WF_mcVars(MCStep) /\ WF_mcVars(MCSave)

-----------------------------------------------------------------------------
(* Properties                                                              *)

(* The migration guards every lasting deployment in the end, although runs *)
(* cannot be started, queries fail and the process ends; unless the        *)
(* metadata of some network fill a page: then it hangs there, and with it  *)
(* the start of the process. Nor does it guard a deployment that moved     *)
(* over the end of the pages read.                                         *)
Full(n) == IsFull(ListDeploymentMetadata(n))

=============================================================================
