-------------------------- MODULE MCDeploymentSync --------------------------
(***************************************************************************)
(* Bounded behaviours of DeploymentSync, the fairness its liveness         *)
(* properties need, and the properties that speak of these behaviours.     *)
(***************************************************************************)
EXTENDS DeploymentSync

CONSTANTS
    MaxRequests,      \* bound: REST requests
    MaxDisturbances,  \* bound: resets, losses, restarts and cleanups
    Prompt,           \* loops begin only when nothing is in flight
    Overlap           \* clients and channels act between a command and its placeholder

VARIABLES requests, disturbances

mcVars == <<vars, requests, disturbances>>

MCInit == Init /\ requests = 0 /\ disturbances = 0

Settled == Overlap \/ (api = Idle /\ saving = {})

NothingInFlight == cmds = <<>> /\ msgs = <<>> /\ handler = Idle

MCRequest ==
    /\ requests < MaxRequests
    /\ Requests
    /\ requests' = requests + 1
    /\ UNCHANGED disturbances

MCDisturbance ==
    /\ disturbances < MaxDisturbances
    /\ (Settled /\ (ClientReset \/ Losses \/ RemoveOldElements)) \/ Restart
    /\ disturbances' = disturbances + 1
    /\ UNCHANGED requests

Undisturbed(A) == A /\ UNCHANGED <<requests, disturbances>>

MCBeginLoop == Undisturbed(BeginDeploymentLoop) /\ (Prompt => NothingInFlight)

MCClient == Settled /\ Undisturbed(ClientObeys)

MCAge == Undisturbed(AgeGatePasses) /\ (Prompt => NothingInFlight /\ api = Idle /\ phase = "idle")

MCNext ==
    \/ MCRequest \/ MCDisturbance
    \/ MCBeginLoop \/ MCAge
    \/ Undisturbed(ApiSteps) \/ Undisturbed(Handlers) \/ Undisturbed(LoopSteps)
    \/ MCClient \/ Undisturbed(ClientReconnects)

MCSpec == MCInit /\ [][MCNext]_mcVars

(* Requests, handlers and the loop run to their end, the ticker of the     *)
(* loop does not stop, the client obeys and reports again after a loss.    *)
(* Nobody must send a request, and nothing must fail.                      *)
MCFairSpec ==
    /\ MCSpec
    /\ WF_mcVars(Undisturbed(ApiSteps))
    /\ WF_mcVars(Undisturbed(Handlers))
    /\ WF_mcVars(MCBeginLoop)
    /\ WF_mcVars(Undisturbed(LoopSteps))
    /\ WF_mcVars(MCClient)
    /\ WF_mcVars(Undisturbed(ClientReconnects))

-----------------------------------------------------------------------------
(* Properties                                                              *)

(* A created deployment that nobody deletes ends up at the client under an *)
(* id that has a synchronised document and a guard, although commands and  *)
(* reports get lost, the client is reset and process-sync restarts.        *)
GuardedAtClient(c) ==
    \E i \in guards \cap engine : i.of = c /\ SyncedDoc(i) \in docs

CreatedArrive ==
    \A c \in Deployments : <>[](c \in created \ deleted => GuardedAtClient(c))

(* A deployment that a user asked to delete, by a request that has ended,  *)
(* is not redeployed.                                                      *)
DeletedNotRedeployed ==
    [][\A i \in saving' \ saving : api = Idle => i.of \notin deleted]_mcVars

(* As long as nothing was lost, reset or restarted, the client holds a     *)
(* created deployment once, until a user asks to delete it: of one deleted *)
(* before its metadata arrived the guard is left, and the loops for guards *)
(* and for processes may both deploy it again.                             *)
DeployedOnce ==
    disturbances = 0 =>
        \A c \in created \ deleted : Cardinality({i \in engine : i.of = c}) <= 1
=============================================================================
