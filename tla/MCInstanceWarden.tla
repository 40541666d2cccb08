-------------------------- MODULE MCInstanceWarden --------------------------
(***************************************************************************)
(* InstanceWarden for TLC. The requests of users and the disturbances of a *)
(* behaviour are counted and bounded, everything else is not, and the last *)
(* outcome of each key's runs is recorded for the properties.              *)
(***************************************************************************)
EXTENDS InstanceWarden

CONSTANTS
    MaxRequests,         \* bound: starts and deletes requested by users
    MaxEnds,             \* bound: runs that end without being stopped
    MaxDisturbances,     \* bound: disturbances, of the kinds Disturbances
    Disturbances,
    InitialDeployments,  \* states of the deployment in the beginning
    InitiallyGuarded,    \* may the deployment be guarded, or not be
    KeyReuse,            \* may a key be started while it is in use
    Prompt               \* are commands and messages handled in time

VARIABLES
    requests, ends, disturbances,  \* the counters
    rested,   \* has the age gate passed since the last warden loop
    lastEnd   \* how the last run of each key that ended did so

counters == <<requests, ends, disturbances>>
MCvars == <<vars, counters, rested, lastEnd>>

MCInit ==
    /\ Init
    /\ deployment \in InitialDeployments
    /\ deplGuarded \in InitiallyGuarded
    /\ requests = 0 /\ ends = 0 /\ disturbances = 0
    /\ rested = TRUE
    /\ lastEnd = [k \in AllKeys |-> "none"]

-----------------------------------------------------------------------------
RunsOf(k) == {r \in engine : r.key = k}

(* A key that documents, commands or runs still mention, or the list the   *)
(* warden loop is working on: to start a key from which the guard was      *)
(* removed while the list still has it gives it two runs.                  *)
InUse(k) ==
    \/ warden[k] # "none" \/ infoTodo[k] # "none"
    \/ starts[k] > 0
    \/ RunsOf(k) # {} \/ InstancesOf(k) # {} \/ HistoriesOf(k) # {}

(* Requests of users; KeyReuse lets them start a key that is guarded again.*)
MCUserRequests ==
    \/ \E k \in Keys : (InUse(k) => KeyReuse /\ warden[k] # "none") /\ AddInstanceWarden(k)
    \/ \E k \in AllKeys : DeleteProcessInstanceByBusinessKey(k)
    \/ \E x \in instances : ApiDeleteProcessInstance(x)
    \/ \E h \in histories : ApiDeletePlaceholderHistory(h)

MCRequests ==
    /\ requests < MaxRequests
    /\ requests' = requests + 1
    /\ MCUserRequests
    /\ UNCHANGED <<ends, disturbances, rested, lastEnd>>

MCDisturbances ==
    /\ disturbances < MaxDisturbances
    /\ disturbances' = disturbances + 1
    /\ \/ "deployment" \in Disturbances /\ (DeploymentRequests \/ DeploymentHandlers)
       \/ "reports" \in Disturbances /\ ClientSpeaks
       \/ "commands" \in Disturbances /\ CommandLosses
       \/ "messages" \in Disturbances /\ LoseMessages
       \/ "restart" \in Disturbances /\ Restart
       \/ "reset" \in Disturbances /\ ClientReset
    /\ UNCHANGED <<requests, ends, rested, lastEnd>>

MCRunsEnd ==
    /\ ends < MaxEnds
    /\ ends' = ends + 1
    /\ \E r \in engine :
          \/ RunFinishes(r) /\ lastEnd' = [lastEnd EXCEPT ![r.key] = "finished"]
          \/ RunFails(r) /\ lastEnd' = [lastEnd EXCEPT ![r.key] = "failed"]
    /\ UNCHANGED <<requests, disturbances, rested>>

-----------------------------------------------------------------------------
(* Prompt behaviours: a command or message is handled before the age gate  *)
(* passes, a warden loop ends before it passes, and the next loop begins   *)
(* later than that (the default gate is 10s, the default interval 5m).     *)

Quiet ==
    /\ \A k \in AllKeys : starts[k] = 0
    /\ stops = {}
    /\ msgs = <<>>
    /\ \A k \in Keys : starting[k] = "idle"
    /\ phase = "idle"

MCAgeGatePasses ==
    /\ Prompt => Quiet
    /\ AgeGatePasses
    /\ rested' = TRUE
    /\ UNCHANGED <<counters, lastEnd>>

MCBeginLoop ==
    /\ Prompt => rested
    /\ BeginLoopWardenDb
    /\ rested' = ~Prompt
    /\ UNCHANGED <<counters, lastEnd>>

(* Steps that are neither counted nor bounded.                             *)
Unbounded == UNCHANGED <<counters, rested, lastEnd>>

MCApiSteps    == ApiSteps /\ Unbounded
MCHandlers    == Handlers /\ Unbounded
MCCheckSteps  == CheckSteps /\ Unbounded
MCClientObeys == ClientObeys /\ Unbounded

MCNext ==
    \/ MCApiSteps \/ MCHandlers \/ MCBeginLoop \/ MCCheckSteps \/ MCAgeGatePasses
    \/ MCClientObeys \/ MCRunsEnd \/ MCRequests \/ MCDisturbances

MCSpec == MCInit /\ [][MCNext]_MCvars

(* The API, the MQTT callbacks, the warden loop and the client keep        *)
(* working, and time passes. Nobody has to send a request, and no run has  *)
(* to end or to fail.                                                      *)
MCFairSpec ==
    /\ MCSpec
    /\ WF_MCvars(MCApiSteps)
    /\ WF_MCvars(MCHandlers)
    /\ WF_MCvars(MCBeginLoop)
    /\ WF_MCvars(MCCheckSteps)
    /\ WF_MCvars(MCAgeGatePasses)
    /\ WF_MCvars(MCClientObeys)

-----------------------------------------------------------------------------
(* Properties                                                              *)

(* While commands and messages are handled within the age gate, the warden *)
(* never has two runs of one key under way, started or commanded, even if  *)
(* a command is lost or process-sync restarts within a start or a loop:    *)
(* the age gate of CheckWardenInfo covers the time in which the documents  *)
(* do not show a start yet.                                                *)
NoDuplicateRuns ==
    \A k \in Keys : Cardinality(RunsOf(k)) + starts[k] <= 1

(* The warden stops an instance only if its key has no guard, or if        *)
(* another real instance of the key stays: CheckProcessInstance leaves     *)
(* legacy and guarded instances alone, duplicateInstances spares one.      *)
StopsHaveCause ==
    [][\A x \in instances :
          (x.id \in stops' \ stops /\ requests' = requests) =>
             /\ x.key \in Keys
             /\ \/ warden[x.key] = "none"
                \/ \E y \in InstancesOf(x.key) : ~y.placeholder /\ y.id \notin stops']_MCvars

(* A run of the warden's keys that nobody guards ends, whatever was lost:  *)
(* LoopProcesses stops it, again if the stop command is lost.              *)
UnguardedRunsEnd ==
    \A k \in Keys :
        warden[k] = "none" /\ RunsOf(k) # {} ~> warden[k] # "none" \/ RunsOf(k) = {}

(* Of several runs of a key all but one end: duplicateInstances.           *)
DuplicatesResolved ==
    \A k \in Keys : Cardinality(RunsOf(k)) > 1 ~> Cardinality(RunsOf(k)) <= 1

HasRun(k) == RunsOf(k) # {} \/ \E h \in HistoriesOf(k) : ~h.placeholder

(* A start whose command ApiStartDeployment sent is run sooner or later,   *)
(* also if the command is lost or process-sync restarts before it saved    *)
(* the placeholders, unless a user deletes it.                             *)
AcceptedStartsRun ==
    \A k \in Keys : starting[k] = "sent" ~> HasRun(k) \/ k \in cleared

(* The history missingInstance looks at is that of a run whose incident is *)
(* on record, and nothing that would change this is under way.             *)
FailureOnRecord(k) ==
    /\ warden[k] # "none"
    /\ InstancesOf(k) = {} /\ RunsOf(k) = {}
    /\ msgs = <<>> /\ HistoriesOf(k) # {}
    /\ incidents[EndedRun(k)] # "none"

(* A guarded process that ended with an incident runs again, unless a user *)
(* deletes it: the restart of missingInstance is not lost.                 *)
FailuresRestart ==
    \A k \in Keys : FailureOnRecord(k) ~> RunsOf(k) # {} \/ k \in cleared

(* The warden itself, not a user, takes the guard of k away.               *)
GuardDropped(k) == warden[k] # "none" /\ warden'[k] = "none" /\ k \notin cleared'

(* Another process was reported, which removes the placeholder instances   *)
(* of the network, and of k the placeholder history is left.               *)
Overshadowed(k) ==
    /\ HistoriesOf(k) # {} /\ \A h \in HistoriesOf(k) : h.placeholder
    /\ \E x \in instances \cup histories : x.key # k /\ ~x.placeholder

(* The warden drops the guard of a key only after a run of the key ended:  *)
(* the log of missingInstance calls such a process "finished without       *)
(* incident". Except for a lost start that another process overshadows.    *)
DroppedOnlyAfterARun ==
    [][\A k \in Keys : GuardDropped(k) => lastEnd[k] # "none" \/ Overshadowed(k)]_MCvars

(* ... and only if that run had no incident: a failed process is restarted *)
(* (missingInstance: "process finished with incident --> restart").        *)
DroppedOnlyWithoutIncident ==
    [][\A k \in Keys : GuardDropped(k) => lastEnd[k] # "failed"]_MCvars

(* The warden does not start a process again whose last run, the one with  *)
(* the youngest history, finished.                                         *)
FinishedNotRestarted ==
    [][\A k \in Keys : starts'[k] > starts[k] /\ starting' = starting
                          => lastEnd[k] # "finished" \/ RunsOf(k) # {}]_MCvars
=============================================================================
