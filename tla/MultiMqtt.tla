----------------------------- MODULE MultiMqtt -----------------------------
(***************************************************************************)
(* The fan-out of process-sync to its MQTT brokers (pkg/multimqtt): one    *)
(* paho client per broker, one goroutine per client and call, one token    *)
(* for the caller, who waits for it before he goes on.                     *)
(***************************************************************************)
EXTENDS Naturals, Sequences

CONSTANTS
    Brokers,   \* the configured brokers
    Callers,   \* goroutines of process-sync that publish
    Targets,   \* what messages are for: each is served by one client
    BrokerOf,  \* target |-> the broker its client is connected to
    Nothing    \* no call, no error

ASSUME BrokersAssumption == BrokerOf \in [Targets -> Brokers]

VARIABLES
    link,   \* broker |-> "open", "lost" (paho reconnects) or "never" (it does not)
    fan,    \* caller |-> Nothing or its call of Publish
    queue   \* target |-> messages its broker accepted and its client did not handle

mqttVars == <<link, fan, queue>>

(* A call of do(): the progress of the goroutine of each client, and the   *)
(* errors they joined. A client keeps the message while it reconnects; one *)
(* that does not refuses it.                                               *)
Call(m) ==
    [msg |-> m,
     sub |-> [b \in Brokers |-> IF link[b] = "never" THEN "joined" ELSE "waiting"],
     err |-> {b \in Brokers : link[b] = "never"}]

Calls(Messages) ==
    [msg : Messages, sub : [Brokers -> {"waiting", "arrived", "joined"}], err : SUBSET Brokers]

MqttInit ==
    /\ link = [b \in Brokers |-> "never"]
    /\ fan = [c \in Callers |-> Nothing]
    /\ queue = [t \in Targets |-> <<>>]

(* NewClient and Connect: a client whose first connection fails does not   *)
(* try again, and the token of the fan-out does not tell.                  *)
Connect == link' \in [Brokers -> {"open", "never"}]

Publish(c, m) == fan[c] = Nothing /\ fan' = [fan EXCEPT ![c] = Call(m)]

(* The broker has the message: it is there before the client learns it. (A *)
(* broker without the client it is for passes it to nobody.)               *)
Arrives(c, b) ==
    /\ fan[c] # Nothing /\ fan[c].sub[b] = "waiting" /\ link[b] = "open"
    /\ LET m == fan[c].msg IN
       IF BrokerOf[m.of] = b
       THEN /\ fan' = [fan EXCEPT ![c].sub[b] = "arrived"]
            /\ queue' = [queue EXCEPT ![m.of] = Append(@, m)]
       ELSE /\ fan' = [fan EXCEPT ![c].sub[b] = "joined"]
            /\ UNCHANGED queue
    /\ UNCHANGED link

Answered(c, b) ==
    /\ fan[c] # Nothing /\ fan[c].sub[b] = "arrived" /\ link[b] = "open"
    /\ fan' = [fan EXCEPT ![c].sub[b] = "joined"]
    /\ UNCHANGED <<link, queue>>

(* The token of one client ends with an error.                             *)
SendFails(c, b) ==
    /\ fan[c] # Nothing /\ fan[c].sub[b] \in {"waiting", "arrived"}
    /\ fan' = [fan EXCEPT ![c].sub[b] = "joined", ![c].err = @ \cup {b}]
    /\ UNCHANGED <<link, queue>>

(* Token.Wait returns when all goroutines joined their errors: done(err)   *)
(* cancels the context of the token with err as cause.                     *)
Returned(c) == fan[c] # Nothing /\ \A b \in Brokers : fan[c].sub[b] = "joined"

CtxErr(c) == IF Returned(c) THEN "canceled" ELSE Nothing

(* Token.Error looks at the error of the context, not at its cause.        *)
Error(c) == IF CtxErr(c) = "canceled" THEN Nothing ELSE CtxErr(c)

ConnectionLost(b) ==
    /\ link[b] = "open"
    /\ link' = [link EXCEPT ![b] = "lost"]
    /\ UNCHANGED <<fan, queue>>

Reconnect(b) ==
    /\ link[b] = "lost"
    /\ link' = [link EXCEPT ![b] = "open"]
    /\ UNCHANGED <<fan, queue>>

FanOut(c) == \E b \in Brokers : Arrives(c, b) \/ Answered(c, b)
=============================================================================
