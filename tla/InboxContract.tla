---------------------------- MODULE InboxContract ----------------------------
(***************************************************************************)
(* What the inbox promises for one message of one consumer, as the port     *)
(* IInboxStore (common/src/services/inbox.ts) and the delivery path of       *)
(* messaging-plugin state it: the handler's work is committed only while    *)
(* nothing is recorded of the message, and a copy is acknowledged only while *)
(* something is.                                                            *)
(***************************************************************************)
EXTENDS Naturals

CONSTANT Copies   \* the deliveries of the message that may run at a time

VARIABLES
    outcome,      \* what is recorded of the message
    effects,      \* how many times the handler's work has been committed
    answer        \* what the broker was last told of each copy

vars == <<outcome, effects, answer>>

Outcomes == {"none", "processed", "parked", "discarded"}
Answers == {"running", "acked", "rejected"}

Init ==
    /\ outcome = "none" /\ effects = 0
    /\ answer = [d \in Copies |-> "rejected"]

Tell(d, a) == answer' = [answer EXCEPT ![d] = a]

Deliver(d) == Tell(d, "running") /\ UNCHANGED <<outcome, effects>>
Reject(d) == Tell(d, "rejected") /\ UNCHANGED <<outcome, effects>>
Ack(d) == outcome # "none" /\ Tell(d, "acked") /\ UNCHANGED <<outcome, effects>>

(* The first record of the message, by a copy that hears of it or does not. *)
Record(what) ==
    /\ outcome = "none" /\ outcome' = what
    /\ UNCHANGED answer \/ \E d \in Copies : Tell(d, "acked") \/ Tell(d, "rejected")
Apply == Record("processed") /\ effects' = effects + 1
Park == Record("parked") /\ UNCHANGED effects

Discard == outcome = "parked" /\ outcome' = "discarded" /\ UNCHANGED <<effects, answer>>
(* An operator retries a parked message, or retention purges what is recorded. *)
Forget == outcome # "none" /\ outcome' = "none" /\ UNCHANGED <<effects, answer>>

Next ==
    \/ \E d \in Copies : Deliver(d) \/ Reject(d) \/ Ack(d)
    \/ Apply \/ Park \/ Discard \/ Forget

Spec == Init /\ [][Next]_vars
=============================================================================
