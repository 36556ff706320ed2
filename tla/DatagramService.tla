--------------------------- MODULE DatagramService ---------------------------
(***************************************************************************)
(* What segmented transmission promises to the applications at both ends:  *)
(* datagrams are submitted one at a time, each arrives as a whole, once    *)
(* per attempt at most and not after a later one, and the submission of    *)
(* none is confirmed before it arrived.                                    *)
(***************************************************************************)
EXTENDS Naturals

CONSTANTS MaxDatagrams, MaxAttempts

VARIABLES
    submitted,      \* number of datagrams submitted so far
    outcome,        \* outcome[d]: what the sender's application was told
    deliveries      \* deliveries[d]: how often d was handed over at the other end

vars == <<submitted, outcome, deliveries>>

Datagram == 1..MaxDatagrams
Outcome == {"confirmed", "unconfirmed", "failed"}

Init ==
    /\ submitted = 0
    /\ outcome = [d \in Datagram |-> "open"]
    /\ deliveries = [d \in Datagram |-> 0]

Submit ==
    /\ submitted < MaxDatagrams
    /\ submitted > 0 => outcome[submitted] # "open"
    /\ submitted' = submitted + 1
    /\ UNCHANGED <<outcome, deliveries>>

Deliver(d) ==
    /\ d <= submitted
    /\ deliveries[d] < MaxAttempts
    /\ \A e \in Datagram : e > d => deliveries[e] = 0
    /\ deliveries' = [deliveries EXCEPT ![d] = @ + 1]
    /\ UNCHANGED <<submitted, outcome>>

Conclude(d, how) ==
    /\ d = submitted
    /\ outcome[d] = "open"
    /\ how = "confirmed" => deliveries[d] > 0
    /\ outcome' = [outcome EXCEPT ![d] = how]
    /\ UNCHANGED <<submitted, deliveries>>

Next ==
    \/ Submit
    \/ \E d \in Datagram : Deliver(d) \/ \E how \in Outcome : Conclude(d, how)

Spec == Init /\ [][Next]_vars
=============================================================================
