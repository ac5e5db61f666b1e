---------------------------- MODULE MailDelivery ----------------------------
(***************************************************************************)
(* What the webhook promises the outside world about one delivery: it is    *)
(* called delivered only when the message is on record (or is the account's *)
(* own mail, ignored on purpose) and settled at most once; to a patient     *)
(* relay, it is stored at most once and never after an answer.  Requests,   *)
(* workers, retries, transactions and secrets do not show.                  *)
(***************************************************************************)
CONSTANTS
    Deliveries,
    Traceable,        \* the deliveries a retry of which can be recognised
    Patient,          \* the relay lets each attempt end before the next
    Ignorable,        \* the deliveries the site may ignore
    SameMessage(_, _) \* two deliveries of one message

VARIABLES
    copies,  \* the stored copies of a delivery
    outcome  \* "open", "delivered", "rejected" or "abandoned"

vars == <<copies, outcome>>

Init ==
    /\ copies = [d \in Deliveries |-> {}]
    /\ outcome = [d \in Deliveries |-> "open"]

OnRecord(d) ==
    \/ copies[d] # {}
    \/ \E e \in Deliveries : SameMessage(d, e) /\ copies[e] # {}

\* A copy may still be stored after the relay gave up; after an answer, or next
\* to another copy, only by a relay that did not wait.
Store(d) ==
    /\ Patient => /\ outcome[d] \in {"open", "abandoned"}
                  /\ d \in Traceable => copies[d] = {}
    /\ \E c \in copies'[d] \ copies[d] : copies' = [copies EXCEPT ![d] = @ \cup {c}]
    /\ UNCHANGED outcome

Settle(d, o) ==
    /\ outcome[d] = "open"
    /\ outcome' = [outcome EXCEPT ![d] = o]
    /\ UNCHANGED copies

Deliver(d) == (OnRecord(d) \/ d \in Ignorable) /\ Settle(d, "delivered")

Next ==
    \E d \in Deliveries :
        Store(d) \/ Deliver(d) \/ Settle(d, "rejected") \/ Settle(d, "abandoned")

Spec == Init /\ [][Next]_vars
=============================================================================
