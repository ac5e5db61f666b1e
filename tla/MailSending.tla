---------------------------- MODULE MailSending -----------------------------
(***************************************************************************)
(* What sending promises about one copy: as long as it is open it may be    *)
(* taken, but not again while an acceptance is confirmed; it is called sent *)
(* only when one is, given up only when none is, and either only once.      *)
(* Jobs, batches, sessions, tokens, attempts and retries do not show.       *)
(***************************************************************************)
EXTENDS Naturals

CONSTANTS
    Copies,
    Confirmable  \* the copies whose acceptance shows in the answer

VARIABLES
    outcome,  \* "open", "sent" or "given up"
    taken,    \* how often a copy was accepted
    unseen    \* ... without anybody on the site knowing

vars == <<outcome, taken, unseen>>

Init ==
    /\ outcome = [c \in Copies |-> "open"]
    /\ taken = [c \in Copies |-> 0]
    /\ unseen = [c \in Copies |-> 0]

Open(c) == outcome[c] = "open"

Confirmed(c) == taken[c] = unseen[c] + 1

Unconfirmed(c) == taken[c] = unseen[c]

\* The copy is accepted, and the answer arrives or not.
Take(c) ==
    /\ Open(c) /\ Unconfirmed(c)
    /\ taken' = [taken EXCEPT ![c] = @ + 1]
    /\ unseen' \in {unseen, [unseen EXCEPT ![c] = @ + 1]}
    /\ UNCHANGED outcome

\* Whoever knew of the acceptance is gone.
Forget(c) ==
    /\ Open(c) /\ Confirmed(c)
    /\ unseen' = [unseen EXCEPT ![c] = @ + 1]
    /\ UNCHANGED <<outcome, taken>>

Send(c) ==
    /\ Open(c) /\ (c \in Confirmable => Confirmed(c))
    /\ outcome' = [outcome EXCEPT ![c] = "sent"]
    /\ UNCHANGED <<taken, unseen>>

GiveUp(c) ==
    /\ Open(c) /\ Unconfirmed(c)
    /\ outcome' = [outcome EXCEPT ![c] = "given up"]
    /\ UNCHANGED <<taken, unseen>>

Next == \E c \in Copies : Take(c) \/ Forget(c) \/ Send(c) \/ GiveUp(c)

Spec == Init /\ [][Next]_vars
=============================================================================
