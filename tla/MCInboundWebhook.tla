-------------------------- MODULE MCInboundWebhook --------------------------
(* Small instances of InboundWebhook for TLC.                               *)
EXTENDS InboundWebhook, TLC

CONSTANTS a1, d1, d2, d3, d4, w1, w2, m1

MCAccountOf == [d \in Deliveries |-> a1]

\* d1 and d2 are one message delivered twice; the others have no Message-ID.
MCMessageId == [d \in Deliveries |-> IF d \in {d1, d2} THEN m1 ELSE None]

MCIdentified == Deliveries \ {d2}

AllPlain == [d \in Deliveries |-> "plain"]

\* Besides d1 and d2, our own mail looped back and a message for a foreign domain.
MixedKinds ==
    [d \in Deliveries |->
       CASE d = d3 -> "ownMail" [] d = d4 -> "misrouted"
         [] OTHER -> "plain"]

\* What passes, retrying is enough to get over it; and follow-ups that fail.
Transient ==
    {"timeout", "crash", "error", "followUpError", "followUpRefused", "storeError", "relayUser"}

\* What makes the site refuse a message for good, rightly or not, and lost answers.
Lasting == {"timeout", "late", "escape", "document", "account", "rotation"}

Timeouts == {"timeout"}
Refusals == {"followUpRefused"}
Failures == {"followUpError"}
Escapes == {"escape"}
=============================================================================
