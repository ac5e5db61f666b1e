-------------------------- MODULE MCWebhookAccount --------------------------
(* Small instances of WebhookAccount for TLC.                               *)
EXTENDS WebhookAccount, TLC

CONSTANTS h1, h2, t1, t2

\* h2 has no https; t1 is a personal token, t2 an expired one.
MCNature == [t \in Tokens |-> IF t = t1 THEN "personal" ELSE "dead"]

Swap == Permutations(Editors) \cup Permutations(Accounts)
=============================================================================
