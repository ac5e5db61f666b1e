-------------------------- MODULE MCSendingSession --------------------------
(* Small instances of SendingSession for TLC.                               *)
EXTENDS SendingPayload, TLC

CONSTANTS c1, c2, c3, c4, x1, x2, x3, A, B

\* x1 and x2 are two domains on one Cloudflare account, x3 on another.
MCAccountOf == [d \in Domains |-> IF d \in {x1, x2} THEN A ELSE B]

MCDomainOf ==
    [c \in Copies |-> CASE c = c1 -> x1 [] c = c2 -> x2 [] c = c3 -> x3 [] OTHER -> x1]

AllCloudflare == [d \in Domains |-> "cloudflare"]

\* x1 sends via Cloudflare, x2 lacks its settings, x3 has another transport.
MixedTransport ==
    [d \in Domains |-> CASE d = x1 -> "cloudflare" [] d = x2 -> "incomplete" [] OTHER -> "other"]

\* Enough to succeed, to be refused and to retry.
FewAnswers == {"accepted", "refused", "limited"}

\* Cloudflare lists every recipient somewhere in a successful answer.
LikelyAnswers == AnswerKinds \ {"nobody"}
-----------------------------------------------------------------------------
\* The mailboxes are the recipients of the copies, each spelled in two ways.
MCSpellings == {"lower", "upper"}

MCRecipientOf == [c \in Copies |-> [box |-> c, spelling |-> "lower"]]

\* Up to two addresses in a header.
MCHeaders == UNION {[1 .. n -> Address] : n \in 0 .. 2}

\* MIME trees of up to four parts.
MCTrees == {t \in UNION {[1 .. n -> [parent : 0 .. 3, type : PartTypes]] : n \in 1 .. 4} : t \in Tree}

NoSequences == {<<>>}

\* The message of c4 is blank, those of the others name nobody.
MCMail(c) == [to |-> <<>>, cc |-> <<>>, hasSender |-> TRUE, hasBody |-> c # c4, fits |-> TRUE]

MCUnbuildable == {c \in Copies : ~Buildable(MCMail(c), EnvelopeOf(c))}
=============================================================================
