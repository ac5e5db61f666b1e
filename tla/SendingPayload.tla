--------------------------- MODULE SendingPayload ---------------------------
(***************************************************************************)
(* SendingSession with Payload: what the copies that Cloudflare accepts     *)
(* look like.  A copy's message is any that can be built, with whatever     *)
(* headers and parts: the session only sees whether it can be.              *)
(***************************************************************************)
EXTENDS SendingSession, Payload

CONSTANT RecipientOf  \* the envelope recipient of a copy

ASSUME RecipientAssumption == RecipientOf \in [Copies -> Address]

\* The envelope the hook makes of a copy's recipient.
EnvelopeOf(c) == <<RecipientOf[c]>>

Addressed == [c \in Copies |-> ReachesEnvelope(EnvelopeOf(c))]

\* What Cloudflare has accepted of a copy was for its recipient alone, named as
\* such once, although the message names all recipients of the Email Queue entry.
AcceptedIsAddressed == \A c \in Copies : accepted[c] > 0 => Addressed[c]

\* ... and had every part of the message, once, but for the message/* parts of
\* other types than rfc822, which are taken apart.
AcceptedIsWhole == \A c \in Copies : accepted[c] > 0 => CarriedOnce
=============================================================================
