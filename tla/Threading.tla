----------------------------- MODULE Threading ------------------------------
(***************************************************************************)
(* Reply threading.  Cloudflare replaces the Message-ID of what the site    *)
(* sends; `_passthrough_headers` therefore adds the site's own id to        *)
(* References, mail clients copy References into replies, and               *)
(* `RelayInboundMail` looks there for an id the site knows.                 *)
(*                                                                          *)
(* Messages form trees (a reply knows its parent) that the site never sees: *)
(* it sees two headers, and the customers' messages in any order, some long *)
(* after the replies to them.  A message is its position in `mail`.         *)
(***************************************************************************)
EXTENDS Naturals, SequencesExt

CONSTANTS
    MaxMessages,  \* messages ever written (a bound of the model)
    MaxIds,       \* ids that fit Cloudflare's limit for the References value
    MaxRelinks,   \* links changed by hand (a bound of the model)
    MaxCleared,   \* messages cleared away (a bound of the model)
    Named         \* messages whose id under way, given by a customer's client or
                  \* by Cloudflare, contains the site's name

ASSUME ThreadingAssumption ==
    /\ MaxMessages \in Nat /\ MaxIds \in Nat \ {0} /\ MaxRelinks \in Nat /\ MaxCleared \in Nat
    /\ Named \subseteq 1 .. MaxMessages

VARIABLES
    mail,     \* the messages, in the order they were written
    cleared,  \* messages the site has no record of any more
    relinks   \* how often a Communication was linked by hand

vars == <<mail, cleared, relinks>>

Messages == DOMAIN mail

\* The id the site gave to message i, and the id it travels under otherwise.
Own(i) == <<"own", i>>
Wire(i) == <<"wire", i>>

Id == {"own", "wire"} \X (1 .. MaxMessages)

\* parent: the message this one answers, 0 for none; inReplyTo, references: the
\* headers as it travels; kept: the client that wrote it keeps References; doc:
\* the document it was sent from or has landed on, 0 before the site has it.
\* A document is numbered by the message that started it.
Mail == [by : {"site", "customer"}, id : Id, parent : 0 .. MaxMessages,
         inReplyTo : {<<>>} \cup {<<i>> : i \in Id}, references : Seq(Id),
         kept : BOOLEAN, doc : 0 .. MaxMessages]

TypeOK ==
    /\ mail \in Seq(Mail) /\ Len(mail) <= MaxMessages
    /\ \A i \in Messages :
         /\ mail[i].parent < i
         /\ mail[i].by = "site" => mail[i].doc # 0 /\ Len(mail[i].references) <= MaxIds
    /\ cleared \subseteq {i \in Messages : mail[i].doc # 0}
    /\ relinks \in 0 .. MaxRelinks

Init ==
    /\ mail = <<>> /\ cleared = {}
    /\ relinks = 0
-----------------------------------------------------------------------------
(* Out: what the site sends.                                                *)

\* As if References were cut at the newest end.
TrimNewest(ids) == SubSeq(ids, 1, IF Len(ids) < MaxIds THEN Len(ids) ELSE MaxIds)

\* As if the limit were not looked at.
TrimNothing(ids) == ids

\* The oldest ids go until the value fits, never the last.
Trim(ids) == SubSeq(ids, IF Len(ids) > MaxIds THEN Len(ids) - MaxIds + 1 ELSE 1, Len(ids))

\* Frappe writes In-Reply-To only: References is seeded from it, and the own id
\* added.
Passthrough(inReplyTo, own) == Trim(inReplyTo \o <<own>>)

\* The site's id of a message it has, what Frappe puts into In-Reply-To.
StoredId(p) == IF mail[p].by = "site" THEN Own(p) ELSE mail[p].id

\* Message i, written on document d in answer to p (0: to none).
Written(i, p, d, viaCloudflare) ==
    LET inReplyTo == IF p = 0 THEN <<>> ELSE <<StoredId(p)>>
    IN [by |-> "site", parent |-> p, kept |-> TRUE, doc |-> d,
        inReplyTo |-> inReplyTo,
        id |-> IF viaCloudflare THEN Wire(i) ELSE Own(i),
        references |-> IF viaCloudflare THEN Passthrough(inReplyTo, Own(i)) ELSE <<>>]

\* New Email on a document, or Reply on a message of its timeline, by Cloudflare
\* or by the fallback transport.
SiteWrites ==
    LET i == Len(mail) + 1
    IN /\ i <= MaxMessages
       /\ \E viaCloudflare \in BOOLEAN, p \in 0 .. Len(mail) :
            /\ p # 0 => mail[p].doc # 0 /\ p \notin cleared
            /\ mail' = Append(mail,
                         Written(i, p, IF p = 0 THEN i ELSE mail[p].doc, viaCloudflare))
       /\ UNCHANGED <<cleared, relinks>>
-----------------------------------------------------------------------------
(* Mail clients (external).                                                 *)

\* References of a reply to p: those of p, or else its In-Reply-To, then its id.
Answering(p) ==
    (IF mail[p].references = <<>> THEN mail[p].inReplyTo ELSE mail[p].references)
      \o <<mail[p].id>>

\* A customer writes to the site: anew, or in answer to any message.
CustomerWrites ==
    LET i == Len(mail) + 1
    IN /\ i <= MaxMessages
       /\ \E p \in 0 .. Len(mail), kept \in BOOLEAN :
            mail' = Append(mail,
              [by |-> "customer", id |-> Wire(i), parent |-> p, kept |-> kept, doc |-> 0,
               inReplyTo |-> IF p = 0 THEN <<>> ELSE <<mail[p].id>>,
               references |-> IF p = 0 \/ ~kept THEN <<>> ELSE Answering(p)])
       /\ UNCHANGED <<cleared, relinks>>
-----------------------------------------------------------------------------
(* In: what the relay delivers.                                             *)

\* The id is stored with a message, on a Communication or an Email Queue entry.
OnRecord(id) ==
    id = StoredId(id[2]) /\ mail[id[2]].doc # 0 /\ id[2] \notin cleared

\* The site's name is somewhere in the id, whoever gave it.
NamesSite(id) == id[1] = "own" \/ id[2] \in Named

\* is_known_message_id.
Known(id) == NamesSite(id) \/ OnRecord(id)

\* As if References were read from its oldest end.
OldestFirst(i) == mail[i].inReplyTo \o mail[i].references

\* candidate_message_ids: In-Reply-To, then References newest first.
Candidates(i) == mail[i].inReplyTo \o Reverse(mail[i].references)

\* in_reply_to: the first known id of a sequence, or none.
FirstKnown(ids) ==
    {ids[k] : k \in {n \in DOMAIN ids : Known(ids[n]) /\ \A j \in 1 .. (n - 1) : ~Known(ids[j])}}

Recognised(i) == FirstKnown(Candidates(i))

\* Frappe's lookup of in_reply_to: the document of the message found, or a new
\* one when there is none on record.
Document(i) ==
    LET found == {id[2] : id \in {x \in Recognised(i) : OnRecord(x)}}
    IN IF found = {} THEN i ELSE mail[CHOOSE m \in found : TRUE].doc

Arrives(i) ==
    /\ mail[i].by = "customer" /\ mail[i].doc = 0
    /\ mail' = [mail EXCEPT ![i].doc = Document(i)]
    /\ UNCHANGED <<cleared, relinks>>

\* A received Communication is linked to another document by hand.
Relink(i) ==
    /\ relinks < MaxRelinks
    /\ mail[i].by = "customer" /\ mail[i].doc # 0 /\ i \notin cleared
    /\ \E k \in Messages \ {i} :
         /\ mail[k].doc \notin {0, mail[i].doc}
         /\ mail' = [mail EXCEPT ![i].doc = mail[k].doc]
    /\ relinks' = relinks + 1
    /\ UNCHANGED cleared

\* The Email Queue entry of a message is cleared, and it has no Communication any
\* more or, sent by the site without one, never had.
Clear(i) ==
    /\ Cardinality(cleared) < MaxCleared
    /\ mail[i].doc # 0 /\ i \notin cleared
    /\ cleared' = cleared \cup {i}
    /\ UNCHANGED <<mail, relinks>>
-----------------------------------------------------------------------------
\* Everything is written and has arrived.
Done ==
    /\ Len(mail) = MaxMessages
    /\ \A i \in Messages : mail[i].doc # 0
    /\ UNCHANGED vars

Next ==
    \/ SiteWrites
    \/ CustomerWrites
    \/ \E i \in Messages : Arrives(i) \/ Relink(i) \/ Clear(i)
    \/ Done

Spec == Init /\ [][Next]_vars
-----------------------------------------------------------------------------
(* Properties.                                                              *)

\* The nearest message above i with an id that i's headers name and the site takes
\* for known: its parent, or, through clients that keep References, one further up.
\* A message sent through Cloudflare is named by References alone, unless
\* Cloudflare's id contains the site's name.
Anchor[i \in 0 .. Len(mail)] ==
    LET p == mail[i].parent
    IN IF i = 0 \/ p = 0 THEN 0
       ELSE IF Known(mail[p].id) \/ (mail[i].kept /\ mail[p].by = "site") THEN p
       ELSE IF mail[i].kept THEN Anchor[p] ELSE 0

\* Message a travels under an id taken for the site's own because of the name in
\* it, though it is on nobody's record.
Mistaken(a) ==
    a \in Named /\ mail[a].id = Wire(a) /\ (mail[a].by = "site" \/ mail[a].doc = 0)

\* Every message sent through Cloudflare carries the site's own id in References,
\* where clients that keep the header pass it on, however long the ids it
\* answers are ("never the own id", cloudflare_api.py:300).
OwnIdTravels ==
    \A i \in Messages : mail[i].by = "site" /\ mail[i].id = Wire(i) =>
      \E k \in DOMAIN mail[i].references : mail[i].references[k] = Own(i)

\* A reply lands on the document of its anchor - for a reply to a message sent
\* through Cloudflare, the document that was sent from - whatever the order in
\* which messages arrive, links change and records go (docs/threading.md: "A
\* reply to a message sent through Cloudflare therefore lands on the document
\* the message was sent from").  Without an anchor, with one that is not on record
\* any more, or with a mistaken one, which hides what older ids would have named,
\* it lands on a new document - there against that page - and never on another's.
LandsOnItsAnchor ==
    [][\A i \in Messages : mail[i].doc = 0 /\ mail'[i].doc # 0 =>
         LET a == Anchor[i]
         IN mail'[i].doc = IF a \in {0} \cup cleared \/ Mistaken(a) THEN i ELSE mail[a].doc]_vars
=============================================================================
