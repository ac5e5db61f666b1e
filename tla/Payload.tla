------------------------------ MODULE Payload -------------------------------
(***************************************************************************)
(* `build_payload`, as far as it decides who receives a message and which   *)
(* parts of it travel.  Headers and envelope are sequences of addresses; an *)
(* address is a mailbox in one of its spellings (upper and lower case).     *)
(* Names, contents and encodings are left out.                              *)
(***************************************************************************)
EXTENDS Naturals, Sequences, FiniteSets

CONSTANTS
    Mailboxes, Spellings,
    Headers,       \* To and Cc headers: sequences of addresses
    Trees,         \* MIME trees, see Tree
    MaxRecipients  \* Cloudflare's limit per message

Address == [box : Mailboxes, spelling : Spellings]

\* A "message" is an attached message/rfc822; an "otherMessage" any other message/*
\* that has parts, like message/delivery-status, message/global or message/partial.
PartTypes == {"multipart", "message", "otherMessage", "text", "html", "file"}

\* A MIME tree lists its parts, each after the one that holds it; parent is 0 for
\* the root.  A message holds one part.
Tree == {t \in Seq([parent : Nat, type : PartTypes]) :
           \A p \in DOMAIN t : IF p = 1 THEN t[p].parent = 0
             ELSE /\ t[p].parent \in 1 .. (p - 1)
                  /\ \/ t[t[p].parent].type \in {"multipart", "otherMessage"}
                     \/ /\ t[t[p].parent].type = "message"
                        /\ \A q \in DOMAIN t : t[q].parent = t[p].parent => q = p}

ASSUME PayloadAssumption ==
    /\ Headers \subseteq Seq(Address)
    /\ \A t \in Trees : t \in Tree
    /\ MaxRecipients \in Nat
-----------------------------------------------------------------------------
(* Recipients.                                                              *)

BoxesIn(addresses) == {a.box : a \in addresses}

\* The addresses listed, each mailbox in its first spelling.
Firsts(list) ==
    {list[i] : i \in {k \in DOMAIN list : \A j \in 1 .. (k - 1) : list[j].box # list[k].box}}

\* As if a header named recipients that the envelope does not.
TakeAll(header, envelope, seen) == {a \in Firsts(header) : a.box \notin seen}

\* take: the envelope's recipients among a header's.
Take(header, envelope, seen) ==
    {a \in Firsts(header) : a.box \in BoxesIn(Firsts(envelope)) \ seen}

\* _split_recipients: who is named keeps its place, the others are hidden; an
\* empty To is filled from Cc, and then by a single hidden recipient.
Split(to, cc, envelope) ==
    LET t == Take(to, envelope, {})
        c == Take(cc, envelope, BoxesIn(t))
        b == {a \in Firsts(envelope) : a.box \notin BoxesIn(t \cup c)}
    IN IF t # {} THEN [to |-> t, cc |-> c, bcc |-> b]
       ELSE IF c # {} THEN [to |-> c, cc |-> {}, bcc |-> b]
       ELSE IF Cardinality(b) = 1 THEN [to |-> b, cc |-> {}, bcc |-> {}]
       ELSE [to |-> {}, cc |-> {}, bcc |-> b]

\* The limits on their number; a repeated mailbox counts once.
Splittable(to, cc, envelope) ==
    LET s == Split(to, cc, envelope)
    IN Cardinality(s.to) + Cardinality(s.cc) + Cardinality(s.bcc) \in 1 .. MaxRecipients
-----------------------------------------------------------------------------
(* Parts.                                                                   *)

\* The parts a part is in, transitively.
Above(tree) ==
    LET above[p \in 0 .. Len(tree)] ==
          IF p = 0 \/ tree[p].parent = 0 THEN {} ELSE {tree[p].parent} \cup above[tree[p].parent]
    IN above

\* As if attached messages were taken apart, as EmailMessage.walk() does.
WalkedLeaves(tree) ==
    {p \in DOMAIN tree : tree[p].type \notin {"multipart", "message", "otherMessage"}}

\* Part p is in no attached message/rfc822.
Outside(tree, p) == \A q \in Above(tree)[p] : tree[q].type # "message"

\* _iter_leaves: an attached message/rfc822 is a leaf, what other message/* parts
\* hold is looked at like the parts of a multipart.
Leaves(tree) ==
    {p \in DOMAIN tree : tree[p].type \notin {"multipart", "otherMessage"} /\ Outside(tree, p)}

\* The part EmailMessage.get_body may pick (external): any of the type that is
\* not inside a message/*, or none.
BodyPart(tree, type) ==
    {0} \cup {p \in DOMAIN tree :
                tree[p].type = type
                /\ \A q \in Above(tree)[p] : tree[q].type \notin {"message", "otherMessage"}}

\* _extract_content: every other leaf becomes an attachment.
Attachments(tree, text, html) == Leaves(tree) \ {text, html}
-----------------------------------------------------------------------------
\* build_payload and the size check of send_message succeed.  A mail has a valid
\* From or not, a body that is not blank or not, and headers and contents within
\* Cloudflare's limits or not.
Buildable(mail, envelope) ==
    /\ mail.hasSender /\ mail.hasBody /\ mail.fits
    /\ Splittable(mail.to, mail.cc, envelope)
-----------------------------------------------------------------------------
(* What is promised of them.                                                *)

\* "The envelope is the truth about who receives the mail" (cloudflare_api.py:164):
\* whatever the headers name, and in whichever spellings, every recipient of the
\* envelope is listed exactly once and nobody else is; and a copy to a single
\* recipient, as the send hook's are, has the To that Cloudflare requires.
ReachesEnvelope(envelope) ==
    \A to, cc \in Headers :
      LET s == Split(to, cc, envelope)
      IN /\ BoxesIn(s.to \cup s.cc \cup s.bcc) = BoxesIn(Firsts(envelope))
         /\ \A a, b \in s.to \cup s.cc \cup s.bcc : a.box = b.box => a = b
         /\ s.to \cap s.cc = {} /\ s.to \cap s.bcc = {} /\ s.cc \cap s.bcc = {}
         /\ Cardinality(Firsts(envelope)) = 1 => s.to # {}

\* Recipients that no header names are not shown to each other: the others see a
\* recipient only if a header names it.
HiddenStayHidden(envelope) ==
    \A to, cc \in Headers :
      LET s == Split(to, cc, envelope)
      IN \A a \in s.to \cup s.cc :
           a.box \in BoxesIn(Firsts(to) \cup Firsts(cc)) \/ Cardinality(Firsts(envelope)) = 1

\* A message/* other than rfc822 that travels in pieces: what it holds is attached,
\* the part itself and the headers of the message in it are not.
TakenApart(tree, p) == tree[p].type = "otherMessage" /\ Outside(tree, p)

\* Every part of the message travels exactly once, as a body, as an attachment or
\* in the attached message it belongs to, whichever parts are taken for bodies:
\* a forwarded message/rfc822 is not taken apart and none of its parts gets lost
\* (cloudflare_api.py:216).  The exception is a message/* of another type outside
\* of one: its parts travel, but the part itself never does.
CarriedOnce ==
    \A tree \in Trees : \A text \in BodyPart(tree, "text"), html \in BodyPart(tree, "html") :
      \A p \in {q \in DOMAIN tree : tree[q].type # "multipart"} :
        Cardinality({q \in Attachments(tree, text, html) \cup ({text, html} \ {0}) :
                       q = p \/ (q \in Above(tree)[p] /\ tree[q].type = "message")})
          = IF TakenApart(tree, p) THEN 0 ELSE 1
=============================================================================
