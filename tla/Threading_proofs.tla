-------------------------- MODULE Threading_proofs --------------------------
(***************************************************************************)
(* Theorems about Threading, for any number of messages, any limit of       *)
(* References of at least one id, and any number of links changed and       *)
(* records cleared: the site's own id survives trimming, and every reply    *)
(* lands on the document of its anchor.                                     *)
(***************************************************************************)
EXTENDS Threading, SequenceTheorems, WellFoundedInduction, TLAPS

\* What a reply to i names as References, but for i's own id.
Trail(i) == IF mail[i].references = <<>> THEN mail[i].inReplyTo ELSE mail[i].references

\* What the headers of message i are, as they were written.
Headed(i) ==
    /\ mail[i].parent \in 0 .. (i - 1)
    /\ mail[i].by = "site" =>
         /\ mail[i].doc # 0
         /\ mail[i].id \in {Own(i), Wire(i)}
         /\ mail[i].id = Wire(i) => Len(mail[i].references) > 0
                                    /\ mail[i].references[Len(mail[i].references)] = Own(i)
    /\ mail[i].by = "customer" =>
         /\ mail[i].id = Wire(i)
         /\ mail[i].inReplyTo = IF mail[i].parent = 0 THEN <<>> ELSE <<mail[mail[i].parent].id>>
         /\ mail[i].references = IF mail[i].parent = 0 \/ ~mail[i].kept THEN <<>>
                                 ELSE Answering(mail[i].parent)

\* The inductive invariant.
IInv == TypeOK /\ \A i \in Messages : Headed(i)

-----------------------------------------------------------------------------
(* Sequences of ids.                                                        *)

\* The known id nearest to the end of a sequence, or none.
LastKnown(ids) ==
    {ids[k] : k \in {n \in DOMAIN ids : Known(ids[n]) /\ \A j \in (n + 1) .. Len(ids) : ~Known(ids[j])}}

\* Trimming keeps the last id, and within the limit.
LEMMA TrimKeepsLast ==
    ASSUME NEW ids \in Seq(Id), Len(ids) > 0
    PROVE  /\ Trim(ids) \in Seq(Id)
           /\ Len(Trim(ids)) > 0 /\ Len(Trim(ids)) <= MaxIds
           /\ Trim(ids)[Len(Trim(ids))] = ids[Len(ids)]
<1>1. PICK n \in Nat \ {0} : n = Len(ids)
  OBVIOUS
<1>2. PICK k : k = IF n > MaxIds THEN n - MaxIds + 1 ELSE 1
  OBVIOUS
<1>3. k \in 1 .. n /\ (n - k) + 1 > 0 /\ (n - k) + 1 <= MaxIds
  BY <1>2, ThreadingAssumption
<1>4. Trim(ids) = SubSeq(ids, k, n)
  BY <1>1, <1>2 DEF Trim
<1>5. /\ SubSeq(ids, k, n) \in Seq(Id)
      /\ Len(SubSeq(ids, k, n)) = (n - k) + 1
      /\ SubSeq(ids, k, n)[(n - k) + 1] = ids[n]
  BY <1>1, <1>3, SubSeqProperties
<1> QED BY <1>1, <1>3, <1>4, <1>5

\* Reading a sequence backwards.
LEMMA ReverseIsLast ==
    ASSUME NEW ids \in Seq(Id)
    PROVE  FirstKnown(Reverse(ids)) = LastKnown(ids)
<1>1. PICK n \in Nat : n = Len(ids)
  OBVIOUS
<1>2. DOMAIN Reverse(ids) = 1 .. n /\ \A k \in 1 .. n : Reverse(ids)[k] = ids[n - k + 1]
  BY <1>1 DEF Reverse
<1>3. ASSUME NEW k \in 1 .. n, Known(ids[n - k + 1]), \A j \in 1 .. (k - 1) : ~Known(ids[n - j + 1])
      PROVE  ids[n - k + 1] \in LastKnown(ids)
  <2>1. PICK l \in 1 .. n : l = n - k + 1
    OBVIOUS
  <2>2. ASSUME NEW j \in (l + 1) .. n PROVE ~Known(ids[j])
    <3>1. PICK i \in 1 .. (k - 1) : j = n - i + 1
      <4>1. n - j + 1 \in 1 .. (k - 1) /\ j = n - (n - j + 1) + 1
        BY <2>1
      <4> QED BY <4>1
    <3> QED BY <1>3, <3>1
  <2> QED BY <1>1, <1>3, <2>1, <2>2 DEF LastKnown
<1>4. ASSUME NEW k \in 1 .. n, Known(ids[k]), \A j \in (k + 1) .. n : ~Known(ids[j])
      PROVE  ids[k] \in FirstKnown(Reverse(ids))
  <2>1. PICK l \in 1 .. n : l = n - k + 1 /\ n - l + 1 = k
    OBVIOUS
  <2>2. Reverse(ids)[l] = ids[k]
    BY <1>2, <2>1
  <2>3. ASSUME NEW j \in 1 .. (l - 1) PROVE ~Known(Reverse(ids)[j])
    <3>1. n - j + 1 \in (k + 1) .. n /\ j \in 1 .. n
      BY <2>1
    <3> QED BY <1>2, <1>4, <3>1
  <2> QED BY <1>2, <1>4, <2>2, <2>3 DEF FirstKnown
<1>5. FirstKnown(Reverse(ids)) \subseteq LastKnown(ids)
  <2>1. ASSUME NEW x \in FirstKnown(Reverse(ids)) PROVE x \in LastKnown(ids)
    <3>1. PICK k \in 1 .. n : /\ x = Reverse(ids)[k] /\ Known(Reverse(ids)[k])
                             /\ \A j \in 1 .. (k - 1) : ~Known(Reverse(ids)[j])
      BY <1>2 DEF FirstKnown
    <3>2. \A j \in 1 .. (k - 1) : Reverse(ids)[j] = ids[n - j + 1]
      BY <1>2
    <3> QED BY <1>2, <1>3, <3>1, <3>2
  <2> QED BY <2>1
<1>6. LastKnown(ids) \subseteq FirstKnown(Reverse(ids))
  BY <1>1, <1>4 DEF LastKnown
<1> QED BY <1>5, <1>6

\* An id put at either end decides if it is known.
LEMMA FirstOfCons ==
    ASSUME NEW ids \in Seq(Id), NEW x \in Id
    PROVE  FirstKnown(<<x>> \o ids) = IF Known(x) THEN {x} ELSE FirstKnown(ids)
<1>1. PICK n \in Nat : n = Len(ids)
  OBVIOUS
<1>2. PICK t : t = <<x>> \o ids
  OBVIOUS
<1>3. /\ DOMAIN t = 1 .. (n + 1) /\ t[1] = x
      /\ \A k \in 1 .. n : t[k + 1] = ids[k]
      /\ \A k \in 2 .. (n + 1) : t[k] = ids[k - 1]
  BY <1>1, <1>2
<1>4. CASE Known(x)
  <2>1. FirstKnown(t) \subseteq {x}
    BY <1>3, <1>4 DEF FirstKnown
  <2>2. x \in FirstKnown(t)
    BY <1>3, <1>4 DEF FirstKnown
  <2> QED BY <1>2, <1>4, <2>1, <2>2
<1>5. CASE ~Known(x)
  <2>1. ASSUME NEW k \in 1 .. (n + 1), Known(t[k]), \A j \in 1 .. (k - 1) : ~Known(t[j])
        PROVE  t[k] \in FirstKnown(ids)
    <3>1. k \in 2 .. (n + 1)
      BY <1>3, <1>5, <2>1
    <3>2. k - 1 \in 1 .. n /\ t[k] = ids[k - 1]
      BY <1>3, <3>1
    <3>3. ASSUME NEW j \in 1 .. (k - 2) PROVE ~Known(ids[j])
      <4>1. j + 1 \in 1 .. (k - 1) /\ j \in 1 .. n
        BY <3>1
      <4> QED BY <1>3, <2>1, <4>1
    <3>4. (k - 1) - 1 = k - 2
      OBVIOUS
    <3> QED BY <1>1, <2>1, <3>2, <3>3, <3>4 DEF FirstKnown
  <2>2. ASSUME NEW k \in 1 .. n, Known(ids[k]), \A j \in 1 .. (k - 1) : ~Known(ids[j])
        PROVE  ids[k] \in FirstKnown(t)
    <3>1. k + 1 \in 1 .. (n + 1) /\ t[k + 1] = ids[k]
      BY <1>3
    <3>2. ASSUME NEW j \in 1 .. k PROVE ~Known(t[j])
      <4>1. CASE j = 1
        BY <1>3, <1>5, <4>1
      <4>2. CASE j # 1
        <5>1. j - 1 \in 1 .. (k - 1) /\ j \in 2 .. (n + 1)
          BY <4>2
        <5> QED BY <1>3, <2>2, <5>1
      <4> QED BY <4>1, <4>2
    <3>3. (k + 1) - 1 = k
      OBVIOUS
    <3> QED BY <1>3, <2>2, <3>1, <3>2, <3>3 DEF FirstKnown
  <2>3. FirstKnown(t) \subseteq FirstKnown(ids)
    <3>1. ASSUME NEW x1 \in FirstKnown(t) PROVE x1 \in FirstKnown(ids)
      <4>1. PICK k \in 1 .. (n + 1) : x1 = t[k] /\ Known(t[k]) /\ \A j \in 1 .. (k - 1) : ~Known(t[j])
        BY <1>3, Zenon DEF FirstKnown
      <4> QED BY <2>1, <4>1, Zenon
    <3> QED BY <3>1, Zenon
  <2>4. FirstKnown(ids) \subseteq FirstKnown(t)
    BY <1>1, <2>2 DEF FirstKnown
  <2> QED BY <1>2, <1>5, <2>3, <2>4
<1> QED BY <1>4, <1>5

\* The same at the other end.
LEMMA LastOfAppend ==
    ASSUME NEW ids \in Seq(Id), NEW x \in Id
    PROVE  LastKnown(ids \o <<x>>) = IF Known(x) THEN {x} ELSE LastKnown(ids)
<1>1. PICK n \in Nat : n = Len(ids)
  OBVIOUS
<1>2. PICK t : t = ids \o <<x>>
  OBVIOUS
<1>3. /\ DOMAIN t = 1 .. (n + 1) /\ Len(t) = n + 1 /\ t[n + 1] = x
      /\ \A k \in 1 .. n : t[k] = ids[k]
  BY <1>1, <1>2
<1>4. CASE Known(x)
  <2>1. LastKnown(t) \subseteq {x}
    BY <1>3, <1>4 DEF LastKnown
  <2>2. x \in LastKnown(t)
    BY <1>3, <1>4 DEF LastKnown
  <2> QED BY <1>2, <1>4, <2>1, <2>2
<1>5. CASE ~Known(x)
  <2>1. ASSUME NEW k \in 1 .. (n + 1), Known(t[k]), \A j \in (k + 1) .. (n + 1) : ~Known(t[j])
        PROVE  t[k] \in LastKnown(ids)
    BY <1>1, <1>3, <1>5, <2>1 DEF LastKnown
  <2>2. ASSUME NEW k \in 1 .. n, Known(ids[k]), \A j \in (k + 1) .. n : ~Known(ids[j])
        PROVE  ids[k] \in LastKnown(t)
    <3>1. k \in DOMAIN t /\ t[k] = ids[k]
      BY <1>3
    <3>2. ASSUME NEW j \in (k + 1) .. (n + 1) PROVE ~Known(t[j])
      <4>1. j = n + 1 \/ j \in (k + 1) .. n
        OBVIOUS
      <4>2. j # n + 1 => t[j] = ids[j]
        BY <1>3
      <4> QED BY <1>3, <1>5, <2>2, <4>1, <4>2, Zenon
    <3>3. Len(t) = n + 1
      BY <1>3
    <3> QED BY <2>2, <3>1, <3>2, <3>3, Zenon DEF LastKnown
  <2>3. LastKnown(t) \subseteq LastKnown(ids)
    BY <1>3, <2>1 DEF LastKnown
  <2>4. LastKnown(ids) \subseteq LastKnown(t)
    BY <1>1, <2>2 DEF LastKnown
  <2> QED BY <1>2, <1>5, <2>3, <2>4
<1> QED BY <1>4, <1>5
-----------------------------------------------------------------------------
(* The anchor.                                                              *)

\* The anchor of i, given those of the messages before it.
Up(f, i) ==
    IF i = 0 \/ mail[i].parent = 0 THEN 0
    ELSE IF Known(mail[mail[i].parent].id) \/ (mail[i].kept /\ mail[mail[i].parent].by = "site")
      THEN mail[i].parent
    ELSE IF mail[i].kept THEN f[mail[i].parent] ELSE 0

\* A set of numbers has a least.
LEMMA LeastOf ==
    ASSUME NEW T, T \subseteq Nat, T # {}
    PROVE  \E n \in T : \A m \in T : n <= m
<1>1. PICK n \in T : \A m \in T : ~(<<m, n>> \in OpToRel(<, Nat))
  BY WFMin, NatLessThanWellFounded
<1>2. \A m \in T : ~(m < n)
  BY <1>1 DEF OpToRel
<1> QED BY <1>2

\* Anchor is well defined: a message's anchor depends on earlier ones only.
LEMMA UpExists ==
    ASSUME IInv
    PROVE  \E f : f = [i \in 0 .. Len(mail) |-> Up(f, i)]
<1> DEFINE T == {n \in 0 .. Len(mail) : ~\E f : f = [i \in 0 .. n |-> Up(f, i)]}
<1>1. Len(mail) \in Nat /\ Messages = 1 .. Len(mail)
  BY DEF IInv, TypeOK, Messages
<1>2. SUFFICES ASSUME T # {} PROVE FALSE
  BY <1>1
<1>3. PICK n \in T : \A m \in T : n <= m
  <2>1. T \subseteq Nat
    BY <1>1
  <2> HIDE DEF T
  <2> QED BY <1>2, <2>1, LeastOf
<1>4. CASE n = 0
  <2>1. [i \in 0 .. 0 |-> 0] = [i \in 0 .. 0 |-> Up([j \in 0 .. 0 |-> 0], i)]
    BY DEF Up
  <2> QED BY <1>4, <2>1
<1>5. CASE n # 0
  <2>1. n \in 1 .. Len(mail) /\ n - 1 \in 0 .. Len(mail) /\ n - 1 \notin T
    BY <1>1, <1>3, <1>5
  <2>2. PICK f : f = [i \in 0 .. (n - 1) |-> Up(f, i)]
    BY <2>1
  <2>3. PICK g : g = [i \in 0 .. n |-> IF i = n THEN Up(f, n) ELSE f[i]]
    OBVIOUS
  <2>4. ASSUME NEW i \in 0 .. n PROVE g[i] = Up(g, i)
    <3>1. i # 0 => mail[i].parent \in 0 .. (i - 1)
      <4>1. i # 0 => i \in Messages
        BY <1>1, <2>1
      <4> QED BY <4>1 DEF IInv, Headed
    <3>2. i # 0 => g[mail[i].parent] = f[mail[i].parent]
      BY <2>1, <2>3, <3>1
    <3>3. Up(g, i) = Up(f, i)
      BY <3>2 DEF Up
    <3>4. i # n => f[i] = Up(f, i)
      <4>1. i # n => i \in 0 .. (n - 1)
        BY <2>1
      <4> QED BY <2>2, <4>1, Zenon
    <3> QED BY <2>3, <3>3, <3>4
  <2>5. g = [i \in 0 .. n |-> Up(g, i)]
    BY <2>3, <2>4
  <2> QED BY <2>5
<1> QED BY <1>4, <1>5

\* The definition of Anchor, for a message.
LEMMA AnchorIs ==
    ASSUME IInv, NEW i \in Messages
    PROVE  Anchor[i] = Up(Anchor, i)
<1>1. Messages = 1 .. Len(mail) /\ Len(mail) \in Nat
  BY DEF IInv, TypeOK, Messages
<1>2. Anchor = CHOOSE f : f = [j \in 0 .. Len(mail) |-> Up(f, j)]
  BY DEF Anchor, Up
<1>3. Anchor = [j \in 0 .. Len(mail) |-> Up(Anchor, j)]
  BY <1>2, UpExists
<1> QED BY <1>1, <1>3
-----------------------------------------------------------------------------
(* What is found in the headers is the anchor.                              *)

\* The id by which message a is recognised.
NamedAs(a) == IF Known(mail[a].id) THEN mail[a].id ELSE Own(a)

\* The trail of i leads to its anchor.
Found(i) ==
    \/ Anchor[i] = 0 /\ LastKnown(Trail(i)) = {}
    \/ /\ Anchor[i] \in Messages
       /\ mail[Anchor[i]].by = "site" \/ Known(mail[Anchor[i]].id)
       /\ LastKnown(Trail(i)) = {NamedAs(Anchor[i])}

\* The headers of a message, as the types have them.
LEMMA HeaderTypes ==
    ASSUME IInv, NEW i \in Messages
    PROVE  /\ mail[i].id \in Id /\ mail[i].references \in Seq(Id) /\ Trail(i) \in Seq(Id)
           /\ mail[i].by \in {"site", "customer"} /\ mail[i].kept \in BOOLEAN
           /\ i \in 1 .. MaxMessages /\ i # 0
           /\ mail[i].parent # 0 => mail[i].parent \in Messages
<1>1. /\ Messages = 1 .. Len(mail) /\ Len(mail) \in Nat /\ mail[i] \in Mail
      /\ Len(mail) <= MaxMessages
  BY DEF IInv, TypeOK, Messages
<1>2. \A x \in Id : <<x>> \in Seq(Id)
  OBVIOUS
<1>3. mail[i].inReplyTo \in Seq(Id)
  <2> PICK h : h = mail[i].inReplyTo
    OBVIOUS
  <2>1. h \in {<<>>} \cup {<<x>> : x \in Id}
    BY <1>1 DEF Mail
  <2>2. CASE h = <<>>
    <3>1. <<>> \in Seq(Id)
      OBVIOUS
    <3> QED BY <2>2, <3>1
  <2>3. CASE h # <<>>
    <3>1. PICK x \in Id : h = <<x>>
      BY <2>1, <2>3
    <3> QED BY <1>2, <3>1
  <2> QED BY <2>2, <2>3
<1>4. mail[i].parent \in 0 .. (i - 1)
  BY DEF IInv, Headed
<1>5. i \in 1 .. MaxMessages /\ i # 0 /\ (mail[i].parent # 0 => mail[i].parent \in Messages)
  BY <1>1, <1>4, ThreadingAssumption
<1> QED BY <1>1, <1>3, <1>5 DEF Mail, Trail

\* The ids of a message; its own, which has the site's name, is always known.
LEMMA KnownIds ==
    ASSUME IInv, NEW p \in Messages
    PROVE  /\ Own(p) \in Id /\ Known(Own(p)) /\ Own(p)[2] = p /\ Own(p) # Wire(p)
           /\ mail[p].id \in {Own(p), Wire(p)} /\ mail[p].id[2] = p
           /\ mail[p].by = "customer" => mail[p].id = Wire(p)
<1>1. Own(p)[1] = "own" /\ Own(p)[2] = p /\ Wire(p)[1] = "wire" /\ Wire(p)[2] = p
  BY DEF Own, Wire
<1>2. Own(p) \in Id
  BY HeaderTypes DEF Own, Id
<1>3. Known(Own(p))
  BY <1>1 DEF Known, NamesSite
<1>4. /\ mail[p].id \in {Own(p), Wire(p)}
      /\ mail[p].by = "customer" => mail[p].id = Wire(p)
  BY HeaderTypes DEF IInv, Headed
<1> QED BY <1>1, <1>2, <1>3, <1>4

\* The id by which a message is recognised is on record, unless the message has
\* been cleared or is mistaken.
LEMMA NamedOnRecord ==
    ASSUME IInv, NEW a \in Messages, mail[a].by = "site" \/ Known(mail[a].id)
    PROVE  /\ NamedAs(a)[2] = a
           /\ OnRecord(NamedAs(a)) <=> a \notin cleared /\ ~Mistaken(a)
<1>1. /\ Known(Own(a)) /\ Own(a)[2] = a /\ Own(a) # Wire(a) /\ mail[a].id[2] = a
      /\ mail[a].id \in {Own(a), Wire(a)}
      /\ mail[a].by \in {"site", "customer"}
      /\ mail[a].by = "site" => mail[a].doc # 0
      /\ Wire(a)[1] # "own" /\ Wire(a)[2] = a
  BY KnownIds, HeaderTypes DEF IInv, Headed, Wire
<1>2. NamedAs(a)[2] = a
  BY <1>1 DEF NamedAs
<1>3. CASE mail[a].by = "site" /\ mail[a].id = Own(a)
  <2>1. NamedAs(a) = Own(a) /\ StoredId(a) = Own(a) /\ ~Mistaken(a)
    BY <1>1, <1>3 DEF NamedAs, StoredId, Mistaken
  <2> QED BY <1>1, <1>2, <1>3, <2>1 DEF OnRecord
<1>4. CASE mail[a].by = "site" /\ mail[a].id = Wire(a)
  <2>1. StoredId(a) = Own(a) /\ ~OnRecord(Wire(a))
    BY <1>1, <1>4 DEF StoredId, OnRecord
  <2>2. Known(Wire(a)) <=> a \in Named
    BY <1>1, <2>1 DEF Known, NamesSite
  <2>3. NamedAs(a) = IF a \in Named THEN Wire(a) ELSE Own(a)
    BY <1>4, <2>2 DEF NamedAs
  <2>4. Mistaken(a) <=> a \in Named
    BY <1>4 DEF Mistaken
  <2>5. OnRecord(Own(a)) <=> a \notin cleared
    BY <1>1, <1>4, <2>1 DEF OnRecord
  <2> QED BY <1>2, <2>1, <2>3, <2>4, <2>5
<1>5. CASE mail[a].by = "customer"
  <2>1. Known(mail[a].id) /\ mail[a].id = Wire(a) /\ mail[a].by # "site"
    BY <1>5, KnownIds
  <2>2. NamedAs(a) = Wire(a) /\ StoredId(a) = Wire(a)
    BY <2>1 DEF NamedAs, StoredId
  <2>3. OnRecord(Wire(a)) <=> mail[a].doc # 0 /\ a \notin cleared
    BY <1>1, <2>2 DEF OnRecord
  <2>4. OnRecord(Wire(a)) \/ a \in Named
    BY <1>1, <2>1 DEF Known, NamesSite
  <2>5. Mistaken(a) <=> a \in Named /\ mail[a].doc = 0
    BY <2>1 DEF Mistaken
  <2> QED BY <1>2, <2>2, <2>3, <2>4, <2>5
<1> QED BY <1>1, <1>3, <1>4, <1>5

\* Nothing is known of no ids, and of one id the id if it is known.
LEMMA LastOfFew ==
    /\ LastKnown(<<>>) = {} /\ FirstKnown(<<>>) = {}
    /\ \A x \in Id : LastKnown(<<x>>) = IF Known(x) THEN {x} ELSE {}
<1>1. LastKnown(<<>>) = {} /\ FirstKnown(<<>>) = {}
  BY DEF LastKnown, FirstKnown
<1>2. ASSUME NEW x \in Id PROVE LastKnown(<<x>>) = IF Known(x) THEN {x} ELSE {}
  <2>1. <<>> \in Seq(Id) /\ <<>> \o <<x>> = <<x>>
    OBVIOUS
  <2> QED BY <1>1, <2>1, LastOfAppend
<1> QED BY <1>1, <1>2

\* The matching reads the trail from its end.
LEMMA RecognisedIs ==
    ASSUME IInv, NEW i \in Messages, mail[i].by = "customer"
    PROVE  Recognised(i) = LastKnown(Trail(i))
<1>1. PICK p : p = mail[i].parent
  OBVIOUS
<1>2. PICK refs \in Seq(Id) : refs = mail[i].references
  BY HeaderTypes
<1>3. /\ mail[i].inReplyTo = IF p = 0 THEN <<>> ELSE <<mail[p].id>>
      /\ refs = IF p = 0 \/ ~mail[i].kept THEN <<>> ELSE Answering(p)
  BY <1>1, <1>2 DEF IInv, Headed
<1>4. Reverse(refs) \in Seq(Id)
  BY DEF Reverse
<1>5. CASE p = 0
  <2>1. Candidates(i) = <<>>
    BY <1>2, <1>3, <1>5 DEF Candidates, Reverse
  <2>2. Trail(i) = <<>>
    BY <1>2, <1>3, <1>5 DEF Trail
  <2> QED BY <2>1, <2>2, LastOfFew DEF Recognised
<1>6. CASE p # 0
  <2>1. p \in Messages /\ mail[p].id \in Id
    BY <1>1, <1>6, HeaderTypes
  <2>2. Recognised(i) = IF Known(mail[p].id) THEN {mail[p].id} ELSE LastKnown(refs)
    <3>1. FirstKnown(<<mail[p].id>> \o Reverse(refs))
            = IF Known(mail[p].id) THEN {mail[p].id} ELSE FirstKnown(Reverse(refs))
      BY <1>4, <2>1, FirstOfCons
    <3>2. Candidates(i) = <<mail[p].id>> \o Reverse(refs)
      BY <1>2, <1>3, <1>6 DEF Candidates
    <3> QED BY <3>1, <3>2, ReverseIsLast DEF Recognised
  <2>3. CASE mail[i].kept
    <3>1. refs = Trail(p) \o <<mail[p].id>>
      BY <1>3, <1>6, <2>3 DEF Answering, Trail
    <3>2. Trail(p) \in Seq(Id)
      BY <2>1, HeaderTypes
    <3>3. LastKnown(refs) = IF Known(mail[p].id) THEN {mail[p].id} ELSE LastKnown(Trail(p))
      BY <2>1, <3>1, <3>2, LastOfAppend
    <3>4. refs # <<>>
      BY <2>1, <3>1, <3>2
    <3>5. Trail(i) = refs
      BY <1>2, <3>4 DEF Trail
    <3> QED BY <2>2, <3>3, <3>5
  <2>4. CASE ~mail[i].kept
    <3>1. refs = <<>> /\ Trail(i) = <<mail[p].id>>
      BY <1>2, <1>3, <1>6, <2>4 DEF Trail
    <3> QED BY <2>1, <2>2, <3>1, LastOfFew
  <2> QED BY <2>3, <2>4
<1> QED BY <1>5, <1>6

\* One step up the tree.
LEMMA FoundStep ==
    ASSUME IInv, NEW i \in Messages, mail[i].by = "customer",
           NEW p, p = mail[i].parent,
           (p # 0 /\ mail[p].by = "customer") => Found(p)
    PROVE  Found(i)
<1>1. mail[i].references = IF p = 0 \/ ~mail[i].kept THEN <<>> ELSE Answering(p)
  BY DEF IInv, Headed
<1>2. mail[i].inReplyTo = IF p = 0 THEN <<>> ELSE <<mail[p].id>>
  BY DEF IInv, Headed
<1>3. i # 0 /\ Anchor[i] = Up(Anchor, i)
  BY HeaderTypes, AnchorIs
<1>4. CASE p = 0
  <2>1. Anchor[i] = 0
    BY <1>3, <1>4 DEF Up
  <2>2. Trail(i) = <<>>
    BY <1>1, <1>2, <1>4 DEF Trail
  <2> QED BY <2>1, <2>2, LastOfFew DEF Found
<1>5. CASE p # 0
  <2>1. p \in Messages /\ mail[p].id \in Id /\ Trail(p) \in Seq(Id) /\ mail[p].by \in {"site", "customer"}
    BY <1>5, HeaderTypes
  <2>2. /\ Own(p) \in Id /\ Known(Own(p)) /\ mail[p].id \in {Own(p), Wire(p)}
        /\ mail[p].by = "customer" => mail[p].id = Wire(p)
    BY <2>1, KnownIds
  <2>3. Anchor[i] = IF Known(mail[p].id) \/ (mail[i].kept /\ mail[p].by = "site") THEN p
                    ELSE IF mail[i].kept THEN Anchor[p] ELSE 0
    BY <1>3, <1>5 DEF Up
  <2>4. CASE Known(mail[p].id)
    <3>1. Anchor[i] = p
      BY <2>3, <2>4
    <3>2. LastKnown(Trail(i)) = {mail[p].id}
      <4>1. CASE mail[i].kept
        <5>1. mail[i].references = Trail(p) \o <<mail[p].id>>
          BY <1>1, <1>5, <4>1 DEF Answering, Trail
        <5>2. Trail(i) = Trail(p) \o <<mail[p].id>>
          <6>1. Trail(p) \o <<mail[p].id>> # <<>>
            BY <2>1
          <6> QED BY <5>1, <6>1 DEF Trail
        <5>3. LastKnown(Trail(p) \o <<mail[p].id>>) = {mail[p].id}
          BY <2>1, <2>4, LastOfAppend, Zenon
        <5> QED BY <5>2, <5>3, Zenon
      <4>2. CASE ~mail[i].kept
        <5>1. Trail(i) = <<mail[p].id>>
          BY <1>1, <1>2, <1>5, <4>2 DEF Trail
        <5> QED BY <2>1, <2>4, <5>1, LastOfFew
      <4> QED BY <4>1, <4>2
    <3>3. NamedAs(p) = mail[p].id
      BY <2>4 DEF NamedAs
    <3> QED BY <2>1, <2>4, <3>1, <3>2, <3>3 DEF Found
  <2>5. CASE ~Known(mail[p].id) /\ ~mail[i].kept
    <3>1. Anchor[i] = 0
      BY <2>3, <2>5
    <3>2. Trail(i) = <<mail[p].id>>
      BY <1>1, <1>2, <1>5, <2>5 DEF Trail
    <3>3. LastKnown(Trail(i)) = {}
      BY <2>1, <2>5, <3>2, LastOfFew
    <3> QED BY <3>1, <3>3 DEF Found
  <2>6. CASE ~Known(mail[p].id) /\ mail[i].kept
    <3>1. mail[i].references = Trail(p) \o <<mail[p].id>>
      BY <1>1, <1>5, <2>6 DEF Answering, Trail
    <3>2. Trail(i) = Trail(p) \o <<mail[p].id>>
      <4>1. Trail(p) \o <<mail[p].id>> # <<>>
        BY <2>1
      <4> QED BY <3>1, <4>1 DEF Trail
    <3>3. LastKnown(Trail(i)) = LastKnown(Trail(p))
      BY <2>1, <2>6, <3>2, LastOfAppend
    <3>4. CASE mail[p].by = "customer"
      <4>1. Anchor[i] = Anchor[p]
        BY <2>3, <2>6, <3>4
      <4>2. Found(p)
        BY <1>5, <3>4
      <4> QED BY <3>3, <4>1, <4>2 DEF Found
    <3>5. CASE mail[p].by = "site"
      <4>1. NamedAs(p) = Own(p)
        BY <2>6 DEF NamedAs
      <4>2. mail[p].id = Wire(p)
        BY <2>2, <2>6
      <4>3. PICK n \in Nat : n = Len(mail[p].references) /\ n > 0 /\ mail[p].references[n] = Own(p)
        <5>1. mail[p].references \in Seq(Id)
          BY <2>1, HeaderTypes
        <5>2. Len(mail[p].references) > 0 /\ mail[p].references[Len(mail[p].references)] = Own(p)
          BY <2>1, <3>5, <4>2 DEF IInv, Headed
        <5> QED BY <5>1, <5>2
      <4>4. Trail(p) = mail[p].references /\ Len(Trail(p)) = n /\ Trail(p)[n] = Own(p)
        BY <4>3 DEF Trail
      <4>5. LastKnown(Trail(p)) = {Own(p)}
        <5>1. Own(p) \in LastKnown(Trail(p))
          BY <2>1, <2>2, <4>3, <4>4 DEF LastKnown
        <5>2. \A x \in LastKnown(Trail(p)) : x = Own(p)
          BY <2>1, <2>2, <4>3, <4>4 DEF LastKnown
        <5> QED BY <5>1, <5>2
      <4>6. Anchor[i] = p
        BY <2>3, <2>6, <3>5
      <4> QED BY <2>1, <3>3, <3>5, <4>1, <4>5, <4>6 DEF Found
    <3> QED BY <2>1, <3>4, <3>5
  <2> QED BY <2>4, <2>5, <2>6
<1> QED BY <1>4, <1>5

\* So the trail of every customer's message leads to its anchor.
LEMMA AllFound ==
    ASSUME IInv
    PROVE  \A i \in Messages : mail[i].by = "customer" => Found(i)
<1> DEFINE T == {i \in Messages : mail[i].by = "customer" /\ ~Found(i)}
<1>1. SUFFICES ASSUME T # {} PROVE FALSE
  OBVIOUS
<1>2. T \subseteq Nat
  BY DEF IInv, TypeOK, Messages
<1>3. PICK n \in T : \A m \in T : n <= m
  <2> HIDE DEF T
  <2> QED BY <1>1, <1>2, LeastOf
<1>4. n \in Messages /\ mail[n].parent \in 0 .. (n - 1)
  BY DEF IInv, Headed
<1>5. mail[n].parent # 0 => mail[n].parent \in Messages /\ mail[n].parent \notin T
  BY <1>2, <1>3, <1>4, HeaderTypes
<1>6. Found(n)
  BY <1>4, <1>5, FoundStep
<1> QED BY <1>6

\* The document a message lands on is its anchor's, or a new one.
LEMMA DocumentIs ==
    ASSUME IInv, NEW i \in Messages, mail[i].by = "customer"
    PROVE  /\ Document(i) = IF Anchor[i] \in {0} \cup cleared \/ Mistaken(Anchor[i]) THEN i
                             ELSE mail[Anchor[i]].doc
           /\ Document(i) \in 0 .. MaxMessages
<1>1. Recognised(i) = LastKnown(Trail(i)) /\ Found(i)
  BY RecognisedIs, AllFound
<1>2. 0 \notin Messages /\ i \in 0 .. MaxMessages
      /\ \A k \in Messages : mail[k].doc \in 0 .. MaxMessages
  <2>1. \A k \in Messages : mail[k] \in Mail
    BY DEF IInv, TypeOK, Messages
  <2>2. 0 \notin Messages /\ i \in 0 .. MaxMessages
    BY HeaderTypes DEF IInv, TypeOK, Messages
  <2> QED BY <2>1, <2>2 DEF Mail
<1>3. CASE Recognised(i) = {}
  <2>1. Anchor[i] = 0
    BY <1>1, <1>3 DEF Found
  <2> QED BY <1>2, <1>3, <2>1 DEF Document
<1>4. CASE Recognised(i) # {}
  <2>1. Anchor[i] \in Messages
    BY <1>1, <1>4 DEF Found
  <2>2. PICK a \in Messages : /\ a = Anchor[i] /\ (mail[a].by = "site" \/ Known(mail[a].id))
                              /\ Recognised(i) = {NamedAs(a)}
    BY <1>1, <1>4, <2>1 DEF Found
  <2>3. NamedAs(a)[2] = a /\ (OnRecord(NamedAs(a)) <=> a \notin cleared /\ ~Mistaken(a))
    BY <2>2, NamedOnRecord
  <2>4. PICK found : found = {id[2] : id \in {x \in Recognised(i) : OnRecord(x)}}
    OBVIOUS
  <2>5. Document(i) = IF found = {} THEN i ELSE mail[CHOOSE m \in found : TRUE].doc
    BY <2>4 DEF Document
  <2>6. CASE OnRecord(NamedAs(a))
    <3>1. found = {a}
      BY <2>2, <2>3, <2>4, <2>6
    <3>2. (CHOOSE m \in {a} : TRUE) = a
      OBVIOUS
    <3>3. Document(i) = mail[a].doc
      BY <2>5, <3>1, <3>2
    <3>4. a # 0
      BY <1>2
    <3> QED BY <1>2, <2>2, <2>3, <2>6, <3>3, <3>4
  <2>7. CASE ~OnRecord(NamedAs(a))
    <3>1. found = {}
      BY <2>2, <2>4, <2>7
    <3> QED BY <1>2, <2>2, <2>3, <2>5, <2>7, <3>1
  <2> QED BY <2>6, <2>7
<1> QED BY <1>3, <1>4
-----------------------------------------------------------------------------
(* The steps.                                                               *)

\* A message written with proper headers disturbs no other.
LEMMA AppendStep ==
    ASSUME IInv, Len(mail) < MaxMessages, NEW m \in Mail,
           mail' = Append(mail, m), UNCHANGED <<cleared, relinks>>,
           NEW i, i = Len(mail) + 1, Headed(i)',
           m.by = "site" => Len(m.references) <= MaxIds
    PROVE  IInv'
<1>1. PICK n \in Nat : n = Len(mail)
  BY DEF IInv, TypeOK
<1>2. /\ mail' \in Seq(Mail) /\ Len(mail') = n + 1 /\ mail'[n + 1] = m
      /\ \A k \in 1 .. n : mail'[k] = mail[k]
      /\ Messages = 1 .. n /\ Messages' = 1 .. (n + 1)
  BY <1>1 DEF IInv, TypeOK, Messages
<1>3. ASSUME NEW k \in 1 .. n PROVE Headed(k)'
  <2>1. k \in Messages /\ Headed(k) /\ mail'[k] = mail[k]
    BY <1>2 DEF IInv
  <2>2. mail[k].parent # 0 => mail'[mail[k].parent] = mail[mail[k].parent]
    BY <1>2, <2>1 DEF Headed
  <2>3. mail[k].parent # 0 => (Answering(mail[k].parent))' = Answering(mail[k].parent)
    BY <2>1, <2>2 DEF Answering
  <2> QED BY <2>1, <2>2, <2>3 DEF Headed, Own, Wire
<1>4. \A k \in Messages' : Headed(k)'
  <2>1. i = n + 1
    BY <1>1
  <2>2. \A k \in Messages' : k \in 1 .. n \/ k = i
    BY <1>2, <2>1
  <2> QED BY <1>3, <2>2
<1>5. ASSUME NEW k \in Messages'
      PROVE  /\ mail'[k].parent < k
             /\ mail'[k].by = "site" => mail'[k].doc # 0 /\ Len(mail'[k].references) <= MaxIds
  <2>1. CASE k = n + 1
    <3>1. mail'[k].parent \in 0 .. (k - 1) /\ (mail'[k].by = "site" => mail'[k].doc # 0)
      BY <1>4 DEF Headed
    <3> QED BY <1>1, <1>2, <2>1, <3>1
  <2>2. CASE k # n + 1
    BY <1>2, <2>2 DEF IInv, TypeOK
  <2> QED BY <2>1, <2>2
<1>6. cleared' \subseteq {k \in Messages' : mail'[k].doc # 0}
  BY <1>2 DEF IInv, TypeOK
<1>7. TypeOK'
  <2>1. n + 1 <= MaxMessages /\ relinks' \in 0 .. MaxRelinks
    <3>1. relinks' = relinks
      OBVIOUS
    <3> QED BY <1>1, <3>1, ThreadingAssumption DEF IInv, TypeOK
  <2> QED BY <1>2, <1>5, <1>6, <2>1 DEF TypeOK
<1> QED BY <1>4, <1>7 DEF IInv

\* A message's document changes, or the records do: no header changes.
LEMMA DocStep ==
    ASSUME IInv, NEW i \in Messages, NEW d \in 0 .. MaxMessages,
           mail' = [mail EXCEPT ![i].doc = d],
           mail[i].by = "site" => d # 0
    PROVE  /\ mail' \in Seq(Mail) /\ Len(mail') = Len(mail) /\ Messages' = Messages
           /\ \A k \in Messages : k # i => mail'[k] = mail[k]
           /\ mail'[i].doc = d
           /\ \A k \in Messages : Headed(k)'
           /\ \A k \in Messages :
                /\ mail'[k].parent < k
                /\ mail'[k].by = "site" => mail'[k].doc # 0 /\ Len(mail'[k].references) <= MaxIds
<1>1. mail \in Seq(Mail) /\ Messages = 1 .. Len(mail) /\ Len(mail) \in Nat /\ mail[i] \in Mail
  BY DEF IInv, TypeOK, Messages
<1>2. PICK m : m = [mail[i] EXCEPT !.doc = d]
  OBVIOUS
<1>3. m \in Mail /\ m.doc = d
  BY <1>1, <1>2 DEF Mail
<1>4. mail' = [mail EXCEPT ![i] = m]
  BY <1>2
<1>5. mail' \in Seq(Mail) /\ Len(mail') = Len(mail)
  BY <1>1, <1>3, <1>4, ExceptSeq
<1>6. Messages' = Messages /\ mail'[i] = m /\ \A k \in Messages : k # i => mail'[k] = mail[k]
  BY <1>1, <1>4, <1>5 DEF Messages
<1>7. /\ m.by = mail[i].by /\ m.id = mail[i].id /\ m.parent = mail[i].parent /\ m.kept = mail[i].kept
      /\ m.inReplyTo = mail[i].inReplyTo /\ m.references = mail[i].references
  BY <1>1, <1>2 DEF Mail
<1>8. ASSUME NEW k \in Messages
      PROVE  /\ mail'[k].by = mail[k].by /\ mail'[k].id = mail[k].id
             /\ mail'[k].parent = mail[k].parent /\ mail'[k].kept = mail[k].kept
             /\ mail'[k].inReplyTo = mail[k].inReplyTo /\ mail'[k].references = mail[k].references
             /\ mail'[k].by = "site" => mail'[k].doc # 0
  <2>1. mail[k].by = "site" => mail[k].doc # 0
    BY DEF IInv, TypeOK
  <2> QED BY <1>3, <1>6, <1>7, <2>1
<1>9. ASSUME NEW k \in Messages PROVE Headed(k)'
  <2> PICK p : p = mail[k].parent
    OBVIOUS
  <2>1. Headed(k) /\ (p # 0 => p \in Messages)
    BY HeaderTypes DEF IInv
  <2>2. p # 0 => Answering(p)' = Answering(p)
    <3>1. SUFFICES ASSUME p # 0 PROVE Answering(p)' = Answering(p)
      OBVIOUS
    <3>2. /\ mail'[p].references = mail[p].references /\ mail'[p].inReplyTo = mail[p].inReplyTo
          /\ mail'[p].id = mail[p].id
      BY <1>8, <2>1, <3>1
    <3> QED BY <3>2 DEF Answering
  <2>3. p # 0 => mail'[p].id = mail[p].id
    BY <1>8, <2>1
  <2> QED BY <1>8, <2>1, <2>2, <2>3 DEF Headed, Own, Wire
<1>10. ASSUME NEW k \in Messages
       PROVE  /\ mail'[k].parent < k
              /\ mail'[k].by = "site" => mail'[k].doc # 0 /\ Len(mail'[k].references) <= MaxIds
  BY <1>8 DEF IInv, TypeOK
<1> QED BY <1>3, <1>5, <1>6, <1>9, <1>10

\* What the site writes has the headers of Headed.
LEMMA SiteStep ==
    ASSUME IInv, SiteWrites
    PROVE  IInv'
<1>1. PICK i : i = Len(mail) + 1
  OBVIOUS
<1>2. PICK viaCloudflare \in BOOLEAN, p \in 0 .. Len(mail) :
        /\ p # 0 => mail[p].doc # 0 /\ p \notin cleared
        /\ mail' = Append(mail, Written(i, p, IF p = 0 THEN i ELSE mail[p].doc, viaCloudflare))
  BY <1>1 DEF SiteWrites
<1>3. PICK d : d = IF p = 0 THEN i ELSE mail[p].doc
  OBVIOUS
<1>4. PICK m : m = Written(i, p, d, viaCloudflare)
  OBVIOUS
<1>5. PICK h : h = IF p = 0 THEN <<>> ELSE <<StoredId(p)>>
  OBVIOUS
<1>6. /\ Len(mail) \in Nat /\ Messages = 1 .. Len(mail) /\ mail \in Seq(Mail)
      /\ i \in 1 .. MaxMessages /\ Len(mail) < MaxMessages
  BY <1>1, ThreadingAssumption DEF IInv, TypeOK, Messages, SiteWrites
<1>7. Own(i) \in Id /\ Wire(i) \in Id
  BY <1>6 DEF Own, Wire, Id
<1>8. p # 0 => p \in Messages /\ StoredId(p) \in Id /\ mail[p].doc \in 0 .. MaxMessages
  <2>1. SUFFICES ASSUME p # 0
        PROVE  p \in Messages /\ StoredId(p) \in Id /\ mail[p].doc \in 0 .. MaxMessages
    OBVIOUS
  <2>2. p \in Messages /\ mail[p] \in Mail
    BY <1>6, <2>1
  <2>3. Own(p) \in Id /\ mail[p].id \in Id
    BY <2>2, HeaderTypes, KnownIds
  <2> QED BY <2>2, <2>3 DEF StoredId, Mail
<1>9. d \in 0 .. MaxMessages /\ d # 0
  BY <1>2, <1>3, <1>6, <1>8
<1>10. h \in Seq(Id) /\ (h = <<>> \/ \E x \in Id : h = <<x>>)
  BY <1>5, <1>8
<1>11. /\ Passthrough(h, Own(i)) \in Seq(Id)
       /\ Len(Passthrough(h, Own(i))) > 0 /\ Len(Passthrough(h, Own(i))) <= MaxIds
       /\ Passthrough(h, Own(i))[Len(Passthrough(h, Own(i)))] = Own(i)
  <2>1. PICK ids \in Seq(Id) : ids = h \o <<Own(i)>> /\ Len(ids) > 0 /\ ids[Len(ids)] = Own(i)
    <3>1. PICK n \in Nat : n = Len(h)
      BY <1>10
    <3>2. PICK o : o = <<Own(i)>>
      OBVIOUS
    <3>3. o \in Seq(Id) /\ Len(o) = 1 /\ o[1] = Own(i)
      BY <1>7, <3>2
    <3>4. h \o o \in Seq(Id) /\ Len(h \o o) = n + 1 /\ (h \o o)[n + 1] = Own(i)
      <4>1. h \in Seq(Id)
        BY <1>10
      <4>2. h \o o \in Seq(Id) /\ Len(h \o o) = Len(h) + Len(o)
        BY <3>3, <4>1, ConcatProperties, Zenon
      <4>3. n + 1 \in 1 .. (Len(h) + Len(o)) /\ ~(n + 1 <= Len(h)) /\ (n + 1) - Len(h) = 1
            /\ Len(h) + Len(o) = n + 1
        BY <3>1, <3>3
      <4>4. (h \o o)[n + 1] = o[(n + 1) - Len(h)]
        BY <3>3, <4>1, <4>3, ConcatProperties
      <4> QED BY <3>3, <4>2, <4>3, <4>4
    <3>5. PICK ids : ids = h \o o
      OBVIOUS
    <3>6. ids \in Seq(Id) /\ Len(ids) > 0 /\ ids[Len(ids)] = Own(i)
      BY <3>1, <3>4, <3>5
    <3> QED BY <3>2, <3>5, <3>6
  <2>2. Passthrough(h, Own(i)) = Trim(ids)
    BY <2>1 DEF Passthrough
  <2> QED BY <2>1, <2>2, TrimKeepsLast
<1>12. /\ m.by = "site" /\ m.parent = p /\ m.kept = TRUE /\ m.doc = d /\ m.inReplyTo = h
       /\ m.id = (IF viaCloudflare THEN Wire(i) ELSE Own(i))
       /\ m.references = (IF viaCloudflare THEN Passthrough(h, Own(i)) ELSE <<>>)
  BY <1>4, <1>5 DEF Written
<1>13. m \in Mail
  <2>1. m = [by |-> m.by, parent |-> m.parent, kept |-> m.kept, doc |-> m.doc,
             inReplyTo |-> m.inReplyTo, id |-> m.id, references |-> m.references]
    BY <1>4 DEF Written
  <2>2. m.id \in Id /\ m.references \in Seq(Id) /\ p \in 0 .. MaxMessages
    <3>1. <<>> \in Seq(Id)
      OBVIOUS
    <3>2. m.id \in Id /\ m.references \in Seq(Id)
      BY <1>7, <1>11, <1>12, <3>1
    <3>3. p \in 0 .. MaxMessages
      BY <1>6, ThreadingAssumption
    <3> QED BY <3>2, <3>3
  <2>3. m.inReplyTo \in {<<>>} \cup {<<x>> : x \in Id}
    BY <1>10, <1>12
  <2> QED BY <1>9, <1>12, <2>1, <2>2, <2>3 DEF Mail
<1>14. m.by = "site" => Len(m.references) <= MaxIds
  BY <1>11, <1>12, ThreadingAssumption
<1>15. mail' = Append(mail, m) /\ mail'[i] = m
  BY <1>1, <1>2, <1>3, <1>4, <1>6
<1>16. Headed(i)'
  <2>1. Wire(i) # Own(i)
    BY DEF Wire, Own
  <2>2. /\ mail'[i].parent \in 0 .. (i - 1) /\ mail'[i].by = "site" /\ mail'[i].doc # 0
        /\ mail'[i].id \in {Own(i), Wire(i)}
    BY <1>1, <1>6, <1>9, <1>12, <1>15
  <2>3. mail'[i].id = Wire(i) => Len(mail'[i].references) > 0
                                 /\ mail'[i].references[Len(mail'[i].references)] = Own(i)
    BY <1>11, <1>12, <1>15, <2>1
  <2> QED BY <2>2, <2>3 DEF Headed, Own, Wire
<1>17. UNCHANGED <<cleared, relinks>>
  BY DEF SiteWrites
<1> QED BY <1>1, <1>6, <1>13, <1>14, <1>15, <1>16, <1>17, AppendStep

\* What a customer's client writes has the headers of Headed.
LEMMA CustomerStep ==
    ASSUME IInv, CustomerWrites
    PROVE  IInv'
<1>1. PICK i : i = Len(mail) + 1
  OBVIOUS
<1>2. PICK p \in 0 .. Len(mail), kept \in BOOLEAN :
        mail' = Append(mail,
          [by |-> "customer", id |-> Wire(i), parent |-> p, kept |-> kept, doc |-> 0,
           inReplyTo |-> IF p = 0 THEN <<>> ELSE <<mail[p].id>>,
           references |-> IF p = 0 \/ ~kept THEN <<>> ELSE Answering(p)])
  BY <1>1 DEF CustomerWrites
<1>3. PICK h : h = IF p = 0 THEN <<>> ELSE <<mail[p].id>>
  OBVIOUS
<1>4. PICK refs : refs = IF p = 0 \/ ~kept THEN <<>> ELSE Answering(p)
  OBVIOUS
<1>5. PICK m : m = [by |-> "customer", id |-> Wire(i), parent |-> p, kept |-> kept, doc |-> 0,
                    inReplyTo |-> h, references |-> refs]
  OBVIOUS
<1>6. /\ Len(mail) \in Nat /\ Messages = 1 .. Len(mail) /\ mail \in Seq(Mail)
      /\ i \in 1 .. MaxMessages /\ Len(mail) < MaxMessages
  BY <1>1, ThreadingAssumption DEF IInv, TypeOK, Messages, CustomerWrites
<1>7. p # 0 => p \in Messages /\ mail[p].id \in Id /\ Trail(p) \in Seq(Id)
  <2>1. p # 0 => p \in Messages
    BY <1>6
  <2> QED BY <2>1, HeaderTypes
<1>8. h \in {<<>>} \cup {<<x>> : x \in Id}
  BY <1>3, <1>7
<1>9. refs \in Seq(Id)
  <2>1. CASE p = 0 \/ ~kept
    <3>1. <<>> \in Seq(Id)
      OBVIOUS
    <3> QED BY <1>4, <2>1, <3>1
  <2>2. CASE ~(p = 0 \/ ~kept)
    <3>1. refs = Trail(p) \o <<mail[p].id>>
      BY <1>4, <2>2 DEF Answering, Trail
    <3> QED BY <1>7, <2>2, <3>1
  <2> QED BY <2>1, <2>2
<1>10. m \in Mail
  <2>1. Wire(i) \in Id
    BY <1>6 DEF Wire, Id
  <2>2. p \in 0 .. MaxMessages /\ 0 \in 0 .. MaxMessages
    BY <1>6, ThreadingAssumption
  <2> QED BY <1>5, <1>8, <1>9, <2>1, <2>2 DEF Mail
<1>11. mail' = Append(mail, m) /\ mail'[i] = m
  <2>1. mail' = Append(mail, m)
    BY <1>2, <1>3, <1>4, <1>5
  <2> QED BY <1>1, <1>6, <1>10, <2>1
<1>12. p # 0 => mail'[p] = mail[p]
  <2>1. \A k \in 1 .. Len(mail) : Append(mail, m)[k] = mail[k]
    BY <1>6, <1>10, AppendProperties
  <2> QED BY <1>6, <1>7, <1>11, <2>1
<1>13. Headed(i)'
  <2>1. p \in 0 .. (i - 1)
    BY <1>1, <1>6
  <2>2. /\ mail'[i].parent = p /\ mail'[i].by = "customer" /\ mail'[i].id = Wire(i)
        /\ mail'[i].kept = kept /\ mail'[i].inReplyTo = h /\ mail'[i].references = refs
    <3>1. m.parent = p /\ m.by = "customer" /\ m.id = Wire(i) /\ m.inReplyTo = h /\ m.references = refs
      BY <1>5
    <3>2. m.kept = kept
      BY <1>5, Zenon
    <3> QED BY <1>11, <3>1, <3>2, Zenon
  <2>3. p # 0 => Answering(p)' = Answering(p)
    BY <1>12 DEF Answering
  <2>4. h = IF p = 0 THEN <<>> ELSE <<mail'[p].id>>
    BY <1>3, <1>12
  <2>5. refs = IF p = 0 \/ ~kept THEN <<>> ELSE Answering(p)'
    BY <1>4, <2>3
  <2> QED BY <2>1, <2>2, <2>4, <2>5 DEF Headed, Wire
<1>14. UNCHANGED <<cleared, relinks>> /\ m.by # "site"
  BY <1>5 DEF CustomerWrites
<1> QED BY <1>1, <1>6, <1>10, <1>11, <1>13, <1>14, AppendStep

\* A change of one document keeps the invariant, unless it takes a record away
\* that is cleared.
LEMMA DocKeeps ==
    ASSUME IInv, NEW i \in Messages, NEW d \in 0 .. MaxMessages,
           mail' = [mail EXCEPT ![i].doc = d], cleared' = cleared, relinks' \in 0 .. MaxRelinks,
           mail[i].by = "site" => d # 0, i \notin cleared
    PROVE  IInv'
<1>1. /\ mail' \in Seq(Mail) /\ Len(mail') = Len(mail) /\ Messages' = Messages
      /\ \A k \in Messages : k # i => mail'[k] = mail[k]
  BY DocStep, Zenon
<1>2. \A k \in Messages : Headed(k)'
  BY DocStep, Zenon
<1>3. \A k \in Messages :
        /\ mail'[k].parent < k
        /\ mail'[k].by = "site" => mail'[k].doc # 0 /\ Len(mail'[k].references) <= MaxIds
  BY DocStep, Zenon
<1>4. cleared' \subseteq {k \in Messages' : mail'[k].doc # 0}
  BY <1>1 DEF IInv, TypeOK
<1>5. TypeOK'
  BY <1>1, <1>3, <1>4 DEF IInv, TypeOK
<1> QED BY <1>1, <1>2, <1>5 DEF IInv

\* Every step keeps the invariant.
LEMMA NextIInv ==
    ASSUME IInv, [Next]_vars
    PROVE  IInv'
<1>1. CASE SiteWrites
  BY <1>1, SiteStep
<1>2. CASE CustomerWrites
  BY <1>2, CustomerStep
<1>3. ASSUME NEW i \in Messages, Arrives(i) PROVE IInv'
  <2>1. mail[i].by = "customer" /\ mail[i].doc = 0
    BY <1>3 DEF Arrives
  <2>2. PICK d \in 0 .. MaxMessages : d = Document(i)
    BY <2>1, DocumentIs
  <2>3. mail' = [mail EXCEPT ![i].doc = d] /\ cleared' = cleared /\ relinks' = relinks
    BY <1>3, <2>2 DEF Arrives
  <2>4. i \notin cleared /\ relinks \in 0 .. MaxRelinks
    BY <2>1 DEF IInv, TypeOK
  <2> QED BY <2>1, <2>3, <2>4, DocKeeps
<1>4. ASSUME NEW i \in Messages, Relink(i) PROVE IInv'
  <2>1. PICK k \in Messages : mail[k].doc # 0 /\ mail' = [mail EXCEPT ![i].doc = mail[k].doc]
    BY <1>4 DEF Relink
  <2>2. PICK d \in 0 .. MaxMessages : d = mail[k].doc
    <3>1. mail[k] \in Mail
      BY DEF IInv, TypeOK, Messages
    <3> QED BY <3>1 DEF Mail
  <2>3. cleared' = cleared /\ i \notin cleared /\ mail[i].by = "customer"
    BY <1>4 DEF Relink
  <2>4. relinks' \in 0 .. MaxRelinks
    BY <1>4, ThreadingAssumption DEF Relink, IInv, TypeOK
  <2>5. mail' = [mail EXCEPT ![i].doc = d]
    BY <2>1, <2>2
  <2> QED BY <2>1, <2>2, <2>3, <2>4, <2>5, DocKeeps
<1>5. ASSUME NEW i \in Messages, Clear(i) PROVE IInv'
  <2>1. mail' = mail /\ relinks' = relinks /\ cleared' = cleared \cup {i} /\ mail[i].doc # 0
    BY <1>5 DEF Clear
  <2>2. TypeOK'
    BY <2>1 DEF IInv, TypeOK, Messages
  <2>3. \A k \in Messages' : Headed(k)'
    BY <2>1 DEF IInv, Headed, Answering, Messages, Own, Wire
  <2> QED BY <2>2, <2>3 DEF IInv
<1>6. CASE UNCHANGED vars
  <2>1. mail' = mail /\ relinks' = relinks /\ cleared' = cleared
    BY <1>6 DEF vars
  <2>2. TypeOK'
    BY <2>1 DEF IInv, TypeOK, Messages
  <2>3. \A k \in Messages' : Headed(k)'
    BY <2>1 DEF IInv, Headed, Answering, Messages, Own, Wire
  <2> QED BY <2>2, <2>3 DEF IInv
<1> QED BY <1>1, <1>2, <1>3, <1>4, <1>5, <1>6 DEF Next, Done

\* The invariant holds in every reachable state.
THEOREM Invariance == Spec => []IInv
<1>1. Init => IInv
  <2> SUFFICES ASSUME Init PROVE IInv
    OBVIOUS
  <2>1. mail = <<>> /\ cleared = {} /\ relinks = 0 /\ Messages = {} /\ Len(mail) = 0 /\ mail \in Seq(Mail)
    BY DEF Init, Messages
  <2> QED BY <2>1, ThreadingAssumption DEF IInv, TypeOK
<1>2. IInv /\ [Next]_vars => IInv'
  BY NextIInv
<1> QED BY <1>1, <1>2, PTL DEF Spec

\* The variables keep their types, and what the site sends its limit.
THEOREM TypeCorrect == Spec => []TypeOK
<1>1. IInv => TypeOK
  BY DEF IInv
<1> QED BY <1>1, Invariance, PTL

\* The site's own id survives trimming in everything sent through Cloudflare.
THEOREM OwnIdKept == Spec => []OwnIdTravels
<1>1. IInv => OwnIdTravels
  <2> SUFFICES ASSUME IInv, NEW i \in Messages, mail[i].by = "site", mail[i].id = Wire(i)
               PROVE  \E k \in DOMAIN mail[i].references : mail[i].references[k] = Own(i)
    BY DEF OwnIdTravels
  <2>1. mail[i].references \in Seq(Id)
    BY HeaderTypes
  <2>2. Len(mail[i].references) > 0 /\ mail[i].references[Len(mail[i].references)] = Own(i)
    BY DEF IInv, Headed
  <2> QED BY <2>1, <2>2
<1> QED BY <1>1, Invariance, PTL

\* Every reply lands on the document of its anchor, in any tree and any order, or
\* on a new one if the site has no record of the anchor or mistakes it for its own.
THEOREM RepliesLand == Spec => LandsOnItsAnchor
<1> DEFINE Lands == \A i \in Messages : mail[i].doc = 0 /\ mail'[i].doc # 0 =>
                      LET a == Anchor[i]
                      IN mail'[i].doc = IF a \in {0} \cup cleared \/ Mistaken(a) THEN i
                                        ELSE mail[a].doc
<1>1. ASSUME IInv, [Next]_vars PROVE [Lands]_vars
  <2> SUFFICES ASSUME Next, NEW i \in Messages, mail[i].doc = 0, mail'[i].doc # 0
               PROVE  mail'[i].doc = IF Anchor[i] \in {0} \cup cleared \/ Mistaken(Anchor[i]) THEN i
                             ELSE mail[Anchor[i]].doc
    BY <1>1
  <2>1. mail \in Seq(Mail) /\ Messages = 1 .. Len(mail) /\ Len(mail) \in Nat
    BY <1>1 DEF IInv, TypeOK, Messages
  <2>2. CASE SiteWrites \/ CustomerWrites
    <3>1. PICK m : mail' = Append(mail, m)
      BY <2>2 DEF SiteWrites, CustomerWrites
    <3>2. mail'[i] = mail[i]
      BY <2>1, <3>1
    <3> QED BY <3>2
  <2>3. ASSUME NEW k \in Messages, Arrives(k)
        PROVE  mail'[i].doc = IF Anchor[i] \in {0} \cup cleared \/ Mistaken(Anchor[i]) THEN i
                             ELSE mail[Anchor[i]].doc
    <3>1. mail[k].by = "customer" /\ mail' = [mail EXCEPT ![k].doc = Document(k)]
      BY <2>3 DEF Arrives
    <3>2. k = i
      BY <2>1, <3>1
    <3>3. mail'[i].doc = Document(i)
      <4>1. mail[i] \in Mail
        BY <2>1
      <4> QED BY <2>1, <3>1, <3>2, <4>1 DEF Mail
    <3> QED BY <1>1, <3>1, <3>2, <3>3, DocumentIs
  <2>4. ASSUME NEW k \in Messages, Relink(k) PROVE FALSE
    <3>1. mail[k].doc # 0 /\ \E d : mail' = [mail EXCEPT ![k].doc = d]
      BY <2>4 DEF Relink
    <3> QED BY <2>1, <3>1
  <2>5. ASSUME NEW k \in Messages, Clear(k) PROVE FALSE
    BY <2>5 DEF Clear
  <2>6. CASE Done
    BY <2>6 DEF Done, vars
  <2> QED BY <2>2, <2>3, <2>4, <2>5, <2>6 DEF Next
<1>2. IInv /\ [Next]_vars => [Lands]_vars
  BY <1>1
<1> QED BY <1>2, Invariance, PTL DEF Spec, LandsOnItsAnchor

\* A reply, with References kept, to a message the site sent and has on record.
AnswersSent(i, p) ==
    /\ mail[i].parent = p /\ mail[i].kept
    /\ p # 0 /\ mail[p].by = "site" /\ p \notin cleared

\* Where the docs are right: unless the id Cloudflare gave it contains the site's
\* name, a reply to what the site sent lands on the document that was sent from.
THEOREM SentRepliesLand ==
    Spec => [][\A i, p \in Messages :
                 mail[i].doc = 0 /\ mail'[i].doc # 0 /\ AnswersSent(i, p) /\ p \notin Named =>
                   mail'[i].doc = mail[p].doc]_vars
<1> DEFINE Lands == \A i \in Messages : mail[i].doc = 0 /\ mail'[i].doc # 0 =>
                      LET a == Anchor[i]
                      IN mail'[i].doc = IF a \in {0} \cup cleared \/ Mistaken(a) THEN i
                                        ELSE mail[a].doc
           LandWhereSent == \A i, p \in Messages :
                 mail[i].doc = 0 /\ mail'[i].doc # 0 /\ AnswersSent(i, p) /\ p \notin Named =>
                   mail'[i].doc = mail[p].doc
<1>1. ASSUME IInv, Lands PROVE LandWhereSent
  <2> SUFFICES ASSUME NEW i \in Messages, NEW p \in Messages, mail[i].doc = 0, mail'[i].doc # 0,
                      AnswersSent(i, p), p \notin Named
               PROVE  mail'[i].doc = mail[p].doc
    OBVIOUS
  <2>1. Anchor[i] = p
    BY <1>1, AnchorIs, HeaderTypes DEF Up, AnswersSent
  <2>2. p \notin {0} \cup cleared /\ ~Mistaken(p)
    BY DEF AnswersSent, Mistaken
  <2> QED BY <1>1, <2>1, <2>2
<1>2. IInv /\ [Lands]_vars => [LandWhereSent]_vars
  BY <1>1
<1> QED BY <1>2, Invariance, RepliesLand, PTL DEF LandsOnItsAnchor
=============================================================================
