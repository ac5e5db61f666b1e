----------------------- MODULE SendingPayload_proofs ------------------------
(***************************************************************************)
(* What Payload promises of recipients, for every header and envelope of    *)
(* any length, and of parts, for every MIME tree; and with it what is       *)
(* accepted from the sessions.                                              *)
(***************************************************************************)
EXTENDS SendingPayload, FiniteSetTheorems, WellFoundedInduction, TLAPS

\* A list's first spellings: one per mailbox.
LEMMA FirstsUnique ==
    ASSUME NEW list \in Seq(Address), NEW a \in Firsts(list), NEW b \in Firsts(list), a.box = b.box
    PROVE  a = b
<1>1. PICK i \in DOMAIN list : a = list[i] /\ \A j \in 1 .. (i - 1) : list[j].box # list[i].box
  BY DEF Firsts
<1>2. PICK k \in DOMAIN list : b = list[k] /\ \A j \in 1 .. (k - 1) : list[j].box # list[k].box
  BY DEF Firsts
<1>3. i \in Nat /\ k \in Nat /\ i >= 1 /\ k >= 1
  OBVIOUS
<1>4. CASE i < k
  BY <1>1, <1>2, <1>3, <1>4
<1>5. CASE k < i
  BY <1>1, <1>2, <1>3, <1>5
<1>6. CASE i = k
  BY <1>1, <1>2, <1>6
<1> QED BY <1>3, <1>4, <1>5, <1>6

\* Whom To names, whom Cc names besides, and who is left.
InTo(to, envelope) == Take(to, envelope, {})
InCc(to, cc, envelope) == Take(cc, envelope, BoxesIn(InTo(to, envelope)))
Left(to, cc, envelope) ==
    {a \in Firsts(envelope) : a.box \notin BoxesIn(InTo(to, envelope) \cup InCc(to, cc, envelope))}

\* Together they are the envelope, apart from each other, each in one spelling.
LEMMA ThreeLists ==
    \A to, cc, envelope \in Seq(Address) :
      LET t == InTo(to, envelope)
          c == InCc(to, cc, envelope)
          b == Left(to, cc, envelope)
      IN /\ BoxesIn(t \cup c \cup b) = BoxesIn(Firsts(envelope))
         /\ \A x, y \in t \cup c \cup b : x.box = y.box => x = y
         /\ t \cap c = {} /\ t \cap b = {} /\ c \cap b = {}
         /\ t \subseteq Firsts(to) /\ c \subseteq Firsts(cc)
         /\ (t = {} /\ c = {}) => b = Firsts(envelope)
<1> TAKE to, cc, envelope \in Seq(Address)
<1> PICK t : t = InTo(to, envelope)
  OBVIOUS
<1> PICK c : c = InCc(to, cc, envelope)
  OBVIOUS
<1> PICK b : b = Left(to, cc, envelope)
  OBVIOUS
<1> PICK e : e = Firsts(envelope)
  OBVIOUS
<1>1. t \subseteq Firsts(to) /\ c \subseteq Firsts(cc) /\ b \subseteq e
  BY DEF InTo, InCc, Left, Take
<1>2. /\ \A x \in t \cup c : x.box \in BoxesIn(e)
      /\ \A x \in c, y \in t : x.box # y.box
      /\ \A x \in b, y \in t \cup c : x.box # y.box
  BY DEF InTo, InCc, Left, Take, BoxesIn
<1>3. BoxesIn(t \cup c \cup b) = BoxesIn(e)
  <2>1. ASSUME NEW m \in BoxesIn(e)
        PROVE  m \in BoxesIn(t \cup c \cup b)
    <3>1. PICK x \in e : m = x.box
      BY DEF BoxesIn
    <3>2. CASE x \in b
      BY <3>1, <3>2 DEF BoxesIn
    <3>3. CASE x \notin b
      <4>1. x.box \in BoxesIn(t \cup c)
        BY <3>3 DEF Left
      <4> QED BY <3>1, <4>1 DEF BoxesIn
    <3> QED BY <3>2, <3>3
  <2>2. ASSUME NEW m \in BoxesIn(t \cup c \cup b)
        PROVE  m \in BoxesIn(e)
    <3>1. PICK x \in t \cup c \cup b : m = x.box
      BY DEF BoxesIn
    <3>2. CASE x \in b
      BY <1>1, <3>1, <3>2 DEF BoxesIn
    <3> QED BY <1>2, <3>1, <3>2
  <2> QED BY <2>1, <2>2
<1>4. \A x, y \in t \cup c \cup b : x.box = y.box => x = y
  <2> SUFFICES ASSUME NEW x \in t \cup c \cup b, NEW y \in t \cup c \cup b, x.box = y.box
               PROVE  x = y
    OBVIOUS
  <2>1. (x \in t /\ y \in t) \/ (x \in c /\ y \in c) \/ (x \in b /\ y \in b)
    BY <1>2
  <2> QED BY <1>1, <2>1, FirstsUnique
<1>5. t \cap c = {} /\ t \cap b = {} /\ c \cap b = {}
  BY <1>2
<1>6. (t = {} /\ c = {}) => b = e
  BY DEF Left, BoxesIn
<1> QED BY <1>1, <1>3, <1>4, <1>5, <1>6, Zenon

\* Split moves these lists as wholes.
LEMMA SplitMoves ==
    \A to, cc, envelope :
      LET t == InTo(to, envelope)
          c == InCc(to, cc, envelope)
          b == Left(to, cc, envelope)
          s == Split(to, cc, envelope)
      IN \/ t # {} /\ s = [to |-> t, cc |-> c, bcc |-> b]
         \/ t = {} /\ c # {} /\ s = [to |-> c, cc |-> {}, bcc |-> b]
         \/ t = {} /\ c = {} /\ Cardinality(b) = 1 /\ s = [to |-> b, cc |-> {}, bcc |-> {}]
         \/ t = {} /\ c = {} /\ Cardinality(b) # 1 /\ s = [to |-> {}, cc |-> {}, bcc |-> b]
BY DEF Split, InTo, InCc, Left

\* Every recipient of any envelope is listed exactly once, and nobody else,
\* whatever the headers say.
THEOREM EnvelopeReached ==
    ASSUME NEW envelope \in Seq(Address)
    PROVE  ReachesEnvelope(envelope)
<1> SUFFICES ASSUME NEW to \in Headers, NEW cc \in Headers, NEW s, s = Split(to, cc, envelope)
             PROVE  /\ BoxesIn(s.to \cup s.cc \cup s.bcc) = BoxesIn(Firsts(envelope))
                    /\ \A a, b \in s.to \cup s.cc \cup s.bcc : a.box = b.box => a = b
                    /\ s.to \cap s.cc = {} /\ s.to \cap s.bcc = {} /\ s.cc \cap s.bcc = {}
                    /\ Cardinality(Firsts(envelope)) = 1 => s.to # {}
  BY DEF ReachesEnvelope
<1>1. to \in Seq(Address) /\ cc \in Seq(Address)
  BY PayloadAssumption
<1>2. PICK t : t = InTo(to, envelope)
  OBVIOUS
<1>3. PICK c : c = InCc(to, cc, envelope)
  OBVIOUS
<1>4. PICK b : b = Left(to, cc, envelope)
  OBVIOUS
<1>5. /\ BoxesIn(t \cup c \cup b) = BoxesIn(Firsts(envelope))
      /\ \A x, y \in t \cup c \cup b : x.box = y.box => x = y
      /\ t \cap c = {} /\ t \cap b = {} /\ c \cap b = {}
      /\ (t = {} /\ c = {}) => b = Firsts(envelope)
  BY <1>1, <1>2, <1>3, <1>4, ThreeLists, Zenon
<1>6. \/ t # {} /\ s = [to |-> t, cc |-> c, bcc |-> b]
      \/ t = {} /\ c # {} /\ s = [to |-> c, cc |-> {}, bcc |-> b]
      \/ t = {} /\ c = {} /\ Cardinality(b) = 1 /\ s = [to |-> b, cc |-> {}, bcc |-> {}]
      \/ t = {} /\ c = {} /\ Cardinality(b) # 1 /\ s = [to |-> {}, cc |-> {}, bcc |-> b]
  BY <1>2, <1>3, <1>4, SplitMoves, Zenon
<1>7. s.to \cup s.cc \cup s.bcc = t \cup c \cup b
  BY <1>6
<1>8. s.to \cap s.cc = {} /\ s.to \cap s.bcc = {} /\ s.cc \cap s.bcc = {}
  BY <1>5, <1>6
<1>9. Cardinality(Firsts(envelope)) = 1 => s.to # {}
  <2>1. Cardinality({}) = 0
    BY FS_EmptySet
  <2>2. ASSUME b = {} PROVE Cardinality(b) = 0
    BY <2>1, <2>2, Zenon
  <2>3. Cardinality(b) = 1 => b # {}
    BY <2>2
  <2> QED BY <1>5, <1>6, <2>3
<1> QED BY <1>5, <1>7, <1>8, <1>9

\* Unnamed recipients are never shown to each other.
THEOREM HiddenUnseen ==
    ASSUME NEW envelope \in Seq(Address)
    PROVE  HiddenStayHidden(envelope)
<1> SUFFICES ASSUME NEW to \in Headers, NEW cc \in Headers, NEW s, s = Split(to, cc, envelope),
                    NEW a \in s.to \cup s.cc
             PROVE  a.box \in BoxesIn(Firsts(to) \cup Firsts(cc)) \/ Cardinality(Firsts(envelope)) = 1
  BY DEF HiddenStayHidden
<1>1. to \in Seq(Address) /\ cc \in Seq(Address)
  BY PayloadAssumption
<1>2. PICK t : t = InTo(to, envelope)
  OBVIOUS
<1>3. PICK c : c = InCc(to, cc, envelope)
  OBVIOUS
<1>4. PICK b : b = Left(to, cc, envelope)
  OBVIOUS
<1>5. t \subseteq Firsts(to) /\ c \subseteq Firsts(cc) /\ ((t = {} /\ c = {}) => b = Firsts(envelope))
  BY <1>1, <1>2, <1>3, <1>4, ThreeLists, Zenon
<1>6. \/ t # {} /\ s = [to |-> t, cc |-> c, bcc |-> b]
      \/ t = {} /\ c # {} /\ s = [to |-> c, cc |-> {}, bcc |-> b]
      \/ t = {} /\ c = {} /\ Cardinality(b) = 1 /\ s = [to |-> b, cc |-> {}, bcc |-> {}]
      \/ t = {} /\ c = {} /\ Cardinality(b) # 1 /\ s = [to |-> {}, cc |-> {}, bcc |-> b]
  BY <1>2, <1>3, <1>4, SplitMoves, Zenon
<1>7. a \in t \cup c \/ (Cardinality(b) = 1 /\ b = Firsts(envelope))
  BY <1>5, <1>6
<1> QED BY <1>5, <1>7 DEF BoxesIn

\* What Cloudflare has accepted of any copy was for its recipient alone.
THEOREM Accepted == Spec => []AcceptedIsAddressed
<1>1. AcceptedIsAddressed
  <2>1. ASSUME NEW c \in Copies
        PROVE  Addressed[c]
    <3>1. EnvelopeOf(c) \in Seq(Address)
      BY RecipientAssumption DEF EnvelopeOf
    <3> QED BY <3>1, EnvelopeReached DEF Addressed
  <2> QED BY <2>1 DEF AcceptedIsAddressed
<1> QED BY <1>1, PTL

-----------------------------------------------------------------------------
(* Parts.                                                                   *)

\* A set of numbers has a least.
LEMMA LeastOf ==
    ASSUME NEW T, T \subseteq Nat, T # {}
    PROVE  \E n \in T : \A m \in T : n <= m
<1>1. PICK n \in T : \A m \in T : ~(<<m, n>> \in OpToRel(<, Nat))
  BY WFMin, NatLessThanWellFounded
<1>2. \A m \in T : ~(m < n)
  BY <1>1 DEF OpToRel
<1> QED BY <1>2

\* The parts of a tree come after what holds them.
LEMMA ParentsFirst ==
    ASSUME NEW tree \in Tree
    PROVE  /\ Len(tree) \in Nat /\ DOMAIN tree = 1 .. Len(tree)
           /\ \A p \in 1 .. Len(tree) : tree[p].parent \in 0 .. (p - 1)
<1>1. tree \in Seq([parent : Nat, type : PartTypes])
  BY DEF Tree
<1>2. Len(tree) \in Nat /\ DOMAIN tree = 1 .. Len(tree)
  BY <1>1
<1>3. \A p \in DOMAIN tree : (p = 1 /\ tree[p].parent = 0) \/ (p # 1 /\ tree[p].parent \in 1 .. (p - 1))
  BY DEF Tree
<1>4. ASSUME NEW p \in 1 .. Len(tree) PROVE tree[p].parent \in 0 .. (p - 1)
  <2>1. p \in Nat /\ p >= 1
    BY <1>2
  <2>2. (p = 1 /\ tree[p].parent = 0) \/ tree[p].parent \in 1 .. (p - 1)
    BY <1>2, <1>3
  <2> QED BY <2>1, <2>2
<1> QED BY <1>2, <1>4

\* One level of Above, given the parts above those before p.
Level(tree, f, p) ==
    IF p = 0 \/ tree[p].parent = 0 THEN {} ELSE {tree[p].parent} \cup f[tree[p].parent]

\* Above is well defined: what is above a part depends on earlier parts only.
LEMMA LevelsExist ==
    ASSUME NEW tree \in Tree
    PROVE  \E f : f = [p \in 0 .. Len(tree) |-> Level(tree, f, p)]
<1>1. PICK len \in Nat : len = Len(tree) /\ \A p \in 1 .. len : tree[p].parent \in 0 .. (p - 1)
  BY ParentsFirst
<1> DEFINE T == {n \in 0 .. len : ~\E f : f = [p \in 0 .. n |-> Level(tree, f, p)]}
<1>2. SUFFICES ASSUME T # {} PROVE FALSE
  <2>1. len \in 0 .. len
    BY <1>1
  <2> QED BY <1>1, <2>1
<1>3. PICK n \in T : \A m \in T : n <= m
  <2>1. T \subseteq Nat
    BY <1>1
  <2> HIDE DEF T
  <2> QED BY <1>2, <2>1, LeastOf
<1>4. CASE n = 0
  <2>1. [p \in 0 .. 0 |-> {}] = [p \in 0 .. 0 |-> Level(tree, [q \in 0 .. 0 |-> {}], p)]
    BY DEF Level
  <2> QED BY <1>4, <2>1
<1>5. CASE n # 0
  <2>1. n \in 1 .. len /\ n - 1 \in 0 .. len /\ n - 1 \notin T
    BY <1>1, <1>3, <1>5
  <2>2. PICK f : f = [p \in 0 .. (n - 1) |-> Level(tree, f, p)]
    BY <2>1
  <2>3. PICK g : g = [p \in 0 .. n |-> IF p = n THEN Level(tree, f, n) ELSE f[p]]
    OBVIOUS
  <2>4. ASSUME NEW p \in 0 .. n PROVE g[p] = Level(tree, g, p)
    <3>1. p # 0 => tree[p].parent \in 0 .. (p - 1)
      BY <1>1, <2>1
    <3>2. p # 0 => g[tree[p].parent] = f[tree[p].parent]
      BY <2>1, <2>3, <3>1
    <3>3. Level(tree, g, p) = Level(tree, f, p)
      BY <3>2 DEF Level
    <3>4. p # n => f[p] = Level(tree, f, p)
      <4>1. p # n => p \in 0 .. (n - 1)
        BY <2>1
      <4> QED BY <2>2, <4>1, Zenon
    <3> QED BY <2>3, <3>3, <3>4
  <2>5. g = [p \in 0 .. n |-> Level(tree, g, p)]
    BY <2>3, <2>4
  <2> QED BY <2>5
<1> QED BY <1>4, <1>5

\* The definition of Above, for a part.
LEMMA AboveIs ==
    ASSUME NEW tree \in Tree, NEW p \in 1 .. Len(tree)
    PROVE  Above(tree)[p] = IF tree[p].parent = 0 THEN {}
                            ELSE {tree[p].parent} \cup Above(tree)[tree[p].parent]
<1>1. Above(tree) = CHOOSE f : f = [q \in 0 .. Len(tree) |-> Level(tree, f, q)]
  BY DEF Above, Level
<1>2. Above(tree) = [q \in 0 .. Len(tree) |-> Level(tree, Above(tree), q)]
  BY <1>1, LevelsExist
<1>3. p \in 0 .. Len(tree) /\ p # 0
  BY ParentsFirst
<1>4. Above(tree)[p] = Level(tree, Above(tree), p)
  BY <1>2, <1>3
<1> QED BY <1>3, <1>4 DEF Level

\* The parts above p are a chain.
Chain(tree, p) ==
    /\ Above(tree)[p] \subseteq 1 .. (p - 1)
    /\ \A q \in Above(tree)[p] : Above(tree)[q] \subseteq Above(tree)[p]
    /\ \A q, r \in Above(tree)[p] : q = r \/ q \in Above(tree)[r] \/ r \in Above(tree)[q]

\* ... for every part of a tree.
LEMMA Chains ==
    ASSUME NEW tree \in Tree
    PROVE  \A p \in 1 .. Len(tree) : Chain(tree, p)
<1>1. PICK len \in Nat : len = Len(tree) /\ \A p \in 1 .. len : tree[p].parent \in 0 .. (p - 1)
  BY ParentsFirst
<1> DEFINE T == {p \in 1 .. len : ~Chain(tree, p)}
<1>2. SUFFICES ASSUME T # {} PROVE FALSE
  BY <1>1
<1>3. PICK p \in T : \A m \in T : p <= m
  <2>1. T \subseteq Nat
    BY <1>1
  <2> HIDE DEF T
  <2> QED BY <1>2, <2>1, LeastOf
<1>4. PICK m : m = tree[p].parent
  OBVIOUS
<1>5. p \in 1 .. len /\ ~Chain(tree, p) /\ m \in 0 .. (p - 1)
  BY <1>1, <1>3, <1>4
<1>6. Above(tree)[p] = IF m = 0 THEN {} ELSE {m} \cup Above(tree)[m]
  BY <1>1, <1>4, <1>5, AboveIs
<1>7. CASE m = 0
  BY <1>5, <1>6, <1>7 DEF Chain
<1>8. CASE m # 0
  <2>1. m \in 1 .. len /\ ~(p <= m)
    BY <1>1, <1>5, <1>8
  <2>2. Chain(tree, m)
    BY <1>3, <2>1
  <2>3. Above(tree)[p] = {m} \cup Above(tree)[m]
    BY <1>6, <1>8
  <2>4. Above(tree)[p] \subseteq 1 .. (p - 1)
    <3>1. \A q \in 1 .. (m - 1) : q \in 1 .. (p - 1)
      BY <1>1, <1>5, <2>1
    <3>2. m \in 1 .. (p - 1)
      BY <1>1, <1>5, <1>8
    <3> QED BY <2>2, <2>3, <3>1, <3>2 DEF Chain
  <2>5. \A q \in Above(tree)[p] : Above(tree)[q] \subseteq Above(tree)[p]
    BY <2>2, <2>3 DEF Chain
  <2>6. \A q, r \in Above(tree)[p] : q = r \/ q \in Above(tree)[r] \/ r \in Above(tree)[q]
    BY <2>2, <2>3 DEF Chain
  <2> QED BY <1>5, <2>4, <2>5, <2>6 DEF Chain
<1> QED BY <1>7, <1>8

\* A part in attached messages is in exactly one that is not in another.
LEMMA Outermost ==
    ASSUME NEW tree \in Tree, NEW p \in 1 .. Len(tree),
           \E q \in Above(tree)[p] : tree[q].type = "message"
    PROVE  \E m : {q \in Leaves(tree) : q \in Above(tree)[p] /\ tree[q].type = "message"} = {m}
<1>1. Chain(tree, p)
  BY Chains
<1>2. PICK len \in Nat : len = Len(tree) /\ DOMAIN tree = 1 .. len
  BY ParentsFirst
<1> DEFINE T == {q \in Above(tree)[p] : tree[q].type = "message"}
<1>3. PICK m \in T : \A q \in T : m <= q
  <2>1. T \subseteq Nat /\ T # {}
    BY <1>1, <1>2 DEF Chain
  <2> HIDE DEF T
  <2> QED BY <2>1, LeastOf
<1>4. Above(tree)[p] \subseteq 1 .. len /\ Above(tree)[p] \subseteq DOMAIN tree
  BY <1>1, <1>2 DEF Chain
<1>5. \A q \in Above(tree)[m] : tree[q].type # "message"
  <2> SUFFICES ASSUME NEW q \in Above(tree)[m], tree[q].type = "message" PROVE FALSE
    OBVIOUS
  <2>1. q \in T
    BY <1>1, <1>3 DEF Chain
  <2>2. m \in 1 .. len /\ q \in 1 .. (m - 1)
    BY <1>2, <1>3, <1>4, Chains DEF Chain
  <2>3. m <= q
    BY <1>3, <2>1
  <2> HIDE DEF T
  <2> QED BY <2>2, <2>3
<1>6. m \in Leaves(tree)
  BY <1>3, <1>4, <1>5 DEF Leaves, Outside
<1>7. \A q \in Leaves(tree) : q \in T => q = m
  <2> SUFFICES ASSUME NEW q \in Leaves(tree), q \in T, q # m PROVE FALSE
    OBVIOUS
  <2>1. q \in Above(tree)[m] \/ m \in Above(tree)[q]
    BY <1>1, <1>3 DEF Chain
  <2>2. q \notin Above(tree)[m]
    BY <1>5
  <2>3. m \in Above(tree)[q] /\ tree[m].type = "message"
    BY <1>3, <2>1, <2>2
  <2> QED BY <2>3 DEF Leaves, Outside
<1> QED BY <1>3, <1>6, <1>7

\* Every part of every message travels exactly once, whichever parts are taken for
\* bodies, but for the message/* parts other than rfc822 that are taken apart.
THEOREM PartsCarried == CarriedOnce
<1> SUFFICES ASSUME NEW tree \in Trees, NEW text \in BodyPart(tree, "text"),
                    NEW html \in BodyPart(tree, "html"),
                    NEW p \in DOMAIN tree, tree[p].type # "multipart"
             PROVE  Cardinality({q \in Attachments(tree, text, html) \cup ({text, html} \ {0}) :
                       q = p \/ (q \in Above(tree)[p] /\ tree[q].type = "message")})
                      = IF TakenApart(tree, p) THEN 0 ELSE 1
  BY DEF CarriedOnce
<1> DEFINE Carriers == {q \in Leaves(tree) :
                          q = p \/ (q \in Above(tree)[p] /\ tree[q].type = "message")}
<1>1. tree \in Tree /\ p \in 1 .. Len(tree)
  BY PayloadAssumption, ParentsFirst
<1>2. text \in {0} \cup Leaves(tree) /\ html \in {0} \cup Leaves(tree)
  BY DEF BodyPart, Leaves, Outside
<1>3. 0 \notin Leaves(tree)
  BY <1>1, ParentsFirst DEF Leaves
<1>4. Attachments(tree, text, html) \cup ({text, html} \ {0}) = Leaves(tree)
  BY <1>2, <1>3 DEF Attachments
<1>5. CASE ~Outside(tree, p)
  <2>1. p \notin Leaves(tree) /\ ~TakenApart(tree, p)
    BY <1>5 DEF Leaves, TakenApart
  <2>2. Carriers = {q \in Leaves(tree) : q \in Above(tree)[p] /\ tree[q].type = "message"}
    BY <2>1
  <2>3. \E m : {q \in Leaves(tree) : q \in Above(tree)[p] /\ tree[q].type = "message"} = {m}
    BY <1>1, <1>5, Outermost, Zenon DEF Outside
  <2>4. \E m : Carriers = {m}
    BY <2>2, <2>3, Zenon
  <2> QED BY <1>4, <2>1, <2>4, FS_Singleton
<1>6. CASE Outside(tree, p) /\ tree[p].type # "otherMessage"
  <2>1. p \in Leaves(tree) /\ ~TakenApart(tree, p)
    BY <1>6 DEF Leaves, TakenApart
  <2>2. Carriers = {p}
    BY <1>6, <2>1 DEF Outside
  <2> QED BY <1>4, <2>1, <2>2, FS_Singleton
<1>7. CASE Outside(tree, p) /\ tree[p].type = "otherMessage"
  <2>1. p \notin Leaves(tree) /\ TakenApart(tree, p)
    BY <1>7 DEF Leaves, TakenApart
  <2>2. Carriers = {}
    BY <1>7, <2>1 DEF Outside
  <2> QED BY <1>4, <2>1, <2>2, FS_EmptySet
<1> QED BY <1>5, <1>6, <1>7

\* What Cloudflare has accepted of any copy had every part of its message, once,
\* but for the message/* parts other than rfc822 that are taken apart.
THEOREM AcceptedComplete == Spec => []AcceptedIsWhole
<1>1. AcceptedIsWhole
  BY PartsCarried DEF AcceptedIsWhole
<1> QED BY <1>1, PTL
=============================================================================
