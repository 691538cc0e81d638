---------------------------- MODULE PagesProofs -----------------------------
(***************************************************************************)
(* That who reads a channel page by page meets its messages in order and   *)
(* misses none, and that the variables of Messages keep their types, for   *)
(* any channels, readers, limits, calls and failures.                      *)
(***************************************************************************)
EXTENDS MessagesProofs, FiniteSetTheorems, FunctionTheorems, SequenceTheorems

\* How many of a set are not above x: its place when the set is sorted.
Rank(S, x) == Cardinality({y \in S : y <= x})

LEMMA RankType ==
    ASSUME NEW S, S \subseteq Nat, IsFiniteSet(S), NEW x \in S
    PROVE  Rank(S, x) \in 1..Cardinality(S)
<1> DEFINE B == {y \in S : y <= x}
<1>1. x \in B /\ B \in SUBSET S
  OBVIOUS
<1>2. IsFiniteSet(B) /\ Cardinality(B) <= Cardinality(S)
  BY <1>1, FS_Subset
<1>3. Cardinality(S) \in Nat /\ Cardinality(B) \in Nat /\ Cardinality(B) # 0
  BY <1>1, <1>2, FS_CardinalityType, FS_EmptySet
<1> QED
  BY <1>2, <1>3 DEF Rank

LEMMA RankRises ==
    ASSUME NEW S, S \subseteq Nat, IsFiniteSet(S), NEW x \in S, NEW y \in S, x < y
    PROVE  Rank(S, x) < Rank(S, y)
<1> DEFINE A == {z \in S : z <= x}
           B == {z \in S : z <= y}
<1>0. x \in Int /\ y \in Int /\ \A z \in S : z \in Int
  OBVIOUS
<1>1. A \in SUBSET B /\ y \in B \ A /\ B \in SUBSET S
  <2>1. ~(y <= x) /\ y <= y
    BY <1>0
  <2>2. \A z \in S : z <= x => z <= y
    BY <1>0
  <2> QED
    BY <2>1, <2>2
<1>2. IsFiniteSet(B) /\ IsFiniteSet(A)
  BY <1>1, FS_Subset
<1>3. Cardinality(A) <= Cardinality(B) /\ Cardinality(A) # Cardinality(B)
  BY <1>1, <1>2, FS_Subset
<1>4. Cardinality(A) \in Nat /\ Cardinality(B) \in Nat
  BY <1>2, FS_CardinalityType
<1> QED
  BY <1>3, <1>4 DEF Rank

\* No two of a set have one rank, so every place is taken.
LEMMA RankTaken ==
    ASSUME NEW S, S \subseteq Nat, IsFiniteSet(S), NEW i \in 1..Cardinality(S)
    PROVE  \E x \in S : Rank(S, x) = i
<1> DEFINE rank == [x \in S |-> Rank(S, x)]
           places == 1..Cardinality(S)
<1>1. Cardinality(S) \in Nat
  BY FS_CardinalityType
<1>2. IsFiniteSet(places) /\ Cardinality(places) = Cardinality(S)
  BY <1>1, FS_Interval
<1>3. rank \in [S -> places] /\ \A x \in S : rank[x] = Rank(S, x)
  BY RankType
<1>4. ASSUME NEW x \in S
      PROVE  x \in Int /\ Rank(S, x) \in Int
  <2>1. x \in Nat
    BY Zenon
  <2>2. Rank(S, x) \in 1..Cardinality(S)
    BY RankType
  <2> QED
    BY <1>1, <2>1, <2>2
<1> HIDE DEF rank, places
<1>5. ASSUME NEW x \in S, NEW y \in S, rank[x] = rank[y]
      PROVE  x = y
  <2>1. x \in Int /\ y \in Int /\ Rank(S, x) = Rank(S, y) /\ Rank(S, x) \in Int
    BY <1>3, <1>4, <1>5
  <2>2. ~(x < y)
    <3> SUFFICES ASSUME x < y PROVE FALSE
      OBVIOUS
    <3>1. Rank(S, x) < Rank(S, y)
      BY RankRises
    <3> QED
      BY <2>1, <3>1
  <2>3. ~(y < x)
    <3> SUFFICES ASSUME y < x PROVE FALSE
      OBVIOUS
    <3>1. Rank(S, y) < Rank(S, x)
      BY RankRises
    <3> QED
      BY <2>1, <3>1
  <2> QED
    BY <2>1, <2>2, <2>3
<1>6. rank \in Injection(S, places)
  BY <1>3, <1>5, Fun_IsInj
<1>7. rank \in Surjection(S, places)
  BY <1>2, <1>6, FS_Injection
<1> QED
  BY <1>3, <1>7 DEF Surjection, places

\* A finite set of numbers has an ascending sequence.
LEMMA AscendingExists ==
    ASSUME NEW S, S \subseteq Nat, IsFiniteSet(S)
    PROVE  /\ Ascending(S) \in [1..Cardinality(S) -> S]
           /\ \A i, j \in 1..Cardinality(S) : i < j => Ascending(S)[i] < Ascending(S)[j]
<1> DEFINE s == [i \in 1..Cardinality(S) |-> CHOOSE x \in S : Rank(S, x) = i]
<1>0. Cardinality(S) \in Nat /\ \A x \in S : x \in Nat
  BY FS_CardinalityType
<1>1. \A i \in 1..Cardinality(S) : s[i] \in S /\ Rank(S, s[i]) = i
  BY RankTaken
<1>2. s \in [1..Cardinality(S) -> S]
  BY <1>1
<1>3. ASSUME NEW i \in 1..Cardinality(S), NEW j \in 1..Cardinality(S), i < j
      PROVE  s[i] < s[j]
  <2>1. s[i] \in S /\ s[j] \in S /\ Rank(S, s[i]) = i /\ Rank(S, s[j]) = j
    BY <1>1
  <2>2. i \in Int /\ j \in Int /\ s[i] \in Int /\ s[j] \in Int
    <3>1. i \in Int /\ j \in Int
      BY <1>0
    <3>2. s[i] \in Int /\ s[j] \in Int
      <4> HIDE DEF s
      <4>1. s[i] \in Nat /\ s[j] \in Nat
        BY <1>0, <2>1, Zenon
      <4> QED
        BY <4>1
    <3> QED
      BY <3>1, <3>2
  <2> HIDE DEF s
  <2>3. ~(s[j] < s[i])
    <3> SUFFICES ASSUME s[j] < s[i] PROVE FALSE
      OBVIOUS
    <3>1. Rank(S, s[j]) < Rank(S, s[i])
      BY <2>1, RankRises
    <3> QED
      BY <1>3, <2>1, <2>2, <3>1
  <2>4. s[i] # s[j]
    BY <1>3, <2>1, <2>2
  <2> QED
    BY <2>2, <2>3, <2>4
<1> HIDE DEF s
<1>4. \E t \in [1..Cardinality(S) -> S] : \A i, j \in DOMAIN t : i < j => t[i] < t[j]
  BY <1>2, <1>3
<1>5. /\ Ascending(S) \in [1..Cardinality(S) -> S]
      /\ \A i, j \in DOMAIN Ascending(S) : i < j => Ascending(S)[i] < Ascending(S)[j]
  BY <1>4 DEF Ascending
<1> QED
  BY <1>5

\* Nothing of the set is left out.
LEMMA AscendingAll ==
    ASSUME NEW S, S \subseteq Nat, IsFiniteSet(S)
    PROVE  /\ Ascending(S) \in Seq(S) /\ Len(Ascending(S)) = Cardinality(S)
           /\ \A x \in S : \E i \in 1..Cardinality(S) : Ascending(S)[i] = x
<1> DEFINE n == Cardinality(S)
           s == Ascending(S)
<1>1. n \in Nat /\ IsFiniteSet(1..n) /\ Cardinality(1..n) = n
  BY FS_CardinalityType, FS_Interval
<1>2. s \in [1..n -> S] /\ \A i, j \in 1..n : i < j => s[i] < s[j]
  BY AscendingExists
<1> HIDE DEF s, n
<1>3. ASSUME NEW i \in 1..n, NEW j \in 1..n, s[i] = s[j]
      PROVE  i = j
  <2>1. i \in Int /\ j \in Int /\ s[i] \in Int
    <3>1. i \in Int /\ j \in Int /\ s[i] \in S
      BY <1>1, <1>2
    <3>2. s[i] \in Nat
      BY <3>1, Zenon
    <3> QED
      BY <3>1, <3>2
  <2>2. /\ i < j => s[i] < s[j]
        /\ j < i => s[j] < s[i]
    BY <1>2
  <2>3. ~(s[i] < s[i])
    BY <2>1
  <2>4. ~(i < j) /\ ~(j < i)
    BY <1>3, <2>2, <2>3
  <2> QED
    BY <2>1, <2>4
<1>4. s \in Injection(1..n, S)
  BY <1>2, <1>3, Fun_IsInj
<1>5. s \in Surjection(1..n, S)
  BY <1>1, <1>4, FS_Injection DEF n
<1> QED
  BY <1>1, <1>2, <1>5 DEF Surjection, s, n

-----------------------------------------------------------------------------
\* What is newer than x is all that is not counted in its place.
LEMMA NewerCount ==
    ASSUME NEW S, S \subseteq Nat, IsFiniteSet(S), NEW x \in S
    PROVE  Cardinality({y \in S : y > x}) = Cardinality(S) - Rank(S, x)
<1> DEFINE B == {y \in S : y <= x}
           A == {y \in S : y > x}
<1>1. x \in Int /\ \A y \in S : y \in Int
  OBVIOUS
<1>2. A = S \ B /\ S \cap B = B
  <2>1. \A y \in S : y > x <=> ~(y <= x)
    BY <1>1
  <2> QED
    BY <2>1
<1> HIDE DEF A, B
<1>3. Cardinality(S \ B) = Cardinality(S) - Cardinality(S \cap B)
  BY FS_Difference
<1> QED
  BY <1>2, <1>3 DEF Rank, A, B

\* A page holds what comes last.
LEMMA NewestByRank ==
    ASSUME NEW S, S \subseteq Nat, IsFiniteSet(S), NEW limit \in Int, limit # 0
    PROVE  /\ Size(limit) \in Nat \ {0}
           /\ Newest(S, limit) = {x \in S : Cardinality(S) < Rank(S, x) + Size(limit)}
<1>1. Size(limit) \in Nat \ {0}
  BY DEF Size
<1>2. ASSUME NEW x \in S
      PROVE  Cardinality({y \in S : y > x}) < Size(limit)
                <=> Cardinality(S) < Rank(S, x) + Size(limit)
  <2> DEFINE a == Cardinality({y \in S : y > x})
             n == Cardinality(S)
             r == Rank(S, x)
             k == Size(limit)
  <2>1. a = n - r /\ r \in 1..n /\ n \in Nat /\ k \in Nat
    BY <1>1, NewerCount, RankType, FS_CardinalityType
  <2> HIDE DEF a, n, r, k
  <2>2. a < k <=> n < r + k
    BY <2>1
  <2> QED
    BY <2>2 DEF a, n, r, k
<1> QED
  BY <1>1, <1>2 DEF Newest

\* A page that is not full holds all that was found.
LEMMA PageFull ==
    ASSUME NEW S, S \subseteq Nat, IsFiniteSet(S), NEW limit \in Int,
           limit = 0 \/ Cardinality(Newest(S, limit)) < Size(limit)
    PROVE  Newest(S, limit) = S
<1> DEFINE n == Cardinality(S)
           k == Size(limit)
           T == Newest(S, limit)
<1>1. CASE limit = 0
  BY <1>1 DEF Newest
<1>2. CASE limit # 0 /\ n <= k
  <2>1. n \in Nat /\ k \in Nat /\ \A x \in S : Rank(S, x) \in 1..n
    BY <1>2, FS_CardinalityType, NewestByRank, RankType
  <2>2. T = {x \in S : n < Rank(S, x) + k}
    BY <1>2, NewestByRank
  <2> HIDE DEF n, k, T
  <2>3. \A x \in S : n < Rank(S, x) + k
    BY <1>2, <2>1
  <2> QED
    BY <2>2, <2>3 DEF T
<1>3. CASE limit # 0 /\ ~(n <= k)
  <2>1. n \in Nat /\ k \in Nat \ {0} /\ T = {x \in S : n < Rank(S, x) + k}
    BY <1>3, FS_CardinalityType, NewestByRank
  <2> DEFINE f == [i \in 1..k |-> CHOOSE x \in S : Rank(S, x) = n - k + i]
  <2>2. \A i \in 1..k : f[i] \in S /\ Rank(S, f[i]) = n - k + i
    <3> SUFFICES ASSUME NEW i \in 1..k
                 PROVE  \E x \in S : Rank(S, x) = n - k + i
      OBVIOUS
    <3>1. n - k + i \in 1..n
      BY <1>3, <2>1
    <3> QED
      BY <3>1, RankTaken
  <2>3. f \in [1..k -> T]
    <3>1. \A i \in 1..k : n < n - k + i + k
      BY <2>1
    <3> QED
      BY <2>1, <2>2, <3>1
  <2> HIDE DEF f, n, k, T
  <2>4. \A i, j \in 1..k : f[i] = f[j] => i = j
    BY <2>1, <2>2
  <2>5. f \in Injection(1..k, T)
    BY <2>3, <2>4, Fun_IsInj
  <2>6. T \in SUBSET S /\ IsFiniteSet(T) /\ Cardinality(T) \in Nat
    <3>1. T \in SUBSET S
      BY <2>1
    <3> QED
      BY <3>1, FS_Subset, FS_CardinalityType
  <2>7. Cardinality(1..k) <= Cardinality(T) /\ Cardinality(1..k) = k
    <3>1. IsFiniteSet(1..k) /\ Cardinality(1..k) = k
      BY <2>1, FS_Interval
    <3> QED
      BY <2>5, <2>6, <3>1, FS_Injection
  <2>8. Cardinality(T) < k
    BY <1>3 DEF T, k
  <2> QED
    BY <2>1, <2>6, <2>7, <2>8
<1> QED
  BY <1>1, <1>2, <1>3

\* What a page leaves out is older than all that it holds.
LEMMA PageTop ==
    ASSUME NEW S, S \subseteq Nat, IsFiniteSet(S), NEW limit \in Int,
           NEW o \in S, o \notin Newest(S, limit), NEW g \in Newest(S, limit)
    PROVE  o < g
<1>1. limit # 0 /\ g \in S
  BY DEF Newest
<1> DEFINE n == Cardinality(S)
           k == Size(limit)
           ro == Rank(S, o)
           rg == Rank(S, g)
<1>2. /\ n \in Nat /\ k \in Nat /\ ro \in 1..n /\ rg \in 1..n
      /\ ~(n < ro + k) /\ n < rg + k
  BY <1>1, FS_CardinalityType, NewestByRank, RankType
<1>3. o \in Int /\ g \in Int
  <2>1. o \in Nat /\ g \in Nat
    BY <1>1, Zenon
  <2> QED
    BY <2>1
<1>4. o # g
  OBVIOUS
<1>5. ~(g < o)
  <2> SUFFICES ASSUME g < o PROVE FALSE
    OBVIOUS
  <2>1. rg < ro
    BY <1>1, RankRises
  <2> HIDE DEF n, k, ro, rg
  <2> QED
    BY <1>2, <2>1
<1> QED
  BY <1>3, <1>4, <1>5

-----------------------------------------------------------------------------
Oids == 1..nextOid - 1

\* A call has nothing in hand, or a document with an _id that was given.
HeldTyped(c) ==
    \/ doc[c] = Blank /\ step[c] \in {"idle", "done", "failed"}
    \/ doc[c] \in Document /\ doc[c].oid \in Oids

StoreTyped ==
    /\ messages \subseteq Document
    /\ \A m \in messages : m.oid \in Oids
    /\ \A c \in Calls : HeldTyped(c)
    /\ body \in [Sends \cup Edits -> Bodies \cup FirstBodies]
    /\ nextOid \in Nat \ {0}

LogTyped ==
    /\ \A w \in 1..Len(history) : history[w].oid \in Oids
    /\ outdated \subseteq Oids
    /\ published \subseteq 1..Len(history)
    /\ failures \in 0..MaxFailures

PageTyped ==
    /\ page \in [Readers -> [channel : Channels, limit : Limits, shown : Seq(Nat),
                             owed : SUBSET Nat, over : BOOLEAN]]
    /\ \A r \in Readers : /\ page[r].owed \subseteq Oids
                          /\ \A i \in 1..Len(page[r].shown) : page[r].shown[i] \in Oids

\* A message that a reader is owed has been shown, or is older than what was.
OwedAhead ==
    \A r \in Readers : \A o \in page[r].owed \cap Ids(page[r].channel) :
        \/ o \in Range(page[r].shown)
        \/ ~page[r].over /\ Before(r, o)

\* No reader is owed a message that is not stored yet.
UnsentUnowed ==
    \A c \in Sends : step[c] = "ready" => \A r \in Readers : doc[c].oid \notin page[r].owed

PageInv ==
    /\ StoreTyped
    /\ LogTyped
    /\ PageTyped
    /\ PagesAscend
    /\ OwedAhead
    /\ UnsentUnowed

LEMMA PageInit == ASSUME Init PROVE PageInv
<1>1. StoreTyped
  BY DEF Init, StoreTyped, HeldTyped
<1>2. LogTyped
  BY MessagesAssumption DEF Init, LogTyped, MessagesAssumption
<1>3. /\ page \in [Readers -> [channel : Channels, limit : Limits, shown : {<<>>},
                               owed : {{}}, over : {FALSE}]]
      /\ \A r \in Readers : page[r].shown = <<>> /\ page[r].owed = {}
  BY DEF Init
<1>4. PageTyped
  <2>1. <<>> \in Seq(Nat) /\ Len(<<>>) = 0
    OBVIOUS
  <2>2. page \in [Readers -> [channel : Channels, limit : Limits, shown : Seq(Nat),
                             owed : SUBSET Nat, over : BOOLEAN]]
    BY <1>3, <2>1
  <2>3. \A r \in Readers : \A i \in 1..Len(page[r].shown) : page[r].shown[i] \in Oids
    BY <1>3, <2>1
  <2> QED
    BY <1>3, <2>2, <2>3 DEF PageTyped
<1>5. PagesAscend /\ OwedAhead /\ UnsentUnowed
  BY <1>3 DEF PagesAscend, OwedAhead, UnsentUnowed
<1> QED
  BY <1>1, <1>2, <1>4, <1>5 DEF PageInv

\* An edit writes a document, of the same message in the same channel.
LEMMA MergedTyped ==
    ASSUME StoreTyped, NEW c \in Edits, NEW m \in messages
    PROVE  /\ Merged(c, m) \in Document
           /\ Merged(c, m).oid = m.oid /\ Merged(c, m).channel = m.channel
<1> DEFINE d == Merged(c, m)
           b == body[c]
<1>1. /\ m \in Document /\ b \in Bodies \cup FirstBodies
      /\ Mentions(b) \in SUBSET UserTags /\ Everyone(b) \in BOOLEAN
      /\ Attachments(b) \in SUBSET TypedFiles
  BY DEF StoreTyped, Mentions, Everyone, Attachments
<1>2. /\ m.oid \in Nat /\ m.channel \in Channels /\ m.day \in Days /\ m.version \in Nat
      /\ m.content \in {x.content : x \in Bodies \cup FirstBodies}
      /\ m.mentionIds \in SUBSET UserTags /\ m.everyone \in BOOLEAN
      /\ m.attachments \in SUBSET TypedFiles
  BY <1>1 DEF Document
<1>3. b.content \in {x.content : x \in Bodies \cup FirstBodies}
  BY <1>1
<1> HIDE DEF b
<1>4. d = [oid |-> m.oid, channel |-> m.channel, content |-> d.content,
           mentionIds |-> d.mentionIds, everyone |-> d.everyone, attachments |-> d.attachments,
           version |-> d.version, day |-> m.day]
  BY DEF Merged
<1>5. d.content \in {x.content : x \in Bodies \cup FirstBodies}
  BY <1>2, <1>3 DEF Merged, Changed, b
<1>6. d.mentionIds \in SUBSET UserTags /\ d.everyone \in BOOLEAN
  BY <1>1, <1>2 DEF Merged, Changed, b
<1>7. d.attachments \in SUBSET TypedFiles /\ d.version \in Nat
  BY <1>1, <1>2 DEF Merged, b
<1> HIDE DEF d
<1>8. d \in Document /\ d.oid = m.oid /\ d.channel = m.channel
  BY <1>2, <1>4, <1>5, <1>6, <1>7 DEF Document
<1> QED
  BY <1>8 DEF d

-----------------------------------------------------------------------------
\* A step that keeps the store and its log typed.
LEMMA TypesKept ==
    ASSUME StoreTyped, LogTyped, nextOid' = nextOid, body' = body,
           \A m \in messages' : m \in messages \/ (m \in Document /\ m.oid \in Oids),
           \A c \in Calls : \/ HeldTyped(c)'
                            \/ doc'[c] = doc[c] /\ step'[c] = step[c]
    PROVE  StoreTyped'
BY DEF StoreTyped, HeldTyped, Oids

\* What was given stays given.
LEMMA OidsGrow ==
    ASSUME nextOid \in Nat, nextOid' \in {nextOid, nextOid + 1}
    PROVE  \A o \in Oids : o \in Oids'
<1> SUFFICES ASSUME NEW o \in Oids
             PROVE  o \in 1..nextOid' - 1
  BY DEF Oids
<1>1. o \in Int /\ 1 <= o /\ o <= nextOid - 1 /\ nextOid' \in Int
  BY DEF Oids
<1>2. CASE nextOid' = nextOid
  BY <1>1, <1>2
<1>3. CASE nextOid' = nextOid + 1
  BY <1>1, <1>3
<1> QED
  BY <1>2, <1>3

LEMMA LogKept ==
    ASSUME LogTyped, nextOid' \in {nextOid, nextOid + 1}, nextOid \in Nat,
           history' = history, outdated' = outdated,
           published' \subseteq 1..Len(history), failures' \in 0..MaxFailures
    PROVE  LogTyped'
<1>1. \A o \in Oids : o \in Oids'
  BY OidsGrow
<1> QED
  BY <1>1 DEF LogTyped

\* A send gives its document the next _id.
LEMMA FindTyped ==
    ASSUME PageInv, Inv, DateInv, NEW c \in Calls, NEW ch \in Channels, FindChannel(c, ch)
    PROVE  StoreTyped' /\ LogTyped'
<1>1. /\ c \in Sends /\ UNCHANGED <<messages, body, history, outdated, published, failures>>
      /\ nextOid \in Nat \ {0} /\ nextOid' \in {nextOid, nextOid + 1}
  BY DEF FindChannel, PageInv, StoreTyped
<1>2. LogTyped'
  BY <1>1, LogKept DEF PageInv, LogTyped
<1>3. CASE channels[ch] # Gone /\ Parses(body[c])
  <2> DEFINE b == body[c]
             d == [oid |-> nextOid, channel |-> ch, content |-> b.content,
                   mentionIds |-> Mentions(b), everyone |-> Everyone(b),
                   attachments |-> Attachments(b), version |-> 0, day |-> today]
  <2>1. /\ doc' = [doc EXCEPT ![c] = d] /\ nextOid' = nextOid + 1
        /\ step' = [step EXCEPT ![c] = "ready"]
    BY <1>3 DEF FindChannel, Goto
  <2>2. d \in Document /\ d.oid = nextOid
    <3>1. /\ b \in Bodies \cup FirstBodies
          /\ Mentions(b) \in SUBSET UserTags /\ Everyone(b) \in BOOLEAN
          /\ Attachments(b) \in SUBSET TypedFiles /\ today \in Days
      BY <1>1 DEF PageInv, StoreTyped, Mentions, Everyone, Attachments, DateInv, DateTypes
    <3>2. b.content \in {x.content : x \in Bodies \cup FirstBodies}
      BY <3>1
    <3> HIDE DEF b
    <3> QED
      BY <1>1, <3>1, <3>2 DEF Document
  <2> HIDE DEF d
  <2>3. \A a \in Calls : HeldTyped(a)'
    <3>1. nextOid \in Oids' /\ \A o \in Oids : o \in Oids'
      BY <1>1, <2>1 DEF Oids
    <3>2. doc'[c] = d /\ \A a \in Calls \ {c} : doc'[a] = doc[a] /\ step'[a] = step[a]
      BY <2>1 DEF Inv, Typed
    <3> QED
      BY <2>2, <3>1, <3>2 DEF PageInv, StoreTyped, HeldTyped
  <2>4. \A m \in messages' : m \in Document /\ m.oid \in Oids'
    <3>1. \A o \in Oids : o \in Oids'
      BY <1>1, <2>1 DEF Oids
    <3> QED
      BY <1>1, <3>1 DEF PageInv, StoreTyped
  <2> QED
    BY <1>1, <1>2, <2>1, <2>3, <2>4 DEF PageInv, StoreTyped
<1>4. CASE ~(channels[ch] # Gone /\ Parses(body[c]))
  <2>1. doc' = doc /\ nextOid' = nextOid /\ step' = [step EXCEPT ![c] = "done"] /\ step[c] = "idle"
    BY <1>4 DEF FindChannel, Goto
  <2>2. \/ doc[c] = Blank
        \/ doc[c] \in Document /\ doc[c].oid \in Oids
    BY <1>1 DEF PageInv, StoreTyped, HeldTyped
  <2>3. \A a \in Calls : \/ HeldTyped(a)'
                         \/ doc'[a] = doc[a] /\ step'[a] = step[a]
    BY <2>1, <2>2 DEF Inv, Typed, HeldTyped, Oids
  <2> QED
    BY <1>1, <1>2, <2>1, <2>3, TypesKept DEF PageInv
<1> QED
  BY <1>3, <1>4

\* A write logs a message with an _id that was given.
LEMMA WriteTyped ==
    ASSUME LogTyped, Typed, NEW h \in Writes, history' = Append(history, h), h.oid \in Oids,
           nextOid' = nextOid, failures' = failures, published' = published,
           outdated' \subseteq Oids
    PROVE  LogTyped'
<1>1. /\ Len(history') = Len(history) + 1 /\ Len(history) \in Nat
      /\ history'[Len(history) + 1] = h
      /\ \A w \in 1..Len(history) : history'[w] = history[w]
  BY Appended
<1>2. \A w \in 1..Len(history') : history'[w].oid \in Oids
  BY <1>1 DEF LogTyped
<1>3. published' \subseteq 1..Len(history')
  BY <1>1 DEF LogTyped
<1> QED
  BY <1>2, <1>3 DEF LogTyped, Oids

LEMMA InsertTyped ==
    ASSUME PageInv, Inv, NEW c \in Calls, Insert(c)
    PROVE  StoreTyped' /\ LogTyped'
<1> DEFINE h == [kind |-> "send", oid |-> doc[c].oid, by |-> c]
<1>1. /\ step[c] = "ready" /\ messages' = messages \cup {doc[c]}
      /\ history' = Append(history, h) /\ step' = [step EXCEPT ![c] = "saved"]
      /\ UNCHANGED <<nextOid, body, doc, failures, outdated, published>>
  BY DEF Insert, Wrote, Goto
<1>2. doc[c] \in Document /\ doc[c].oid \in Oids
  BY <1>1 DEF PageInv, StoreTyped, HeldTyped
<1>3. h \in Writes /\ h.oid \in Oids
  BY <1>2 DEF Writes, Document
<1> HIDE DEF h
<1>4. LogTyped'
  BY <1>1, <1>3, WriteTyped DEF PageInv, Inv, LogTyped
<1>5. \A a \in Calls : \/ HeldTyped(a)'
                       \/ doc'[a] = doc[a] /\ step'[a] = step[a]
  BY <1>1, <1>2 DEF Inv, Typed, HeldTyped, Oids
<1> QED
  BY <1>1, <1>2, <1>4, <1>5, TypesKept DEF PageInv

LEMMA SaveTyped ==
    ASSUME PageInv, Inv, NEW c \in Calls, Save(c)
    PROVE  StoreTyped' /\ LogTyped'
<1> DEFINE h == [kind |-> "update", oid |-> doc[c].oid, by |-> c]
<1>1. PICK m \in messages :
         /\ messages' = (messages \ {m}) \cup {Merged(c, m)}
         /\ outdated' = IF m = doc[c] THEN outdated \ {m.oid} ELSE outdated \cup {m.oid}
  BY DEF Save, Writable, Stored
<1>2. /\ c \in Edits /\ step[c] = "ready"
      /\ history' = Append(history, h) /\ step' = [step EXCEPT ![c] = "saved"]
      /\ UNCHANGED <<nextOid, body, doc, failures, published>>
  BY DEF Save, Wrote, Goto
<1>3. doc[c] \in Document /\ doc[c].oid \in Oids /\ m.oid \in Oids
  BY <1>2 DEF PageInv, StoreTyped, HeldTyped
<1>4. h \in Writes /\ h.oid \in Oids
  BY <1>3 DEF Writes, Document
<1> HIDE DEF h
<1>5. outdated' \subseteq Oids
  BY <1>1, <1>3 DEF PageInv, LogTyped
<1>6. LogTyped'
  BY <1>2, <1>4, <1>5, WriteTyped DEF PageInv, Inv
<1>7. \A a \in Calls : \/ HeldTyped(a)'
                       \/ doc'[a] = doc[a] /\ step'[a] = step[a]
  BY <1>2, <1>3 DEF Inv, Typed, HeldTyped, Oids
<1>8. Merged(c, m) \in Document /\ Merged(c, m).oid = m.oid
  BY <1>2, MergedTyped DEF PageInv
<1> QED
  BY <1>1, <1>2, <1>3, <1>6, <1>7, <1>8, TypesKept DEF PageInv

LEMMA DeleteTyped ==
    ASSUME PageInv, Inv, NEW c \in Calls, NEW oid \in 1..nextOid, Delete(c, oid)
    PROVE  StoreTyped' /\ LogTyped'
<1>1. UNCHANGED <<nextOid, body, failures, published, outdated>>
  BY DEF Delete
<1>2. CASE ~\E m \in messages : m.oid = oid
  <2>1. /\ step' = [step EXCEPT ![c] = "done"] /\ step[c] = "idle"
        /\ UNCHANGED <<messages, doc, history>>
    BY <1>2 DEF Delete, Goto
  <2>2. \A a \in Calls : \/ HeldTyped(a)'
                         \/ doc'[a] = doc[a] /\ step'[a] = step[a]
    <3>1. HeldTyped(c)
      BY DEF PageInv, StoreTyped
    <3>2. step'[c] = "done" /\ doc'[c] = doc[c] /\ Oids' = Oids
      BY <1>1, <2>1 DEF Inv, Typed, Oids
    <3>3. HeldTyped(c)'
      BY <3>1, <3>2 DEF HeldTyped
    <3> QED
      BY <2>1, <3>3 DEF Inv, Typed
  <2>3. StoreTyped'
    BY <1>1, <2>1, <2>2, TypesKept DEF PageInv
  <2>4. LogTyped'
    BY <1>1, <2>1, LogKept DEF PageInv, LogTyped, StoreTyped
  <2> QED
    BY <2>3, <2>4
<1>3. CASE \E m \in messages : m.oid = oid
  <2> DEFINE h == [kind |-> "delete", oid |-> oid, by |-> c]
             d == CHOOSE m \in messages : m.oid = oid
  <2>1. /\ messages' = {m \in messages : m.oid # oid} /\ history' = Append(history, h)
        /\ doc' = [doc EXCEPT ![c] = d] /\ step' = [step EXCEPT ![c] = "saved"]
    BY <1>3 DEF Delete, Goto
  <2>2. d \in messages /\ d.oid = oid
    BY <1>3
  <2> HIDE DEF d
  <2>3. d \in Document /\ d.oid \in Oids /\ oid \in Nat
    BY <2>2 DEF PageInv, StoreTyped, Document
  <2>4. h \in Writes /\ h.oid \in Oids
    BY <2>2, <2>3 DEF Writes, Inv, OidsGiven
  <2> HIDE DEF h
  <2>5. LogTyped'
    BY <1>1, <2>1, <2>4, WriteTyped DEF PageInv, Inv, LogTyped
  <2>6. \A a \in Calls : \/ HeldTyped(a)'
                         \/ doc'[a] = doc[a] /\ step'[a] = step[a]
    BY <1>1, <2>1, <2>3 DEF Inv, Typed, HeldTyped, Oids
  <2> QED
    BY <1>1, <2>1, <2>5, <2>6, TypesKept DEF PageInv
<1> QED
  BY <1>2, <1>3

\* The steps that neither write to the collection nor start a send.
LEMMA QuietTyped ==
    ASSUME PageInv, Inv, Quiet
    PROVE  StoreTyped' /\ LogTyped'
<1>1. /\ messages' = messages /\ nextOid' = nextOid
      /\ history' = history /\ outdated' = outdated /\ Typed'
      /\ \A m \in messages' : m \in messages
      /\ nextOid \in Nat /\ Oids' = Oids
  BY QuietMoves DEF Inv, Undisturbed, storeVars, PageInv, StoreTyped, Oids
<1>2. ASSUME body' = body, step' = step, doc' = doc, published' = published,
             failures' \in 0..MaxFailures
      PROVE  StoreTyped' /\ LogTyped'
  <2>1. StoreTyped'
    BY <1>1, <1>2, TypesKept DEF PageInv
  <2>2. LogTyped'
    BY <1>1, <1>2, LogKept DEF PageInv, LogTyped
  <2> QED
    BY <2>1, <2>2
<1>3. ASSUME NEW c \in Calls, NEW to \in {"ready", "saved", "done", "failed"}, Goto(c, to), body' = body,
             \/ doc'[c] \in Document /\ doc'[c].oid \in Oids
             \/ doc'[c] = doc[c] /\ to \in {"done", "failed"},
             \A a \in Calls : a # c => doc'[a] = doc[a],
             published' \subseteq 1..Len(history), failures' \in 0..MaxFailures
      PROVE  StoreTyped' /\ LogTyped'
  <2>1. step'[c] = to /\ \A a \in Calls : a # c => step'[a] = step[a]
    BY <1>3 DEF Goto, Inv, Typed
  <2>2. HeldTyped(c)'
    BY <1>1, <1>3, <2>1 DEF PageInv, StoreTyped, HeldTyped
  <2>3. StoreTyped'
    BY <1>1, <1>3, <2>1, <2>2, TypesKept DEF PageInv
  <2>4. LogTyped'
    BY <1>1, <1>3, LogKept DEF PageInv
  <2> QED
    BY <2>3, <2>4
<1>4. failures \in 0..MaxFailures /\ published \subseteq 1..Len(history)
  BY DEF PageInv, LogTyped
<1>5. CASE \/ NextDay
           \/ \E ch \in Channels : RemoveChannel(ch)
           \/ \E mv \in moves : MoveDate(mv)
           \/ \E r \in Readers : GetMessages(r)
  BY <1>2, <1>4, <1>5 DEF NextDay, RemoveChannel, MoveDate, GetMessages
<1>6. failures < MaxFailures => failures + 1 \in 0..MaxFailures
  BY <1>4, MessagesAssumption DEF MessagesAssumption
<1>7. ASSUME NEW mv \in moves, LoseMove(mv)
      PROVE  StoreTyped' /\ LogTyped'
  BY <1>2, <1>6, <1>7 DEF LoseMove
<1>8. ASSUME NEW c \in Calls, NEW oid \in 1..nextOid, FindForEdit(c, oid)
      PROVE  StoreTyped' /\ LogTyped'
  <2>1. CASE Parses(body[c]) /\ \E m \in messages : m.oid = oid
    <3>1. PICK m \in messages : doc' = [doc EXCEPT ![c] = m]
      BY <1>8, <2>1 DEF FindForEdit
    <3>2. m \in Document /\ m.oid \in Oids
      BY DEF PageInv, StoreTyped
    <3>3. doc'[c] = m /\ \A a \in Calls : a # c => doc'[a] = doc[a]
      BY <3>1 DEF Inv, Typed
    <3>4. Goto(c, "ready") /\ UNCHANGED <<body, published, failures>>
      BY <1>8, <2>1 DEF FindForEdit
    <3> QED
      BY <1>3, <1>4, <3>2, <3>3, <3>4
  <2>2. CASE ~(Parses(body[c]) /\ \E m \in messages : m.oid = oid)
    BY <1>3, <1>4, <1>8, <2>2 DEF FindForEdit
  <2> QED
    BY <2>1, <2>2
<1>9. ASSUME NEW c \in Calls, Conflict(c)
      PROVE  StoreTyped' /\ LogTyped'
  BY <1>3, <1>4, <1>9 DEF Conflict
<1>10. ASSUME NEW c \in Calls, Announce(c)
       PROVE  StoreTyped' /\ LogTyped'
  BY <1>3, <1>4, <1>10 DEF Announce, Told
<1>11. ASSUME NEW c \in Calls, Fail(c)
       PROVE  StoreTyped' /\ LogTyped'
  BY <1>3, <1>4, <1>6, <1>11 DEF Fail
<1> QED
  BY <1>5, <1>7, <1>8, <1>9, <1>10, <1>11 DEF Quiet

-----------------------------------------------------------------------------
\* A step of anyone but a reader: what is new in a channel was in the hands of
\* a send, and a send that gets ready has a fresh _id.
Unread ==
    /\ page' = page
    /\ nextOid' \in {nextOid, nextOid + 1}
    /\ \A m \in messages' :
          \/ \E n \in messages : n.oid = m.oid /\ n.channel = m.channel
          \/ \E c \in Sends : step[c] = "ready" /\ doc[c].oid = m.oid
    /\ \A c \in Sends : step'[c] = "ready" =>
          \/ step[c] = "ready" /\ doc'[c] = doc[c]
          \/ doc'[c].oid = nextOid

LEMMA UnreadStep ==
    ASSUME PageInv, Unread
    PROVE  PageTyped' /\ PagesAscend' /\ OwedAhead' /\ UnsentUnowed'
<1>1. page' = page /\ nextOid \in Nat /\ nextOid' \in {nextOid, nextOid + 1}
  BY DEF PageInv, StoreTyped, Unread
<1>2. PageTyped'
  <2>1. \A o \in Oids : o \in Oids'
    BY <1>1, OidsGrow
  <2> QED
    BY <1>1, <2>1 DEF PageInv, PageTyped
<1>3. PagesAscend'
  BY <1>1 DEF PageInv, PagesAscend
<1>4. OwedAhead'
  <2> SUFFICES ASSUME NEW r \in Readers, NEW o \in page[r].owed, o \in Ids(page[r].channel)'
               PROVE  o \in Ids(page[r].channel)
    BY <1>1 DEF PageInv, OwedAhead, Before
  <2>1. PICK m \in messages' : m.channel = page[r].channel /\ m.oid = o
    BY <1>1 DEF Ids
  <2>2. \A c \in Sends : step[c] = "ready" => doc[c].oid # o
    BY DEF PageInv, UnsentUnowed
  <2> QED
    BY <2>1, <2>2 DEF Unread, Ids
<1>5. UnsentUnowed'
  <2> SUFFICES ASSUME NEW c \in Sends, step'[c] = "ready", NEW r \in Readers
               PROVE  doc'[c].oid \notin page[r].owed
    BY <1>1 DEF UnsentUnowed
  <2>1. nextOid \notin Oids /\ page[r].owed \subseteq Oids
    BY <1>1 DEF PageInv, PageTyped, Oids
  <2> QED
    BY <2>1 DEF PageInv, UnsentUnowed, Unread
<1> QED
  BY <1>2, <1>3, <1>4, <1>5

LEMMA QuietUnread ==
    ASSUME Inv, Quiet, ~\E r \in Readers : GetMessages(r)
    PROVE  Unread
<1>1. page' = page
  BY DEF Quiet, NextDay, RemoveChannel, MoveDate, LoseMove, FindForEdit, Conflict, Announce, Fail
<1> QED
  BY <1>1, QuietMoves DEF Inv, Undisturbed, storeVars, Unread

LEMMA WorksUnread ==
    ASSUME PageInv, Inv, NEW c \in Calls, Works(c)
    PROVE  Unread
<1>1. step \in [Calls -> {"idle", "ready", "saved", "done", "failed"}] /\ doc = [a \in Calls |-> doc[a]]
  BY DEF Inv, Typed
<1>2. ASSUME NEW ch \in Channels, FindChannel(c, ch)
      PROVE  Unread
  <2>1. /\ UNCHANGED <<messages, page>> /\ nextOid' \in {nextOid, nextOid + 1}
        /\ c \in Sends
    BY <1>2 DEF FindChannel
  <2>2. ASSUME NEW b \in Sends, step'[b] = "ready"
        PROVE  \/ step[b] = "ready" /\ doc'[b] = doc[b]
               \/ doc'[b].oid = nextOid
    BY <1>1, <1>2, <2>2 DEF FindChannel, Goto, Calls
  <2> QED
    BY <2>1, <2>2 DEF Unread
<1>3. CASE Insert(c)
  BY <1>1, <1>3 DEF Insert, Goto, Unread, Calls
<1>4. CASE Save(c)
  <2>1. PICK m \in messages : messages' = (messages \ {m}) \cup {Merged(c, m)}
    BY <1>4 DEF Save, Writable, Stored
  <2>2. /\ c \in Edits /\ UNCHANGED <<nextOid, page, doc>>
        /\ step' = [step EXCEPT ![c] = "saved"]
    BY <1>4 DEF Save, Goto
  <2>3. Merged(c, m).oid = m.oid /\ Merged(c, m).channel = m.channel
    BY <2>2, MergedTyped DEF PageInv
  <2> QED
    BY <1>1, <2>1, <2>2, <2>3 DEF Unread, Calls
<1>5. ASSUME NEW oid \in 1..nextOid, Delete(c, oid)
      PROVE  Unread
  <2>1. /\ c \notin Sends /\ UNCHANGED <<nextOid, page>> /\ messages' \subseteq messages
    BY <1>5, MessagesAssumption DEF Delete, MessagesAssumption
  <2>2. \A b \in Sends : step'[b] = step[b] /\ doc'[b] = doc[b]
    BY <1>1, <1>5, <2>1 DEF Delete, Goto, Calls
  <2> QED
    BY <2>1, <2>2 DEF Unread
<1> QED
  BY <1>2, <1>3, <1>4, <1>5 DEF Works, DeleteMessage

-----------------------------------------------------------------------------
\* What new is when the elements of got come before old: every element of the
\* two is in it, nothing else is, and it ascends if old does and got is below.
Prepends(got, old, new) ==
    /\ new \in Seq(Nat)
    /\ \A i \in 1..Len(new) : new[i] \in got \/ new[i] \in Range(old)
    /\ got \cup Range(old) \subseteq Range(new)
    /\ new # <<>> => IF got = {} THEN new = old ELSE Head(new) \in got
    /\ (/\ \A i, j \in 1..Len(old) : i < j => old[i] < old[j]
        /\ \A g \in got, i \in 1..Len(old) : g < old[i])
       => \A i, j \in 1..Len(new) : i < j => new[i] < new[j]

LEMMA Prepended ==
    ASSUME NEW got, got \subseteq Nat, IsFiniteSet(got), NEW old \in Seq(Nat),
           NEW new, new = Ascending(got) \o old
    PROVE  Prepends(got, old, new)
<1> DEFINE n == Cardinality(got)
           s == Ascending(got)
           m == Len(old)
<1>1. /\ n \in Nat /\ s \in [1..n -> got] /\ Len(s) = n /\ s \in Seq(got)
      /\ \A i, j \in 1..n : i < j => s[i] < s[j]
      /\ \A g \in got : \E i \in 1..n : s[i] = g
      /\ got = {} <=> n = 0
  BY AscendingExists, AscendingAll, FS_CardinalityType, FS_EmptySet
<1> HIDE DEF s, n
<1>2. s \in Seq(Nat)
  <2>1. s \in [1..n -> Nat]
    BY <1>1
  <2> QED
    BY <1>1, <2>1
<1>3. m \in Nat /\ \A i \in 1..m : old[i] \in Nat
  BY LenProperties, ElementOfSeq
<1>4. /\ new \in Seq(Nat) /\ Len(new) = n + m
      /\ \A i \in 1..n + m : new[i] = IF i <= n THEN s[i] ELSE old[i - n]
  <2>1. new = s \o old
    BY DEF s
  <2>2. /\ s \o old \in Seq(Nat) /\ Len(s \o old) = Len(s) + Len(old)
        /\ \A i \in 1..Len(s) + Len(old) :
              (s \o old)[i] = IF i <= Len(s) THEN s[i] ELSE old[i - Len(s)]
    BY <1>2, ConcatProperties
  <2> QED
    BY <1>1, <2>1, <2>2, Zenon DEF m
<1> HIDE DEF m
<1>5. /\ \A i \in 1..n : i \in 1..n + m /\ new[i] = s[i]
      /\ \A i \in 1..m : i + n \in 1..n + m /\ new[i + n] = old[i]
  <2>1. \A i \in 1..n : i \in 1..n + m /\ i <= n
    BY <1>1, <1>3
  <2>2. \A i \in 1..m : i + n \in 1..n + m /\ ~(i + n <= n) /\ (i + n) - n = i
    BY <1>1, <1>3
  <2>3. ASSUME NEW i \in 1..m
        PROVE  new[i + n] = old[i]
    <3>1. new[i + n] = IF i + n <= n THEN s[i + n] ELSE old[(i + n) - n]
      BY <1>4, <2>2
    <3> QED
      BY <2>2, <3>1
  <2> QED
    BY <1>4, <2>1, <2>2, <2>3
<1>6. \A i \in 1..n + m : \/ i \in 1..n /\ new[i] = s[i]
                          \/ i - n \in 1..m /\ new[i] = old[i - n]
  BY <1>1, <1>3, <1>4
<1>7. DOMAIN new = 1..n + m /\ DOMAIN old = 1..m
  BY <1>4, LenProperties DEF m
<1>8. \A i \in 1..n + m : new[i] \in got \/ new[i] \in Range(old)
  BY <1>1, <1>6, <1>7 DEF Range
<1>9. got \cup Range(old) \subseteq Range(new)
  BY <1>1, <1>5, <1>7 DEF Range
<1>10. ASSUME new # <<>>
       PROVE  IF got = {} THEN new = old ELSE Head(new) \in got
  <2>1. CASE got = {}
    <3>1. s = <<>>
      BY <1>1, <2>1, EmptySeq
    <3> QED
      BY <2>1, <3>1, ConcatEmptySeq DEF s
  <2>2. CASE got # {}
    <3>1. Head(new) = new[1]
      BY <1>4, <1>10
    <3>2. n \in Nat /\ n # 0
      BY <1>1, <2>2
    <3>3. 1 \in 1..n
      BY <3>2
    <3>4. new[1] \in got
      BY <1>1, <1>5, <3>3
    <3> QED
      BY <2>2, <3>1, <3>4
  <2> QED
    BY <2>1, <2>2
<1>11. ASSUME \A i, j \in 1..m : i < j => old[i] < old[j],
              \A g \in got, i \in 1..m : g < old[i],
              NEW i \in 1..n + m, NEW j \in 1..n + m, i < j
       PROVE  new[i] < new[j]
  <2>1. CASE j \in 1..n
    <3>1. i \in 1..n
      BY <1>1, <1>3, <1>11, <2>1
    <3> QED
      BY <1>1, <1>5, <1>11, <2>1, <3>1
  <2>2. CASE j - n \in 1..m /\ new[j] = old[j - n] /\ i \in 1..n
    <3>1. new[i] \in got
      BY <1>1, <1>5, <2>2
    <3> QED
      BY <1>11, <2>2, <3>1
  <2>3. CASE j - n \in 1..m /\ new[j] = old[j - n] /\ i - n \in 1..m /\ new[i] = old[i - n]
    <3>1. i - n < j - n
      BY <1>1, <1>3, <1>11
    <3> QED
      BY <1>11, <2>3, <3>1
  <2> QED
    BY <1>6, <2>1, <2>2, <2>3
<1> QED
  BY <1>4, <1>8, <1>9, <1>10, <1>11 DEF m, Prepends

LEMMA ReadStep ==
    ASSUME PageInv, Inv, NEW r \in Readers, GetMessages(r)
    PROVE  PageTyped' /\ PagesAscend' /\ OwedAhead' /\ UnsentUnowed'
<1> DEFINE p == page[r]
           limit == p.limit
           ids == Ids(p.channel)
           found == {oid \in ids : Before(r, oid)}
           got == Newest(found, limit)
           new == Ascending(got) \o p.shown
           owed == IF p.shown = <<>> THEN found ELSE p.owed
           over == limit = 0 \/ Cardinality(got) < Size(limit)
<1>1. /\ p \in [channel : Channels, limit : Limits, shown : Seq(Nat),
                owed : SUBSET Nat, over : BOOLEAN]
      /\ p.owed \subseteq Oids /\ \A i \in 1..Len(p.shown) : p.shown[i] \in Oids
      /\ page \in [Readers -> [channel : Channels, limit : Limits, shown : Seq(Nat),
                               owed : SUBSET Nat, over : BOOLEAN]]
  BY DEF PageInv, PageTyped
<1>2. /\ page' = [page EXCEPT ![r].shown = new, ![r].owed = owed, ![r].over = over]
      /\ ~p.over /\ UNCHANGED <<messages, nextOid, step, doc>>
  BY DEF GetMessages, storeVars
<1>3. /\ ids \subseteq Oids /\ IsFiniteSet(Oids) /\ Oids \subseteq Nat
      /\ nextOid \in Nat \ {0}
  <2>1. nextOid \in Nat \ {0} /\ ids \subseteq Oids
    BY DEF PageInv, StoreTyped, Ids
  <2>2. Oids \subseteq Nat /\ IsFiniteSet(Oids)
    BY <2>1, FS_Interval DEF Oids
  <2> QED
    BY <2>1, <2>2
<1>4. /\ found \subseteq Oids /\ found \subseteq Nat /\ IsFiniteSet(found)
      /\ got \subseteq found /\ got \subseteq Nat /\ IsFiniteSet(got)
  <2>1. found \in SUBSET Oids /\ found \subseteq Nat /\ IsFiniteSet(found)
    <3>1. found \in SUBSET Oids
      BY <1>3
    <3> QED
      BY <1>3, <3>1, FS_Subset
  <2>2. got \in SUBSET found
    BY DEF Newest
  <2> QED
    BY <2>1, <2>2, FS_Subset
<1>5. limit \in Int /\ p.shown \in Seq(Nat) /\ p.channel \in Channels
  BY <1>1, MessagesAssumption DEF MessagesAssumption
<1> HIDE DEF p
<1>6. Prepends(got, p.shown, new)
  <2>1. new = Ascending(got) \o p.shown
    OBVIOUS
  <2> HIDE DEF found, got, new
  <2>2. got \subseteq Nat /\ IsFiniteSet(got) /\ p.shown \in Seq(Nat)
    BY <1>4, <1>5
  <2> QED
    BY <2>1, <2>2, Prepended
<1> HIDE DEF new, owed, over, got, found, ids
<1>7. /\ page'[r].shown = new /\ page'[r].owed = owed /\ page'[r].over = over
      /\ page'[r].channel = p.channel
      /\ \A a \in Readers : a # r => page'[a] = page[a]
  BY <1>1, <1>2 DEF p
<1>8. Oids' = Oids /\ \A ch : Ids(ch)' = Ids(ch)
  BY <1>2 DEF Oids, Ids
<1>9. owed \subseteq ids \cup p.owed /\ owed \subseteq Oids
  BY <1>1, <1>4 DEF p, owed, found
<1>10. over \in BOOLEAN
  BY DEF over
<1>11. PageTyped'
  <2>1. owed \in SUBSET Nat
    BY <1>3, <1>9
  <2>2. \A i \in 1..Len(new) : new[i] \in Oids
    <3>1. Range(p.shown) \subseteq Oids
      <4>1. DOMAIN p.shown = 1..Len(p.shown)
        BY <1>5, LenProperties
      <4> QED
        BY <1>1, <4>1 DEF p, Range
    <3> QED
      BY <1>4, <1>6, <3>1 DEF Prepends
  <2>3. page' \in [Readers -> [channel : Channels, limit : Limits, shown : Seq(Nat),
                              owed : SUBSET Nat, over : BOOLEAN]]
    BY <1>1, <1>2, <1>6, <1>10, <2>1 DEF Prepends
  <2> QED
    BY <1>7, <1>8, <1>9, <2>2, <2>3 DEF PageInv, PageTyped
<1>12. \A i, j \in 1..Len(p.shown) : i < j => p.shown[i] < p.shown[j]
  BY DEF PageInv, PagesAscend, p
<1>13. \A g \in found, i \in 1..Len(p.shown) : g < p.shown[i]
  <2> SUFFICES ASSUME NEW g \in found, NEW i \in 1..Len(p.shown)
               PROVE  g < p.shown[i]
    OBVIOUS
  <2>1. /\ Len(p.shown) \in Nat /\ i \in Nat /\ 1 \in 1..Len(p.shown)
        /\ p.shown[1] \in Nat /\ p.shown[i] \in Nat
        /\ p.shown # <<>> /\ Head(p.shown) = p.shown[1]
    <3>1. Len(p.shown) \in Nat /\ \A j \in 1..Len(p.shown) : p.shown[j] \in Nat
      BY <1>5, LenProperties, ElementOfSeq
    <3>2. i \in Nat /\ 1 \in 1..Len(p.shown) /\ Len(p.shown) # 0
      BY <3>1
    <3>3. p.shown # <<>> /\ Head(p.shown) = p.shown[1]
      BY <1>5, <3>2
    <3> QED
      BY <3>1, <3>2, <3>3
  <2>2. g < p.shown[1]
    BY <2>1 DEF found, Before, p
  <2>3. i = 1 \/ p.shown[1] < p.shown[i]
    BY <1>12, <2>1
  <2>4. g \in Nat
    BY <1>4
  <2> QED
    BY <2>1, <2>2, <2>3, <2>4
<1>14. PagesAscend'
  <2>1. \A i, j \in 1..Len(new) : i < j => new[i] < new[j]
    BY <1>4, <1>6, <1>12, <1>13 DEF Prepends
  <2> QED
    BY <1>7, <2>1 DEF PageInv, PagesAscend
<1>15. \A o \in found : \/ o \in Range(new)
                        \/ ~over /\ (new = <<>> \/ o < Head(new))
  <2> SUFFICES ASSUME NEW o \in found, o \notin got
               PROVE  ~over /\ (new = <<>> \/ o < Head(new))
    BY <1>6 DEF Prepends
  <2>1. ~over
    BY <1>4, <1>5, PageFull DEF over, got
  <2>2. ASSUME new # <<>>
        PROVE  o < Head(new)
    <3>1. CASE got = {}
      <4>1. new = p.shown
        BY <1>6, <2>2, <3>1 DEF Prepends
      <4> QED
        BY <2>2, <4>1 DEF found, Before, p
    <3>2. CASE got # {}
      <4>1. Head(new) \in got
        BY <1>6, <2>2, <3>2 DEF Prepends
      <4> QED
        BY <1>4, <1>5, <4>1, PageTop DEF got
    <3> QED
      BY <3>1, <3>2
  <2> QED
    BY <2>1, <2>2
<1>16. ASSUME NEW o \in owed, o \in ids
       PROVE  \/ o \in Range(new)
              \/ ~over /\ (new = <<>> \/ o < Head(new))
  <2>1. o \in found \/ o \in Range(p.shown)
    BY <1>16 DEF owed, found, Before, PageInv, OwedAhead, p, ids
  <2> QED
    BY <1>6, <1>15, <2>1 DEF Prepends
<1>17. OwedAhead'
  <2>1. \A o \in page'[r].owed \cap Ids(page'[r].channel) :
            \/ o \in Range(page'[r].shown)
            \/ ~page'[r].over /\ (page'[r].shown = <<>> \/ o < Head(page'[r].shown))
    BY <1>7, <1>16 DEF ids
  <2> QED
    BY <1>7, <1>8, <2>1 DEF PageInv, OwedAhead, Before
<1>18. UnsentUnowed'
  <2> SUFFICES ASSUME NEW c \in Sends, step[c] = "ready", NEW a \in Readers
               PROVE  doc[c].oid \notin page'[a].owed
    BY <1>2 DEF UnsentUnowed
  <2>1. doc[c].oid \notin ids /\ doc[c].oid \notin page[a].owed
    BY DEF Inv, Unsent, PageInv, UnsentUnowed, ids, Ids
  <2>2. CASE a = r
    BY <1>7, <1>9, <2>1, <2>2 DEF p
  <2>3. CASE a # r
    BY <1>7, <2>1, <2>3
  <2> QED
    BY <2>2, <2>3
<1> QED
  BY <1>11, <1>14, <1>17, <1>18

-----------------------------------------------------------------------------
LEMMA PageStep == ASSUME PageInv, Inv, DateInv, [Next]_vars PROVE PageInv'
<1>1. CASE UNCHANGED vars
  BY <1>1
     DEF vars, PageInv, StoreTyped, HeldTyped, LogTyped, PageTyped, PagesAscend, OwedAhead,
         UnsentUnowed, Before, Ids, Oids
<1>2. CASE Quiet
  <2>1. StoreTyped' /\ LogTyped'
    BY <1>2, QuietTyped
  <2>2. PageTyped' /\ PagesAscend' /\ OwedAhead' /\ UnsentUnowed'
    BY <1>2, ReadStep, QuietUnread, UnreadStep
  <2> QED
    BY <2>1, <2>2 DEF PageInv
<1>3. ASSUME NEW c \in Calls, Works(c)
      PROVE  PageInv'
  <2>1. StoreTyped' /\ LogTyped'
    BY <1>3, FindTyped, InsertTyped, SaveTyped, DeleteTyped DEF Works, DeleteMessage
  <2>2. PageTyped' /\ PagesAscend' /\ OwedAhead' /\ UnsentUnowed'
    BY <1>3, WorksUnread, UnreadStep
  <2> QED
    BY <2>1, <2>2 DEF PageInv
<1> QED
  BY <1>1, <1>2, <1>3, StepCases

\* What readers have got so far, and what they are owed, is as it should be.
THEOREM PageInvariance == Spec => [](PageInv /\ Inv /\ DateInv)
<1>1. Init => PageInv /\ Inv /\ DateInv
  BY PageInit, InvInit, DateInit
<1>2. PageInv /\ Inv /\ DateInv /\ [Next]_vars => (PageInv /\ Inv /\ DateInv)'
  BY PageStep, InvStep, DateStep
<1> QED
  BY <1>1, <1>2, PTL DEF Spec

\* Whoever reads a channel page by page meets its messages in their order, and
\* none twice, whatever is sent, edited and deleted between two pages.
THEOREM PagesStayInOrder == Spec => []PagesAscend
<1>1. PageInv => PagesAscend
  BY DEF PageInv
<1> QED
  BY <1>1, PageInvariance, PTL

\* When the last page is read, no message is missing that was there at the
\* first one and still is.
THEOREM NothingMissed == Spec => []PagesComplete
<1>1. PageInv => PagesComplete
  BY DEF PageInv, OwedAhead, PagesComplete
<1> QED
  BY <1>1, PageInvariance, PTL

\* Every variable keeps its type: what is stored, in hand, logged, announced
\* and shown are messages that a send gave an _id to.
THEOREM TypeCorrect == Spec => []TypeOK
<1>1. ASSUME PageInv, Inv, DateInv
      PROVE  TypeOK
  <2>1. /\ channels \in [Channels -> Dates] /\ today \in Days
        /\ step \in [Calls -> {"idle", "ready", "saved", "done", "failed"}]
        /\ moves \subseteq [channel : Channels, day : Days, by : Sends]
    BY <1>1 DEF DateInv, DateTypes
  <2>2. /\ messages \subseteq Document /\ nextOid \in Nat \ {0}
        /\ failures \in 0..MaxFailures /\ published \subseteq 1..Len(history)
        /\ outdated \subseteq 1..nextOid - 1
        /\ \A c \in Calls : doc[c] = Blank \/ doc[c] \in Document
    BY <1>1 DEF PageInv, StoreTyped, HeldTyped, LogTyped, Oids
  <2>3. history \in Seq([kind : {"send", "update", "delete"}, oid : 1..nextOid - 1, by : Calls])
    <3> DEFINE W == [kind : {"send", "update", "delete"}, oid : 1..nextOid - 1, by : Calls]
    <3>1. history \in Seq(Writes) /\ Len(history) \in Nat /\ history \in [1..Len(history) -> Writes]
      BY <1>1, LenProperties DEF Inv, Typed
    <3>2. \A w \in 1..Len(history) : history[w] \in W
      BY <1>1, <3>1 DEF PageInv, LogTyped, Oids, Writes
    <3> HIDE DEF W
    <3>3. history \in [1..Len(history) -> W]
      BY <3>1, <3>2
    <3>4. history \in Seq(W)
      BY <3>1, <3>3
    <3> QED
      BY <3>4 DEF W
  <2>4. page \in [Readers -> [channel : Channels, limit : Limits, shown : Seq(1..nextOid - 1),
                             owed : SUBSET (1..nextOid - 1), over : BOOLEAN]]
    <3>1. page \in [Readers -> [channel : Channels, limit : Limits, shown : Seq(Nat),
                               owed : SUBSET Nat, over : BOOLEAN]]
      BY <1>1 DEF PageInv, PageTyped
    <3>2. ASSUME NEW r \in Readers
          PROVE  page[r].shown \in Seq(Oids) /\ page[r].owed \in SUBSET Oids
      <4>1. page[r].shown \in Seq(Nat)
        BY <3>1
      <4>2. Len(page[r].shown) \in Nat /\ page[r].shown \in [1..Len(page[r].shown) -> Nat]
        BY <4>1, LenProperties
      <4>3. page[r].shown \in [1..Len(page[r].shown) -> Oids]
        BY <1>1, <4>2 DEF PageInv, PageTyped
      <4>4. page[r].shown \in Seq(Oids)
        BY <4>2, <4>3
      <4> QED
        BY <1>1, <4>4 DEF PageInv, PageTyped
    <3>3. page \in [Readers -> [channel : Channels, limit : Limits, shown : Seq(Oids),
                               owed : SUBSET Oids, over : BOOLEAN]]
      BY <3>1, <3>2
    <3> QED
      BY <3>3 DEF Oids
  <2> QED
    BY <2>1, <2>2, <2>3, <2>4 DEF TypeOK
<1>2. PageInv /\ Inv /\ DateInv => TypeOK
  BY <1>1
<1> QED
  BY <1>2, PageInvariance, PTL
=============================================================================
