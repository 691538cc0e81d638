---------------------------- MODULE MembersProofs ---------------------------
(***************************************************************************)
(* That a member who has left stays away until a create arrives again, and *)
(* that one who has joined is there unless a delete ran twice: for any     *)
(* members, stints, versions, consumers, retries, crashes and failures,    *)
(* and any number of copies from other services.                           *)
(***************************************************************************)
EXTENDS Members, FiniteSetTheorems, TLAPS

\* LeftForGood is not inductive: a create that is under way would end it.
Inv ==
    /\ TypeOK
    /\ \A id \in MemberIds : left[id] => NoCreateUnderWay(id) /\ WithKey(members, id) = {}

\* A step that does not write to the collection.
Quiet(e) ==
    \/ Deliver(e) \/ Discard(e) \/ Ack(e) \/ Expire(e) \/ Crash(e) \/ Fail(e)
    \/ RejectCreate(e) \/ Update(e) \/ RejectUpdate(e)

LEMMA StepCases ==
    ASSUME Next
    PROVE  \E e \in Events : Quiet(e) \/ Publish(e) \/ Create(e) \/ Delete(e)
BY DEF Next, Consume, Quiet

LEMMA EventTypes ==
    ASSUME NEW e \in Events
    PROVE  e.id \in MemberIds /\ e.content \in Contents
BY DEF Events

\* A quiet step moves an event that was neither unpublished nor settled.
LEMMA QuietMoves ==
    ASSUME NEW e \in Events, Quiet(e)
    PROVE  /\ UNCHANGED memberVars
           /\ place[e] \notin Mail!Settled \cup {"unpublished"}
           /\ \E to : place' = [place EXCEPT ![e] = to]
BY DEF Quiet, Deliver, Discard, Ack, Expire, Crash, Fail, RejectCreate, Update, RejectUpdate,
       Mail!CheckedDeliver, Mail!Deliver, Mail!Discard, Mail!Ack, Mail!Expire, Mail!Crash,
       Mail!Fault, Mail!Handle, Mail!Move, Mail!Settled, Mail!Unsettled

LEMMA MailTypes ==
    ASSUME Mail!TypeOK, NEW e \in Events,
           Quiet(e) \/ Publish(e) \/ Create(e) \/ Delete(e)
    PROVE  Mail!TypeOK'
<1> USE MembersAssumption DEF Mail!TypeOK, Mail!Places, Mail!Settled, Mail!Unsettled,
        MembersAssumption, Mail!Move
<1>1. CASE Publish(e)
  BY <1>1 DEF Publish, Mail!Publish
<1>2. CASE Deliver(e) \/ Discard(e) \/ Ack(e)
  BY <1>2 DEF Deliver, Discard, Ack, Mail!CheckedDeliver, Mail!Deliver, Mail!Discard, Mail!Ack
<1>3. CASE Expire(e)
  BY <1>3 DEF Expire, Mail!Expire
<1>4. CASE Crash(e)
  BY <1>4 DEF Crash, Mail!Crash
<1>5. CASE Fail(e)
  BY <1>5 DEF Fail, Mail!Fault
<1>6. CASE RejectCreate(e) \/ Update(e) \/ RejectUpdate(e) \/ Create(e) \/ Delete(e)
  BY <1>6 DEF RejectCreate, Update, RejectUpdate, Create, Delete, Mail!Handle
<1> QED
  BY <1>1, <1>2, <1>3, <1>4, <1>5, <1>6 DEF Quiet

LEMMA TypeStep ==
    ASSUME TypeOK, NEW e \in Events,
           Quiet(e) \/ Publish(e) \/ Create(e) \/ Delete(e)
    PROVE  TypeOK'
<1>1. Mail!TypeOK'
  BY MailTypes DEF TypeOK
<1> USE EventTypes DEF TypeOK
<1>2. CASE Quiet(e)
  BY <1>1, <1>2, QuietMoves DEF memberVars
<1>3. CASE Publish(e)
  BY <1>1, <1>3 DEF Publish
<1>4. CASE Create(e)
  BY <1>1, <1>4 DEF Create, Inserted, Document
<1>5. CASE Delete(e)
  <2>1. e.id \in MemberIds /\ e.content.stint \in 1..MaxStints
    BY DEF Contents
  <2>2. members' \subseteq members /\ nextOid' = nextOid
    BY <1>5 DEF Delete, Removed
  <2>3. ended' \in [MemberIds -> SUBSET (1..MaxStints)]
    BY <1>5, <2>1 DEF Delete
  <2>4. left' \in [MemberIds -> BOOLEAN] /\ repeated' \subseteq MemberIds
    BY <1>5, <2>1 DEF Delete, NoCreateUnderWay
  <2> QED
    BY <1>1, <2>2, <2>3, <2>4
<1> QED
  BY <1>2, <1>3, <1>4, <1>5

LEMMA InvStep ==
    ASSUME Inv, [Next]_vars
    PROVE  Inv'
<1>1. CASE UNCHANGED vars
  BY <1>1 DEF vars, mailVars, memberVars, Inv, TypeOK, Mail!TypeOK, NoCreateUnderWay, WithKey
<1>2. ASSUME NEW e \in Events, Quiet(e) \/ Publish(e) \/ Create(e) \/ Delete(e)
      PROVE  Inv'
  <2>1. TypeOK'
    BY <1>2, TypeStep DEF Inv
  <2> SUFFICES ASSUME NEW id \in MemberIds, left'[id]
               PROVE  NoCreateUnderWay(id)' /\ WithKey(members, id)' = {}
    BY <2>1 DEF Inv
  <2>2. /\ place \in [Events -> Mail!Places] /\ left \in [MemberIds -> BOOLEAN]
        /\ left[id] => NoCreateUnderWay(id) /\ WithKey(members, id) = {}
    BY DEF Inv, TypeOK, Mail!TypeOK
  <2>3. CASE Quiet(e)
    BY <2>2, <2>3, QuietMoves DEF memberVars, NoCreateUnderWay, WithKey
  <2>4. CASE Publish(e)
    <3>1. left[id] /\ ~(e.kind = "create" /\ e.id = id)
      BY <2>2, <2>4 DEF Publish
    <3> QED
      BY <2>2, <2>4, <3>1 DEF Publish, Mail!Publish, Mail!Move, NoCreateUnderWay, WithKey
  <2>5. CASE Create(e)
    <3>1. left[id] /\ e.kind = "create" /\ place[e] = "delivered"
      BY <2>5 DEF Create, Mail!Handle, Mail!Move
    <3>2. e.id # id
      BY <3>1, <2>2 DEF NoCreateUnderWay, Mail!Settled
    <3> QED
      BY <2>2, <2>5, <3>1, <3>2
         DEF Create, Inserted, Mail!Handle, Mail!Move, NoCreateUnderWay, WithKey
  <2>6. CASE Delete(e)
    <3>1. /\ members' = {d \in members : d.key # e.id} /\ e.kind = "delete"
          /\ place' = [place EXCEPT ![e] = "applied"]
          /\ left' = [left EXCEPT ![e.id] = @ \/ NoCreateUnderWay(e.id)]
      BY <2>6 DEF Delete, Removed, WithKey, Mail!Handle, Mail!Move
    <3>2. NoCreateUnderWay(id) /\ (id = e.id \/ WithKey(members, id) = {})
      BY <2>2, <3>1
    <3> QED
      BY <2>2, <3>1, <3>2 DEF NoCreateUnderWay, WithKey
  <2> QED
    BY <1>2, <2>3, <2>4, <2>5, <2>6
<1> QED
  BY <1>1, <1>2, StepCases

LEMMA InvInit == ASSUME Init PROVE Inv
BY MembersAssumption DEF Init, Inv, TypeOK, Mail!Init, Mail!TypeOK, Mail!Places,
   MembersAssumption, NoCreateUnderWay, WithKey

\* The inductive invariant holds of every run.
THEOREM Invariance == Spec => []Inv
BY InvInit, InvStep, PTL DEF Spec

\* The variables always have their types.
THEOREM TypeCorrect == Spec => []TypeOK
<1>1. Inv => TypeOK
  BY DEF Inv
<1> QED
  BY <1>1, Invariance, PTL

\* Once a delete has run with no create under way, no late, repeated or retried
\* event puts the member back before a create arrives again.
THEOREM WhoLeftStaysAway == Spec => []LeftForGood
<1>1. Inv => LeftForGood
  BY DEF Inv, LeftForGood
<1> QED
  BY <1>1, Invariance, PTL

-----------------------------------------------------------------------------
\* The stints whose own create has run, and is not to be delivered again.
Created(id) ==
    {s \in 1..MaxStints : \E e \in Events : /\ e.kind = "create" /\ e.id = id /\ e.origin = "own"
                                            /\ e.content.stint = s
                                            /\ place[e] \in {"applied", "acked"}}

Presence(id) == IF WithKey(members, id) = {} THEN 0 ELSE 1

\* A create that has run is matched by a stint that ended, or has left a document.
Balanced ==
    \A id \in MemberIds \ repeated :
        Cardinality(Created(id)) <= Cardinality(ended[id]) + Presence(id)

\* What has arrived from anywhere was published, deletes after their creates.
PublishedFirst ==
    \A e \in Events : place[e] # "unpublished" =>
        /\ Published(e.kind, e.id, e.content.stint, e.content.version)
        /\ e.kind = "delete" => Published("create", e.id, e.content.stint, 0)

EndsPublished ==
    \A id \in MemberIds : \A s \in ended[id] : Published("delete", id, s, 0)

Matched == TypeOK /\ Balanced /\ PublishedFirst /\ EndsPublished

LEMMA StintsFinite ==
    ASSUME NEW id, NEW S, S \subseteq 1..MaxStints
    PROVE  /\ IsFiniteSet(S) /\ Cardinality(S) \in Nat
           /\ IsFiniteSet(Created(id)) /\ Cardinality(Created(id)) \in Nat
<1>1. IsFiniteSet(1..MaxStints)
  BY MembersAssumption, FS_Interval DEF MembersAssumption
<1> QED
  BY <1>1, FS_Subset, FS_CardinalityType DEF Created

\* A create or a delete carries the first version of its stint.
LEMMA FirstVersion ==
    ASSUME NEW e \in Events, e.kind # "update"
    PROVE  e.content = [stint |-> e.content.stint, version |-> 0] /\ e.content.version = 0
BY MembersAssumption DEF Events, Contents, MembersAssumption

\* What was published stays so.
LEMMA PublishedStays ==
    ASSUME TypeOK, NEW e \in Events, NEW to \in Mail!Places \ {"unpublished"},
           place' = [place EXCEPT ![e] = to]
    PROVE  \A kind, id, stint, version :
              Published(kind, id, stint, version) => Published(kind, id, stint, version)'
<1>1. \A f \in Events : place[f] # "unpublished" => place'[f] # "unpublished"
  BY DEF TypeOK, Mail!TypeOK
<1> QED
  BY <1>1 DEF Published

\* How a step moves its event.
LEMMA Moves ==
    ASSUME NEW e \in Events, Quiet(e) \/ Publish(e) \/ Create(e) \/ Delete(e)
    PROVE  /\ \E to \in Mail!Places \ {"unpublished"} : place' = [place EXCEPT ![e] = to]
           /\ Publish(e) \/ place[e] # "unpublished"
<1> USE DEF Mail!Settled, Mail!Unsettled, Mail!Places
<1>1. CASE Quiet(e)
  BY <1>1 DEF Quiet, Deliver, Discard, Ack, Expire, Crash, Fail, RejectCreate, Update,
     RejectUpdate, Mail!CheckedDeliver, Mail!Deliver, Mail!Discard, Mail!Ack, Mail!Expire,
     Mail!Crash, Mail!Fault, Mail!Handle, Mail!Move
<1>2. CASE Publish(e)
  BY <1>2 DEF Publish, Mail!Publish, Mail!Move
<1>3. CASE Create(e) \/ Delete(e)
  BY <1>3 DEF Create, Delete, Mail!Handle, Mail!Move
<1> QED
  BY <1>1, <1>2, <1>3

LEMMA PublishedStep ==
    ASSUME TypeOK, PublishedFirst, NEW e \in Events,
           Quiet(e) \/ Publish(e) \/ Create(e) \/ Delete(e)
    PROVE  PublishedFirst'
<1>1. PICK to \in Mail!Places \ {"unpublished"} : place' = [place EXCEPT ![e] = to]
  BY Moves
<1>2. \A kind, id, stint, version :
         Published(kind, id, stint, version) => Published(kind, id, stint, version)'
  BY <1>1, PublishedStays
<1>3. CASE place[e] # "unpublished"
  BY <1>1, <1>2, <1>3 DEF PublishedFirst, TypeOK, Mail!TypeOK
<1>4. CASE Publish(e)
  <2>1. place'[e] # "unpublished" /\ \A f \in Events : f # e => place'[f] = place[f]
    BY <1>1 DEF TypeOK, Mail!TypeOK
  <2>2. e.content = [stint |-> e.content.stint, version |-> e.content.version]
    BY DEF Events, Contents
  <2>3. Published(e.kind, e.id, e.content.stint, e.content.version)'
    <3>1. CASE InOrder(e)
      BY <2>1, <2>2, <3>1 DEF InOrder, Published
    <3>2. CASE Copied(e)
      BY <1>2, <3>2 DEF Copied
    <3> QED
      BY <1>4, <3>1, <3>2 DEF Publish
  <2>4. e.kind = "delete" => Published("create", e.id, e.content.stint, 0)'
    <3> SUFFICES ASSUME e.kind = "delete"
                 PROVE  Published("create", e.id, e.content.stint, 0)
      BY <1>2
    <3>1. CASE InOrder(e)
      BY <3>1 DEF InOrder
    <3>2. CASE Copied(e)
      <4>1. PICK f \in Events : /\ f.kind = "delete" /\ f.id = e.id
                                /\ f.content = [stint |-> e.content.stint, version |-> e.content.version]
                                /\ place[f] # "unpublished"
        BY <3>2 DEF Copied, Published
      <4> QED
        BY <4>1 DEF PublishedFirst
    <3> QED
      BY <1>4, <3>1, <3>2 DEF Publish
  <2> QED
    BY <1>2, <2>1, <2>3, <2>4 DEF PublishedFirst
<1> QED
  BY <1>3, <1>4, Moves

LEMMA EndsStep ==
    ASSUME TypeOK, PublishedFirst, EndsPublished, NEW e \in Events,
           Quiet(e) \/ Publish(e) \/ Create(e) \/ Delete(e)
    PROVE  EndsPublished'
<1>1. \A kind, id, stint, version :
         Published(kind, id, stint, version) => Published(kind, id, stint, version)'
  BY Moves, PublishedStays
<1>2. CASE Quiet(e) \/ Publish(e) \/ Create(e)
  <2>1. ended' = ended
    BY <1>2, QuietMoves DEF memberVars, Publish, Create
  <2> QED
    BY <1>1, <2>1 DEF EndsPublished
<1>3. CASE Delete(e)
  <2>1. /\ ended' = [ended EXCEPT ![e.id] = @ \cup {e.content.stint}]
        /\ e.kind = "delete" /\ place[e] = "delivered"
    BY <1>3 DEF Delete, Mail!Handle, Mail!Move
  <2>2. Published("delete", e.id, e.content.stint, 0)
    BY <2>1, FirstVersion DEF PublishedFirst
  <2>3. \A id \in MemberIds : ended'[id] = IF id = e.id THEN ended[id] \cup {e.content.stint}
                                           ELSE ended[id]
    BY <2>1 DEF TypeOK
  <2> QED
    BY <1>1, <2>2, <2>3 DEF EndsPublished
<1> QED
  BY <1>2, <1>3

\* No event adds to the creates that have run but an own create that runs.
LEMMA CreatedShrinks ==
    ASSUME TypeOK, NEW e \in Events, NEW to, place' = [place EXCEPT ![e] = to],
           \/ e.kind # "create"
           \/ to \in {"applied", "acked"} => place[e] \in {"applied", "acked"}
           \/ e.origin # "own",
           NEW id
    PROVE  Created(id)' \subseteq Created(id)
BY DEF TypeOK, Mail!TypeOK, Created

LEMMA CreatedGrows ==
    ASSUME TypeOK, NEW e \in Events, NEW to, place' = [place EXCEPT ![e] = to],
           e.kind = "create", NEW id
    PROVE  Created(id)' \subseteq Created(id) \cup (IF id = e.id THEN {e.content.stint} ELSE {})
BY DEF TypeOK, Mail!TypeOK, Created

LEMMA BalanceStep ==
    ASSUME TypeOK, Balanced, NEW e \in Events,
           Quiet(e) \/ Publish(e) \/ Create(e) \/ Delete(e)
    PROVE  Balanced'
<1>1. repeated \subseteq repeated'
  BY QuietMoves DEF memberVars, Publish, Create, Delete
<1> SUFFICES ASSUME NEW id \in MemberIds, id \notin repeated'
             PROVE  Cardinality(Created(id)') <= Cardinality(ended'[id]) + Presence(id)'
  BY DEF Balanced
<1>2. Cardinality(Created(id)) <= Cardinality(ended[id]) + Presence(id)
  BY <1>1 DEF Balanced
<1>3. /\ IsFiniteSet(Created(id)) /\ Cardinality(Created(id)) \in Nat
      /\ IsFiniteSet(ended[id]) /\ Cardinality(ended[id]) \in Nat
  BY StintsFinite DEF TypeOK
<1>4. PICK to \in Mail!Places : place' = [place EXCEPT ![e] = to]
  BY Moves
<1>5. Presence(id) \in {0, 1} /\ Presence(id)' \in {0, 1}
  BY DEF Presence
<1>6. CASE Quiet(e) \/ Publish(e)
  <2>1. UNCHANGED <<members, ended>>
    BY <1>6, QuietMoves DEF memberVars, Publish
  <2>2. \/ e.kind # "create"
        \/ place'[e] \in {"applied", "acked"} => place[e] \in {"applied", "acked"}
    BY <1>6 DEF Quiet, Publish, Deliver, Discard, Ack, Expire, Crash, Fail, RejectCreate, Update,
       RejectUpdate, Mail!CheckedDeliver, Mail!Deliver, Mail!Discard, Mail!Ack, Mail!Expire,
       Mail!Crash, Mail!Fault, Mail!Handle, Mail!Move, Mail!Publish, TypeOK, Mail!TypeOK
  <2>3. place'[e] = to
    BY <1>4 DEF TypeOK, Mail!TypeOK
  <2>4. Created(id)' \subseteq Created(id)
    BY <1>4, <2>2, <2>3, CreatedShrinks
  <2>5. Cardinality(Created(id)') <= Cardinality(Created(id)) /\ Cardinality(Created(id)') \in Nat
    BY <1>3, <2>4, FS_Subset, FS_CardinalityType
  <2>6. Presence(id)' = Presence(id)
    BY <2>1 DEF Presence, WithKey
  <2> QED
    BY <1>2, <1>3, <1>5, <2>1, <2>5, <2>6
<1>7. CASE Create(e)
  <2>1. /\ e.kind = "create" /\ WithKey(members, e.id) = {} /\ ended' = ended
        /\ members' = Inserted(members, nextOid, e.id, e.content)
    BY <1>7 DEF Create
  <2>2. Created(id)' \subseteq Created(id) \cup (IF id = e.id THEN {e.content.stint} ELSE {})
    BY <1>4, <2>1, CreatedGrows
  <2>3. CASE id # e.id
    <3>1. Created(id)' \subseteq Created(id)
      BY <2>2, <2>3
    <3>2. Cardinality(Created(id)') <= Cardinality(Created(id)) /\ Cardinality(Created(id)') \in Nat
      BY <1>3, <3>1, FS_Subset, FS_CardinalityType
    <3>3. Presence(id)' = Presence(id)
      BY <2>1, <2>3 DEF Presence, Inserted, WithKey
    <3> QED
      BY <1>2, <1>3, <1>5, <2>1, <3>2, <3>3
  <2>4. CASE id = e.id
    <3>1. Presence(id) = 0 /\ Presence(id)' = 1
      <4>1. [oid |-> nextOid, key |-> id, version |-> 0, body |-> e.content] \in WithKey(members', id)
        BY <2>1, <2>4 DEF Inserted, WithKey
      <4> QED
        BY <2>1, <2>4, <4>1 DEF Presence, WithKey
    <3>2. /\ IsFiniteSet(Created(id) \cup {e.content.stint})
          /\ Cardinality(Created(id) \cup {e.content.stint}) <= Cardinality(Created(id)) + 1
          /\ Cardinality(Created(id) \cup {e.content.stint}) \in Nat
      <4>1. /\ IsFiniteSet(Created(id) \cup {e.content.stint})
            /\ \/ Cardinality(Created(id) \cup {e.content.stint}) = Cardinality(Created(id))
               \/ Cardinality(Created(id) \cup {e.content.stint}) = Cardinality(Created(id)) + 1
        BY <1>3, FS_AddElement
      <4> QED
        BY <1>3, <4>1
    <3>3. /\ Cardinality(Created(id)') <= Cardinality(Created(id) \cup {e.content.stint})
          /\ Cardinality(Created(id)') \in Nat
      BY <2>2, <2>4, <3>2, FS_Subset, FS_CardinalityType
    <3> QED
      BY <1>2, <1>3, <2>1, <3>1, <3>2, <3>3
  <2> QED
    BY <2>3, <2>4
<1>8. CASE Delete(e)
  <2>1. /\ e.kind = "delete" /\ members' = Removed(members, e.id)
        /\ ended' = [ended EXCEPT ![e.id] = @ \cup {e.content.stint}]
        /\ repeated' = IF e.content.stint \in ended[e.id] THEN repeated \cup {e.id} ELSE repeated
    BY <1>8 DEF Delete
  <2>2. Created(id)' \subseteq Created(id)
    BY <1>4, <2>1, CreatedShrinks
  <2>3. Cardinality(Created(id)') <= Cardinality(Created(id)) /\ Cardinality(Created(id)') \in Nat
    BY <1>3, <2>2, FS_Subset, FS_CardinalityType
  <2>4. CASE id # e.id
    <3>1. ended'[id] = ended[id] /\ Presence(id)' = Presence(id)
      BY <2>1, <2>4 DEF TypeOK, Presence, Removed, WithKey
    <3> QED
      BY <1>2, <1>3, <1>5, <2>3, <3>1
  <2>5. CASE id = e.id
    <3>1. e.content.stint \notin ended[id] /\ ended'[id] = ended[id] \cup {e.content.stint}
      BY <2>1, <2>5 DEF TypeOK
    <3>2. Cardinality(ended'[id]) = Cardinality(ended[id]) + 1
      BY <1>3, <3>1, FS_AddElement
    <3> QED
      BY <1>2, <1>3, <1>5, <2>3, <3>2
  <2> QED
    BY <2>4, <2>5
<1> QED
  BY <1>6, <1>7, <1>8

LEMMA MatchedInit == ASSUME Init PROVE Matched
<1>1. TypeOK /\ place = [e \in Events |-> "unpublished"] /\ ended = [id \in MemberIds |-> {}]
  BY InvInit DEF Inv, Init, Mail!Init
<1>2. \A id : Created(id) = {}
  BY <1>1 DEF Created
<1>3. Cardinality({}) = 0
  BY FS_EmptySet
<1>4. \A id : Presence(id) = 0
  BY DEF Init, Presence, WithKey
<1> QED
  BY <1>1, <1>2, <1>3, <1>4 DEF Matched, Balanced, PublishedFirst, EndsPublished

LEMMA MatchedStep ==
    ASSUME Matched, [Next]_vars
    PROVE  Matched'
<1>1. CASE UNCHANGED vars
  BY <1>1 DEF vars, mailVars, memberVars, Matched, TypeOK, Mail!TypeOK, Balanced, Created,
     Presence, PublishedFirst, EndsPublished, Published, WithKey
<1>2. ASSUME NEW e \in Events, Quiet(e) \/ Publish(e) \/ Create(e) \/ Delete(e)
      PROVE  Matched'
  BY <1>2, TypeStep, BalanceStep, PublishedStep, EndsStep DEF Matched
<1> QED
  BY <1>1, <1>2, StepCases

\* The stints that ended are among those whose create has run, without the last.
LEMMA MatchedPresent ==
    ASSUME Matched
    PROVE  MissingOnlyByRepeat
<1> SUFFICES ASSUME NEW id \in MemberIds \ repeated, IsMember(id),
                    \A s \in 1..MaxStints : Published("create", id, s, 0) => Acknowledged(id, s)
             PROVE  WithKey(members, id) # {}
  BY DEF MissingOnlyByRepeat
<1>1. PICK s \in 1..MaxStints : Published("create", id, s, 0) /\ ~Published("delete", id, s, 0)
  BY DEF IsMember
<1>2. \A t \in 1..MaxStints : Published("create", id, t, 0) => t \in Created(id)
  BY DEF Created, Acknowledged
<1>3. ended[id] \subseteq Created(id) \ {s}
  <2> SUFFICES ASSUME NEW t \in ended[id]
               PROVE  t \in Created(id) /\ t # s
    OBVIOUS
  <2>1. t \in 1..MaxStints /\ Published("delete", id, t, 0)
    BY DEF Matched, EndsPublished, TypeOK
  <2>2. Published("create", id, t, 0)
    BY <2>1 DEF Matched, PublishedFirst, Published
  <2> QED
    BY <1>1, <1>2, <2>1, <2>2
<1>4. /\ IsFiniteSet(Created(id)) /\ Cardinality(Created(id)) \in Nat
      /\ Cardinality(ended[id]) \in Nat
  BY StintsFinite DEF Matched, TypeOK
<1>5. /\ Cardinality(ended[id]) <= Cardinality(Created(id) \ {s})
      /\ Cardinality(Created(id) \ {s}) = Cardinality(Created(id)) - 1
  <2>1. s \in Created(id)
    BY <1>1, <1>2
  <2> QED
    BY <1>3, <1>4, <2>1, FS_Subset, FS_RemoveElement
<1>6. Cardinality(Created(id)) <= Cardinality(ended[id]) + Presence(id)
  BY DEF Matched, Balanced
<1> QED
  BY <1>4, <1>5, <1>6 DEF Presence

\* Whatever crashes, fails or is copied by other services: a member whose creates
\* were acknowledged is missing only if some delete ran twice.
THEOREM MissingMeansRepeated == Spec => []MissingOnlyByRepeat
<1>1. Spec => []Matched
  BY MatchedInit, MatchedStep, PTL DEF Spec
<1> QED
  BY <1>1, MatchedPresent, PTL
=============================================================================
