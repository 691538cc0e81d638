----------------------------- MODULE CopyProofs -----------------------------
(***************************************************************************)
(* That the copy is right for any number of entities, versions, consumers, *)
(* retries, crashes and failed calls.  The invariants of CopyService are   *)
(* parts of one inductive invariant, Inv, which adds what the handlers     *)
(* rely on between their awaits.                                           *)
(***************************************************************************)
EXTENDS CopyService, TLAPS

\* An event on its way through a queue of ours has a try left.
TriesLeft ==
    \A e \in Events : e.origin = "own" =>
        /\ deaths[e] <= RetryCount
        /\ place[e] \in Mail!Unsettled \cup {"parked"} => deaths[e] < RetryCount

\* An _id is not given twice.
OidsFresh ==
    /\ \A d \in copies : d.oid < nextOid
    /\ \A e \in Events : place[e] = "loaded" => held[e].oid < nextOid

\* Neither two documents with one _id nor two for one entity.
Identified ==
    \A c, d \in copies : c.oid = d.oid \/ c.key = d.key => c = d

\* What an update holds across its await is a document of its own entity, at
\* the version before it.
HeldPredecessor ==
    \A e \in Events : place[e] = "loaded" =>
        /\ e.kind = "update"
        /\ held[e].version = e.version - Lag
        /\ \A d \in copies : d.oid = held[e].oid => d.key = e.id

\* No create is under way for an entity that is buried.
Buried ==
    \A id \in Ids : fate[id] = "buried" =>
        NoCreateUnderWay(id) /\ WithKey(copies, id) = {}

Inv ==
    /\ TypeOK
    /\ TriesLeft
    /\ OidsFresh
    /\ Identified
    /\ HeldPredecessor
    /\ VersionMatchesContent
    /\ AppliedBeforeAck
    /\ Buried

-----------------------------------------------------------------------------
\* A step that neither reads nor writes the collection: the broker's, and a
\* handler's that answers with a Nack.
Quiet(e) ==
    \/ Publish(e) \/ Deliver(e) \/ Discard(e) \/ Ack(e) \/ Expire(e)
    \/ Crash(e) \/ Fail(e)
    \/ RejectCreate(e) \/ RejectUpdate(e) \/ ConflictUpdate(e)

\* A step that reads or writes the collection.
Works(e) == Create(e) \/ FindForUpdate(e) \/ SaveUpdate(e) \/ Delete(e)

\* Where a quiet step may take its event.
Elsewhere == {"queued", "parked", "delivered", "acked", "dropped"}

\* Every step is the step of one event, quiet or at work.
LEMMA StepCases ==
    ASSUME Next
    PROVE  \E e \in Events : Quiet(e) \/ Works(e)
BY DEF Next, Consume, Queue, Update, Quiet, Works

\* A quiet step moves its event, out of no settled place, into none where the
\* collection would have been used, and is acked only after it was applied.  Only
\* the publication of a create changes a fate.
LEMMA QuietMoves ==
    ASSUME NEW e \in Events, Quiet(e)
    PROVE  /\ UNCHANGED <<copies, nextOid, held>>
           /\ place[e] \notin Mail!Settled
           /\ place[e] = "unpublished" => Publish(e)
           /\ fate' = fate \/ Publish(e)
           /\ \E to \in Elsewhere :
                 /\ place' = [place EXCEPT ![e] = to]
                 /\ to = "acked" => place[e] = "applied"
BY DEF Quiet, Publish, Deliver, Discard, Ack, Expire, Crash, Fail,
       RejectCreate, RejectUpdate, ConflictUpdate, Elsewhere,
       Mail!Publish, Mail!CheckedDeliver, Mail!Deliver, Mail!Discard, Mail!Ack,
       Mail!Expire, Mail!Crash, Mail!Fault, Mail!Handle, Mail!Move,
       Mail!Settled, Mail!Unsettled, copyVars

\* The events keep the types of their places and counters.
LEMMA MailTypes ==
    ASSUME Mail!TypeOK, NEW e \in Events, Quiet(e) \/ Works(e)
    PROVE  Mail!TypeOK'
<1> USE CopyAssumption DEF Mail!TypeOK, Mail!Places, Mail!Settled, Mail!Unsettled,
        CopyAssumption, Mail!Move
<1>1. CASE Publish(e)
  BY <1>1 DEF Publish, Mail!Publish
<1>2. CASE Deliver(e)
  BY <1>2 DEF Deliver, Mail!CheckedDeliver, Mail!Deliver
<1>3. CASE Discard(e)
  BY <1>3 DEF Discard, Mail!Discard
<1>4. CASE Ack(e)
  BY <1>4 DEF Ack, Mail!Ack
<1>5. CASE Expire(e)
  BY <1>5 DEF Expire, Mail!Expire
<1>6. CASE Crash(e)
  BY <1>6 DEF Crash, Mail!Crash
<1>7. CASE Fail(e)
  BY <1>7 DEF Fail, Mail!Fault
<1>8. CASE RejectCreate(e) \/ RejectUpdate(e) \/ ConflictUpdate(e)
  BY <1>8 DEF RejectCreate, RejectUpdate, ConflictUpdate, Mail!Handle
<1>9. CASE Works(e)
  BY <1>9 DEF Works, Create, FindForUpdate, SaveUpdate, Delete, Mail!Handle
<1> QED
  BY <1>1, <1>2, <1>3, <1>4, <1>5, <1>6, <1>7, <1>8, <1>9 DEF Quiet

\* The events have the types the collection needs.
LEMMA EventTypes ==
    ASSUME NEW e \in Events
    PROVE  /\ e.id \in Ids
           /\ FirstVersion \in Nat /\ Lag = FirstVersion + 1
           /\ e.version \in Nat /\ e.version \in Versions
           /\ e.kind = "update" => e.version - Lag \in Nat
           /\ e.kind # "update" => e.version = FirstVersion
BY CopyAssumption DEF Events, Versions, CopyAssumption

LEMMA TypeInit == ASSUME Init PROVE TypeOK
BY CopyAssumption DEF Init, TypeOK, Mail!Init, Mail!TypeOK, Mail!Places,
   Handle, NoHandle, CopyAssumption

\* Every step keeps the types.
LEMMA TypeStep ==
    ASSUME TypeOK, [Next]_vars
    PROVE  TypeOK'
<1>1. CASE UNCHANGED vars
  BY <1>1 DEF vars, mailVars, copyVars, TypeOK, Mail!TypeOK
<1>2. ASSUME NEW e \in Events, Quiet(e)
      PROVE  TypeOK'
  <2>1. fate' \in [Ids -> {"kept", "deleted", "buried"}]
    BY <1>2, QuietMoves DEF TypeOK, Publish
  <2> QED
    BY <1>2, <2>1, MailTypes, QuietMoves DEF TypeOK
<1>3. ASSUME NEW e \in Events, Works(e)
      PROVE  TypeOK'
  <2> Mail!TypeOK'
    BY <1>3, MailTypes DEF TypeOK
  <2> USE EventTypes DEF TypeOK
  <2>1. CASE Create(e)
    BY <2>1 DEF Create, Inserted, Document
  <2>2. CASE FindForUpdate(e)
    BY <2>2 DEF FindForUpdate, Predecessor, WithKey, Handled, Handle, Document
  <2>3. CASE SaveUpdate(e)
    BY <2>3 DEF SaveUpdate, Unmoved, Updated, Document
  <2>4. CASE Delete(e)
    BY <2>4 DEF Delete, Removed, WithKey
  <2> QED
    BY <1>3, <2>1, <2>2, <2>3, <2>4 DEF Works
<1> QED
  BY <1>1, <1>2, <1>3, StepCases

-----------------------------------------------------------------------------
LEMMA InvInit == ASSUME Init PROVE Inv
<1>1. TypeOK
  BY TypeInit
<1>2. TriesLeft
  BY CopyAssumption DEF Init, TriesLeft, Mail!Init, Mail!Unsettled, CopyAssumption
<1>3. OidsFresh /\ Identified /\ VersionMatchesContent
  BY DEF Init, OidsFresh, Identified, VersionMatchesContent, Mail!Init
<1>4. HeldPredecessor /\ AppliedBeforeAck
  BY DEF Init, HeldPredecessor, AppliedBeforeAck, Mail!Init
<1>5. Buried
  BY DEF Init, Buried
<1> QED
  BY <1>1, <1>2, <1>3, <1>4, <1>5 DEF Inv

\* The interceptor lets no event through that has had its tries, and one is
\* used up only by an expiry.
LEMMA TriesStep ==
    ASSUME TypeOK, TriesLeft, NEW e \in Events, Quiet(e) \/ Works(e)
    PROVE  TriesLeft'
<1> USE CopyAssumption DEF TypeOK, TriesLeft, Mail!TypeOK, Mail!Unsettled,
        Mail!Move, CopyAssumption
<1>1. CASE Publish(e)
  BY <1>1 DEF Publish, Mail!Publish
<1>2. CASE Deliver(e)
  BY <1>2 DEF Deliver, Mail!CheckedDeliver, Mail!Deliver, Mail!Exhausted, Mail!HasDied
<1>3. CASE Discard(e)
  BY <1>3 DEF Discard, Mail!Discard
<1>4. CASE Ack(e)
  BY <1>4 DEF Ack, Mail!Ack
<1>5. CASE Expire(e)
  BY <1>5 DEF Expire, Mail!Expire
<1>6. CASE Crash(e)
  BY <1>6 DEF Crash, Mail!Crash
<1>7. CASE Fail(e)
  BY <1>7 DEF Fail, Mail!Fault
<1>8. CASE RejectCreate(e) \/ RejectUpdate(e) \/ ConflictUpdate(e)
  BY <1>8 DEF RejectCreate, RejectUpdate, ConflictUpdate, Mail!Handle
<1>9. CASE Works(e)
  BY <1>9 DEF Works, Create, FindForUpdate, SaveUpdate, Delete, Mail!Handle
<1> QED
  BY <1>1, <1>2, <1>3, <1>4, <1>5, <1>6, <1>7, <1>8, <1>9 DEF Quiet

\* A quiet step disturbs nothing that is said of the collection.
LEMMA QuietStep ==
    ASSUME Inv, NEW e \in Events, Quiet(e)
    PROVE  /\ OidsFresh' /\ Identified' /\ HeldPredecessor'
           /\ VersionMatchesContent' /\ AppliedBeforeAck' /\ Buried'
<1>1. PICK to \in Elsewhere :
         /\ place' = [place EXCEPT ![e] = to]
         /\ to = "acked" => place[e] = "applied"
  BY QuietMoves
<1>2. /\ copies' = copies /\ nextOid' = nextOid /\ held' = held
      /\ \A id \in Ids : fate'[id] \in {"kept", "buried"} => fate'[id] = fate[id]
  BY QuietMoves DEF Publish, Inv, TypeOK
<1>3. place \in [Events -> Mail!Places]
  BY DEF Inv, TypeOK, Mail!TypeOK
<1>4. \A f \in Events :
         /\ place'[f] = "loaded" => place[f] = "loaded"
         /\ place'[f] \in {"applied", "acked"} => place[f] \in {"applied", "acked"}
         /\ place[f] \in Mail!Settled => place'[f] = place[f]
  BY <1>1, <1>3, QuietMoves DEF Elsewhere
<1>5. OidsFresh' /\ Identified' /\ HeldPredecessor'
  BY <1>2, <1>4 DEF Inv, OidsFresh, Identified, HeldPredecessor
<1>6. VersionMatchesContent' /\ AppliedBeforeAck'
  BY <1>2, <1>4, EventTypes DEF Inv, VersionMatchesContent, AppliedBeforeAck
<1>7. Buried'
  <2> SUFFICES ASSUME NEW id \in Ids, fate'[id] = "buried"
               PROVE  NoCreateUnderWay(id)' /\ WithKey(copies, id)' = {}
    BY DEF Buried
  <2>1. NoCreateUnderWay(id) /\ WithKey(copies, id) = {}
    BY <1>2 DEF Inv, Buried
  <2>2. ~(e.kind = "create" /\ e.id = id)
    <3> SUFFICES ASSUME e.kind = "create", e.id = id
                 PROVE  FALSE
      OBVIOUS
    <3>1. Publish(e)
      BY <2>1, QuietMoves DEF NoCreateUnderWay
    <3> QED
      BY <1>2, <3>1 DEF Publish, Inv, TypeOK
  <2>3. NoCreateUnderWay(id)'
    BY <1>1, <1>3, <2>1, <2>2 DEF NoCreateUnderWay
  <2> QED
    BY <1>2, <2>1, <2>3 DEF WithKey
<1> QED
  BY <1>5, <1>6, <1>7

\* create() adds a document with a fresh _id for an entity that had none.
LEMMA CreateStep ==
    ASSUME Inv, NEW e \in Events, Create(e)
    PROVE  /\ OidsFresh' /\ Identified' /\ HeldPredecessor'
           /\ VersionMatchesContent' /\ AppliedBeforeAck' /\ Buried'
<1> DEFINE new == [oid |-> nextOid, key |-> e.id, version |-> 0, body |-> e.version]
<1>1. /\ copies' = copies \cup {new}
      /\ nextOid' = nextOid + 1 /\ held' = held /\ fate' = fate
      /\ \A d \in copies : d.key # e.id
  BY DEF Create, Inserted, WithKey
<1>2. /\ place \in [Events -> Mail!Places]
      /\ place[e] = "delivered" /\ place' = [place EXCEPT ![e] = "applied"]
  BY DEF Create, Mail!Handle, Mail!Move, Inv, TypeOK, Mail!TypeOK
<1>3. nextOid \in Nat /\ held \in [Events -> Handle]
      /\ copies \subseteq Document(Ids, Versions)
  BY DEF Inv, TypeOK
<1>4. e.kind = "create" /\ e.version = FirstVersion
  BY EventTypes DEF Create
<1>5. OidsFresh'
  <2>1. \A d \in copies' : d.oid < nextOid'
    BY <1>1, <1>3 DEF Inv, OidsFresh, Document
  <2>2. ASSUME NEW f \in Events, place'[f] = "loaded"
        PROVE  held'[f].oid < nextOid'
    <3>1. place[f] = "loaded" /\ held[f] \in Handle
      BY <2>2, <1>2, <1>3
    <3>2. held[f].oid < nextOid /\ held[f].oid \in Nat
      BY <3>1 DEF Inv, OidsFresh, Handle
    <3> QED
      BY <3>2, <1>1, <1>3
  <2> QED
    BY <2>1, <2>2 DEF OidsFresh
<1>6. Identified'
  <2>1. \A d \in copies : d.oid # new.oid /\ d.key # new.key
    BY <1>1, <1>3 DEF Inv, OidsFresh, Document
  <2> QED
    BY <2>1, <1>1 DEF Inv, Identified
<1>7. HeldPredecessor'
  BY <1>1, <1>2, <1>3 DEF Inv, HeldPredecessor, OidsFresh, Handle
<1>8. VersionMatchesContent'
  BY <1>1, <1>4, EventTypes DEF Inv, VersionMatchesContent
<1>9. AppliedBeforeAck'
  <2> SUFFICES ASSUME NEW f \in Events, f.kind # "delete",
                      place'[f] \in {"applied", "acked"}, fate'[f.id] = "kept"
               PROVE  \E d \in copies' : d.key = f.id /\ d.body >= f.version
    BY DEF AppliedBeforeAck
  <2>1. CASE f = e
    <3>1. new \in copies' /\ new.key = f.id /\ new.body >= f.version
      BY <2>1, <1>1, <1>4, EventTypes
    <3> QED
      BY <3>1
  <2>2. CASE f # e
    BY <2>2, <1>1, <1>2 DEF Inv, AppliedBeforeAck
  <2> QED
    BY <2>1, <2>2
<1>10. Buried'
  <2>1. fate[e.id] # "buried"
    BY <1>2, <1>4, EventTypes DEF Inv, Buried, NoCreateUnderWay, Mail!Settled
  <2> QED
    BY <2>1, <1>1, <1>2 DEF Inv, Buried, NoCreateUnderWay, WithKey, Mail!Settled
<1> QED
  BY <1>5, <1>6, <1>7, <1>8, <1>9, <1>10

\* update() keeps, across its await, the document before its version.
LEMMA FindStep ==
    ASSUME Inv, NEW e \in Events, FindForUpdate(e)
    PROVE  /\ OidsFresh' /\ Identified' /\ HeldPredecessor'
           /\ VersionMatchesContent' /\ AppliedBeforeAck' /\ Buried'
<1>1. PICK d \in copies :
         /\ d.key = e.id /\ d.version = e.version - Lag
         /\ held' = [held EXCEPT ![e] = [oid |-> d.oid, version |-> d.version]]
  BY DEF FindForUpdate, Predecessor, WithKey, Handled
<1>2. /\ copies' = copies /\ nextOid' = nextOid /\ fate' = fate /\ e.kind = "update"
      /\ place[e] = "delivered" /\ place' = [place EXCEPT ![e] = "loaded"]
  BY DEF FindForUpdate, Mail!Handle, Mail!Move
<1>3. /\ place \in [Events -> Mail!Places]
      /\ held \in [Events -> Handle]
  BY DEF Inv, TypeOK, Mail!TypeOK
<1>4. OidsFresh'
  BY <1>1, <1>2, <1>3 DEF Inv, OidsFresh
<1>5. HeldPredecessor'
  BY <1>1, <1>2, <1>3 DEF Inv, HeldPredecessor, Identified
<1>6. Identified' /\ VersionMatchesContent'
  BY <1>2 DEF Inv, Identified, VersionMatchesContent
<1>7. AppliedBeforeAck'
  BY <1>2, <1>3 DEF Inv, AppliedBeforeAck
<1>8. Buried'
  BY <1>2, <1>3 DEF Inv, Buried, NoCreateUnderWay, WithKey, Mail!Settled
<1> QED
  BY <1>4, <1>5, <1>6, <1>7, <1>8

\* The save matches one document, the one that was read, and moves it one
\* version on: from the version before the event's to the event's.
LEMMA SavedDocument ==
    ASSUME Inv, NEW e \in Events, SaveUpdate(e)
    PROVE  \E d \in copies, n \in Document(Ids, Versions) :
              /\ copies' = (copies \ {d}) \cup {n}
              /\ d.key = e.id /\ d.body = e.version - 1
              /\ n.oid = d.oid /\ n.key = e.id
              /\ n.version = e.version - FirstVersion /\ n.body = e.version
<1>1. PICK d \in copies :
         /\ d.oid = held[e].oid /\ d.version = held[e].version
         /\ copies' = (copies \ {d}) \cup {[oid |-> d.oid, key |-> d.key,
                                         version |-> d.version + 1, body |-> e.version]}
  BY DEF SaveUpdate, Unmoved, Updated
<1>2. place[e] = "loaded"
  BY DEF SaveUpdate, Mail!Handle, Mail!Move
<1>3. d.key = e.id /\ d.version = e.version - Lag /\ d.body = e.version - 1
  BY <1>1, <1>2, EventTypes DEF Inv, HeldPredecessor, VersionMatchesContent
<1>4. d \in Document(Ids, Versions)
  BY DEF Inv, TypeOK
<1> DEFINE n == [oid |-> d.oid, key |-> d.key, version |-> d.version + 1, body |-> e.version]
<1>5. n \in Document(Ids, Versions) /\ n.version = e.version - FirstVersion
  BY <1>3, <1>4, EventTypes DEF Document
<1> QED
  BY <1>1, <1>3, <1>5

\* update() saves only what it read, so nothing is skipped or brought back.
LEMMA SaveStep ==
    ASSUME Inv, NEW e \in Events, SaveUpdate(e)
    PROVE  /\ OidsFresh' /\ Identified' /\ HeldPredecessor'
           /\ VersionMatchesContent' /\ AppliedBeforeAck' /\ Buried'
<1>1. PICK d \in copies, n \in Document(Ids, Versions) :
         /\ copies' = (copies \ {d}) \cup {n}
         /\ d.key = e.id /\ d.body = e.version - 1
         /\ n.oid = d.oid /\ n.key = e.id
         /\ n.version = e.version - FirstVersion /\ n.body = e.version
  BY SavedDocument
<1>2. /\ nextOid' = nextOid /\ held' = held /\ fate' = fate
      /\ place[e] = "loaded" /\ place' = [place EXCEPT ![e] = "applied"]
  BY DEF SaveUpdate, Mail!Handle, Mail!Move
<1>3. /\ place \in [Events -> Mail!Places]
      /\ copies \subseteq Document(Ids, Versions)
  BY DEF Inv, TypeOK, Mail!TypeOK
<1>4. OidsFresh' /\ Identified'
  BY <1>1, <1>2, <1>3 DEF Inv, OidsFresh, Identified
<1>5. HeldPredecessor'
  BY <1>1, <1>2, <1>3 DEF Inv, HeldPredecessor
<1>6. VersionMatchesContent'
  BY <1>1, EventTypes DEF Inv, VersionMatchesContent
<1>7. AppliedBeforeAck'
  <2> SUFFICES ASSUME NEW f \in Events, f.kind # "delete",
                      place'[f] \in {"applied", "acked"}, fate'[f.id] = "kept"
               PROVE  \E c \in copies' : c.key = f.id /\ c.body >= f.version
    BY DEF AppliedBeforeAck
  <2>1. CASE f = e
    <3>1. n \in copies' /\ n.key = f.id /\ n.body >= f.version
      BY <2>1, <1>1, EventTypes
    <3> QED
      BY <3>1
  <2>2. CASE f # e
    <3>1. PICK c \in copies : c.key = f.id /\ c.body >= f.version
      BY <2>2, <1>2 DEF Inv, AppliedBeforeAck
    <3>2. CASE c # d
      BY <3>1, <3>2, <1>1
    <3>3. CASE c = d
      <4>1. n \in copies' /\ n.key = f.id /\ n.body >= f.version
        BY <3>1, <3>3, <1>1, EventTypes
      <4> QED
        BY <4>1
    <3> QED
      BY <3>2, <3>3
  <2> QED
    BY <2>1, <2>2
<1>8. Buried'
  BY <1>1, <1>2, <1>3 DEF Inv, Buried, NoCreateUnderWay, WithKey, Mail!Settled
<1> QED
  BY <1>4, <1>5, <1>6, <1>7, <1>8

\* delete() takes the document away and settles its fate.
LEMMA DeleteStep ==
    ASSUME Inv, NEW e \in Events, Delete(e)
    PROVE  /\ OidsFresh' /\ Identified' /\ HeldPredecessor'
           /\ VersionMatchesContent' /\ AppliedBeforeAck' /\ Buried'
<1>1. /\ copies' = {d \in copies : d.key # e.id}
      /\ nextOid' = nextOid /\ held' = held /\ e.kind = "delete"
      /\ fate' = [fate EXCEPT ![e.id] = IF NoCreateUnderWay(e.id) THEN "buried" ELSE "deleted"]
  BY DEF Delete, Removed, WithKey
<1>2. /\ place \in [Events -> Mail!Places] /\ fate \in [Ids -> {"kept", "deleted", "buried"}]
      /\ place[e] = "delivered" /\ place' = [place EXCEPT ![e] = "applied"]
  BY DEF Delete, Mail!Handle, Mail!Move, Inv, TypeOK, Mail!TypeOK
<1>3. OidsFresh' /\ Identified' /\ HeldPredecessor'
  BY <1>1, <1>2 DEF Inv, OidsFresh, Identified, HeldPredecessor
<1>4. VersionMatchesContent'
  BY <1>1 DEF Inv, VersionMatchesContent
<1>5. AppliedBeforeAck'
  <2> SUFFICES ASSUME NEW f \in Events, f.kind # "delete",
                      place'[f] \in {"applied", "acked"}, fate'[f.id] = "kept"
               PROVE  \E d \in copies' : d.key = f.id /\ d.body >= f.version
    BY DEF AppliedBeforeAck
  <2>1. f.id # e.id /\ fate[f.id] = "kept" /\ place[f] \in {"applied", "acked"}
    BY <1>1, <1>2, EventTypes
  <2> QED
    BY <2>1, <1>1 DEF Inv, AppliedBeforeAck
<1>6. Buried'
  <2> SUFFICES ASSUME NEW r \in Ids, fate'[r] = "buried"
               PROVE  NoCreateUnderWay(r)' /\ WithKey(copies', r) = {}
    BY DEF Buried
  <2>1. NoCreateUnderWay(r) /\ WithKey(copies', r) = {}
    <3>1. CASE r = e.id
      BY <3>1, <1>1, <1>2 DEF WithKey
    <3>2. CASE r # e.id
      BY <3>2, <1>1, <1>2 DEF Inv, Buried, WithKey
    <3> QED
      BY <3>1, <3>2
  <2> QED
    BY <2>1, <1>1, <1>2 DEF NoCreateUnderWay, Mail!Settled
<1> QED
  BY <1>3, <1>4, <1>5, <1>6

-----------------------------------------------------------------------------
LEMMA InvStep ==
    ASSUME Inv, [Next]_vars
    PROVE  Inv'
<1>1. TypeOK'
  BY TypeStep DEF Inv
<1>2. CASE UNCHANGED vars
  BY <1>2, <1>1 DEF vars, mailVars, copyVars, Inv, TriesLeft, OidsFresh, Identified,
     HeldPredecessor, VersionMatchesContent, AppliedBeforeAck, Buried, NoCreateUnderWay, WithKey
<1>3. ASSUME NEW e \in Events, Quiet(e)
      PROVE  Inv'
  BY <1>1, <1>3, TriesStep, QuietStep DEF Inv
<1>4. ASSUME NEW e \in Events, Works(e)
      PROVE  Inv'
  <2>1. TypeOK' /\ TriesLeft'
    BY <1>1, <1>4, TriesStep DEF Inv
  <2>2. CASE Create(e)
    BY <2>1, <2>2, CreateStep DEF Inv
  <2>3. CASE FindForUpdate(e)
    BY <2>1, <2>3, FindStep DEF Inv
  <2>4. CASE SaveUpdate(e)
    BY <2>1, <2>4, SaveStep DEF Inv
  <2>5. CASE Delete(e)
    BY <2>1, <2>5, DeleteStep DEF Inv
  <2> QED
    BY <1>4, <2>2, <2>3, <2>4, <2>5 DEF Works
<1> QED
  BY <1>2, <1>3, <1>4, StepCases

\* The inductive invariant holds of every run of the handlers.
THEOREM Invariance == Spec => []Inv
BY InvInit, InvStep, PTL DEF Spec

\* The variables always have their types.
THEOREM TypeCorrect == Spec => []TypeOK
<1>1. Inv => TypeOK
  BY DEF Inv
<1> QED
  BY <1>1, Invariance, PTL

\* However the events of update() and create() are reordered, repeated or
\* raced, a stored version is the one its content was published at.
THEOREM VersionsFollowContent == Spec => []VersionMatchesContent
<1>1. Inv => VersionMatchesContent
  BY DEF Inv
<1> QED
  BY <1>1, Invariance, PTL

\* An acknowledged create or update is in the copy until a delete runs.
THEOREM AcknowledgedIsApplied == Spec => []AppliedBeforeAck
<1>1. Inv => AppliedBeforeAck
  BY DEF Inv
<1> QED
  BY <1>1, Invariance, PTL

\* No update in flight brings a deleted entity back once its create is settled.
THEOREM DeletedStaysDeleted == Spec => []NoResurrection
<1>1. Inv => NoResurrection
  BY DEF Inv, Buried, NoResurrection
<1> QED
  BY <1>1, Invariance, PTL

\* The interceptor ends the round of every event that dies in a queue of ours.
THEOREM RetriesEnd == Spec => []RetriesBounded
<1>1. Inv => RetriesBounded
  BY DEF Inv, TriesLeft, RetriesBounded
<1> QED
  BY <1>1, Invariance, PTL

-----------------------------------------------------------------------------
\* What the abstract copy sees of the events changes with Publish alone.
LEMMA SeenEvents ==
    ASSUME NEW e \in Events, place \in [Events -> Mail!Places],
           NEW to, place' = [place EXCEPT ![e] = to], to # "unpublished",
           place[e] # "unpublished"
    PROVE  Announced' = Announced /\ Retired' = Retired
<1>1. \A f \in Events : IsPublished(f)' <=> IsPublished(f)
  BY DEF IsPublished
<1> QED
  BY <1>1 DEF Announced, Retired

LEMMA PublishRefines ==
    ASSUME TypeOK, NEW e \in Events, Publish(e)
    PROVE  Copy!Next
<1>1. /\ place \in [Events -> Mail!Places]
      /\ place[e] = "unpublished" /\ place' = [place EXCEPT ![e] = "queued"]
      /\ Contents' = Contents
  BY DEF Publish, Mail!Publish, Mail!Move, TypeOK, Mail!TypeOK, Contents, copyVars
<1>2. \A f \in Events : IsPublished(f)' <=> IsPublished(f) \/ f = e
  BY <1>1 DEF IsPublished
<1>3. CASE e.kind = "delete"
  <2>1. Announced' = Announced /\ Retired' = Retired \cup {e.id}
    BY <1>2, <1>3 DEF Announced, Retired
  <2>2. Copy!Retire(e.id)
    BY <2>1, <1>1 DEF Copy!Retire
  <2> QED
    BY <2>2, EventTypes DEF Copy!Next
<1>4. CASE e.kind # "delete"
  <2>1. Announced' = Announced \cup {<<e.id, e.version>>} /\ Retired' = Retired
    BY <1>2, <1>4 DEF Announced, Retired
  <2>2. Copy!Announce(e.id, e.version)
    BY <2>1, <1>1 DEF Copy!Announce
  <2> QED
    BY <2>2, EventTypes DEF Copy!Next
<1> QED
  BY <1>3, <1>4

LEMMA CreateRefines ==
    ASSUME Inv, NEW e \in Events, Create(e)
    PROVE  Copy!Next
<1>1. /\ place \in [Events -> Mail!Places] /\ e.kind = "create" /\ e.version = FirstVersion
      /\ place[e] = "delivered" /\ place' = [place EXCEPT ![e] = "applied"]
  BY EventTypes DEF Create, Mail!Handle, Mail!Move, Inv, TypeOK, Mail!TypeOK
<1>2. Announced' = Announced /\ Retired' = Retired
  BY <1>1, SeenEvents
<1>3. <<e.id, FirstVersion>> \in Announced
  BY <1>1 DEF Announced, IsPublished
<1>4. \A v \in Versions : <<e.id, v>> \notin Contents
  BY DEF Create, WithKey, Contents
<1>5. Contents' = Contents \cup {<<e.id, FirstVersion>>}
  <2> DEFINE new == [oid |-> nextOid, key |-> e.id, version |-> 0, body |-> e.version]
  <2>1. copies' = copies \cup {new} /\ new.key = e.id /\ new.body = FirstVersion
    BY <1>1 DEF Create, Inserted
  <2> HIDE DEF new
  <2> QED
    BY <2>1 DEF Contents
<1>6. Copy!Install(e.id)
  BY <1>2, <1>3, <1>4, <1>5 DEF Copy!Install
<1> QED
  BY <1>6, EventTypes DEF Copy!Next

LEMMA SaveRefines ==
    ASSUME Inv, NEW e \in Events, SaveUpdate(e)
    PROVE  Copy!Next
<1>1. PICK d \in copies, n \in Document(Ids, Versions) :
         /\ copies' = (copies \ {d}) \cup {n}
         /\ d.key = e.id /\ d.body = e.version - 1
         /\ n.key = e.id /\ n.body = e.version
  BY SavedDocument
<1>2. /\ place \in [Events -> Mail!Places] /\ e.kind = "update"
      /\ place[e] = "loaded" /\ place' = [place EXCEPT ![e] = "applied"]
  BY DEF SaveUpdate, Mail!Handle, Mail!Move, Inv, TypeOK, Mail!TypeOK
<1>3. Announced' = Announced /\ Retired' = Retired
  BY <1>2, SeenEvents
<1>4. d.body \in Versions /\ d.body + 1 = e.version
  BY <1>1, EventTypes DEF Inv, TypeOK, Document, Versions
<1>5. <<e.id, d.body>> \in Contents
  BY <1>1 DEF Contents
<1>6. <<e.id, d.body + 1>> \in Announced
  BY <1>2, <1>4 DEF Announced, IsPublished
<1>7. Contents' = (Contents \ {<<e.id, d.body>>}) \cup {<<e.id, d.body + 1>>}
  <2>1. \A c \in copies : c.key = e.id => c = d
    BY <1>1 DEF Inv, Identified
  <2>2. {<<c.key, c.body>> : c \in copies \ {d}} = Contents \ {<<e.id, d.body>>}
    BY <2>1, <1>1 DEF Contents
  <2> QED
    BY <2>2, <1>1, <1>4 DEF Contents
<1>8. Copy!Advance(e.id, d.body)
  BY <1>3, <1>5, <1>6, <1>7 DEF Copy!Advance
<1> QED
  BY <1>4, <1>8, EventTypes DEF Copy!Next

LEMMA DeleteRefines ==
    ASSUME Inv, NEW e \in Events, Delete(e)
    PROVE  Copy!Next
<1>1. /\ place \in [Events -> Mail!Places] /\ e.kind = "delete"
      /\ place[e] = "delivered" /\ place' = [place EXCEPT ![e] = "applied"]
  BY DEF Delete, Mail!Handle, Mail!Move, Inv, TypeOK, Mail!TypeOK
<1>2. Announced' = Announced /\ Retired' = Retired
  BY <1>1, SeenEvents
<1>3. e.id \in Retired
  BY <1>1 DEF Retired, IsPublished
<1>4. Contents' = {c \in Contents : c[1] # e.id}
  BY DEF Delete, Removed, WithKey, Contents
<1>5. Copy!Remove(e.id)
  BY <1>2, <1>3, <1>4 DEF Copy!Remove
<1> QED
  BY <1>5, EventTypes DEF Copy!Next

\* Every step of the handlers is one of the abstract copy, or none.
LEMMA StepRefines ==
    ASSUME Inv, [Next]_vars
    PROVE  [Copy!Next]_<<Announced, Retired, Contents>>
<1>1. CASE UNCHANGED vars
  BY <1>1 DEF vars, mailVars, copyVars, Announced, Retired, Contents, IsPublished
<1>2. ASSUME NEW e \in Events, Quiet(e)
      PROVE  [Copy!Next]_<<Announced, Retired, Contents>>
  <2>1. CASE Publish(e)
    BY <2>1, PublishRefines DEF Inv
  <2>2. CASE ~Publish(e)
    <3>1. place[e] # "unpublished"
      BY <1>2, <2>2 DEF Quiet, Deliver, Discard, Ack, Expire, Crash, Fail,
         RejectCreate, RejectUpdate, ConflictUpdate, Mail!CheckedDeliver, Mail!Deliver,
         Mail!Discard, Mail!Ack, Mail!Expire, Mail!Crash, Mail!Fault, Mail!Handle,
         Mail!Move, Mail!Unsettled
    <3>2. PICK to \in Elsewhere : place' = [place EXCEPT ![e] = to]
      BY <1>2, QuietMoves
    <3>3. Announced' = Announced /\ Retired' = Retired
      BY <3>1, <3>2, SeenEvents DEF Elsewhere, Inv, TypeOK, Mail!TypeOK
    <3>4. Contents' = Contents
      BY <1>2, QuietMoves DEF copyVars, Contents
    <3> QED
      BY <3>3, <3>4
  <2> QED
    BY <2>1, <2>2
<1>3. ASSUME NEW e \in Events, Works(e)
      PROVE  [Copy!Next]_<<Announced, Retired, Contents>>
  <2>1. CASE FindForUpdate(e)
    <3>1. Announced' = Announced /\ Retired' = Retired
      BY <2>1, SeenEvents DEF FindForUpdate, Mail!Handle, Mail!Move, Inv, TypeOK, Mail!TypeOK
    <3>2. Contents' = Contents
      BY <2>1 DEF FindForUpdate, Contents
    <3> QED
      BY <3>1, <3>2
  <2> QED
    BY <1>3, <2>1, CreateRefines, SaveRefines, DeleteRefines DEF Works
<1> QED
  BY <1>1, <1>2, <1>3, StepCases

\* Seen from outside, the handlers keep a versioned copy of what was
\* published, whatever the broker, the crashes and the races do.
THEOREM HandlersKeepACopy == Spec => IsVersionedCopy
<1>1. Init => Copy!Init
  BY DEF Init, Copy!Init, Mail!Init, Announced, Retired, Contents, IsPublished
<1>2. Inv /\ [Next]_vars => [Copy!Next]_<<Announced, Retired, Contents>>
  BY StepRefines
<1> QED
  BY <1>1, <1>2, Invariance, PTL DEF Spec, IsVersionedCopy, Copy!Spec
=============================================================================
