----------------------------- MODULE UsersProofs ----------------------------
(***************************************************************************)
(* That the copy of the users is right.  The argument is that of           *)
(* CopyProofs, instantiated with the versions of the users service; what   *)
(* is proved here is that it applies.                                      *)
(***************************************************************************)
EXTENDS Users, TLAPS

Proofs == INSTANCE CopyProofs
    WITH Ids <- UserIds, copies <- users, FirstVersion <- 1, Lag <- VersionLag

\* The users service's versions meet the assumption of CopyService.
LEMMA AssumptionHolds == Proofs!CopyAssumption
BY UsersAssumption DEF UsersAssumption, Proofs!CopyAssumption, VersionLag

LEMMA SameEvents == Service!Events = Proofs!Events
BY DEF Service!Events, Proofs!Events, Service!Versions, Proofs!Versions

\* An operation of the service is the operation that CopyProofs is about.
LEMMA SameOperations ==
    ASSUME NEW e \in Proofs!Events
    PROVE  /\ Service!Publish(e) => Proofs!Publish(e)
           /\ Service!Deliver(e) => Proofs!Deliver(e)
           /\ Service!Discard(e) => Proofs!Discard(e)
           /\ Service!Ack(e) => Proofs!Ack(e)
           /\ Service!Expire(e) => Proofs!Expire(e)
           /\ Service!Crash(e) => Proofs!Crash(e)
           /\ Service!Fail(e) => Proofs!Fail(e)
           /\ Service!Create(e) => Proofs!Create(e)
           /\ Service!RejectCreate(e) => Proofs!RejectCreate(e)
           /\ Service!FindForUpdate(e) => Proofs!FindForUpdate(e)
           /\ Service!RejectUpdate(e) => Proofs!RejectUpdate(e)
           /\ Service!SaveUpdate(e) => Proofs!SaveUpdate(e)
           /\ Service!ConflictUpdate(e) => Proofs!ConflictUpdate(e)
           /\ Service!Delete(e) => Proofs!Delete(e)
<1> USE SameEvents DEF Service!copyVars, Proofs!copyVars, Service!WithKey, Proofs!WithKey,
     Service!Mail!Unsettled, Proofs!Mail!Unsettled, Service!Mail!Move,
     Proofs!Mail!Move, Service!Mail!Handle, Proofs!Mail!Handle
<1>1. \A k : Service!Mail!Consuming(k) = Proofs!Mail!Consuming(k)
  BY DEF Service!Mail!Consuming, Proofs!Mail!Consuming
<1>2. Service!Mail!FreeConsumer(e) = Proofs!Mail!FreeConsumer(e)
  BY <1>1 DEF Service!Mail!FreeConsumer, Proofs!Mail!FreeConsumer,
              Service!Mail!Cardinality, Proofs!Mail!Cardinality
<1>3. Service!Mail!Exhausted(e) = Proofs!Mail!Exhausted(e)
  BY DEF Service!Mail!Exhausted, Proofs!Mail!Exhausted,
         Service!Mail!HasDied, Proofs!Mail!HasDied
<1>4. Service!Publish(e) => Proofs!Publish(e)
  BY DEF Service!Publish, Proofs!Publish, Service!Published, Proofs!Published,
     Service!Mail!Publish, Proofs!Mail!Publish
<1>5. Service!Deliver(e) => Proofs!Deliver(e)
  BY <1>2, <1>3 DEF Service!Deliver, Proofs!Deliver, Service!Mail!CheckedDeliver,
     Proofs!Mail!CheckedDeliver, Service!Mail!Deliver, Proofs!Mail!Deliver
<1>6. Service!Discard(e) => Proofs!Discard(e)
  BY <1>2, <1>3 DEF Service!Discard, Proofs!Discard, Service!Mail!Discard,
     Proofs!Mail!Discard
<1>7. Service!Ack(e) => Proofs!Ack(e)
  BY DEF Service!Ack, Proofs!Ack, Service!Mail!Ack, Proofs!Mail!Ack
<1>8. Service!Expire(e) => Proofs!Expire(e)
  BY DEF Service!Expire, Proofs!Expire, Service!Mail!Expire, Proofs!Mail!Expire
<1>9. Service!Crash(e) => Proofs!Crash(e)
  BY DEF Service!Crash, Proofs!Crash, Service!Mail!Crash, Proofs!Mail!Crash
<1>10. Service!Fail(e) => Proofs!Fail(e)
  BY DEF Service!Fail, Proofs!Fail, Service!Mail!Fault, Proofs!Mail!Fault
<1>11. Service!Create(e) => Proofs!Create(e)
  BY DEF Service!Create, Proofs!Create, Service!Inserted, Proofs!Inserted
<1>12. Service!RejectCreate(e) => Proofs!RejectCreate(e)
  BY DEF Service!RejectCreate, Proofs!RejectCreate
<1>13. Service!FindForUpdate(e) => Proofs!FindForUpdate(e)
  BY DEF Service!FindForUpdate, Proofs!FindForUpdate, Service!Predecessor,
     Proofs!Predecessor, Service!Handled, Proofs!Handled
<1>14. Service!RejectUpdate(e) => Proofs!RejectUpdate(e)
  BY DEF Service!RejectUpdate, Proofs!RejectUpdate, Service!Predecessor,
     Proofs!Predecessor
<1>15. Service!SaveUpdate(e) => Proofs!SaveUpdate(e)
  BY DEF Service!SaveUpdate, Proofs!SaveUpdate, Service!Unmoved, Proofs!Unmoved,
     Service!Updated, Proofs!Updated
<1>16. Service!ConflictUpdate(e) => Proofs!ConflictUpdate(e)
  BY DEF Service!ConflictUpdate, Proofs!ConflictUpdate, Service!Unmoved, Proofs!Unmoved
<1>17. Service!Delete(e) => Proofs!Delete(e)
  BY DEF Service!Delete, Proofs!Delete, Service!NoCreateUnderWay, Proofs!NoCreateUnderWay,
     Service!Mail!Settled, Proofs!Mail!Settled, Service!Removed, Proofs!Removed
<1> QED
  BY <1>4, <1>5, <1>6, <1>7, <1>8, <1>9, <1>10, <1>11, <1>12, <1>13, <1>14, <1>15, <1>16, <1>17

LEMMA SameStep ==
    ASSUME [Next]_vars
    PROVE  [Proofs!Next]_Proofs!vars
<1>1. CASE UNCHANGED vars
  BY <1>1 DEF vars, Service!vars, Service!mailVars, Service!copyVars,
              Proofs!vars, Proofs!mailVars, Proofs!copyVars
<1>2. CASE Next
  <2>1. PICK e \in Proofs!Events :
           Consume(e) \/ Service!Publish(e) \/ Service!Crash(e) \/ Service!Fail(e)
    BY <1>2, SameEvents DEF Next
  <2>2. Consume(e) => Proofs!Consume(e)
    BY SameOperations DEF Consume, Create, Update, Delete, Service!Update, Service!Queue,
       Proofs!Consume, Proofs!Update, Proofs!Queue
  <2> QED
    BY <2>1, <2>2, SameOperations DEF Proofs!Next
<1> QED
  BY <1>1, <1>2

LEMMA SameSpec == Spec => Proofs!Spec
<1>1. Init => Proofs!Init
  BY SameEvents DEF Init, Service!Init, Proofs!Init, Service!Mail!Init, Proofs!Mail!Init,
     Service!NoHandle, Proofs!NoHandle
<1> QED
  BY <1>1, SameStep, PTL DEF Spec, Proofs!Spec

\* The local counter of a user stays one behind the version that the stored
\* name and avatar were published at.
THEOREM UsersOneBehind == Spec => []OneBehindUpstream
<1>1. Proofs!Spec => []Proofs!VersionMatchesContent
  BY AssumptionHolds, Proofs!VersionsFollowContent
<1>2. Proofs!Spec => []Proofs!TypeOK
  BY AssumptionHolds, Proofs!TypeCorrect
<1>3. Proofs!VersionMatchesContent /\ Proofs!TypeOK => OneBehindUpstream
  BY DEF Proofs!VersionMatchesContent, Proofs!TypeOK, Proofs!Document, OneBehindUpstream
<1> QED
  BY <1>1, <1>2, <1>3, SameSpec, PTL

\* What the abstract copy sees of the users service is what it sees in CopyProofs.
LEMMA SameView ==
    /\ Service!Announced = Proofs!Announced /\ Service!Announced' = Proofs!Announced'
    /\ Service!Retired = Proofs!Retired /\ Service!Retired' = Proofs!Retired'
    /\ Service!Contents = Proofs!Contents /\ Service!Contents' = Proofs!Contents'
BY SameEvents DEF Service!Announced, Proofs!Announced, Service!Retired, Proofs!Retired,
   Service!Contents, Proofs!Contents, Service!IsPublished, Proofs!IsPublished

LEMMA SameCopyStep ==
    ASSUME [Proofs!Copy!Next]_<<Proofs!Announced, Proofs!Retired, Proofs!Contents>>
    PROVE  [Service!Copy!Next]_<<Service!Announced, Service!Retired, Service!Contents>>
BY SameView DEF Service!Copy!Next, Proofs!Copy!Next, Service!Copy!Announce,
   Proofs!Copy!Announce, Service!Copy!Retire, Proofs!Copy!Retire, Service!Copy!Install,
   Proofs!Copy!Install, Service!Copy!Advance, Proofs!Copy!Advance, Service!Copy!Remove,
   Proofs!Copy!Remove, Service!Versions, Proofs!Versions

\* The handlers of the users service keep a versioned copy of the users.
THEOREM UsersKeepACopy == Spec => IsVersionedCopy
<1>1. Proofs!Spec => Proofs!IsVersionedCopy
  BY AssumptionHolds, Proofs!HandlersKeepACopy
<1>2. Proofs!Copy!Init => Service!Copy!Init
  BY SameView DEF Service!Copy!Init, Proofs!Copy!Init
<1> QED
  BY <1>1, <1>2, SameCopyStep, SameSpec, PTL
     DEF IsVersionedCopy, Service!IsVersionedCopy, Proofs!IsVersionedCopy,
         Service!Copy!Spec, Proofs!Copy!Spec
=============================================================================
