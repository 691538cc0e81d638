--------------------------- MODULE ChannelsProofs ---------------------------
(***************************************************************************)
(* That an acceptance makes at most one channel at a time, and that no     *)
(* call returns before its channel is announced, for any users, requests,  *)
(* relationships, consumers, crashes and failures.                         *)
(***************************************************************************)
EXTENDS Channels, TLAPS

\* A channel has the list that its maker asked for.
AskedFor == \A ch \in channels : ch.users = Asked(ch.by).users

\* Who has searched in vain has no channel: its own would have been found.
SearchedInVain ==
    \A c \in Callers : step[c] = "searched" => \A ch \in channels : ch.by # c

\* Nor has a request that has not searched yet: it is made once.
NotYetMade ==
    \A r \in Requests : step[r] \in {"idle", "called"} => \A ch \in channels : ch.by # r

\* Who has saved knows the _id.
SavedMade ==
    \A c \in Callers : step[c] = "saved" =>
        made[c] # 0 /\ \A ch \in channels : ch.by = c => ch.oid = made[c]

\* A handler is at work on an event that is in its hands.
InHand == \A e \in Events : step[e] # "idle" => place[e] = "delivered"

Inv ==
    /\ TypeOK
    /\ InHand
    /\ AskedFor
    /\ SearchedInVain
    /\ NotYetMade
    /\ SavedMade
    /\ OneChannelPerAcceptance
    /\ ReturnedIsAnnounced

-----------------------------------------------------------------------------
\* Steps that change no document and tell nobody of one.
Quiet ==
    \/ \E c \in Callers : Refuse(c) \/ RefuseExisting(c) \/ Search(c) \/ Fail(c)
    \/ \E r \in Requests : Request(r)
    \/ \E e \in Events : \/ Publish(e) \/ Ack(e) \/ Expire(e) \/ Crash(e)
                         \/ Deliver(e) \/ FindForDelete(e) \/ FailDelete(e)

LEMMA CallTypes ==
    /\ Callers \subseteq Calls /\ Events \subseteq Calls /\ Requests \subseteq Calls
    /\ Callers = Requests \cup Accepts
    /\ Accepts \subseteq Events /\ Deletes \subseteq Events
    /\ Requests \cap Events = {} /\ Callers \cap Deletes = {}
BY ChannelsAssumption DEF Callers, Calls, Accepts, Deletes

LEMMA StepCases ==
    ASSUME Next
    PROVE  \/ Quiet
           \/ \E c \in Callers : Save(c) \/ Announce(c)
           \/ \E e \in Events : DeleteOne(e)
BY DEF Next, CreateUserChannel, HandleDelete, Consume, Quiet

\* The places of the events and the steps of the calls have their types, and
\* belong together.
CallsInOrder ==
    /\ Mail!TypeOK
    /\ step \in [Calls -> {"idle", "called", "searched", "saved", "done", "failed"}]
    /\ InHand

\* The end of a call: it neither searches nor saves any more.
LEMMA FinishStep ==
    ASSUME CallsInOrder, NEW c \in Calls, NEW outcome \in {"applied", "parked"},
           Finish(c, outcome)
    PROVE  /\ CallsInOrder'
           /\ step'[c] = IF c \in Requests THEN "done" ELSE "idle"
           /\ c \in Events => place'[c] = outcome
           /\ \A b \in Calls : b # c => step'[b] = step[b]
           /\ \A e \in Events : e # c => place'[e] = place[e]
<1> USE CallTypes DEF CallsInOrder, InHand, Finish, mailVars, Mail!TypeOK, Mail!Places,
        Mail!Unsettled, Mail!Settled, Mail!Handle, Mail!Move
<1>1. CASE c \in Requests
  BY <1>1
<1>2. CASE c \notin Requests
  BY <1>2 DEF Calls
<1> QED
  BY <1>1, <1>2

\* What a quiet step does: the documents stay, whoever goes on to save has found
\* no channel, and no call that may have saved one returns.
Undisturbed ==
    /\ CallsInOrder'
    /\ UNCHANGED <<storeVars, body, made>>
    /\ \A c \in Callers : step'[c] = "searched" => step[c] = "searched" \/ ~Found(c)
    /\ \A c \in Callers : step'[c] = "saved" => step[c] = "saved"
    /\ \A r \in Requests : step'[r] \in {"idle", "called"} => step[r] \in {"idle", "called"}
    /\ \A r \in Requests : step'[r] = "done" => step[r] \in {"called", "done"}
    /\ \A a \in Accepts : place'[a] \in {"applied", "acked"} => place[a] \in {"applied", "acked"}

LEMMA QuietMoves == ASSUME CallsInOrder, Quiet PROVE Undisturbed
<1> USE CallTypes, ChannelsAssumption
        DEF storeVars, callVars, mailVars, Undisturbed
<1>1. ASSUME NEW c \in Callers, Refuse(c) \/ RefuseExisting(c)
      PROVE  Undisturbed
  <2>1. Finish(c, "parked")
    BY <1>1 DEF Refuse, RefuseExisting, Throw
  <2>2. step[c] = "called" /\ UNCHANGED <<storeVars, body, made>>
    BY <1>1 DEF Refuse, RefuseExisting, Called
  <2> QED
    BY <2>1, <2>2, FinishStep
<1>2. ASSUME NEW c \in Callers, Search(c)
      PROVE  Undisturbed
  BY <1>2 DEF Search, Called, CallsInOrder, InHand, Mail!TypeOK
<1>3. ASSUME NEW r \in Requests, Request(r)
      PROVE  Undisturbed
  BY <1>3 DEF Request, CallsInOrder, InHand, Mail!TypeOK
<1> USE DEF CallsInOrder, InHand, Mail!TypeOK, Mail!Places, Mail!Unsettled, Mail!Settled,
        Mail!Move, Forget
<1>4. ASSUME NEW c \in Callers, Fail(c)
      PROVE  Undisturbed
  <2>1. CASE c \in Requests
    BY <1>4, <2>1 DEF Fail
  <2>2. CASE c \notin Requests
    BY <1>4, <2>2 DEF Fail, Mail!Fault
  <2> QED
    BY <2>1, <2>2
<1>5. ASSUME NEW e \in Events, Publish(e) \/ Ack(e) \/ Expire(e)
      PROVE  Undisturbed
  BY <1>5 DEF Publish, Ack, Expire, Mail!Publish, Mail!Ack, Mail!Expire
<1>6. ASSUME NEW e \in Events, Crash(e)
      PROVE  Undisturbed
  BY <1>6 DEF Crash, Mail!Crash
<1>7. ASSUME NEW e \in Events, Deliver(e)
      PROVE  Undisturbed
  <2>1. CASE Accept(e) \/ Delete(e)
    BY <2>1 DEF Accept, Delete, Mail!Deliver
  <2>2. CASE Ignore(e)
    <3>1. e \notin Accepts
      BY <2>2 DEF Ignore, Accepts
    <3> QED
      BY <2>2, <3>1 DEF Ignore, Mail!Handle
  <2> QED
    BY <1>7, <2>1, <2>2 DEF Deliver
<1>8. ASSUME NEW e \in Events, FailDelete(e)
      PROVE  Undisturbed
  BY <1>8 DEF FailDelete, Mail!Fault
<1>9. ASSUME NEW e \in Events, FindForDelete(e)
      PROVE  Undisturbed
  <2>1. e \in Deletes /\ step[e] = "called" /\ UNCHANGED <<storeVars, body, made>>
    BY <1>9 DEF FindForDelete
  <2>2. CASE Matching(DeletedList(e)) # {}
    BY <1>9, <2>1, <2>2 DEF FindForDelete
  <2>3. CASE Matching(DeletedList(e)) = {}
    <3>1. Finish(e, "applied")
      BY <1>9, <2>3 DEF FindForDelete, Return
    <3> QED
      BY <2>1, <3>1, FinishStep
  <2> QED
    BY <2>2, <2>3
<1> QED
  BY <1>1, <1>2, <1>3, <1>4, <1>5, <1>6, <1>7, <1>8, <1>9 DEF Quiet

LEMMA QuietStep == ASSUME Inv, Undisturbed PROVE Inv'
<1>1. /\ channels' = channels /\ nextOid' = nextOid /\ announced' = announced
      /\ body' = body /\ made' = made /\ CallsInOrder'
  BY DEF Undisturbed, storeVars
<1>2. TypeOK' /\ InHand'
  BY <1>1 DEF Inv, TypeOK, CallsInOrder
<1>3. AskedFor' /\ OneChannelPerAcceptance'
  BY <1>1 DEF Inv, AskedFor, OneChannelPerAcceptance, Asked
<1>4. SearchedInVain' /\ NotYetMade' /\ SavedMade'
  BY <1>1 DEF Inv, SearchedInVain, NotYetMade, SavedMade, AskedFor, Undisturbed, Found,
              Matching
<1>5. ReturnedIsAnnounced'
  BY <1>1 DEF Inv, TypeOK, ReturnedIsAnnounced, Returned, Callers, NotYetMade, Undisturbed
<1> QED
  BY <1>2, <1>3, <1>4, <1>5 DEF Inv

-----------------------------------------------------------------------------
LEMMA AskedTypes == ASSUME TypeOK, NEW c \in Callers PROVE Asked(c) \in Args
<1>1. CASE c \in Requests
  BY <1>1 DEF TypeOK, Asked
<1>2. CASE c \notin Requests
  <2>1. c \in Accepts /\ c.between \in Users \X Users
    BY <1>2, ChannelsAssumption DEF Callers, Accepts, Events
  <2> QED
    BY <1>2, <2>1 DEF Asked, ReceiverFirst, Args, Lists
<1> QED
  BY <1>1, <1>2

\* A save adds the one channel of its caller.
LEMMA SaveStep == ASSUME Inv, NEW c \in Callers, Save(c) PROVE Inv'
<1> DEFINE new == [oid |-> nextOid, users |-> Asked(c).users, by |-> c]
<1>1. /\ channels' = channels \cup {new} /\ nextOid' = nextOid + 1
      /\ made' = [made EXCEPT ![c] = nextOid] /\ step[c] = "searched"
      /\ step' = [step EXCEPT ![c] = "saved"]
      /\ UNCHANGED <<mailVars, announced, body>>
  BY DEF Save
<1>2. /\ step'[c] = "saved" /\ \A b \in Calls : b # c => step'[b] = step[b]
      /\ made'[c] = nextOid /\ \A b \in Callers : b # c => made'[b] = made[b]
  BY <1>1, CallTypes DEF Inv, TypeOK
<1>3. TypeOK'
  <2>1. Mail!TypeOK' /\ body' \in [Requests -> Args]
    BY <1>1 DEF Inv, TypeOK, mailVars, Mail!TypeOK
  <2>2. nextOid \in Nat \ {0}
    BY DEF Inv, TypeOK
  <2>3. new \in [oid : 1..nextOid' - 1, users : Lists, by : Callers]
    BY <1>1, <2>2, AskedTypes DEF Inv, Args
  <2>4. /\ channels \subseteq [oid : 1..nextOid' - 1, users : Lists, by : Callers]
        /\ announced' \subseteq 1..nextOid' - 1
        /\ made' \in [Callers -> 0..nextOid' - 1]
    BY <1>1, <2>2 DEF Inv, TypeOK
  <2> QED
    BY <1>1, <2>1, <2>2, <2>3, <2>4, CallTypes DEF Inv, TypeOK
<1>4. InHand'
  BY <1>1, <1>2, CallTypes DEF Inv, InHand, mailVars
<1>5. AskedFor' /\ SearchedInVain' /\ NotYetMade' /\ SavedMade'
  BY <1>1, <1>2, CallTypes
     DEF Inv, TypeOK, AskedFor, SearchedInVain, NotYetMade, SavedMade, Asked
<1>6. OneChannelPerAcceptance'
  BY <1>1 DEF Inv, OneChannelPerAcceptance, SearchedInVain
<1>7. ReturnedIsAnnounced'
  <2>1. place' = place /\ ~Returned(c)'
    BY <1>1, <1>2, CallTypes DEF Inv, InHand, mailVars, Returned
  <2>2. \A ch \in channels : Returned(ch.by)' => Returned(ch.by)
    BY <1>2, <2>1, CallTypes DEF Inv, TypeOK, Returned
  <2> QED
    BY <1>1, <2>1, <2>2 DEF Inv, ReturnedIsAnnounced
<1> QED
  BY <1>3, <1>4, <1>5, <1>6, <1>7 DEF Inv

\* A call that announces tells of the channel it has made.
LEMMA AnnounceStep == ASSUME Inv, NEW c \in Callers, Announce(c) PROVE Inv'
<1>1. /\ channels' = channels /\ nextOid' = nextOid /\ made' = made /\ body' = body
      /\ announced' = announced \cup {made[c]} /\ step[c] = "saved"
      /\ Finish(c, "applied")
  BY DEF Announce, Return
<1>2. /\ CallsInOrder' /\ step'[c] = IF c \in Requests THEN "done" ELSE "idle"
      /\ \A b \in Calls : b # c => step'[b] = step[b]
      /\ \A b \in Events : b # c => place'[b] = place[b]
  BY <1>1, FinishStep, CallTypes DEF Inv, TypeOK, CallsInOrder
<1>3. TypeOK' /\ InHand'
  <2>1. made[c] \in 1..nextOid - 1
    BY <1>1 DEF Inv, TypeOK, SavedMade
  <2> QED
    BY <1>1, <1>2, <2>1 DEF Inv, TypeOK, CallsInOrder
<1>4. AskedFor' /\ SearchedInVain' /\ NotYetMade' /\ SavedMade' /\ OneChannelPerAcceptance'
  <2>1. \A b \in Callers : step'[b] \in {"searched", "saved"} => step'[b] = step[b]
    BY <1>2, CallTypes
  <2>2. \A r \in Requests : step'[r] \in {"idle", "called"} => step'[r] = step[r]
    BY <1>1, <1>2, CallTypes
  <2> QED
    BY <1>1, <2>1, <2>2, CallTypes
       DEF Inv, AskedFor, SearchedInVain, NotYetMade, SavedMade, OneChannelPerAcceptance, Asked
<1>5. ReturnedIsAnnounced'
  <2>1. ASSUME NEW ch \in channels, ch.by = c
        PROVE  ch.oid \in announced'
    BY <1>1, <2>1 DEF Inv, SavedMade
  <2>2. \A b \in Callers : b # c /\ Returned(b)' => Returned(b)
    BY <1>2, CallTypes DEF Returned
  <2> QED
    BY <1>1, <2>1, <2>2 DEF Inv, TypeOK, ReturnedIsAnnounced
<1> QED
  BY <1>3, <1>4, <1>5 DEF Inv

\* A delete takes a channel away, whoever has made it.
LEMMA DeleteStep == ASSUME Inv, NEW e \in Events, DeleteOne(e) PROVE Inv'
<1>1. /\ channels' \subseteq channels
      /\ UNCHANGED <<nextOid, announced, body, made>>
      /\ e \in Deletes /\ step[e] = "searched" /\ Finish(e, "applied")
  BY DEF DeleteOne, Return
<1>2. /\ CallsInOrder' /\ step'[e] = "idle"
      /\ \A b \in Calls : b # e => step'[b] = step[b]
      /\ \A b \in Events : b # e => place'[b] = place[b]
  BY <1>1, FinishStep, CallTypes DEF Inv, TypeOK, CallsInOrder
<1>3. TypeOK' /\ InHand'
  BY <1>1, <1>2 DEF Inv, TypeOK, CallsInOrder
<1>4. AskedFor' /\ SearchedInVain' /\ NotYetMade' /\ SavedMade' /\ OneChannelPerAcceptance'
  <2>1. \A b \in Callers : step'[b] \in {"searched", "saved"} => step'[b] = step[b]
    BY <1>2, CallTypes
  <2>2. \A r \in Requests : step'[r] \in {"idle", "called"} => step'[r] = step[r]
    BY <1>1, <1>2, CallTypes
  <2> QED
    BY <1>1, <2>1, <2>2, CallTypes
       DEF Inv, AskedFor, SearchedInVain, NotYetMade, SavedMade, OneChannelPerAcceptance, Asked
<1>5. ReturnedIsAnnounced'
  <2>1. \A b \in Callers : Returned(b)' => Returned(b)
    BY <1>1, <1>2, CallTypes DEF Returned
  <2> QED
    BY <1>1, <2>1 DEF Inv, TypeOK, ReturnedIsAnnounced
<1> QED
  BY <1>3, <1>4, <1>5 DEF Inv

-----------------------------------------------------------------------------
LEMMA InvInit == ASSUME Init PROVE Inv
BY CallTypes, ChannelsAssumption
   DEF Init, Inv, TypeOK, Mail!Init, Mail!TypeOK, Mail!Places, InHand, AskedFor,
       SearchedInVain, NotYetMade, SavedMade, OneChannelPerAcceptance,
       ReturnedIsAnnounced

LEMMA InvStep == ASSUME Inv, [Next]_vars PROVE Inv'
<1>1. CallsInOrder
  BY DEF Inv, TypeOK, CallsInOrder
<1>2. CASE UNCHANGED vars
  <2>1. Undisturbed
    BY <1>1, <1>2 DEF vars, mailVars, storeVars, callVars, Undisturbed, CallsInOrder,
                      InHand, Mail!TypeOK
  <2> QED
    BY <2>1, QuietStep
<1>3. CASE Quiet
  BY <1>1, <1>3, QuietMoves, QuietStep
<1> QED
  BY <1>2, <1>3, SaveStep, AnnounceStep, DeleteStep, StepCases

\* The inductive invariant holds of every run.
THEOREM Invariance == Spec => []Inv
BY InvInit, InvStep, PTL DEF Spec

\* The variables always have their types.
THEOREM TypeCorrect == Spec => []TypeOK
<1>1. Inv => TypeOK
  BY DEF Inv
<1> QED
  BY <1>1, Invariance, PTL

\* However often an accepted relationship is delivered, crashed on and retried,
\* there is one channel of its making at a time.
THEOREM OneAcceptanceOneChannel == Spec => []OneChannelPerAcceptance
<1>1. Inv => OneChannelPerAcceptance
  BY DEF Inv
<1> QED
  BY <1>1, Invariance, PTL

\* Whatever fails and is retried, no call returns and leaves a channel of its
\* making that nobody is told of.
THEOREM ReturnedAreAnnounced == Spec => []ReturnedIsAnnounced
<1>1. Inv => ReturnedIsAnnounced
  BY DEF Inv
<1> QED
  BY <1>1, Invariance, PTL
=============================================================================
