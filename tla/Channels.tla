------------------------------ MODULE Channels ------------------------------
(***************************************************************************)
(* The private channels of ChannelsService: createUserChannel() called by  *)
(* requests and by the handler of accepted relationships, and the handler  *)
(* of deleted ones.  Neither handler is behind the retry interceptor.      *)
(* Each relationship event is one message; that another service's copy of  *)
(* it may come from the shared dead letter exchange is left out.           *)
(***************************************************************************)
EXTENDS Naturals, FiniteSets, Functions

CONSTANTS Users,
          Requests,       \* bound: the requests, each made once
          Relationships,  \* pairs <<creator, receiver>>
          Replicas, MaxDeaths, MaxCrashes, MaxFaults

VARIABLES place, deaths, crashes, faults,
          channels,   \* the documents of the collection
          nextOid,    \* the next fresh _id
          step,       \* step[c]: how far the call or handler c has come
          body,       \* body[r]: who asks for which users in request r
          made,       \* made[c]: the _id of the document c has saved, or 0
          announced   \* the _ids for which channel.create was published

\* What a relationship event says; it is pending until it is accepted.
Events ==
    [kind : {"update"}, status : {"pending", "accepted"},
     between : Relationships, origin : {"own"}]
    \cup [kind : {"delete"}, status : {"accepted"},
          between : Relationships, origin : {"own"}]

Accepts == {e \in Events : e.kind = "update" /\ e.status = "accepted"}
Deletes == {e \in Events : e.kind = "delete"}
Callers == Requests \cup Accepts
Calls   == Requests \cup Events

ASSUME ChannelsAssumption ==
    /\ Relationships \subseteq Users \X Users
    /\ MaxDeaths \in Nat /\ MaxCrashes \in Nat /\ MaxFaults \in Nat
    /\ Requests \cap Events = {}

\* The body of a request is a list of at least two users.
Lists == [1..2 -> Users]
Args  == [asker : Users, users : Lists]

\* The retry count is never read: no interceptor guards these queues.
Mail == INSTANCE Delivery WITH RetryCount <- 1

mailVars == <<place, deaths, crashes, faults>>
storeVars == <<channels, nextOid, announced>>
callVars == <<step, body, made>>
vars == <<mailVars, storeVars, callVars>>

Init ==
    /\ Mail!Init
    /\ channels = {}
    /\ nextOid = 1
    /\ announced = {}
    /\ step = [c \in Calls |-> "idle"]
    /\ body \in [Requests -> Args]
    /\ made = [c \in Callers |-> 0]

\* Upstream deletes a relationship after it was accepted.
Publish(e) ==
    /\ e \in Deletes => \E a \in Accepts : /\ a.between = e.between
                                           /\ place[a] # "unpublished"
    /\ Mail!Publish(e)
    /\ UNCHANGED <<storeVars, callVars>>

Ack(e)    == Mail!Ack(e) /\ UNCHANGED <<storeVars, callVars>>
Expire(e) == Mail!Expire(e) /\ UNCHANGED <<storeVars, callVars>>

Forget(c) == step' = [step EXCEPT ![c] = "idle"]

Crash(e) == Mail!Crash(e) /\ Forget(e) /\ UNCHANGED <<storeVars, body, made>>

\* How a call ends: a response or an exception; the relationship handler
\* turns them into an acknowledgement and a Nack.
Finish(c, outcome) ==
    /\ step' = [step EXCEPT ![c] = IF c \in Requests THEN "done" ELSE "idle"]
    /\ IF c \in Requests THEN UNCHANGED mailVars
       ELSE Mail!Handle(c, "delivered", outcome)

Return(c) == Finish(c, "applied")
Throw(c)  == Finish(c, "parked")

-----------------------------------------------------------------------------
\* POST /me: any user asks for a channel between any users (body, from Init on).
Request(r) ==
    /\ r \in Requests
    /\ step[r] = "idle"
    /\ step' = [step EXCEPT ![r] = "called"]
    /\ UNCHANGED <<mailVars, storeVars, body, made>>

\* handleRelationshipCreate(): the receiver comes first.
ReceiverFirst(e) == [asker |-> e.between[1], users |-> <<e.between[2], e.between[1]>>]

Accept(e) ==
    /\ e \in Accepts
    /\ Mail!Deliver(e)
    /\ step' = [step EXCEPT ![e] = "called"]
    /\ UNCHANGED <<storeVars, body, made>>

\* A status other than accepted is acknowledged and nothing else.
Ignore(e) ==
    /\ e.kind = "update" /\ e.status # "accepted"
    /\ Mail!FreeConsumer(e)
    /\ Mail!Handle(e, "queued", "applied")
    /\ UNCHANGED <<storeVars, callVars>>

-----------------------------------------------------------------------------
\* createUserChannel(), step by step from await to await.
Asked(c) == IF c \in Requests THEN body[c] ELSE ReceiverFirst(c)

Called(c) == c \in Callers /\ step[c] = "called"

Valid(a) == a.asker \in Range(a.users) /\ IsInjective(a.users)

Matching(users) == {ch \in channels : ch.users = users}

Refuse(c) ==
    /\ Called(c)
    /\ ~Valid(Asked(c))
    /\ Throw(c)
    /\ UNCHANGED <<storeVars, body, made>>

\* Mutant: an existing channel is not looked for.
FoundNever(c) == FALSE

Found(c) == Matching(Asked(c).users) # {}

RefuseExisting(c) ==
    /\ Called(c)
    /\ Valid(Asked(c))
    /\ Found(c)
    /\ Throw(c)
    /\ UNCHANGED <<storeVars, body, made>>

Search(c) ==
    /\ Called(c)
    /\ Valid(Asked(c))
    /\ ~Found(c)
    /\ step' = [step EXCEPT ![c] = "searched"]
    /\ UNCHANGED <<mailVars, storeVars, body, made>>

Save(c) ==
    /\ c \in Callers /\ step[c] = "searched"
    /\ channels' = channels \cup {[oid |-> nextOid, users |-> Asked(c).users, by |-> c]}
    /\ nextOid' = nextOid + 1
    /\ made' = [made EXCEPT ![c] = nextOid]
    /\ step' = [step EXCEPT ![c] = "saved"]
    /\ UNCHANGED <<mailVars, announced, body>>

\* Mutants: the event is not published; it names the channel to come.
AnnounceSilent(c) ==
    /\ c \in Callers /\ step[c] = "saved"
    /\ Return(c)
    /\ UNCHANGED <<storeVars, body, made>>

AnnounceNext(c) ==
    /\ c \in Callers /\ step[c] = "saved"
    /\ announced' = announced \cup {nextOid}
    /\ Return(c)
    /\ UNCHANGED <<channels, nextOid, body, made>>

\* populate() and publish(), then the call returns.
Announce(c) ==
    /\ c \in Callers /\ step[c] = "saved"
    /\ announced' = announced \cup {made[c]}
    /\ Return(c)
    /\ UNCHANGED <<channels, nextOid, body, made>>

\* Mutant: the handler swallows the exception.
FailAcked(c) ==
    /\ c \in Callers /\ step[c] \in {"called", "searched", "saved"}
    /\ IF c \in Requests
       THEN /\ faults < MaxFaults /\ faults' = faults + 1
            /\ UNCHANGED <<place, deaths, crashes>>
            /\ step' = [step EXCEPT ![c] = "failed"]
       ELSE Mail!Fault(c, "applied") /\ Forget(c)
    /\ UNCHANGED <<storeVars, body, made>>

\* A database call fails: the request is answered with an error (as it is when
\* its pod dies), the relationship is nacked.
Fail(c) ==
    /\ c \in Callers /\ step[c] \in {"called", "searched", "saved"}
    /\ IF c \in Requests
       THEN /\ faults < MaxFaults /\ faults' = faults + 1
            /\ UNCHANGED <<place, deaths, crashes>>
            /\ step' = [step EXCEPT ![c] = "failed"]
       ELSE Mail!Fault(c, "parked") /\ Forget(c)
    /\ UNCHANGED <<storeVars, body, made>>

-----------------------------------------------------------------------------
\* handleRelationshipDelete(): the creator comes first.
DeletedList(e) == <<e.between[1], e.between[2]>>

Delete(e) ==
    /\ e \in Deletes
    /\ Mail!Deliver(e)
    /\ step' = [step EXCEPT ![e] = "called"]
    /\ UNCHANGED <<storeVars, body, made>>

\* Mutant: where there is nothing to delete the handler does not return.
FindForDeleteStuck(e) ==
    /\ e \in Deletes /\ step[e] = "called"
    /\ Matching(DeletedList(e)) # {}
    /\ step' = [step EXCEPT ![e] = "searched"]
    /\ UNCHANGED <<mailVars, storeVars, body, made>>

FindForDelete(e) ==
    /\ e \in Deletes /\ step[e] = "called"
    /\ IF Matching(DeletedList(e)) # {}
       THEN step' = [step EXCEPT ![e] = "searched"] /\ UNCHANGED mailVars
       ELSE Return(e)
    /\ UNCHANGED <<storeVars, body, made>>

\* deleteOne(): one of the channels that match by now, if any.
DeleteOne(e) ==
    /\ e \in Deletes /\ step[e] = "searched"
    /\ \/ \E ch \in Matching(DeletedList(e)) : channels' = channels \ {ch}
       \/ Matching(DeletedList(e)) = {} /\ UNCHANGED channels
    /\ Return(e)
    /\ UNCHANGED <<nextOid, announced, body, made>>

\* No catch block here: the subscriber puts the event back in its queue.
FailDelete(e) ==
    /\ e \in Deletes /\ step[e] \in {"called", "searched"}
    /\ Mail!Fault(e, "queued")
    /\ Forget(e)
    /\ UNCHANGED <<storeVars, body, made>>

-----------------------------------------------------------------------------
CreateUserChannel(c) ==
    Refuse(c) \/ RefuseExisting(c) \/ Search(c) \/ Save(c) \/ Announce(c)

HandleDelete(e) == FindForDelete(e) \/ DeleteOne(e)

Deliver(e) == Accept(e) \/ Ignore(e) \/ Delete(e)

Consume(e) == Ack(e) \/ Expire(e) \/ HandleDelete(e)

Next ==
    \/ \E c \in Callers : CreateUserChannel(c) \/ Fail(c)
    \/ \E r \in Requests : Request(r)
    \/ \E e \in Events : Publish(e) \/ Crash(e) \/ Deliver(e) \/ Consume(e) \/ FailDelete(e)

Spec == Init /\ [][Next]_vars

\* Calls go on, parked events expire, and a queue serves everyone in turn: an
\* event is not passed over for ever by those that come back.
FairSpec ==
    /\ Spec
    /\ \A c \in Callers : WF_vars(CreateUserChannel(c))
    /\ \A e \in Events : WF_vars(Consume(e)) /\ SF_vars(Deliver(e))

-----------------------------------------------------------------------------
\* The variables have their types.
TypeOK ==
    /\ Mail!TypeOK
    /\ channels \subseteq [oid : 1..nextOid - 1, users : Lists, by : Callers]
    /\ nextOid \in Nat \ {0}
    /\ announced \subseteq 1..nextOid - 1
    /\ step \in [Calls -> {"idle", "called", "searched", "saved", "done", "failed"}]
    /\ body \in [Requests -> Args]
    /\ made \in [Callers -> 0..nextOid - 1]

\* However often the message of an accepted relationship is redelivered or
\* retried, there is at most one channel that it has made.
OneChannelPerAcceptance ==
    \A c, d \in channels : c.by = d.by => c = d

\* A request was answered without an error, an event is handled for good.
Returned(c) == IF c \in Requests THEN step[c] = "done" ELSE place[c] \in {"applied", "acked"}

\* Whatever fails, at whatever step and retried how often: the channel of a call
\* that has returned is announced.  One that nobody was told of belongs to a
\* request that failed, or to an acceptance that is still at work or coming back.
ReturnedIsAnnounced ==
    \A ch \in channels : Returned(ch.by) => ch.oid \in announced

\* A delete is acknowledged in the end, though nothing bounds its retries but
\* that calls stop failing.
DeletesSettle == \A e \in Deletes : place[e] = "queued" ~> place[e] = "acked"

\* An accepted relationship gets its channel, whatever fails on the way.
AcceptedHasChannel ==
    \A e \in Accepts :
        place[e] = "queued" ~>
            \E ch \in channels : ch.users = <<e.between[2], e.between[1]>>

\* "Channel between these users already created": there are no two channels
\* with the same list of users.
OneChannelPerList ==
    \A c, d \in channels : c.users = d.users => c = d

\* "channel has been deleted": once the delete of a relationship is handled,
\* the channel that its acceptance made is gone.
DeletedChannelGone ==
    \A e \in Deletes : place[e] \in {"applied", "acked"} =>
        ~\E ch \in channels : /\ ch.by \in Accepts /\ ch.by.between = e.between
                              /\ place[ch.by] = "acked"
=============================================================================
