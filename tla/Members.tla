------------------------------- MODULE Members ------------------------------
(***************************************************************************)
(* MembersService: the copy of the servers service's members, kept from    *)
(* the events server.member.create, .update and .delete.  A member is      *)
(* known by a user and a server, so one who leaves and joins again is a    *)
(* new member (a new stint) under the same key, at version 0 again, and a  *)
(* delete does not say which stint it ends.  update() finds the document   *)
(* before its version and sets the roles, but never saves it.              *)
(* All services share the dead letter exchange, so each event may arrive a *)
(* second time, as the copy of one that died in another service's queue.   *)
(***************************************************************************)
EXTENDS Collection, FiniteSets

CONSTANTS MemberIds,   \* the pairs of a user and a server
          MaxStints,   \* bound: how often one user joins one server
          MaxVersion,  \* bound: the last version of a stint
          MaxUpdates,  \* bound: how many updates are published
          Origins,     \* "own" and, if copies of other services arrive, "foreign"
          MaxForeign,  \* bound: how many such copies arrive
          RetryCount, Replicas, MaxDeaths, MaxCrashes, MaxFaults

VARIABLES place, deaths, crashes, faults,
          members,  \* the documents of the collection
          nextOid,  \* the next fresh _id
          left,     \* history: left[id], a delete ran with no create under way
          ended,    \* history: ended[id], the stints whose delete has run
          repeated  \* history: the members for whom a delete ran once more

ASSUME MembersAssumption ==
    /\ MaxStints \in Nat /\ MaxVersion \in Nat /\ MaxUpdates \in Nat /\ MaxForeign \in Nat
    /\ Origins \subseteq {"own", "foreign"} /\ "own" \in Origins
    /\ RetryCount \in Nat \ {0}
    /\ MaxDeaths \in Nat /\ MaxCrashes \in Nat /\ MaxFaults \in Nat

Contents == [stint : 1..MaxStints, version : 0..MaxVersion]

Events ==
    {e \in [kind : {"create", "update", "delete"}, id : MemberIds,
            content : Contents, origin : Origins] :
        e.kind = "update" <=> e.content.version > 0}

Mail == INSTANCE Delivery

mailVars == <<place, deaths, crashes, faults>>
memberVars == <<members, nextOid, left, ended, repeated>>
vars == <<mailVars, memberVars>>

\* Upstream has published it to this service.
Published(kind, id, stint, version) ==
    \E e \in Events : /\ e.kind = kind /\ e.id = id /\ e.origin = "own"
                      /\ e.content = [stint |-> stint, version |-> version]
                      /\ place[e] # "unpublished"

Init ==
    /\ Mail!Init
    /\ members = {}
    /\ nextOid = 1
    /\ left = [id \in MemberIds |-> FALSE]
    /\ ended = [id \in MemberIds |-> {}]
    /\ repeated = {}

Sent(kind, origin) ==
    {e \in Events : e.kind = kind /\ e.origin = origin /\ place[e] # "unpublished"}

\* Upstream publishes a stint in order: it starts when the one before is over.
InOrder(e) ==
    LET stint   == e.content.stint
        version == e.content.version
    IN  /\ e.origin = "own"
        /\ e.kind = "create" /\ stint > 1 => Published("delete", e.id, stint - 1, 0)
        /\ e.kind = "update" => \/ Published("update", e.id, stint, version - 1)
                                \/ Published("create", e.id, stint, version - 1)
        /\ e.kind = "update" => Cardinality(Sent("update", "own")) < MaxUpdates
        /\ e.kind = "delete" => Published("create", e.id, stint, 0)
        /\ ~Published("delete", e.id, stint, 0)

\* Another service has rejected its copy of an event that was published.
Copied(e) ==
    /\ e.origin = "foreign"
    /\ Published(e.kind, e.id, e.content.stint, e.content.version)
    /\ Cardinality(UNION {Sent(kind, "foreign") : kind \in {"create", "update", "delete"}}) < MaxForeign

Publish(e) ==
    /\ InOrder(e) \/ Copied(e)
    /\ Mail!Publish(e)
    /\ left' = IF e.kind = "create" THEN [left EXCEPT ![e.id] = FALSE] ELSE left
    /\ UNCHANGED <<members, nextOid, ended, repeated>>

Deliver(e) == Mail!CheckedDeliver(e) /\ UNCHANGED memberVars
Discard(e) == Mail!Discard(e) /\ UNCHANGED memberVars
Ack(e)     == Mail!Ack(e) /\ UNCHANGED memberVars
Expire(e)  == Mail!Expire(e) /\ UNCHANGED memberVars
Crash(e)   == Mail!Crash(e) /\ UNCHANGED memberVars

\* A failed call is answered with a Nack; an update makes none after its search.
Fail(e) ==
    /\ e.kind = "update" => place[e] = "delivered"
    /\ Mail!Fault(e, "parked")
    /\ UNCHANGED memberVars

-----------------------------------------------------------------------------
\* Mutant: the key and the content change places.
CreateSwapped(e) ==
    /\ e.kind = "create"
    /\ WithKey(members, e.id) = {}
    /\ Mail!Handle(e, "delivered", "applied")
    /\ members' = Inserted(members, nextOid, e.content, e.id)
    /\ nextOid' = nextOid + 1
    /\ UNCHANGED <<left, ended, repeated>>

\* create(): the unique index is on the user and the server.
Create(e) ==
    /\ e.kind = "create"
    /\ WithKey(members, e.id) = {}
    /\ Mail!Handle(e, "delivered", "applied")
    /\ members' = Inserted(members, nextOid, e.id, e.content)
    /\ nextOid' = nextOid + 1
    /\ UNCHANGED <<left, ended, repeated>>

\* Mutant: a member that is there already is taken for this one.
RejectCreateAcked(e) ==
    /\ e.kind = "create"
    /\ WithKey(members, e.id) # {}
    /\ Mail!Handle(e, "delivered", "applied")
    /\ UNCHANGED memberVars

RejectCreate(e) ==
    /\ e.kind = "create"
    /\ WithKey(members, e.id) # {}
    /\ Mail!Handle(e, "delivered", "parked")
    /\ UNCHANGED memberVars

Predecessor(e) ==
    {d \in WithKey(members, e.id) : d.version = e.content.version - 1}

\* Mutant: the update is stored whether the member is there or not.
UpdateUpsert(e) ==
    /\ e.kind = "update"
    /\ Mail!Handle(e, "delivered", "applied")
    /\ members' = Inserted(Removed(members, e.id), nextOid, e.id, e.content)
    /\ nextOid' = nextOid + 1
    /\ UNCHANGED <<left, ended, repeated>>

\* update(): the document that was found is changed in memory only.
Update(e) ==
    /\ e.kind = "update"
    /\ Predecessor(e) # {}
    /\ Mail!Handle(e, "delivered", "applied")
    /\ UNCHANGED memberVars

RejectUpdate(e) ==
    /\ e.kind = "update"
    /\ Predecessor(e) = {}
    /\ Mail!Handle(e, "delivered", "parked")
    /\ UNCHANGED memberVars

NoCreateUnderWay(id) ==
    \A c \in Events : c.kind = "create" /\ c.id = id
                         => place[c] \in Mail!Settled \cup {"unpublished"}

\* delete(): findOneAndDelete of the user and the server, whichever stint.
Delete(e) ==
    /\ e.kind = "delete"
    /\ Mail!Handle(e, "delivered", "applied")
    /\ members' = Removed(members, e.id)
    /\ left' = [left EXCEPT ![e.id] = @ \/ NoCreateUnderWay(e.id)]
    /\ ended' = [ended EXCEPT ![e.id] = @ \cup {e.content.stint}]
    /\ repeated' = IF e.content.stint \in ended[e.id] THEN repeated \cup {e.id} ELSE repeated
    /\ UNCHANGED nextOid

-----------------------------------------------------------------------------
Consume(e) ==
    \/ Deliver(e) \/ Discard(e) \/ Ack(e) \/ Expire(e)
    \/ Create(e) \/ RejectCreate(e) \/ Update(e) \/ RejectUpdate(e) \/ Delete(e)

Next == \E e \in Events : Consume(e) \/ Publish(e) \/ Crash(e) \/ Fail(e)

Spec == Init /\ [][Next]_vars

-----------------------------------------------------------------------------
\* The variables have their types.
TypeOK ==
    /\ Mail!TypeOK
    /\ members \subseteq Document(MemberIds, Contents)
    /\ nextOid \in Nat
    /\ left \in [MemberIds -> BOOLEAN]
    /\ ended \in [MemberIds -> SUBSET (1..MaxStints)]
    /\ repeated \subseteq MemberIds

\* Once a delete has run with no create under way, nothing puts the member back
\* before a create arrives again: that of a new stint, or, from another service's
\* queue, the copy of an old one.
LeftForGood == \A id \in MemberIds : left[id] => WithKey(members, id) = {}

\* The create of a stint was acknowledged, other than by the interceptor.
Acknowledged(id, s) ==
    \E e \in Events : /\ e.kind = "create" /\ e.id = id /\ e.origin = "own"
                      /\ e.content.stint = s /\ place[e] = "acked"

\* Upstream has the member: its last stint was created and not deleted.
IsMember(id) ==
    \E s \in 1..MaxStints : /\ Published("create", id, s, 0)
                            /\ ~Published("delete", id, s, 0)

\* Deletes and creates of one key are matched although a delete names no stint:
\* if all creates of a user who is a member were acknowledged, in whatever order
\* with the deletes, and none of the deletes ran twice (after a crash, a lost
\* reply, or as another service's copy), a document is there, perhaps one of an
\* earlier stint.
MissingOnlyByRepeat ==
    \A id \in MemberIds \ repeated :
        /\ IsMember(id)
        /\ \A s \in 1..MaxStints : Published("create", id, s, 0) => Acknowledged(id, s)
        => WithKey(members, id) # {}

\* "Updated member with id": the roles of an acknowledged update are stored,
\* unless the stint is over.
AckedUpdateStored ==
    \A e \in Events :
        /\ e.kind = "update" /\ place[e] = "acked"
        /\ ~Published("delete", e.id, e.content.stint, 0)
        => \E d \in WithKey(members, e.id) : d.body.version >= e.content.version
=============================================================================
