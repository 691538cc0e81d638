---------------------------- MODULE CopyService -----------------------------
(***************************************************************************)
(* RolesService: the copy of the servers service's roles that this service *)
(* keeps from the events server.role.create, .update and .delete.          *)
(* UsersService has the same handlers for the users; what differs is the   *)
(* version upstream starts at and how far the local counter trails it.     *)
(* What an event carries is abstracted to the version it was published at. *)
(***************************************************************************)
EXTENDS Collection, FiniteSets

CONSTANTS
    Ids,           \* the roles, or the users
    FirstVersion,  \* the version that upstream creates an entity at
    MaxVersion,    \* bound: the last version published
    Lag,           \* an update to version v looks for the local version v - Lag
    Origins,       \* whose queue an event died in first, if it dies
    RetryCount, Replicas, MaxDeaths, MaxCrashes, MaxFaults

VARIABLES
    place, deaths, crashes, faults,
    copies,   \* the documents of the collection
    nextOid,  \* the next fresh _id
    held,     \* held[e]: the document that the handler of update e has read
    fate      \* history: has a delete run, "buried" while no create is under way

ASSUME CopyAssumption ==
    /\ FirstVersion \in Nat /\ MaxVersion \in Nat /\ FirstVersion <= MaxVersion
    /\ Lag = FirstVersion + 1
    /\ Origins \subseteq {"own", "foreign"} /\ "own" \in Origins
    /\ RetryCount \in Nat \ {0}
    /\ MaxDeaths \in Nat /\ MaxCrashes \in Nat /\ MaxFaults \in Nat

Versions == FirstVersion..MaxVersion

\* A delete carries no version: it is filed under the first one.
Events ==
    {e \in [kind : {"create", "update", "delete"}, id : Ids,
            version : Versions, origin : Origins] :
        e.kind = "update" <=> e.version > FirstVersion}

Mail == INSTANCE Delivery

mailVars == <<place, deaths, crashes, faults>>
copyVars == <<copies, nextOid, held, fate>>
vars == <<mailVars, copyVars>>

Published(kind, id, version) ==
    \E e \in Events : /\ e.kind = kind /\ e.id = id
                      /\ e.version = version /\ e.origin = "own"
                      /\ place[e] # "unpublished"

Init ==
    /\ Mail!Init
    /\ copies = {}
    /\ nextOid = 1
    /\ held = [e \in Events |-> NoHandle]
    /\ fate = [id \in Ids |-> "kept"]

\* Upstream publishes the versions of an entity in order and its delete last;
\* a foreign copy follows the event it is a copy of.
Publish(e) ==
    /\ \/ /\ e.origin = "foreign"
          /\ Published(e.kind, e.id, e.version)
       \/ /\ e.origin = "own"
          /\ e.kind = "update" =>
                \/ Published("update", e.id, e.version - 1)
                \/ Published("create", e.id, e.version - 1)
          /\ e.kind = "delete" => Published("create", e.id, FirstVersion)
          /\ ~Published("delete", e.id, FirstVersion)
    /\ Mail!Publish(e)
    /\ fate' = [fate EXCEPT ![e.id] =
                   IF e.kind = "create" /\ @ = "buried" THEN "deleted" ELSE @]
    /\ UNCHANGED <<copies, nextOid, held>>

Deliver(e) == Mail!CheckedDeliver(e) /\ UNCHANGED copyVars
Discard(e) == Mail!Discard(e) /\ UNCHANGED copyVars
Ack(e)     == Mail!Ack(e) /\ UNCHANGED copyVars
Expire(e)  == Mail!Expire(e) /\ UNCHANGED copyVars
Crash(e)   == Mail!Crash(e) /\ UNCHANGED copyVars

\* The catch block of every handler: a failed call is answered with a Nack.
Fail(e) == Mail!Fault(e, "parked") /\ UNCHANGED copyVars

-----------------------------------------------------------------------------
\* Mutant: the id and the content change places.
CreateSwapped(e) ==
    /\ e.kind = "create"
    /\ WithKey(copies, e.id) = {}
    /\ Mail!Handle(e, "delivered", "applied")
    /\ copies' = Inserted(copies, nextOid, e.version, e.id)
    /\ nextOid' = nextOid + 1
    /\ UNCHANGED <<held, fate>>

\* create(): a new document, unless the unique index has the entity already.
Create(e) ==
    /\ e.kind = "create"
    /\ WithKey(copies, e.id) = {}
    /\ Mail!Handle(e, "delivered", "applied")
    /\ copies' = Inserted(copies, nextOid, e.id, e.version)
    /\ nextOid' = nextOid + 1
    /\ UNCHANGED <<held, fate>>

RejectCreate(e) ==
    /\ e.kind = "create"
    /\ WithKey(copies, e.id) # {}
    /\ Mail!Handle(e, "delivered", "parked")
    /\ UNCHANGED copyVars

\* Mutant: a filter without the version.
PredecessorAny(e) == WithKey(copies, e.id)

\* update(), up to its first await: the document one version behind the event.
Predecessor(e) == {d \in WithKey(copies, e.id) : d.version = e.version - Lag}

FindForUpdate(e) ==
    /\ e.kind = "update"
    /\ \E d \in Predecessor(e) : held' = [held EXCEPT ![e] = Handled(d)]
    /\ Mail!Handle(e, "delivered", "loaded")
    /\ UNCHANGED <<copies, nextOid, fate>>

RejectUpdate(e) ==
    /\ e.kind = "update"
    /\ Predecessor(e) = {}
    /\ Mail!Handle(e, "delivered", "parked")
    /\ UNCHANGED copyVars

\* Mutants: the fields are set and never saved; the save inserts what is gone.
SaveUpdateForgotten(e) ==
    /\ e.kind = "update"
    /\ Mail!Handle(e, "loaded", "applied")
    /\ UNCHANGED copyVars

SaveUpdateUpsert(e) ==
    /\ e.kind = "update"
    /\ Mail!Handle(e, "loaded", "applied")
    /\ copies' = Removed(copies, e.id)
                    \cup {[oid |-> held[e].oid, key |-> e.id,
                           version |-> held[e].version + 1, body |-> e.version]}
    /\ UNCHANGED <<nextOid, held, fate>>

\* update(), after the await: the save is conditional on the version read.
SaveUpdate(e) ==
    /\ e.kind = "update"
    /\ \E d \in Unmoved(copies, held[e]) :
          copies' = Updated(copies, d, e.version)
    /\ Mail!Handle(e, "loaded", "applied")
    /\ UNCHANGED <<nextOid, held, fate>>

\* VersionError or DocumentNotFoundError, caught and answered with a Nack.
ConflictUpdate(e) ==
    /\ e.kind = "update"
    /\ Unmoved(copies, held[e]) = {}
    /\ Mail!Handle(e, "loaded", "parked")
    /\ UNCHANGED copyVars

NoCreateUnderWay(id) ==
    \A c \in Events : c.kind = "create" /\ c.id = id
                         => place[c] \in Mail!Settled \cup {"unpublished"}

\* delete(): findOneAndDelete, whatever the version, found or not.
Delete(e) ==
    /\ e.kind = "delete"
    /\ Mail!Handle(e, "delivered", "applied")
    /\ copies' = Removed(copies, e.id)
    /\ fate' = [fate EXCEPT ![e.id] =
                   IF NoCreateUnderWay(e.id) THEN "buried" ELSE "deleted"]
    /\ UNCHANGED <<nextOid, held>>

-----------------------------------------------------------------------------
Update(e)  == FindForUpdate(e) \/ RejectUpdate(e) \/ SaveUpdate(e) \/ ConflictUpdate(e)
Queue(e)   == Deliver(e) \/ Discard(e) \/ Ack(e) \/ Expire(e)
Consume(e) == Queue(e) \/ Create(e) \/ RejectCreate(e) \/ Update(e) \/ Delete(e)

Next == \E e \in Events : Consume(e) \/ Publish(e) \/ Crash(e) \/ Fail(e)

Spec == Init /\ [][Next]_vars

-----------------------------------------------------------------------------
\* The variables have their types (the documents and events of one service).
TypeOK ==
    /\ Mail!TypeOK
    /\ copies \subseteq Document(Ids, Versions)
    /\ nextOid \in Nat
    /\ held \in [Events -> Handle]
    /\ fate \in [Ids -> {"kept", "deleted", "buried"}]

\* The counter mongoose keeps and the version upstream gave what the document
\* contains never part: no update is skipped, applied twice or applied late.
VersionMatchesContent == \A d \in copies : d.body = d.version + FirstVersion

\* An event whose handler returned without a Nack is in the copy: until a
\* delete runs, the entity is there with that version or a later one.
AppliedBeforeAck ==
    \A e \in Events :
        /\ e.kind # "delete"
        /\ place[e] \in {"applied", "acked"}
        /\ fate[e.id] = "kept"
        => \E d \in copies : d.key = e.id /\ d.body >= e.version

\* An entity that was deleted while no create was under way stays deleted until a
\* create arrives again, whatever updates are in flight: no update brings the
\* document back.  Upstream creates an entity once, so the create that may arrive
\* is the copy of one that died in another service's queue.
NoResurrection ==
    \A id \in Ids : fate[id] = "buried" => WithKey(copies, id) = {}

\* An event that dies in a queue of this service comes back at most
\* RetryCount times.
RetriesBounded ==
    \A e \in Events : e.origin = "own" => deaths[e] <= RetryCount

\* An update that still has a try left when the copy is at the version before
\* it reaches the copy (here without failing database calls).
InOrderUpdateLands ==
    \A e \in Events :
        (/\ e.kind = "update"
         /\ place[e] = "queued"
         /\ deaths[e] < RetryCount
         /\ \E d \in copies : d.key = e.id /\ d.body = e.version - 1)
        ~> (\/ \E d \in copies : d.key = e.id /\ d.body >= e.version
            \/ fate[e.id] # "kept")

\* What of the state the abstract copy sees.
IsPublished(e) == place[e] # "unpublished"
Announced == {<<e.id, e.version>> :
                 e \in {f \in Events : f.kind # "delete" /\ IsPublished(f)}}
Retired   == {e.id : e \in {f \in Events : f.kind = "delete" /\ IsPublished(f)}}
Contents  == {<<d.key, d.body>> : d \in copies}

Copy == INSTANCE VersionedCopy
            WITH announced <- Announced, retired <- Retired,
                 copy <- Contents

\* The collection is a versioned copy of what was published: no queue,
\* retry, crash or race shows in it.
IsVersionedCopy == Copy!Spec

\* However often it is rejected, an event that dies only in our queues does not
\* go round for ever: it is acknowledged, or given up, in the end (here without
\* failing database calls).
EventsSettle ==
    \A e \in Events : e.origin = "own" =>
        (place[e] = "queued" ~> place[e] \in Mail!Settled)
=============================================================================
