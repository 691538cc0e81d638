-------------------------------- MODULE Users -------------------------------
(***************************************************************************)
(* UsersService: the copy of the users service's users, kept from the      *)
(* events user.create, .update and .delete.  "users service starts with    *)
(* the version of 1", mongoose with 0, so an update to version v looks for *)
(* the local version v - 2.  The handlers are otherwise those of           *)
(* CopyService, and so are the queues.                                     *)
(***************************************************************************)
EXTENDS Naturals

CONSTANTS UserIds, MaxVersion, Origins, RetryCount, Replicas, MaxDeaths, MaxCrashes, MaxFaults

VARIABLES place, deaths, crashes, faults, users, nextOid, held, fate

ASSUME UsersAssumption ==
    /\ MaxVersion \in Nat \ {0}
    /\ Origins \subseteq {"own", "foreign"} /\ "own" \in Origins
    /\ RetryCount \in Nat \ {0}
    /\ MaxDeaths \in Nat /\ MaxCrashes \in Nat /\ MaxFaults \in Nat

\* Mutants: the lag of the roles service; one version too far back.
LagOfRoles == 1
LagTooFar  == 3

VersionLag == 2

Service == INSTANCE CopyService
    WITH Ids <- UserIds, copies <- users, FirstVersion <- 1, Lag <- VersionLag

vars == Service!vars

Init == Service!Init

Create(e) == Service!Create(e) \/ Service!RejectCreate(e)
Update(e) == Service!Update(e)
Delete(e) == Service!Delete(e)

Consume(e) == Create(e) \/ Update(e) \/ Delete(e) \/ Service!Queue(e)

Next == \E e \in Service!Events :
    Consume(e) \/ Service!Publish(e) \/ Service!Crash(e) \/ Service!Fail(e)

Spec == Init /\ [][Next]_vars

\* The broker pushes what it holds, the park has a time to live, and the
\* database answers or fails; nothing obliges upstream to publish.
FairSpec == Spec /\ \A e \in Service!Events : WF_vars(Consume(e))

-----------------------------------------------------------------------------
\* The lag never grows or shrinks: the local counter is one behind the version
\* that the user's name and avatar were published at.
OneBehindUpstream == \A d \in users : d.version = d.body - 1

\* The collection is a versioned copy of what the users service published.
IsVersionedCopy == Service!IsVersionedCopy

\* An update that is next in line for the copy and has a try left lands.
InOrderUpdateLands == Service!InOrderUpdateLands

\* Every event that dies only in our queues is acknowledged or given up.
EventsSettle == Service!EventsSettle
=============================================================================
