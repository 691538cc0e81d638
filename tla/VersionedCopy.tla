---------------------------- MODULE VersionedCopy ---------------------------
(***************************************************************************)
(* What a local copy of another service's versioned entities promises,     *)
(* without queues, retries or documents: for each entity the copy holds    *)
(* nothing or one version, it starts at the first, moves forward one       *)
(* published version at a time, and lets go of an entity only after the    *)
(* owner has retired it.  It does not promise to be complete or recent.    *)
(***************************************************************************)
EXTENDS Naturals

CONSTANTS Ids, Versions, FirstVersion

VARIABLES
    announced,  \* the <<id, version>> the owner has published
    retired,    \* the ids whose deletion the owner has published
    copy        \* the <<id, version>> held here

Init ==
    /\ announced = {}
    /\ retired = {}
    /\ copy = {}

Announce(id, v) ==
    /\ announced' = announced \cup {<<id, v>>}
    /\ UNCHANGED <<retired, copy>>

Retire(id) ==
    /\ retired' = retired \cup {id}
    /\ UNCHANGED <<announced, copy>>

Install(id) ==
    /\ <<id, FirstVersion>> \in announced
    /\ \A v \in Versions : <<id, v>> \notin copy
    /\ copy' = copy \cup {<<id, FirstVersion>>}
    /\ UNCHANGED <<announced, retired>>

Advance(id, v) ==
    /\ <<id, v>> \in copy
    /\ <<id, v + 1>> \in announced
    /\ copy' = (copy \ {<<id, v>>}) \cup {<<id, v + 1>>}
    /\ UNCHANGED <<announced, retired>>

Remove(id) ==
    /\ id \in retired
    /\ copy' = {c \in copy : c[1] # id}
    /\ UNCHANGED <<announced, retired>>

Next == \E id \in Ids :
    \/ Retire(id) \/ Install(id) \/ Remove(id)
    \/ \E v \in Versions : Announce(id, v) \/ Advance(id, v)

Spec == Init /\ [][Next]_<<announced, retired, copy>>
=============================================================================
