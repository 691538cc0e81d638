----------------------------- MODULE RolesAccess ----------------------------
(***************************************************************************)
(* The requests of Access next to the queues and handlers of RolesService: *)
(* the roles that a request reads are the documents which the handlers     *)
(* leave behind, event by event, whatever is delivered again, comes late,  *)
(* fails or crashes.  What Access promises with an abstract copy of the    *)
(* roles is shown to hold with this one.                                   *)
(***************************************************************************)
EXTENDS AccessProofs

CONSTANTS Origins, RetryCount, Replicas, MaxDeaths, MaxCrashes, MaxFaults

VARIABLES place, deaths, crashes, faults,  \* the events of the roles
          documents, nextDocument,         \* the collection, its next _id
          loaded, fate

Service == INSTANCE CopyProofs
    WITH Ids <- RoleIds, FirstVersion <- 0, Lag <- 1,
         copies <- documents, nextOid <- nextDocument, held <- loaded

serviceVars == <<place, deaths, crashes, faults, documents, nextDocument, loaded, fate>>

\* What CopyAssumption says of the constants that are not Access's.
QueueConstants ==
    /\ Origins \subseteq {"own", "foreign"} /\ "own" \in Origins
    /\ RetryCount \in Nat \ {0}
    /\ MaxDeaths \in Nat /\ MaxCrashes \in Nat /\ MaxFaults \in Nat

\* A handler, or the broker, makes a step.  If it writes, the requests under way
\* may read something else from now on.
HandleRoles ==
    /\ Service!Next
    /\ IF Service!Contents' = Service!Contents
       THEN UNCHANGED vars
       ELSE /\ roles' = Service!Contents'
            /\ UNCHANGED <<channels, members, users>>
            /\ Write

\* Any other step of Access.
OtherStep ==
    /\ Next /\ roles' = roles
    /\ UNCHANGED serviceVars

SystemInit == Init /\ Service!Init /\ roles = Service!Contents

SystemSpec == SystemInit /\ [][HandleRoles \/ OtherStep]_<<vars, serviceVars>>

-----------------------------------------------------------------------------
SystemInv == Inv /\ Service!Inv /\ roles = Service!Contents

LEMMA AssumptionHolds == ASSUME QueueConstants PROVE Service!CopyAssumption
BY AccessAssumption DEF QueueConstants, AccessAssumption, Service!CopyAssumption

\* What the service announces is a version that Access takes to be published.
LEMMA AnnouncedVersions == Service!Announced \subseteq RoleVersions
BY DEF Service!Announced, Service!Events, Service!Versions, RoleVersions

\* A write of a handler is one that Access has in its environment.
LEMMA HandlersAreRoleSteps ==
    ASSUME QueueConstants, SystemInv, HandleRoles
    PROVE  RoleStep \/ UNCHANGED vars
<1>1. CASE Service!Contents' = Service!Contents
  BY <1>1 DEF HandleRoles
<1>2. CASE Service!Contents' # Service!Contents
  <2>1. /\ roles = Service!Contents /\ roles' = Service!Contents'
        /\ UNCHANGED <<channels, members, users>> /\ Write
        /\ published = RoleVersions /\ retired = RoleIds
        /\ published' = published /\ retired' = retired
    BY <1>2 DEF HandleRoles, SystemInv, Inv, TypeOK, Write, ownerVars
  <2>2. Service!Copy!Next
    <3>1. [Service!Copy!Next]_<<Service!Announced, Service!Retired, Service!Contents>>
      BY AssumptionHolds, Service!StepRefines DEF SystemInv, HandleRoles
    <3> QED
      BY <1>2, <3>1
  <2>3. PICK r \in RoleIds :
           \/ Service!Copy!Install(r) \/ Service!Copy!Remove(r)
           \/ \E v \in 0..MaxVersion : Service!Copy!Advance(r, v)
    BY <1>2, <2>2 DEF Service!Copy!Next, Service!Copy!Retire, Service!Copy!Announce,
       Service!Versions
  <2>4. CASE Service!Copy!Install(r)
    <3>1. Copy!Install(r)
      BY <2>1, <2>4, AnnouncedVersions DEF Service!Copy!Install, Copy!Install, Service!Versions
    <3> QED
      BY <1>2, <2>1, <3>1 DEF RoleStep
  <2>5. CASE Service!Copy!Remove(r)
    BY <2>1, <2>5, <1>2 DEF Service!Copy!Remove, Copy!Remove, RoleStep
  <2>6. CASE \E v \in 0..MaxVersion : Service!Copy!Advance(r, v)
    BY <2>1, <2>6, <1>2, AnnouncedVersions DEF Service!Copy!Advance, Copy!Advance, RoleStep
  <2> QED
    BY <2>3, <2>4, <2>5, <2>6
<1> QED
  BY <1>1, <1>2

LEMMA SystemStep ==
    ASSUME QueueConstants, SystemInv, [HandleRoles \/ OtherStep]_<<vars, serviceVars>>
    PROVE  SystemInv' /\ [Next]_vars
<1>1. [Next]_vars
  BY HandlersAreRoleSteps DEF OtherStep, Next
<1>2. Inv'
  BY <1>1, InvStep DEF SystemInv
<1>3. [Service!Next]_(Service!vars)
  BY DEF HandleRoles, OtherStep, serviceVars, Service!vars, Service!mailVars, Service!copyVars
<1>4. Service!Inv'
  BY <1>3, AssumptionHolds, Service!InvStep DEF SystemInv
<1>5. roles' = Service!Contents'
  <2>1. CASE HandleRoles
    BY <2>1 DEF HandleRoles, SystemInv, vars, copyVars
  <2>2. CASE OtherStep \/ UNCHANGED <<vars, serviceVars>>
    BY <2>2 DEF OtherStep, SystemInv, vars, copyVars, serviceVars, Service!Contents
  <2> QED
    BY <2>1, <2>2
<1> QED
  BY <1>1, <1>2, <1>4, <1>5 DEF SystemInv

LEMMA SystemInvariance ==
    ASSUME QueueConstants
    PROVE  SystemSpec => []SystemInv /\ [][Next]_vars
<1>1. SystemInit => SystemInv
  BY InvInit, AssumptionHolds, Service!InvInit DEF SystemInit, SystemInv
<1>2. SystemInv /\ [HandleRoles \/ OtherStep]_<<vars, serviceVars>>
         => SystemInv' /\ [Next]_vars
  BY SystemStep
<1> QED
  BY <1>1, <1>2, PTL DEF SystemSpec

\* With the queues and handlers of the roles in it, the system behaves as Access
\* says: no queue, retry, crash or race of theirs shows in a request.
THEOREM SystemImplementsAccess == ASSUME QueueConstants PROVE SystemSpec => Spec
<1>1. SystemInit => Init
  BY DEF SystemInit
<1> QED
  BY <1>1, SystemInvariance, PTL DEF SystemSpec, Spec

\* So a request is let through only for a role with the permission that the
\* documents of the handlers held while it ran, and turned away only if none was
\* held all the while; and what clients were told of has its parent.
THEOREM AnswersAreGrounded ==
    ASSUME QueueConstants
    PROVE  SystemSpec => [](GrantGrounded /\ DenialGrounded /\ ParentsStand)
BY SystemImplementsAccess, GrantsAreGrounded, DenialsAreGrounded, ParentsStay, PTL
=============================================================================
