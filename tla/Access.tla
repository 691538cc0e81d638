------------------------------- MODULE Access -------------------------------
(***************************************************************************)
(* PermissionsGuard, the permissions of a member, the RTC tokens and       *)
(* createServerChannel(): each reads several documents one after the       *)
(* other, while the handlers of events change the copies of members, roles *)
(* and users and delete private channels.                                  *)
(*                                                                         *)
(* The copy of the roles is the VersionedCopy that RolesService implements *)
(* (CopyProofs!HandlersKeepACopy).  Its owner has published everything it  *)
(* may ever publish, so the copy moves whenever some schedule of the       *)
(* events lets it.  A request that fails, or whose pod dies, is one that   *)
(* takes no further step.                                                  *)
(***************************************************************************)
EXTENDS Naturals, FiniteSets

CONSTANTS RoleIds, MaxVersion,
          Permits,         \* Permits[<<role, version>>]: its permissions
          Users, Servers, NoServer,
          Memberships,     \* the members that may join
          FirstChannels,   \* the channels there are at first
          Requests,        \* bound: the requests, each made once
          Questions,       \* what the requests may ask for, some perhaps nothing
          MaxWrites        \* bound: writes by handlers of events

VARIABLES channels,   \* the documents of the collection
          nextOid,    \* the next fresh _id
          announced,  \* the _ids for which channel.create was published
          members,    \* the documents of the copy of the members
          published, retired,
          roles,      \* the <<role, version>> of the copy of the roles
          users,      \* whom the copy of the users has
          writes,
          step,       \* step[q]: how far the request q has come
          asked,      \* asked[q]: what it asks for
          server,     \* server[q]: the server of the channel it has found
          held,       \* held[q]: the roles of the member it has found
          made,       \* made[q]: the _id of the channel it has saved, or 0
          seen        \* history: what q could have read at each moment

RoleVersions == RoleIds \X (0..MaxVersion)

\* The permission that each endpoint of the two controllers requires.
MessagesRequire ==
    [getChannelMessages |-> "view_messages",
     sendMessage        |-> "send_messages",
     updateMessage      |-> "send_messages",
     deleteMessage      |-> "delete_messages",
     handleAttachments  |-> "send_attachments"]

ChannelsRequire ==
    [getServerChannels   |-> "view_channels",
     createServerChannel |-> "manage_channels"]

Required ==
    [e \in DOMAIN MessagesRequire \cup DOMAIN ChannelsRequire |->
        IF e \in DOMAIN MessagesRequire THEN MessagesRequire[e] ELSE ChannelsRequire[e]]

\* The endpoints behind no permission, and the type of channel they are for.
Tokens == [getUserChannelRTCToken |-> "PRIVATE", getServerChannelRTCToken |-> "VOICE"]

Types == {"VOICE", "TEXT", "PARENT", "PRIVATE"}

Channel ==
    [oid : Nat, type : Types, server : Servers \cup {NoServer}, parent : Nat,
     users : SUBSET Users]

\* A request may name a server in its query and another in its body, at any
\* endpoint: the guard sees what no DTO declares.  0 is a channel or a parent
\* left out, and the guest is the user named in the query.
Question ==
    [endpoint : DOMAIN Required \cup DOMAIN Tokens, user : Users, guest : Users,
     query : Servers \cup {NoServer}, body : Servers \cup {NoServer},
     channel : Nat, parent : Nat, type : Types]

Permissions == {Required[e] : e \in DOMAIN Required}

Member == [user : Users, server : Servers, roles : SUBSET RoleIds]

\* Only private channels have users, and no server.
ASSUME AccessAssumption ==
    /\ MaxVersion \in Nat /\ MaxWrites \in Nat
    /\ RoleIds \cap Users = {} /\ NoServer \notin Servers
    /\ Permits \in [RoleVersions -> SUBSET Permissions]
    /\ Memberships \subseteq Member
    /\ FirstChannels \subseteq Channel /\ IsFiniteSet(FirstChannels)
    /\ {ch.oid : ch \in FirstChannels} = 1..Cardinality(FirstChannels)
    /\ \A c, d \in FirstChannels : c.oid = d.oid => c = d
    /\ \A ch \in FirstChannels : ch.users # {} => ch.type = "PRIVATE" /\ ch.server = NoServer
    /\ \A a \in Questions : DOMAIN a \subseteq Requests /\ a \in [DOMAIN a -> Question]

Copy == INSTANCE VersionedCopy
    WITH Ids <- RoleIds, Versions <- 0..MaxVersion, FirstVersion <- 0,
         announced <- published, copy <- roles

ownerVars == <<published, retired>>
copyVars == <<ownerVars, members, roles, users, writes>>
channelVars == <<channels, nextOid, announced>>
requestVars == <<step, asked, server, held, made>>
vars == <<channelVars, copyVars, requestVars, seen>>

SameKey(m, n) == m.user = n.user /\ m.server = n.server

\* Any state that the handlers of events may have left behind.
Init ==
    /\ channels = FirstChannels
    /\ nextOid = Cardinality(FirstChannels) + 1
    /\ announced = {}
    /\ members \in SUBSET Memberships
    /\ \A m, n \in members : SameKey(m, n) => m = n
    /\ published = RoleVersions /\ retired = RoleIds
    /\ roles \in SUBSET RoleVersions
    /\ \A r, s \in roles : r[1] = s[1] => r = s
    /\ users \in SUBSET Users
    /\ writes = 0
    /\ step = [q \in Requests |-> "idle"]
    /\ asked \in Questions
    /\ server = [q \in Requests |-> NoServer]
    /\ held = [q \in Requests |-> {}]
    /\ made = [q \in Requests |-> 0]
    /\ seen = [q \in Requests |-> {}]

-----------------------------------------------------------------------------
\* What a request could read at this moment, to look back on when it has been
\* answered: what speaks for its user (the roles of the member; the user, if
\* the channel is for that user), and what is good for the endpoint.
Looked(q) == {ch \in channels : ch.oid = asked[q].channel}

\* The server that the guard takes from the request, before it asks for a channel.
Named(q) == IF asked[q].query # NoServer THEN asked[q].query ELSE asked[q].body

\* The server the guard consults: the one that is named, else the channel's.
ServersOf(q) == IF Named(q) # NoServer THEN {Named(q)}
                ELSE {ch.server : ch \in Looked(q)} \ {NoServer}

\* The user a token is made out to: the guest if it is one for a server's channel.
Subject(q) == IF asked[q].endpoint = "getServerChannelRTCToken" THEN asked[q].guest
              ELSE asked[q].user

\* The private channels of a user, and the rooms that one may join.
IsPrivateOf(q, ch) == ch.server = NoServer /\ asked[q].user \in ch.users

IsRoomFor(q, ch) ==
    /\ ch.type = Tokens[asked[q].endpoint]
    /\ ch.type = "PRIVATE" => asked[q].user \in ch.users

For(q, ch) == IF asked[q].endpoint \in DOMAIN Tokens THEN IsRoomFor(q, ch)
              ELSE Named(q) = NoServer /\ IsPrivateOf(q, ch)

Credentials(q) ==
    {Subject(q) : ch \in {c \in Looked(q) : For(q, c)}}
    \cup UNION {m.roles : m \in {n \in members : /\ asked[q].endpoint \in DOMAIN Required
                                                 /\ n.user = asked[q].user
                                                 /\ n.server \in ServersOf(q)}}

Good(q) ==
    IF asked[q].endpoint \in DOMAIN Tokens THEN users
    ELSE {asked[q].user} \cup {r[1] : r \in {s \in roles : Required[asked[q].endpoint] \in Permits[s]}}

View(q) == [credentials |-> Credentials(q), good |-> Good(q)]

UnderWay == {"asked", "located", "claimed"}

Watch == seen' = [q \in Requests |->
                     IF step[q] \in UnderWay THEN seen[q] \cup {View(q)'} ELSE seen[q]]

-----------------------------------------------------------------------------
\* The environment: the handlers of Members, CopyService, Users and Channels.
Write ==
    /\ writes < MaxWrites /\ writes' = writes + 1
    /\ UNCHANGED <<nextOid, announced, ownerVars, requestVars>>
    /\ Watch

MemberStep ==
    /\ \/ \E m \in Memberships : /\ ~\E n \in members : SameKey(m, n)
                                 /\ members' = members \cup {m}
       \/ \E m \in members : members' = members \ {m}
    /\ UNCHANGED <<channels, roles, users>>
    /\ Write

RoleStep ==
    /\ \E r \in RoleIds : \/ Copy!Install(r) \/ Copy!Remove(r)
                          \/ \E v \in 0..MaxVersion : Copy!Advance(r, v)
    /\ roles' # roles
    /\ UNCHANGED <<channels, members, users>>
    /\ Write

UserStep ==
    /\ \E u \in Users : users' \in {users \cup {u}, users \ {u}} \ {users}
    /\ UNCHANGED <<channels, members, roles>>
    /\ Write

\* deleteOne() by a list of users: no server channel has users.
Deletable == {ch \in channels : ch.users # {}}

DeleteChannel ==
    /\ \E ch \in Deletable : channels' = channels \ {ch}
    /\ UNCHANGED <<members, roles, users>>
    /\ Write

-----------------------------------------------------------------------------
Goto(q, to) == step' = [step EXCEPT ![q] = to]

Answer(q, yes) == Goto(q, IF yes THEN "granted" ELSE "denied")

\* The request reaches the controller, past AuthGuard.
Ask(q) ==
    /\ step[q] = "idle" /\ q \in DOMAIN asked
    /\ Goto(q, "asked")
    /\ seen' = [seen EXCEPT ![q] = {View(q)}]
    /\ UNCHANGED <<channelVars, copyVars, asked, server, held, made>>

\* canActivate(), where no server is named: the channel decides, or its server.
FindChannel(q) ==
    /\ step[q] = "asked" /\ asked[q].endpoint \in DOMAIN Required /\ Named(q) = NoServer
    /\ \/ Looked(q) = {} /\ Answer(q, FALSE) /\ UNCHANGED server
       \/ \E ch \in Looked(q) :
             \/ ch.server = NoServer /\ Answer(q, asked[q].user \in ch.users)
                                     /\ UNCHANGED server
             \/ ch.server # NoServer /\ Goto(q, "located")
                                     /\ server' = [server EXCEPT ![q] = ch.server]
    /\ UNCHANGED <<channelVars, copyVars, asked, held, made, seen>>

\* Mutant: the member is looked up by the user alone.
MembersOfUser(q, s) == {m \in members : m.user = asked[q].user}

MembersOf(q, s) == {m \in members : m.user = asked[q].user /\ m.server = s}

\* getMemberPermissions(), up to the search that populate() makes.
FindMember(q) ==
    LET s == IF step[q] = "located" THEN server[q] ELSE Named(q)
    IN  /\ \/ step[q] = "asked" /\ asked[q].endpoint \in DOMAIN Required /\ s # NoServer
           \/ step[q] = "located"
        /\ \/ MembersOf(q, s) = {} /\ Answer(q, FALSE) /\ UNCHANGED held
           \/ \E m \in MembersOf(q, s) :
                 Goto(q, "claimed") /\ held' = [held EXCEPT ![q] = m.roles]
        /\ UNCHANGED <<channelVars, copyVars, asked, server, made, seen>>

\* Mutant: every role the member has must have the permission.
PermittedEvery(q) ==
    \A r \in {s \in roles : s[1] \in held[q]} : Required[asked[q].endpoint] \in Permits[r]

\* The permissions of all roles together; one that is not in the copy has none.
Permitted(q) ==
    \E r \in roles : r[1] \in held[q] /\ Required[asked[q].endpoint] \in Permits[r]

ReadRoles(q) ==
    /\ step[q] = "claimed" /\ asked[q].endpoint \in DOMAIN Required
    /\ Answer(q, Permitted(q))
    /\ UNCHANGED <<channelVars, copyVars, asked, server, held, made, seen>>

\* getUserChannelRTCToken() and getServerChannelRTCToken(), read by read.
FindRoom(q) ==
    /\ step[q] = "asked" /\ asked[q].endpoint \in DOMAIN Tokens
    /\ Goto(q, IF \E ch \in Looked(q) : IsRoomFor(q, ch) THEN "claimed" ELSE "denied")
    /\ UNCHANGED <<channelVars, copyVars, asked, server, held, made, seen>>

FindUser(q) ==
    /\ step[q] = "claimed" /\ asked[q].endpoint \in DOMAIN Tokens
    /\ Answer(q, Subject(q) \in users)
    /\ UNCHANGED <<channelVars, copyVars, asked, server, held, made, seen>>

-----------------------------------------------------------------------------
Creates(q) == asked[q].endpoint = "createServerChannel"

\* Mutant: the type of the parent is not asked for.
ParentFits(ch) == TRUE

IsParent(ch) == ch.type = "PARENT"

\* createServerChannel(): a body that names no server is not valid, whatever the
\* guard went by, and only a parent that is named is looked up.
FindParent(q) ==
    /\ step[q] = "granted" /\ Creates(q)
    /\ Goto(q, IF /\ asked[q].body # NoServer
                  /\ \/ asked[q].parent = 0
                     \/ \E ch \in channels : ch.oid = asked[q].parent /\ IsParent(ch)
               THEN "parented" ELSE "refused")
    /\ UNCHANGED <<channelVars, copyVars, asked, server, held, made, seen>>

\* The date of the new channel, null, is in Messages.
Save(q) ==
    /\ step[q] = "parented"
    /\ channels' = channels \cup
          {[oid |-> nextOid, type |-> asked[q].type, server |-> asked[q].body,
            parent |-> asked[q].parent, users |-> {}]}
    /\ nextOid' = nextOid + 1
    /\ made' = [made EXCEPT ![q] = nextOid]
    /\ Goto(q, "saved")
    /\ UNCHANGED <<announced, copyVars, asked, server, held>>
    /\ Watch

\* Mutant: the event names the channel to come.
ToldNext(q) == {nextOid}

Told(q) == {made[q]}

Announce(q) ==
    /\ step[q] = "saved"
    /\ announced' = announced \cup Told(q)
    /\ Goto(q, "created")
    /\ UNCHANGED <<channels, nextOid, copyVars, asked, server, held, made, seen>>

-----------------------------------------------------------------------------
CanActivate(q) == FindChannel(q) \/ FindMember(q) \/ ReadRoles(q)

GetToken(q) == FindRoom(q) \/ FindUser(q)

CreateServerChannel(q) == FindParent(q) \/ Save(q) \/ Announce(q)

Next ==
    \/ MemberStep \/ RoleStep \/ UserStep \/ DeleteChannel
    \/ \E q \in Requests :
          Ask(q) \/ CanActivate(q) \/ GetToken(q) \/ CreateServerChannel(q)

Spec == Init /\ [][Next]_vars

-----------------------------------------------------------------------------
\* The variables have their types.
TypeOK ==
    /\ channels \subseteq Channel
    /\ nextOid \in Nat \ {0} /\ announced \subseteq 1..nextOid - 1
    /\ members \subseteq Memberships
    /\ published = RoleVersions /\ retired = RoleIds
    /\ roles \subseteq RoleVersions
    /\ users \subseteq Users
    /\ writes \in 0..MaxWrites
    /\ step \in [Requests -> {"idle", "denied", "granted", "parented", "refused", "saved",
                              "created"} \cup UnderWay]
    /\ asked \in Questions
    /\ server \in [Requests -> Servers \cup {NoServer}]
    /\ held \in [Requests -> SUBSET RoleIds]
    /\ made \in [Requests -> 0..nextOid - 1]
    /\ seen \in [Requests -> SUBSET [credentials : SUBSET (RoleIds \cup Users),
                                     good : SUBSET (RoleIds \cup Users)]]

\* A request is let through only if, since it began, its user at one moment had
\* what was good for the endpoint at that or another moment: a role with the
\* permission in the server that the guard consults (the one the query names,
\* else the body, else the channel's), or, if none is named, a place in the
\* private channel; for a token, that its room was there and its user known.
GrantGrounded ==
    \A q \in Requests : step[q] \in {"granted", "parented", "refused", "saved", "created"} =>
        \E then, later \in seen[q] : then.credentials \cap later.good # {}

\* A request is turned away only if nothing its user had, in the server that the
\* guard consults, was good for the endpoint from its beginning to its end,
\* whatever changed meanwhile.
DenialGrounded ==
    \A q \in Requests : step[q] = "denied" =>
        ~\E x \in RoleIds \cup Users : \A v \in seen[q] : x \in v.credentials \cap v.good

\* A server channel that clients were told of is there, and the parent it names
\* is there as well and is a channel for parents.
ParentsStand ==
    \A oid \in announced : \E ch \in channels :
        /\ ch.oid = oid
        /\ ch.parent # 0 => \E p \in channels : p.oid = ch.parent /\ p.type = "PARENT"
=============================================================================
