---------------------------- MODULE AccessProofs ----------------------------
(***************************************************************************)
(* That a request is let through or turned away only for what was so while *)
(* it ran, and that the parents of server channels stand, for any users,   *)
(* servers, roles, permissions, channels and requests, and any number of   *)
(* changes that the handlers of events make meanwhile.                     *)
(***************************************************************************)
EXTENDS Access, FiniteSetTheorems, TLAPS

Granted == {"granted", "parented", "refused", "saved", "created"}

\* The channels have one _id each, given by the counter, and only private ones
\* have users; a user is one member of a server.
StoreInv ==
    /\ \A c \in channels : c.oid \in 1..nextOid - 1
    /\ \A c, d \in channels : c.oid = d.oid => c = d
    /\ \A c \in channels : c.users # {} => c.type = "PRIVATE" /\ c.server = NoServer
    /\ \A m, n \in members : SameKey(m, n) => m = n

\* A request asks for something; while it is read for, its view is recorded.
Watched(q) ==
    /\ step[q] # "idle" => q \in DOMAIN asked
    /\ step[q] \in UnderWay => View(q) \in seen[q]

\* The channel that was found is there, as long as it has a server.
Located(q) ==
    step[q] = "located" =>
        /\ asked[q].endpoint \in DOMAIN Required /\ Named(q) = NoServer
        /\ server[q] # NoServer /\ \E ch \in Looked(q) : ch.server = server[q]

\* What was found speaks for the user: the roles of the member are all there
\* was at one moment, or the user is one whom the room was for.
Claimed(q) ==
    step[q] = "claimed" =>
        \E v \in seen[q] :
            IF asked[q].endpoint \in DOMAIN Tokens
            THEN Subject(q) \in v.credentials
            ELSE v.credentials = held[q] /\ held[q] \subseteq RoleIds

\* The two invariants, of one request.
GrantOf(q) ==
    step[q] \in Granted =>
        \E then, later \in seen[q] : then.credentials \cap later.good # {}

DenialOf(q) ==
    step[q] = "denied" =>
        ~\E x \in RoleIds \cup Users : \A v \in seen[q] : x \in v.credentials \cap v.good

HasParent(oid) == oid # 0 => \E p \in channels : p.oid = oid /\ p.type = "PARENT"

\* The parent was found, and the new channel is saved under it.
Parented(q) ==
    /\ step[q] \in {"parented", "saved"} => HasParent(asked[q].parent)
    /\ step[q] = "saved" => \E ch \in channels :
          ch.oid = made[q] /\ ch.users = {} /\ HasParent(ch.parent)

RequestInv(q) ==
    Watched(q) /\ Located(q) /\ Claimed(q) /\ GrantOf(q) /\ DenialOf(q) /\ Parented(q)

\* What clients were told of has no users, so nobody deletes it.
AnnouncedInv ==
    \A oid \in announced : \E ch \in channels :
        ch.oid = oid /\ ch.users = {} /\ HasParent(ch.parent)

Inv == TypeOK /\ StoreInv /\ AnnouncedInv /\ \A q \in Requests : RequestInv(q)

-----------------------------------------------------------------------------
LEMMA Endpoints == DOMAIN Required \cap DOMAIN Tokens = {}
<1>1. DOMAIN Tokens = {"getUserChannelRTCToken", "getServerChannelRTCToken"}
  BY DEF Tokens
<1>2. /\ DOMAIN MessagesRequire = {"getChannelMessages", "sendMessage", "updateMessage",
                                   "deleteMessage", "handleAttachments"}
      /\ DOMAIN ChannelsRequire = {"getServerChannels", "createServerChannel"}
  BY DEF MessagesRequire, ChannelsRequire
<1>3. DOMAIN Required = DOMAIN MessagesRequire \cup DOMAIN ChannelsRequire
  BY DEF Required
<1> QED
  BY <1>1, <1>2, <1>3

LEMMA AskedTypes ==
    ASSUME asked \in Questions, NEW q \in DOMAIN asked
    PROVE  q \in Requests /\ asked[q] \in Question
BY AccessAssumption

LEMMA InvInit == ASSUME Init PROVE Inv
<1> USE AccessAssumption
<1>1. Cardinality(FirstChannels) \in Nat
  BY FS_CardinalityType
<1>2. TypeOK
  BY <1>1 DEF Init, TypeOK, UnderWay
<1>3. StoreInv
  <2>1. \A c \in channels : c.oid \in 1..nextOid - 1
    BY <1>1 DEF Init
  <2> QED
    BY <2>1 DEF Init, StoreInv
<1>4. AnnouncedInv
  BY DEF Init, AnnouncedInv
<1>5. ASSUME NEW q \in Requests PROVE RequestInv(q)
  BY DEF Init, RequestInv, Watched, Located, Claimed, GrantOf, DenialOf, Parented,
         UnderWay, Granted
<1> QED
  BY <1>2, <1>3, <1>4, <1>5 DEF Inv

-----------------------------------------------------------------------------
\* Nothing that a view depends on changes.
ViewsStay == UNCHANGED <<channels, nextOid, copyVars, asked>>

LEMMA SameViews ==
    ASSUME ViewsStay, NEW q
    PROVE  View(q)' = View(q) /\ Looked(q)' = Looked(q)
BY DEF ViewsStay, copyVars, View, Credentials, Good, Looked, ServersOf, Named, Subject, For,
       IsPrivateOf, IsRoomFor

\* A request whose own variables stay is not touched by what another one reads.
LEMMA OthersStay ==
    ASSUME ViewsStay, NEW q \in Requests, RequestInv(q),
           step'[q] = step[q], server'[q] = server[q], held'[q] = held[q],
           made'[q] = made[q], seen'[q] = seen[q]
    PROVE  RequestInv(q)'
<1>1. channels' = channels /\ asked' = asked
  BY DEF ViewsStay
<1>2. Watched(q)' /\ Located(q)'
  BY <1>1, SameViews DEF RequestInv, Watched, Located, Named
<1>3. Claimed(q)' /\ GrantOf(q)' /\ DenialOf(q)'
  BY <1>1 DEF RequestInv, Claimed, Subject, GrantOf, DenialOf
<1>4. Parented(q)'
  BY <1>1 DEF RequestInv, Parented, HasParent
<1> QED
  BY <1>2, <1>3, <1>4 DEF RequestInv

Steps == {"idle", "denied", "granted", "parented", "refused", "saved", "created"} \cup UnderWay

\* What a request changes by a read: how far it is, and what it has found.
Reads(q) ==
    /\ ViewsStay
    /\ UNCHANGED <<announced, made, seen>>
    /\ \E to \in Steps : step' = [step EXCEPT ![q] = to]
    /\ server' = server \/ \E s \in Servers : server' = [server EXCEPT ![q] = s]
    /\ held' = held \/ \E h \in SUBSET RoleIds : held' = [held EXCEPT ![q] = h]

LEMMA ReadStep ==
    ASSUME Inv, NEW q \in Requests, Reads(q), RequestInv(q)'
    PROVE  Inv'
<1>1. TypeOK'
  BY DEF Reads, ViewsStay, copyVars, ownerVars, Inv, TypeOK, Steps
<1>2. StoreInv' /\ AnnouncedInv'
  BY DEF Reads, ViewsStay, copyVars, Inv, StoreInv, AnnouncedInv, HasParent, SameKey
<1>3. ASSUME NEW p \in Requests, p # q
      PROVE  RequestInv(p)'
  <2>1. /\ step'[p] = step[p] /\ server'[p] = server[p] /\ held'[p] = held[p]
        /\ made'[p] = made[p] /\ seen'[p] = seen[p]
    BY <1>3 DEF Reads, Inv, TypeOK
  <2> QED
    BY <2>1, OthersStay DEF Reads, Inv
<1> QED
  BY <1>1, <1>2, <1>3 DEF Inv

\* The guard finds the channel: a private one decides, another names its server.
LEMMA FindChannelStep ==
    ASSUME Inv, NEW q \in Requests, FindChannel(q)
    PROVE  Inv'
<1>1. /\ step[q] = "asked" /\ asked[q].endpoint \in DOMAIN Required /\ Named(q) = NoServer
      /\ ViewsStay /\ UNCHANGED <<announced, held, made, seen>>
  BY DEF FindChannel, ViewsStay, channelVars
<1>2. q \in DOMAIN asked /\ View(q) \in seen[q] /\ asked[q] \in Question
  BY <1>1, AskedTypes DEF Inv, RequestInv, Watched, UnderWay, TypeOK
<1>3. asked[q].endpoint \notin DOMAIN Tokens
  BY <1>1, Endpoints
<1>4. CASE Looked(q) = {}
  <2>1. step' = [step EXCEPT ![q] = "denied"] /\ server' = server
    BY <1>4 DEF FindChannel, Answer, Goto
  <2>2. View(q).credentials = {}
    BY <1>1, <1>4 DEF View, Credentials, ServersOf, For
  <2>3. step'[q] = "denied" /\ seen' = seen /\ q \in DOMAIN asked'
    BY <1>1, <1>2, <2>1 DEF Inv, TypeOK, ViewsStay
  <2>4. RequestInv(q)'
    BY <1>2, <2>2, <2>3
       DEF RequestInv, Watched, Located, Claimed, GrantOf, DenialOf, Parented, Granted, UnderWay
  <2>5. Reads(q)
    BY <1>1, <2>1 DEF Reads, Steps
  <2> QED
    BY <2>4, <2>5, ReadStep
<1>5. ASSUME NEW ch \in Looked(q), ch.server = NoServer,
             Answer(q, asked[q].user \in ch.users), server' = server
      PROVE  Inv'
  <2>1. Looked(q) = {ch} /\ ch \in channels
    BY <1>5 DEF Inv, StoreInv, Looked
  <2>2. IF asked[q].user \in ch.users THEN asked[q].user \in View(q).credentials
        ELSE View(q).credentials = {}
    <3>1. ServersOf(q) = {} /\ (For(q, ch) <=> asked[q].user \in ch.users)
      BY <1>1, <1>3, <1>5, <2>1 DEF ServersOf, For, IsPrivateOf
    <3>2. {n \in members : /\ asked[q].endpoint \in DOMAIN Required
                           /\ n.user = asked[q].user /\ n.server \in ServersOf(q)} = {}
      BY <3>1
    <3>3. CASE asked[q].user \in ch.users
      <4>1. ch \in {c \in Looked(q) : For(q, c)}
        BY <2>1, <3>1, <3>3
      <4>2. asked[q].user \in {Subject(q) : d \in {c \in Looked(q) : For(q, c)}}
        BY <1>3, <4>1 DEF Subject, Tokens
      <4>3. asked[q].user \in Credentials(q)
        BY <4>2 DEF Credentials
      <4> QED
        BY <3>3, <4>3 DEF View
    <3>4. CASE asked[q].user \notin ch.users
      <4>1. {c \in Looked(q) : For(q, c)} = {}
        BY <2>1, <3>1, <3>4
      <4> QED
        BY <3>2, <3>4, <4>1 DEF View, Credentials
    <3> QED
      BY <3>3, <3>4
  <2>3. asked[q].user \in View(q).good
    BY <1>3, <1>1 DEF View, Good
  <2>4. seen' = seen /\ step' = [step EXCEPT ![q] = IF asked[q].user \in ch.users THEN "granted" ELSE "denied"]
        /\ q \in DOMAIN asked'
    BY <1>1, <1>2, <1>5 DEF Answer, Goto, ViewsStay
  <2>5. CASE asked[q].user \in ch.users
    <3>1. step'[q] = "granted" /\ asked[q].user \in View(q).credentials
      BY <2>2, <2>4, <2>5 DEF Inv, TypeOK
    <3>2. RequestInv(q)'
      BY <1>2, <2>3, <2>4, <3>1
         DEF RequestInv, Watched, Located, Claimed, GrantOf, DenialOf, Parented, Granted, UnderWay
    <3>3. Reads(q)
      BY <1>1, <1>5, <2>4, <2>5 DEF Reads, Steps
    <3> QED
      BY <3>2, <3>3, ReadStep
  <2>6. CASE asked[q].user \notin ch.users
    <3>1. step'[q] = "denied" /\ View(q).credentials = {}
      BY <2>2, <2>4, <2>6 DEF Inv, TypeOK
    <3>2. RequestInv(q)'
      BY <1>2, <2>4, <3>1
         DEF RequestInv, Watched, Located, Claimed, GrantOf, DenialOf, Parented, Granted, UnderWay
    <3>3. Reads(q)
      BY <1>1, <1>5, <2>4, <2>6 DEF Reads, Steps
    <3> QED
      BY <3>2, <3>3, ReadStep
  <2> QED
    BY <2>5, <2>6
<1>6. ASSUME NEW ch \in Looked(q), ch.server # NoServer, Goto(q, "located"),
             server' = [server EXCEPT ![q] = ch.server]
      PROVE  Inv'
  <2>1. ch.server \in Servers
    BY <1>6 DEF Looked, Inv, TypeOK, Channel
  <2>2. step'[q] = "located" /\ server'[q] = ch.server /\ seen' = seen
        /\ asked' = asked /\ View(q)' = View(q) /\ Looked(q)' = Looked(q) /\ Named(q)' = Named(q)
    BY <1>1, <1>6, SameViews DEF Goto, Inv, TypeOK, ViewsStay, Named
  <2>3. RequestInv(q)'
    BY <1>1, <1>2, <1>6, <2>2
       DEF RequestInv, Watched, Located, Claimed, GrantOf, DenialOf, Parented, Granted, UnderWay
  <2>4. Reads(q)
    BY <1>1, <1>6, <2>1 DEF Reads, Steps, Goto, UnderWay
  <2> QED
    BY <2>3, <2>4, ReadStep
<1> QED
  BY <1>4, <1>5, <1>6 DEF FindChannel

\* getMemberPermissions() finds the one member that the view knows of, or none.
LEMMA FindMemberStep ==
    ASSUME Inv, NEW q \in Requests, FindMember(q)
    PROVE  Inv'
<1> DEFINE s == IF step[q] = "located" THEN server[q] ELSE Named(q)
<1>1. /\ step[q] \in {"asked", "located"} /\ ViewsStay
      /\ UNCHANGED <<announced, server, made, seen>>
      /\ step[q] = "asked" => asked[q].endpoint \in DOMAIN Required /\ Named(q) # NoServer
  BY DEF FindMember, ViewsStay, channelVars
<1>2. q \in DOMAIN asked /\ View(q) \in seen[q] /\ asked[q] \in Question
  BY <1>1, AskedTypes DEF Inv, RequestInv, Watched, UnderWay, TypeOK
<1>3. asked[q].endpoint \in DOMAIN Required /\ asked[q].endpoint \notin DOMAIN Tokens
  BY <1>1, Endpoints DEF Inv, RequestInv, Located
<1>4. View(q).credentials = UNION {m.roles : m \in MembersOf(q, s)}
  <2>1. CASE step[q] = "asked"
    <3>1. ServersOf(q) = {s} /\ \A ch \in Looked(q) : ~For(q, ch)
      BY <1>1, <1>3, <2>1 DEF ServersOf, For
    <3> QED
      BY <1>3, <3>1 DEF View, Credentials, MembersOf
  <2>2. CASE step[q] = "located"
    <3>1. PICK ch \in channels : Looked(q) = {ch} /\ ch.server = server[q] /\ ch.server # NoServer
      BY <2>2 DEF Inv, RequestInv, Located, StoreInv, Looked
    <3>2. ServersOf(q) = {s} /\ ~For(q, ch)
      BY <1>3, <2>2, <3>1 DEF Inv, RequestInv, Located, ServersOf, For, IsPrivateOf
    <3> QED
      BY <1>3, <3>1, <3>2 DEF View, Credentials, MembersOf
  <2> QED
    BY <1>1, <2>1, <2>2
<1>5. q \in DOMAIN asked' /\ asked' = asked /\ seen' = seen /\ View(q)' = View(q)
  BY <1>1, <1>2, SameViews DEF ViewsStay
<1>6. CASE MembersOf(q, s) = {} /\ Answer(q, FALSE) /\ held' = held
  <2>1. step' = [step EXCEPT ![q] = "denied"] /\ step'[q] = "denied"
    BY <1>6 DEF Answer, Goto, Inv, TypeOK
  <2>2. View(q).credentials = {}
    BY <1>4, <1>6
  <2>3. RequestInv(q)'
    BY <1>2, <1>5, <2>1, <2>2
       DEF RequestInv, Watched, Located, Claimed, GrantOf, DenialOf, Parented, Granted, UnderWay
  <2>4. Reads(q)
    BY <1>1, <1>6, <2>1 DEF Reads, Steps
  <2> QED
    BY <2>3, <2>4, ReadStep
<1>7. ASSUME NEW m \in MembersOf(q, s), Goto(q, "claimed"), held' = [held EXCEPT ![q] = m.roles]
      PROVE  Inv'
  <2>1. step' = [step EXCEPT ![q] = "claimed"] /\ step'[q] = "claimed" /\ held'[q] = m.roles
    BY <1>7 DEF Goto, Inv, TypeOK
  <2>2. MembersOf(q, s) = {m} /\ m.roles \subseteq RoleIds
    BY <1>7, AccessAssumption DEF MembersOf, Inv, StoreInv, TypeOK, SameKey, Member
  <2>3. View(q).credentials = m.roles
    BY <1>4, <2>2
  <2>4. RequestInv(q)'
    BY <1>2, <1>3, <1>5, <2>1, <2>2, <2>3
       DEF RequestInv, Watched, Located, Claimed, GrantOf, DenialOf, Parented, Granted, UnderWay
  <2>5. Reads(q)
    BY <1>1, <1>7, <2>1, <2>2 DEF Reads, Steps, UnderWay
  <2> QED
    BY <2>4, <2>5, ReadStep
<1> QED
  BY <1>6, <1>7 DEF FindMember

\* The roles are read: one with the permission is good for the endpoint now and
\* spoke for the user when the member was found; if there is none, then none
\* spoke for the user then that is good now.
LEMMA ReadRolesStep ==
    ASSUME Inv, NEW q \in Requests, ReadRoles(q)
    PROVE  Inv'
<1>1. /\ step[q] = "claimed" /\ asked[q].endpoint \in DOMAIN Required
      /\ ViewsStay /\ UNCHANGED <<announced, server, held, made, seen>>
      /\ step' = [step EXCEPT ![q] = IF Permitted(q) THEN "granted" ELSE "denied"]
  BY DEF ReadRoles, Answer, Goto, ViewsStay, channelVars
<1>2. q \in DOMAIN asked /\ View(q) \in seen[q] /\ asked[q] \in Question
  BY <1>1, AskedTypes DEF Inv, RequestInv, Watched, UnderWay, TypeOK
<1>3. asked[q].endpoint \notin DOMAIN Tokens
  BY <1>1, Endpoints
<1>4. PICK v \in seen[q] : v.credentials = held[q] /\ held[q] \subseteq RoleIds
  BY <1>1, <1>3 DEF Inv, RequestInv, Claimed
<1>5. View(q).good = {asked[q].user}
         \cup {r[1] : r \in {t \in roles : Required[asked[q].endpoint] \in Permits[t]}}
  BY <1>3 DEF View, Good
<1>6. q \in DOMAIN asked' /\ seen' = seen
  BY <1>1, <1>2 DEF ViewsStay
<1>7. Reads(q)
  BY <1>1 DEF Reads, Steps
<1>8. CASE Permitted(q)
  <2>1. \E x : x \in v.credentials \cap View(q).good
    BY <1>4, <1>5, <1>8 DEF Permitted
  <2>2. step'[q] = "granted"
    BY <1>1, <1>8 DEF Inv, TypeOK
  <2>3. RequestInv(q)'
    BY <1>2, <1>6, <2>1, <2>2
       DEF RequestInv, Watched, Located, Claimed, GrantOf, DenialOf, Parented, Granted, UnderWay
  <2> QED
    BY <1>7, <2>3, ReadStep
<1>9. CASE ~Permitted(q)
  <2>1. \A x : ~(x \in v.credentials /\ x \in View(q).good)
    <3> SUFFICES ASSUME NEW x, x \in held[q], x \in View(q).good
                 PROVE  FALSE
      BY <1>4
    <3>1. x # asked[q].user
      BY <1>2, <1>4, AccessAssumption DEF Question
    <3>2. \E r \in roles : r[1] = x /\ Required[asked[q].endpoint] \in Permits[r]
      BY <1>5, <3>1
    <3> QED
      BY <1>9, <3>2 DEF Permitted
  <2>2. step'[q] = "denied"
    BY <1>1, <1>9 DEF Inv, TypeOK
  <2>3. RequestInv(q)'
    BY <1>2, <1>6, <2>1, <2>2
       DEF RequestInv, Watched, Located, Claimed, GrantOf, DenialOf, Parented, Granted, UnderWay
  <2> QED
    BY <1>7, <2>3, ReadStep
<1> QED
  BY <1>8, <1>9

\* The room of a token is found, and it is one for the user.
LEMMA FindRoomStep ==
    ASSUME Inv, NEW q \in Requests, FindRoom(q)
    PROVE  Inv'
<1>1. /\ step[q] = "asked" /\ asked[q].endpoint \in DOMAIN Tokens
      /\ ViewsStay /\ UNCHANGED <<announced, server, held, made, seen>>
      /\ step' = [step EXCEPT ![q] =
                     IF \E ch \in Looked(q) : IsRoomFor(q, ch) THEN "claimed" ELSE "denied"]
  BY DEF FindRoom, Goto, ViewsStay, channelVars
<1>2. q \in DOMAIN asked /\ View(q) \in seen[q] /\ asked[q].endpoint \notin DOMAIN Required
  BY <1>1, Endpoints DEF Inv, RequestInv, Watched, UnderWay
<1>3. View(q).credentials = {Subject(q) : ch \in {c \in Looked(q) : IsRoomFor(q, c)}}
  BY <1>1, <1>2 DEF View, Credentials, For
<1>4. q \in DOMAIN asked' /\ asked' = asked /\ seen' = seen /\ View(q)' = View(q)
      /\ Subject(q)' = Subject(q)
  BY <1>1, <1>2, SameViews DEF ViewsStay, Subject
<1>5. Reads(q)
  BY <1>1 DEF Reads, Steps, UnderWay
<1>6. CASE \E ch \in Looked(q) : IsRoomFor(q, ch)
  <2>1. step'[q] = "claimed" /\ Subject(q) \in View(q).credentials
    BY <1>1, <1>3, <1>6 DEF Inv, TypeOK
  <2>2. RequestInv(q)'
    BY <1>1, <1>2, <1>4, <2>1
       DEF RequestInv, Watched, Located, Claimed, GrantOf, DenialOf, Parented, Granted, UnderWay
  <2> QED
    BY <1>5, <2>2, ReadStep
<1>7. CASE ~\E ch \in Looked(q) : IsRoomFor(q, ch)
  <2>1. step'[q] = "denied" /\ View(q).credentials = {}
    BY <1>1, <1>3, <1>7 DEF Inv, TypeOK
  <2>2. RequestInv(q)'
    BY <1>2, <1>4, <2>1
       DEF RequestInv, Watched, Located, Claimed, GrantOf, DenialOf, Parented, Granted, UnderWay
  <2> QED
    BY <1>5, <2>2, ReadStep
<1> QED
  BY <1>6, <1>7

\* The user for whom the token is meant is in the copy of the users, or not.
LEMMA FindUserStep ==
    ASSUME Inv, NEW q \in Requests, FindUser(q)
    PROVE  Inv'
<1>1. /\ step[q] = "claimed" /\ asked[q].endpoint \in DOMAIN Tokens
      /\ ViewsStay /\ UNCHANGED <<announced, server, held, made, seen>>
      /\ step' = [step EXCEPT ![q] = IF Subject(q) \in users THEN "granted" ELSE "denied"]
  BY DEF FindUser, Answer, Goto, ViewsStay, channelVars
<1>2. q \in DOMAIN asked /\ View(q) \in seen[q] /\ asked[q].endpoint \notin DOMAIN Required
  BY <1>1, Endpoints DEF Inv, RequestInv, Watched, UnderWay
<1>3. View(q).good = users /\ View(q).credentials \subseteq {Subject(q)}
  <2>1. Credentials(q) \subseteq {Subject(q)}
    BY <1>2 DEF Credentials
  <2> QED
    BY <1>1, <2>1 DEF View, Good
<1>4. \E v \in seen[q] : Subject(q) \in v.credentials
  BY <1>1 DEF Inv, RequestInv, Claimed
<1>5. q \in DOMAIN asked' /\ seen' = seen
  BY <1>1, <1>2 DEF ViewsStay
<1>6. Reads(q)
  BY <1>1 DEF Reads, Steps
<1>7. step'[q] = IF Subject(q) \in users THEN "granted" ELSE "denied"
  BY <1>1 DEF Inv, TypeOK
<1>8. RequestInv(q)'
  BY <1>2, <1>3, <1>4, <1>5, <1>7
     DEF RequestInv, Watched, Located, Claimed, GrantOf, DenialOf, Parented, Granted, UnderWay
<1> QED
  BY <1>6, <1>8, ReadStep

\* createServerChannel() looks for the parent, if one is named.
LEMMA FindParentStep ==
    ASSUME Inv, NEW q \in Requests, FindParent(q)
    PROVE  Inv'
<1>1. /\ step[q] = "granted" /\ ViewsStay
      /\ UNCHANGED <<announced, server, held, made, seen>>
  BY DEF FindParent, ViewsStay, channelVars
<1>2. /\ step' = [step EXCEPT ![q] = "parented"] /\ HasParent(asked[q].parent)
      \/ step' = [step EXCEPT ![q] = "refused"]
  BY DEF FindParent, Goto, HasParent, IsParent
<1>3. q \in DOMAIN asked /\ \E then, later \in seen[q] : then.credentials \cap later.good # {}
  BY <1>1 DEF Inv, RequestInv, Watched, GrantOf, Granted
<1>4. q \in DOMAIN asked' /\ seen' = seen /\ (HasParent(asked[q].parent) <=> HasParent(asked[q].parent)')
  BY <1>1, <1>3 DEF ViewsStay, HasParent
<1>5. \/ step'[q] = "parented" /\ HasParent(asked[q].parent)
      \/ step'[q] = "refused"
  BY <1>2 DEF Inv, TypeOK
<1>6. RequestInv(q)'
  BY <1>3, <1>4, <1>5
     DEF RequestInv, Watched, Located, Claimed, GrantOf, DenialOf, Parented, Granted, UnderWay
<1>7. Reads(q)
  BY <1>1, <1>2 DEF Reads, Steps
<1> QED
  BY <1>6, <1>7, ReadStep

-----------------------------------------------------------------------------
Views == [credentials : SUBSET (RoleIds \cup Users), good : SUBSET (RoleIds \cup Users)]

\* The types that a view depends on.
CopyTypes ==
    members \subseteq Memberships /\ roles \subseteq RoleVersions /\ users \subseteq Users

LEMMA ViewTypes ==
    ASSUME CopyTypes, asked \in Questions, NEW q \in DOMAIN asked
    PROVE  View(q) \in Views
<1>1. Subject(q) \in Users /\ asked[q].user \in Users
  BY AskedTypes DEF Question, Subject
<1>2. \A m \in members : m.roles \subseteq RoleIds
  BY AccessAssumption DEF CopyTypes, Member
<1>3. \A r \in roles : r[1] \in RoleIds
  BY DEF CopyTypes, RoleVersions
<1>4. Credentials(q) \subseteq RoleIds \cup Users
  BY <1>1, <1>2 DEF Credentials
<1>5. Good(q) \subseteq RoleIds \cup Users
  BY <1>1, <1>3 DEF Good, CopyTypes
<1> QED
  BY <1>4, <1>5 DEF View, Views

\* The same of the state after a step that leaves alone what is asked for.
LEMMA NextViewTypes ==
    ASSUME CopyTypes', asked \in Questions, asked' = asked, NEW q \in DOMAIN asked
    PROVE  View(q)' \in Views
<1>1. Subject(q) \in Users /\ asked[q].user \in Users
  BY AskedTypes DEF Question, Subject
<1>2. \A m \in members' : m.roles \subseteq RoleIds
  BY AccessAssumption DEF CopyTypes, Member
<1>3. \A r \in roles' : r[1] \in RoleIds
  BY DEF CopyTypes, RoleVersions
<1>4. Credentials(q)' \subseteq RoleIds \cup Users
  BY <1>1, <1>2 DEF Credentials, Subject
<1>5. Good(q)' \subseteq RoleIds \cup Users
  BY <1>1, <1>3 DEF Good, CopyTypes
<1> QED
  BY <1>4, <1>5 DEF View, Views

\* A request begins, and its first view is recorded.
LEMMA AskStep ==
    ASSUME Inv, NEW q \in Requests, Ask(q)
    PROVE  Inv'
<1>1. /\ q \in DOMAIN asked /\ ViewsStay /\ UNCHANGED <<announced, server, held, made>>
      /\ step' = [step EXCEPT ![q] = "asked"] /\ seen' = [seen EXCEPT ![q] = {View(q)}]
  BY DEF Ask, Goto, ViewsStay, channelVars
<1>2. TypeOK'
  <2>1. View(q) \in Views
    BY <1>1, ViewTypes DEF Inv, TypeOK, CopyTypes
  <2>2. seen' \in [Requests -> SUBSET Views]
    BY <1>1, <2>1 DEF Inv, TypeOK, Views
  <2> QED
    BY <1>1, <2>2 DEF ViewsStay, copyVars, ownerVars, Inv, TypeOK, UnderWay, Views
<1>3. StoreInv' /\ AnnouncedInv'
  BY <1>1 DEF ViewsStay, copyVars, Inv, StoreInv, AnnouncedInv, HasParent, SameKey
<1>4. RequestInv(q)'
  <2>1. /\ step'[q] = "asked" /\ seen'[q] = {View(q)} /\ q \in DOMAIN asked'
        /\ View(q)' = View(q)
    BY <1>1, SameViews DEF Inv, TypeOK, ViewsStay
  <2> QED
    BY <2>1 DEF RequestInv, Watched, Located, Claimed, GrantOf, DenialOf, Parented, Granted
<1>5. ASSUME NEW p \in Requests, p # q
      PROVE  RequestInv(p)'
  <2>1. /\ step'[p] = step[p] /\ server'[p] = server[p] /\ held'[p] = held[p]
        /\ made'[p] = made[p] /\ seen'[p] = seen[p]
    BY <1>1, <1>5 DEF Inv, TypeOK
  <2> QED
    BY <1>1, <2>1, OthersStay DEF Inv
<1> QED
  BY <1>2, <1>3, <1>4, <1>5 DEF Inv

\* Clients are told of the channel that was saved.
LEMMA AnnounceStep ==
    ASSUME Inv, NEW q \in Requests, Announce(q)
    PROVE  Inv'
<1>1. /\ step[q] = "saved" /\ ViewsStay /\ UNCHANGED <<server, held, made, seen>>
      /\ step' = [step EXCEPT ![q] = "created"] /\ announced' = announced \cup {made[q]}
  BY DEF Announce, Goto, Told, ViewsStay
<1>2. PICK ch \in channels : ch.oid = made[q] /\ ch.users = {} /\ HasParent(ch.parent)
  BY <1>1 DEF Inv, RequestInv, Parented
<1>3. TypeOK'
  <2>1. made[q] \in 1..nextOid - 1
    BY <1>2 DEF Inv, StoreInv
  <2> QED
    BY <1>1, <2>1 DEF ViewsStay, copyVars, ownerVars, Inv, TypeOK, UnderWay
<1>4. StoreInv' /\ AnnouncedInv'
  BY <1>1, <1>2 DEF ViewsStay, copyVars, Inv, StoreInv, AnnouncedInv, HasParent, SameKey
<1>5. RequestInv(q)'
  <2>1. /\ step'[q] = "created" /\ seen' = seen /\ q \in DOMAIN asked'
        /\ step[q] \in Granted
    BY <1>1 DEF Inv, TypeOK, ViewsStay, Granted, RequestInv, Watched
  <2> QED
    BY <2>1 DEF Inv, RequestInv, Watched, Located, Claimed, GrantOf, DenialOf, Parented,
                Granted, UnderWay
<1>6. ASSUME NEW p \in Requests, p # q
      PROVE  RequestInv(p)'
  <2>1. /\ step'[p] = step[p] /\ server'[p] = server[p] /\ held'[p] = held[p]
        /\ made'[p] = made[p] /\ seen'[p] = seen[p]
    BY <1>1, <1>6 DEF Inv, TypeOK
  <2> QED
    BY <1>1, <2>1, OthersStay DEF Inv
<1> QED
  BY <1>3, <1>4, <1>5, <1>6 DEF Inv

-----------------------------------------------------------------------------
\* A write during the requests: it is recorded, and takes no channel away that
\* has no users.
Recorded ==
    /\ Watch /\ UNCHANGED <<asked, server, held>>
    /\ \A ch \in channels : ch.users = {} => ch \in channels'

LEMMA RecordedParents ==
    ASSUME Inv, Recorded, NEW oid, HasParent(oid)
    PROVE  HasParent(oid)'
BY DEF Inv, StoreInv, Recorded, HasParent

LEMMA RecordedSeen ==
    ASSUME Inv, Recorded, CopyTypes'
    PROVE  /\ seen' \in [Requests -> SUBSET Views]
           /\ \A q \in Requests :
                 seen'[q] = IF step[q] \in UnderWay THEN seen[q] \cup {View(q)'} ELSE seen[q]
<1>1. \A q \in Requests : step[q] \in UnderWay => View(q)' \in Views
  BY NextViewTypes DEF Inv, TypeOK, RequestInv, Watched, UnderWay, Recorded
<1> QED
  BY <1>1 DEF Recorded, Watch, Inv, TypeOK, Views

LEMMA RecordedStep ==
    ASSUME Inv, Recorded, CopyTypes', NEW q \in Requests,
           step'[q] = step[q], made'[q] = made[q]
    PROVE  RequestInv(q)'
<1>1. /\ asked' = asked /\ server' = server /\ held' = held
      /\ seen'[q] = IF step[q] \in UnderWay THEN seen[q] \cup {View(q)'} ELSE seen[q]
  BY RecordedSeen DEF Recorded
<1>2. Watched(q)' /\ Claimed(q)'
  BY <1>1 DEF Inv, RequestInv, Watched, Claimed, Subject
<1>3. Located(q)'
  <2> SUFFICES ASSUME step[q] = "located"
               PROVE  \E ch \in Looked(q)' : ch.server = server[q]
    BY <1>1 DEF Inv, RequestInv, Located, Named
  <2>1. PICK ch \in channels : ch.oid = asked[q].channel /\ ch.server = server[q]
                               /\ ch.server # NoServer
    BY DEF Inv, RequestInv, Located, Looked
  <2>2. ch \in channels'
    BY <2>1 DEF Inv, StoreInv, Recorded
  <2> QED
    BY <1>1, <2>1, <2>2 DEF Looked
<1>4. GrantOf(q)' /\ DenialOf(q)'
  BY <1>1 DEF Inv, RequestInv, GrantOf, DenialOf, Granted, UnderWay
<1>5. Parented(q)'
  <2>1. step[q] \in {"parented", "saved"} => HasParent(asked[q].parent)'
    BY <1>1, RecordedParents DEF Inv, RequestInv, Parented
  <2>2. ASSUME step[q] = "saved"
        PROVE  \E ch \in channels' : ch.oid = made[q] /\ ch.users = {} /\ HasParent(ch.parent)'
    <3>1. PICK ch \in channels : ch.oid = made[q] /\ ch.users = {} /\ HasParent(ch.parent)
      BY <2>2 DEF Inv, RequestInv, Parented
    <3>2. ch \in channels' /\ HasParent(ch.parent)'
      BY <3>1, RecordedParents DEF Recorded
    <3> QED
      BY <3>1, <3>2
  <2> QED
    BY <1>1, <2>1, <2>2 DEF Parented, HasParent
<1> QED
  BY <1>2, <1>3, <1>4, <1>5 DEF RequestInv

LEMMA RecordedAnnounced ==
    ASSUME Inv, Recorded, announced' = announced
    PROVE  AnnouncedInv'
<1> SUFFICES ASSUME NEW oid \in announced
             PROVE  \E ch \in channels' : ch.oid = oid /\ ch.users = {} /\ HasParent(ch.parent)'
  BY DEF AnnouncedInv, HasParent
<1>1. PICK ch \in channels : ch.oid = oid /\ ch.users = {} /\ HasParent(ch.parent)
  BY DEF Inv, AnnouncedInv
<1>2. ch \in channels' /\ HasParent(ch.parent)'
  BY <1>1, RecordedParents DEF Recorded
<1> QED
  BY <1>1, <1>2

\* The handlers of events: a member, a role or a user comes, changes or goes,
\* or a private channel is deleted.
LEMMA WriteStep ==
    ASSUME Inv, MemberStep \/ RoleStep \/ UserStep \/ DeleteChannel
    PROVE  Inv'
<1>1. Write
  BY DEF MemberStep, RoleStep, UserStep, DeleteChannel
<1>2. Recorded
  <2>1. \A ch \in channels : ch.users = {} => ch \in channels'
    BY DEF MemberStep, RoleStep, UserStep, DeleteChannel, Deletable
  <2> QED
    BY <1>1, <2>1 DEF Recorded, Write, requestVars
<1>3. channels' \subseteq channels
  BY DEF MemberStep, RoleStep, UserStep, DeleteChannel
<1>4. CopyTypes'
  <2>1. CASE RoleStep
    BY <2>1 DEF RoleStep, Copy!Install, Copy!Remove, Copy!Advance, CopyTypes, Inv, TypeOK
  <2>2. CASE MemberStep \/ UserStep \/ DeleteChannel
    BY <2>2 DEF MemberStep, UserStep, DeleteChannel, CopyTypes, Inv, TypeOK
  <2> QED
    BY <2>1, <2>2
<1>5. TypeOK'
  <2>1. seen' \in [Requests -> SUBSET Views]
    BY <1>2, <1>4, RecordedSeen
  <2>2. writes' \in 0..MaxWrites
    BY <1>1, AccessAssumption DEF Write, Inv, TypeOK
  <2> QED
    BY <1>1, <1>3, <1>4, <2>1, <2>2
       DEF Write, requestVars, ownerVars, CopyTypes, Inv, TypeOK, Views
<1>6. StoreInv'
  <2>1. \A m, n \in members' : SameKey(m, n) => m = n
    BY DEF MemberStep, RoleStep, UserStep, DeleteChannel, Inv, StoreInv, SameKey
  <2> QED
    BY <1>1, <1>3, <2>1 DEF Write, Inv, StoreInv
<1>7. AnnouncedInv'
  BY <1>1, <1>2, RecordedAnnounced DEF Write
<1>8. \A q \in Requests : RequestInv(q)'
  BY <1>1, <1>2, <1>4, RecordedStep DEF Write, requestVars
<1> QED
  BY <1>5, <1>6, <1>7, <1>8 DEF Inv

\* The new channel has no users and the parent that was found.
LEMMA SaveStep ==
    ASSUME Inv, NEW q \in Requests, Save(q)
    PROVE  Inv'
<1> DEFINE new == [oid |-> nextOid, type |-> asked[q].type, server |-> asked[q].body,
                   parent |-> asked[q].parent, users |-> {}]
<1>1. /\ step[q] = "parented" /\ channels' = channels \cup {new} /\ nextOid' = nextOid + 1
      /\ made' = [made EXCEPT ![q] = nextOid] /\ step' = [step EXCEPT ![q] = "saved"]
      /\ UNCHANGED <<announced, copyVars, asked, server, held>> /\ Watch
  BY DEF Save, Goto
<1>2. Recorded /\ CopyTypes'
  BY <1>1 DEF Recorded, copyVars, CopyTypes, Inv, TypeOK
<1>3. q \in DOMAIN asked /\ asked[q] \in Question
  BY <1>1, AskedTypes DEF Inv, RequestInv, Watched, TypeOK
<1>4. nextOid \in Nat \ {0}
  BY DEF Inv, TypeOK
<1>5. TypeOK'
  <2>1. seen' \in [Requests -> SUBSET Views]
    BY <1>2, RecordedSeen
  <2>2. new \in Channel
    BY <1>3, <1>4 DEF Channel, Question
  <2>3. announced' \subseteq 1..nextOid' - 1 /\ made' \in [Requests -> 0..nextOid' - 1]
    BY <1>1, <1>4 DEF Inv, TypeOK
  <2>4. channels' \subseteq Channel
    BY <1>1, <2>2 DEF Inv, TypeOK
  <2> HIDE DEF new
  <2> QED
    BY <1>1, <1>4, <2>1, <2>3, <2>4 DEF copyVars, ownerVars, Inv, TypeOK, Views, UnderWay
<1>6. StoreInv'
  <2>1. \A c \in channels : c.oid # nextOid
    BY <1>4 DEF Inv, StoreInv
  <2>2. \A c \in channels' : c.oid \in 1..nextOid' - 1
    BY <1>1, <1>4 DEF Inv, StoreInv
  <2>3. new.oid = nextOid /\ new.users = {}
    OBVIOUS
  <2> HIDE DEF new
  <2> QED
    BY <1>1, <2>1, <2>2, <2>3 DEF copyVars, Inv, StoreInv, SameKey
<1>7. AnnouncedInv'
  BY <1>1, <1>2, RecordedAnnounced
<1>8. RequestInv(q)'
  <2>1. /\ step'[q] = "saved" /\ made'[q] = nextOid /\ asked' = asked
        /\ seen'[q] = seen[q] /\ step[q] \in Granted
    BY <1>1, <1>2, RecordedSeen DEF Inv, TypeOK, UnderWay, Granted
  <2>2. HasParent(asked[q].parent)'
    BY <1>1, <1>2, RecordedParents DEF Inv, RequestInv, Parented
  <2>3. new \in channels' /\ new.oid = nextOid /\ new.users = {} /\ new.parent = asked[q].parent
    BY <1>1
  <2>4. Parented(q)'
    BY <2>1, <2>2, <2>3 DEF Parented, HasParent
  <2> QED
    BY <1>3, <2>1, <2>4
       DEF Inv, RequestInv, Watched, Located, Claimed, GrantOf, DenialOf, Granted, UnderWay
<1>9. ASSUME NEW p \in Requests, p # q
      PROVE  RequestInv(p)'
  <2>1. step'[p] = step[p] /\ made'[p] = made[p]
    BY <1>1, <1>9 DEF Inv, TypeOK
  <2> QED
    BY <1>2, <2>1, RecordedStep
<1> QED
  BY <1>5, <1>6, <1>7, <1>8, <1>9 DEF Inv

-----------------------------------------------------------------------------
LEMMA InvStep ==
    ASSUME Inv, [Next]_vars
    PROVE  Inv'
<1>1. CASE UNCHANGED vars
  <2>1. ViewsStay /\ UNCHANGED <<announced, step, server, held, made, seen>>
    BY <1>1 DEF vars, channelVars, requestVars, ViewsStay
  <2>2. TypeOK' /\ StoreInv' /\ AnnouncedInv'
    BY <2>1 DEF ViewsStay, copyVars, ownerVars, Inv, TypeOK, StoreInv, AnnouncedInv,
                HasParent, SameKey
  <2>3. \A q \in Requests : RequestInv(q)'
    BY <2>1, OthersStay DEF Inv
  <2> QED
    BY <2>2, <2>3 DEF Inv
<1>2. CASE MemberStep \/ RoleStep \/ UserStep \/ DeleteChannel
  BY <1>2, WriteStep
<1>3. ASSUME NEW q \in Requests,
             Ask(q) \/ CanActivate(q) \/ GetToken(q) \/ CreateServerChannel(q)
      PROVE  Inv'
  BY <1>3, AskStep, FindChannelStep, FindMemberStep, ReadRolesStep, FindRoomStep,
     FindUserStep, FindParentStep, SaveStep, AnnounceStep
     DEF CanActivate, GetToken, CreateServerChannel
<1> QED
  BY <1>1, <1>2, <1>3 DEF Next

\* The inductive invariant holds of every run.
THEOREM Invariance == Spec => []Inv
BY InvInit, InvStep, PTL DEF Spec

\* The variables always have their types.
THEOREM TypeCorrect == Spec => []TypeOK
<1>1. Inv => TypeOK
  BY DEF Inv
<1> QED
  BY <1>1, Invariance, PTL

\* Whatever members, roles, users and channels become while a request is read
\* for, it is let through only by something its user had and that was good.
THEOREM GrantsAreGrounded == Spec => []GrantGrounded
<1>1. Inv => GrantGrounded
  BY DEF Inv, RequestInv, GrantOf, Granted, GrantGrounded
<1> QED
  BY <1>1, Invariance, PTL

\* Nor is it turned away if something its user had was good all along.
THEOREM DenialsAreGrounded == Spec => []DenialGrounded
<1>1. Inv => DenialGrounded
  BY DEF Inv, RequestInv, DenialOf, DenialGrounded
<1> QED
  BY <1>1, Invariance, PTL

\* The parent of an announced channel is there, and is one.
THEOREM ParentsStay == Spec => []ParentsStand
<1>1. Inv => ParentsStand
  BY DEF Inv, AnnouncedInv, HasParent, ParentsStand
<1> QED
  BY <1>1, Invariance, PTL
=============================================================================
