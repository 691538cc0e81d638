------------------------------ MODULE MCAccess ------------------------------
(* The instance of Access that TLC checks: a user who may be a member of    *)
(* two servers, two roles that change, a private and a voice channel, and   *)
(* two requests, of which the second makes a channel for parents.           *)
EXTENDS Access, TLC

CONSTANTS ann, bob, here, there, mods, guests, q1, q2

MayJoin == {[user |-> ann, server |-> here, roles |-> {mods, guests}],
            [user |-> ann, server |-> there, roles |-> {mods}]}

\* The moderators get their permissions with the first update, the guests lose
\* theirs.
Grants == [rv \in {mods, guests} \X {0, 1} |->
              IF rv \in {<<mods, 1>>, <<guests, 0>>} THEN Permissions ELSE {}]

AtFirst == {[oid |-> 1, type |-> "PRIVATE", server |-> NoServer, parent |-> 0, users |-> {ann, bob}],
            [oid |-> 2, type |-> "VOICE", server |-> here, parent |-> 0, users |-> {}]}

OfAnn(endpoint, query, body, channel, parent) ==
    [endpoint |-> endpoint, user |-> ann, guest |-> bob, query |-> query, body |-> body,
     channel |-> channel, parent |-> parent, type |-> IF parent = 0 THEN "PARENT" ELSE "TEXT"]

\* The servers that a query and a body may name.
Names == {<<NoServer, NoServer>>, <<there, NoServer>>, <<NoServer, there>>, <<there, here>>}

Reads == {OfAnn("getServerChannels", n[1], n[2], 0, 0) : n \in Names \cup {<<here, NoServer>>}}
         \cup {OfAnn(e, n[1], n[2], ch, 0) :
                  e \in DOMAIN MessagesRequire, n \in Names, ch \in {1, 2}}
         \cup {OfAnn(e, NoServer, NoServer, ch, 0) : e \in DOMAIN Tokens, ch \in {1, 2}}

Create(query, parent) == OfAnn("createServerChannel", query, here, 0, parent)

\* A channel is made, or two, or none since the body names no server.
MayAsk == {q1 :> r : r \in Reads \cup {OfAnn("createServerChannel", here, NoServer, 0, 0)}}
          \cup {(q1 :> Create(NoServer, parent)) @@ (q2 :> Create(NoServer, 0)) : parent \in {2, 3}}
          \cup {q1 :> Create(there, 0)}
=============================================================================
