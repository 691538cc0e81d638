# Verification of communicator-channels

TLA+ specifications of the channels service: the part of a chat system that
keeps channels and messages and, from the events of the users and the servers
service, its own copies of users, roles and members. This directory holds the
modules, the TLC configurations that check them on small instances, and
machine-checked proofs of their properties for every size of instance.

## 1. Inventory

Paths are relative to the repository (`src/`).

| Part | State it keeps | Operations | Interacts with |
|---|---|---|---|
| Event delivery (`common/interceptors/dlq-retry-checker.interceptor.ts`, `config/rabbitmq.config.ts`; RabbitMQ) | a queue per kind of event, the dead letters that wait to expire, the `x-death` counters | deliver (one unacknowledged message per consumer), ack, nack to the dead letter exchange, expire back, redeliver after a crash, give up | calls every `@RabbitSubscribe` handler |
| `RolesService` (`roles/`) | collection of roles: `roleId`, permissions, `version` | `create`, `update`, `delete` from events; two lookups | fed by the servers service; read when members are populated |
| `UsersService` (`users/`) | collection of users: `userId`, name, avatar, `version` | `create`, `update`, `delete` from events; one lookup | fed by the users service; read when channels and messages are populated and for RTC tokens |
| `MembersService` (`members/`) | collection of members: user, server, role ids, `version` | `create`, `update`, `delete` from events; `getMemberByServer`, `getMemberPermissions` | fed by the servers service; asked by the permissions guard |
| `ChannelsService` (`channels/`) | collection of channels: type, server, parent, `userIds`, `lastMessageDate` | `getChannelById`, `createUserChannel`, `createServerChannel`, `deleteUserChannel`, `updateLastMessageDate`, RTC tokens, lists; handlers of relationship events | publishes `channel.create`; called by messages and the guard |
| `MessagesService` (`messages/`) | collection of messages: content, mentions, attachments, author | `sendMessage`, `updateMessage`, `deleteMessage`, `getMessages`, `handleAttachments` | reads channels, moves `lastMessageDate`, publishes `message.*` |
| `PermissionsGuard` (`common/guards/permissions/`) | none | `canActivate` | reads channels, members and roles at different moments |
| `AuthGuard`, serializer, DTO validation, configuration, health | none | | pure request/response glue |

What is hard about it:

* **Ordering.** Create, update and delete of one entity travel in three queues
  with up to five consumers each (`.github/workflows/base/hpa.yml`), and a
  rejected event comes back behind everything that was published meanwhile. A
  handler meets the events of an entity in any order.
* **Races inside a handler.** `update()` reads a document, awaits, and saves;
  `createUserChannel()` searches, awaits, and inserts; the guard makes up to three
  reads before it answers, and `createServerChannel()` one more before it saves.
* **Crashes and repeats.** A consumer that dies between the database write and
  the acknowledgement gets the event again; a reply that is lost makes a
  handler nack what was applied; the shared fanout dead letter exchange can
  bring back copies of events that another service rejected.
* **Giving up.** An event is tried a limited number of times and then dropped,
  and what a dropped update means for the next one is nowhere tested (the
  repository's tests only instantiate the services).

What makes each part correct:

* **Copies of roles and users**: what a document contains and the version it is
  stored at agree; no update is skipped, applied twice or written over a later
  one; an acknowledged event is in the copy until a delete runs; an update never
  brings a deleted entity back; every event that dies only in this service's queues
  leaves them in the end.
* **Copy of the members**: the same key is used again by a member who comes
  back, so deletes must be matched by creates, whichever of them arrive late, twice or
  as another service's copy; an acknowledged update is stored.
* **Private channels**: at most one per pair of users, whoever asks and however
  often an event is repeated; an accepted relationship gets one and a deleted one
  loses it; a call that returns has announced the channel it made.
* **Messages**: an edit is stored whole; a deleted message is not written again;
  every write is published; the channel keeps the date of its last message.
* **Permissions**: the guard goes by the server that the query names, else the body,
  else the channel's, and reads the channel, the member and the roles one after the
  other. What it answers must rest on what was true of each during the request.
* **Server channels**: a channel that names a parent has one, of type PARENT.
* **Pages**: a client who reads a channel from its end to its beginning meets every
  message that was there all along once, whatever is sent and deleted meanwhile.

## 2. Plan

1. `Delivery`, `Collection`: the two environments every handler runs in. *Done.*
2. `VersionedCopy` (abstract), `CopyService` (roles, refines it),
   `CopyProofs`. *Done.*
3. `Users` (an instance of `CopyService`), `UsersProofs`. *Done.*
4. `Members`, `MembersProofs`. *Done.*
5. `Channels`, private channels, `ChannelsProofs`. *Done.*
6. `Messages`, with paging, server channels and the content of messages,
   `MessagesProofs`, `PagesProofs`. *Done.*
7. `Access`: `PermissionsGuard`, `getMemberPermissions()`, the RTC tokens and
   `createServerChannel()`, over the copies, `AccessProofs`. *Done.*
8. `RolesAccess`: `Access` over the queues and handlers of the roles in place of
   the copy that they implement. *Done.*

What could be added: the same composition with the queues of the members. Every
invariant that a run checks is proved; what is said of liveness is out of the
prover's reach (end of section 6).

## 3. Modules

| Module | What it models | State and actions, and the code they stand for |
|---|---|---|
| `Delivery` | RabbitMQ and the interceptor | `place[e]` is the life of an event: `unpublished`, `queued`, `delivered` (handler entered), `loaded` (handler between its awaits), `applied` (handler has returned without a Nack), `parked` (dead letter waiting to expire), `acked`, `dropped` (given up by `DLQRetryCheckerInterceptor`). `deaths[e]` is the `count` of the `expired` entry of `x-death`. `Exhausted` is the interceptor's decision, `FreeConsumer` the `prefetchCount` of `rabbitmq.config.ts` times the pods |
| `Collection` | A mongoose model with a unique key, a version key and `optimisticConcurrency` | a document is `[oid, key, version, body]`; `Inserted` always starts the version key at 0, whatever value is passed in; `Unmoved`/`Updated` are the conditional write of `save()` on a document that was read before |
| `CopyService` | `RolesService.create/update/delete`; with other constants `UsersService` | `Create`/`RejectCreate`, `FindForUpdate`/`RejectUpdate` up to the first await of `update()`, `SaveUpdate`/`ConflictUpdate` after it, `Delete`; `Fail` is the catch block; `held[e]` the document in the handler's local variable |
| `VersionedCopy` | what such a copy promises, with no queue in it | `Install`, `Advance`, `Remove` |
| `Users` | `UsersService` | `CopyService` with the first version 1 and the lag 2 of `users.service.ts:79` |
| `Members` | `MembersService` | one key for all *stints* of a member; `Update` acknowledges and stores nothing, as in the code; an event is published in order (`InOrder`) or is the copy that another service dead-lettered (`Copied`, `Origins`), which the interceptor does not count |
| `Channels` | `createUserChannel()`, `handleRelationshipCreate()`, `handleRelationshipDelete()`, `deleteUserChannel()` | `step[c]` is how far a request or a handler has come: `called`, `searched` (past the `find`), `saved` (past the `save`); a channel carries who made it (`by`), which the code does not store |
| `Messages` | `sendMessage()`, `updateMessage()`, `deleteMessage()`, `getMessages()`, `updateLastMessageDate()` | `step[c]`: `ready` (the document is in `doc[c]`, `save()` is called), `saved` (written, not yet published); `moves` are the calls of `updateLastMessageDate()` that nobody waits for; `Writable` and `Merged` are what mongoose's `save()` filters by and writes; `page[r]` is what a client has got who reads a channel page by page, each page one `GetMessages` |
| `Access` | `canActivate()`, `getMemberPermissions()`, `getUserChannelRTCToken()`, `getServerChannelRTCToken()`, `createServerChannel()`, with what each endpoint of the two controllers requires | `Named(q)` is the server that the guard takes from the request, the query's before the body's, at every endpoint; `step[q]`: `asked`, `located` (none was named, the channel is found, and its server), `claimed` (the member is found, or the room), then `granted` or `denied`, and for a new channel `parented`, `saved`, `created`; `RoleStep`, `MemberStep`, `UserStep` and `DeleteChannel` are what the event handlers do to the collections meanwhile |
| `RolesAccess` | `Access` and the `CopyService` of the roles side by side | `HandleRoles` is a step of the broker or of a handler, and `roles` what the documents say after it; `OtherStep` is any other step of `Access`. No run: it is the product of two state spaces that the runs `roles_one` and `access` go through one by one |
| `MCRoles`, `MCUsers`, `MCMembers`, `MCChannels`, `MCMessages`, `MCAccess` | the instances that TLC checks | |
| `CopyProofs`, `UsersProofs`, `MembersProofs`, `ChannelsProofs`, `MessagesProofs`, `PagesProofs`, `AccessProofs` | theorems and proofs, section 6 | |

What an event or a document carries besides its key is abstracted to the version
at which upstream published it (`content`, `body`): that is all the handlers
branch on. Names that end in `Swapped`, `OneLate`, `Any`, `Upsert`, `Never` and
the like, under a comment *Mutant*, are plausible mistakes; no specification uses
them. They are there to show that the property next to them can fail.

Modelling decisions a reader should know:

* A queue is a set, not a sequence: a dead letter or a redelivery loses its turn,
  so no handler may rely on order. Runs with `Replicas = 1` have one consumer.
* A crash is the death of a pod while an event is in its hands; what was written
  stays, what the handler held in memory is gone, and the broker delivers again.
* A fault (`Fault`) is a database call that fails, or one that takes effect and
  whose reply is lost. The handlers cannot tell the two apart, and both are in
  the model. An update of a member makes no call after its search, so it can
  only fail there.
* A handler that throws (no catch: `handleRelationshipDelete`) puts the event
  back in its queue; one that returns `Nack` sends it to the dead letter exchange.
* `nextOid` stands for a fresh ObjectId.
* A name stands for one call: what is a send is no edit and no delete, and what is a
  request for a channel is no event (`MessagesAssumption`, `ChannelsAssumption`).
* Of the channels there are at first only private ones have users, and those have no
  server: `createUserChannel()` and `createServerChannel()` make no others, which
  `AccessAssumption` says of `FirstChannels` and the proofs show of the rest. Of what a
  request asks for it says nothing but the type: guards run before validation, so a
  server may be named in the query, in the body, in both or in neither.
* The token of a server's channel is made out to the user that the query names
  (`guest`), not to the one who asks.
* `fate`, `left`, `ended`, `repeated`, `by`, `history`, `outdated`, `published` (of
  `Messages`), `seen` and `owed` are history: no guard of a code action reads them.
* `Access` does not carry queues: its copy of the roles is the abstract
  `VersionedCopy`, which `CopyProofs` shows the handlers to implement, and
  `RolesAccess` shows that the two fit together. The owner has
  published all versions, so the copy may move whenever any schedule lets it; the
  requests start from any state the copies may be in. Members are whole documents
  that come and go, since an update of one stores nothing; of the users' copy only
  presence matters.
* A message's content is the set of its tags. A tag in which `here` occurs counts for
  everyone, and content that was left out makes the call throw, as in
  `parseMessageContent.helper.ts`; `mentionRoles` is always empty.
* A client goes on before the oldest message it has and stops at a page that is not
  full. A limit of 0 is no limit and a negative one counts as positive: MongoDB's
  meaning, and the DTO has an upper bound only.

Facts about libraries that the models rely on (mongoose 6.7,
`@golevelup/nestjs-rabbitmq` 3.4, Nest 9): a first `save()` sets the version key
to 0; a `save()` of a found document under `optimisticConcurrency` filters by
`_id` and version and raises an error when nothing matches; an interceptor that
returns `undefined` ends the call without the handler and the message is acked;
an exception in a subscriber requeues the message; `new Nack()` does not; equality
of arrays in a MongoDB filter is equality of lists; a `save()` without optimistic
concurrency writes the changed fields only, filters by the version (and raises it)
only when an array is set, and raises an error when the document is gone; an
array of sub-documents that is set anew counts as changed unless both are empty; a
`Date` given to a `String` field is cast with `toString()`; `populate()` is a query
of its own after the first.

## 4. Runs

| Run | Bounds | What it asks and shows |
|---|---|---|
| `roles_one` | 1 role, versions 0 to 2, 2 consumers per queue, 2 retries, 1 crash, 1 fault | `VersionMatchesContent`, `AppliedBeforeAck`, `NoResurrection`, `RetriesBounded` and the refinement `IsVersionedCopy` hold in all orders of create, two updates and delete |
| `roles_duplicated` | 1 role, each event twice (own and foreign) | a copy of an event that died in another service's queue does no harm to versions: no update is applied twice; a deleted role does come back if the copy is of its create, and by nothing else |
| `users` | 1 user, versions 1 to 3, 2 retries, 1 crash | users, whose local counter is one behind upstream, are a versioned copy; every event (all are own ones here) settles; an update that is next in line and has a try left lands. The handlers are those of the roles, so this is the run for the liveness of both |
| `members` | 1 member, 2 stints, 1 retry; of 1 crash, 1 fault, 1 foreign copy and 1 update two in a run (`TwoExtras`) | after a delete with no create under way nothing but a create puts the member back; a member whose creates were acknowledged is missing only if one of the deletes ran twice: after a crash, a lost reply, or as another service's copy |
| `members_updates` | 1 stint, 1 update | *violated*, see 7: an acknowledged update is stored nowhere |
| `channels` | 2 users, 1 relationship (a pending, an accepted, a deleted event), 1 request, 2 crashes, 1 fault | an acceptance gets its channel and makes at most one; no call returns with its channel unannounced: an unannounced one belongs to a request that failed or an acceptance that comes back for ever; a delete is acknowledged in the end |
| `channels_race` | 2 requests | *violated*, see 7 |
| `channels_delete` | 1 relationship, 1 request | *violated*, see 7 |
| `messages` | 2 sends, 2 edits, 1 delete, 1 failure; edits with a mention, with `here`, with `here` and a file, with a file only | the mentions and attachments of a message are those of one call; mentions agree with the content unless the last edit wrote over a newer copy, which the edit with `here` does, as it sets no array; a deleted message is never written again; a write that nobody is told of is that of a call which was itself cut off |
| `timeline` | 2 sends on three days, 1 delete, a private and a server channel, 1 reader with the limits -1, 0 and 2 | the channel keeps the greatest of the dates, as strings compare, and a server channel its null; pages ascend, never repeat, and together show all that was there throughout |
| `messages_date` | 2 sends in four days | *violated*, see 7 |
| `access` | 1 user, 2 servers, 2 roles with 2 versions, every endpoint on a private and on a voice channel, with no server named, one in the query, one in the body, or two different ones, 2 writes by handlers during the requests; two requests that make a parent and a child | a request is let through or turned away only for what was so, while it ran, in the server that the guard consults; a server channel's parent stands |

Why the bounds are enough: no handler reads more than one document, and a
document only ever meets the events of its key, so one entity shows every race of
a service; that several do not mix is part of what section 6 proves.
Two updates are the least that can arrive in the wrong order or skip a version;
a retry count of 2 is the least for which "one
too many" and "one too few" differ from "none". Two consumers per queue are what
two handlers of one kind need to overlap. Two edits and a delete are what can meet
on one message. A foreign copy matters once it meets an event that it repeats, and it
does that to each kind of event in turn; a crash, a fault, a copy and an update are
four ways to disturb a member, and two of them meet in every combination. A page depends on the one before it only, so two messages and pages of
one show what can go wrong between two pages, and the limit 2 a full last page. A
request of `access` makes three reads, and two writes can fall between any of them. The calls of one kind in `messages` and `timeline` are alike, and its properties
are invariants, so TLC may take one order of them for all. The theorems of section 6
remove the bounds of all invariants. Deadlock is not checked: upstream may publish nothing
more and the system rests.

## 5. Fairness

`FairSpec` of `Users` puts weak fairness on what is done with
each event (`Consume`): the broker pushes what it holds to a free consumer, a
parked event has a time to live, and a database call returns or fails. Publishing,
crashing and failing are never fair.

`Channels` has weak fairness on the steps of a call and strong fairness on
`Deliver`: its queues have no retry limit, so an event shares its consumers for
ever with others that come back, and what makes it get a turn is that the broker
serves a queue in its order.

## 6. What is proved

`CopyProofs` proves of `CopyService`, for any set of entities, any number of
versions, retries, consumers, crashes and faults, under `CopyAssumption` (naturals
in their ranges, at least one retry, and the lag one more than the first
version):

* `TypeCorrect`: `TypeOK`.
* `VersionsFollowContent`: `VersionMatchesContent`.
* `AcknowledgedIsApplied`: `AppliedBeforeAck`.
* `DeletedStaysDeleted`: `NoResurrection`. It lasts until a create arrives again, and
  only another service's copy does.
* `RetriesEnd`: `RetriesBounded`.
* `HandlersKeepACopy`: the handlers implement `VersionedCopy`.

`UsersProofs` carries the argument over to `Users`, with the versions of the users
service in place of the constants and any origins, and proves `OneBehindUpstream`.

The invariants are not inductive one by one. `VersionMatchesContent` says nothing
of what an update holds between its `findOne` and its `save`, so the induction
fails at the save. `Inv` adds:

* `HeldPredecessor`: what a handler holds is a document of its own entity at the
  version just before the event. With it a save that succeeds moves version and
  content by one together. A document that has the same `_id` has the same key,
  which in turn needs
* `OidsFresh` and `Identified`: an `_id` is never given twice, and no two
  documents have one key. A document that was deleted and created again while a
  handler held it is another document, and the save finds nothing.
* `TriesLeft`: an event on its way through a queue has a try left, so parking it
  once more stays within the limit.
* `Buried`: an entity that was deleted with no create under way (`fate`) has none
  under way still, so nothing can insert it; the copy of a create that arrives ends
  this state.

Each operation is a step of the proof. Those that neither read nor write the
collection are treated at once (`Quiet`), those that do one by one. The
refinement maps the published events to the abstract `announced` and `retired`
and the documents to `copy`; `Create` is an `Install`, a `SaveUpdate` an
`Advance` and a `Delete` a `Remove`, and the invariant supplies what their guards
ask for.

`UsersProofs` also proves `UsersKeepACopy`: a step of `Users` is one of
`CopyService` with its constants, and the abstract variables are the same
expressions, so the refinement carries over.

`MembersProofs`, for any members, stints, versions, retries, crashes, faults and
foreign copies, under `MembersAssumption`:

* `TypeCorrect`: `TypeOK`.
* `WhoLeftStaysAway`: `LeftForGood`. A create under way would end it, so the
  invariant says that there is none while `left` holds; only the publication of a
  create, of a new stint or as a copy, puts one on its way, and it resets `left`.
* `MissingMeansRepeated`: `MissingOnlyByRepeat`. A count: of a member for whom no
  delete ran twice, the stints whose create has run are at most as many as those whose
  delete has run (`ended`), and one more if a document is there (`Balanced`). Crashes,
  failures and copies of creates do not disturb it: a create that runs again finds a
  document or adds one. As deletes are published after their creates, someone whose last
  stint is open has one create more than deletes.

`ChannelsProofs`, for any users, relationships and requests, under
`ChannelsAssumption`:

* `TypeCorrect`: `TypeOK`.
* `OneAcceptanceOneChannel`: `OneChannelPerAcceptance`. The search and the save are
  apart, so the invariant speaks of who is between them: a call that has searched
  in vain has no channel (`SearchedInVain`), since its own would have its own list
  (`AskedFor`) and an event is in one pair of hands at a time (`InHand`).
* `ReturnedAreAnnounced`: `ReturnedIsAnnounced`. Who has saved knows the `_id` of the
  one channel it has made (`SavedMade`), and who has not searched yet has made none
  (`NotYetMade`), so a call returns either without a channel or after it announced it.

`MessagesProofs`, for any channels, calls, contents, files, days, readers and
failures, under `MessagesAssumption`:

* `DeletedMessagesStayDeleted`: `DeletedForGood`. An edit writes to a document that
  is there. A send writes a new one, so the invariant says that the `_id` of a send
  that is not stored is in no one else's hands (`Unsent`, `OidsGiven`, `OneDocument`).
* `MentionsFollowContent`: `MentionsMatchContent`. It rests on `save()` writing
  what differs from the copy that was found: if that copy is the stored one, the
  three fields that come out are those of the edit.
* `ArraysNeverMix`: `ArraysOfOneCall`. As long as no version came after the one that an
  edit holds, the stored arrays are those in its hands (`PinnedTo`). So an edit that
  sets an array, which the version in its filter lets through only then, leaves both
  arrays as it derived them, and one that sets none leaves both as they were.
* `NothingSilent`: `SilentOnlyAfterFailure`.
* `GreatestDateStays`: `DateIsGreatest`. Each message that was delivered has been
  compared with the date of its channel or will be (`Compared`), and a date that
  takes the place of a smaller one is above all that the smaller one was above
  (`GreaterStill`).

`PagesProofs`, under the same assumption, for any number of readers, pages and
messages and any limits:

* `TypeCorrect`: `TypeOK`. What is in hand between two awaits is a document with an
  `_id` that was given (`HeldTyped`), so what is written, logged and shown is too.
* `PagesStayInOrder`: `PagesAscend`.
* `NothingMissed`: `PagesComplete`.

A page is the newest messages of what was found, sorted. That a set of `_id`s can be
sorted is not assumed: the `Rank` of one counts those that are not above it, no two
have the same (`RankRises`), so every place from the first to the last is taken
(`RankTaken`), and who stands in which place is the ascending sequence
(`AscendingExists`, `AscendingAll`). Counting ranks also says what a limit does: a
page that is not full holds all that was found (`PageFull`), and what a page leaves
out is older than all that it holds (`PageTop`).

`PagesComplete` speaks of the last page only, and the induction needs the pages before
it. `OwedAhead` says of every message that a reader is owed and that is still there
that it was shown, or that more pages are to come and it is older than all that was
shown. A step of anyone else could break it by storing a message that is owed, with
an `_id` behind the reader; `UnsentUnowed` says that what a send holds is owed to
nobody, since its `_id` is younger than all the reader has found or, found or not,
in no one else's hands (`Unsent`).

`AccessProofs`, for any users, servers, roles, permissions, channels, requests and
numbers of writes by handlers, under `AccessAssumption`:

* `TypeCorrect`: `TypeOK`.
* `GrantsAreGrounded`: `GrantGrounded`, and `DenialsAreGrounded`: `DenialGrounded`.
  The reads of a request are steps apart, so the invariant says what each has left
  behind: the server it holds is that of a channel that is there, and none was named
  (`Located`), so it is the one the guard consults from beginning to end; the
  roles it holds were those of its member at a moment of `seen` (`Claimed`), and the
  present view is always in `seen` (`Watched`).
* `ParentsStay`: `ParentsStand`. The parent of a channel that is saved is not
  deleted before it is announced, nor after, since only channels with users are
  (`StoreInv`, `Parented`, `AnnouncedInv`).

`RolesAccess`, for the constants of `Access` and `CopyService` together: those of
the queues are under `QueueConstants`, which is `CopyAssumption` without what
`AccessAssumption` says already.

* `SystemImplementsAccess`: every behaviour of the queues, the handlers and the
  requests is one of `Access`. A write of a handler is an `Install`, `Advance` or
  `Remove` (`CopyProofs!StepRefines`), its version is one that was published
  (`AnnouncedVersions`), and what the requests could read is recorded with it; all
  else that the broker and the handlers do is a stutter. The number of writes is
  bounded by `MaxWrites`, as in `Access`, and the theorem holds for every bound.
* `AnswersAreGrounded`: `GrantGrounded`, `DenialGrounded` and `ParentsStand` of that
  system, with the same meaning of the server that the guard consults.

Only model-checked: what is said of liveness (`EventsSettle`,
`InOrderUpdateLands`, `AcceptedHasChannel`, `DeletesSettle`), which the prover cannot do under
fairness.

## 7. Disagreements with the repository's own words

* **`members_updates`**: `MembersService.update()` sets `roleIds` and
  `versionHash` on the document it found and never saves it
  (`members/members.service.ts:113`), then logs "Updated member with id". The
  other two services save here. The stored version stays 0, so of a member's
  updates only the first is acknowledged and the others are rejected until they
  are given up.
* **`channels_race`**: "Channel between these users already created"
  (`channels/channels.service.ts:92`) is decided by a search that is not atomic
  with the save, and the collection has no unique index on its users.
* **`channels_delete`**: the acceptance saves `[receiver, creator]` (line 220) and
  the deletion looks for `[creator, receiver]` (line 238), so the channel stays
  and the log says "channel has been deleted".
  The search of `createUserChannel()` compares lists in the same way, so a request
  that names the same two users in another order gets them a second channel.
* **`messages_date`**: `createdAt` is a `Date`, which mongoose casts for the string
  field `lastMessageDate` to "Sun Nov 20 2022 ...". Such strings compare by the
  names of weekdays, so `lastMessageDate: { $lt: date }` (line 196) keeps the date
  of Sunday when a message of Monday is sent, and the list of a user's channels is
  sorted by it.

Consequences that contradict no statement of the repository:

* An accepted relationship that is delivered again after its channel exists is
  rejected each time and never acknowledged: its queue has no interceptor.
* A dropped update of a role or user leaves the copy at the version before it for
  good, since the next update looks for a version that never comes.
* The interceptor counts only deaths in the service's own queue, and the dead
  letter exchange is shared: a copy of an event that died in another service's
  queue and is rejected here comes back without limit. That it applies no update twice
  is checked (`roles_duplicated`) and proved; that it settles is not true.
* Such a copy of a create inserts an entity again that was deleted, or puts a member
  back who has left. A copy of a member's old delete, like one that is redelivered after
  a crash, takes the newer membership away. The events carry nothing that tells them
  from the first ones. `NoResurrection`, `LeftForGood` and `MissingOnlyByRepeat` say that
  this is all that can go wrong of the kind.
* The guard consults the server that the query names, else the one of the body, and asks
  for the channel only if neither names one, whatever the endpoint. The server that is
  consulted need not be that of the channel that is read or written, nor that of the
  channel that is made. `GrantGrounded` and `DenialGrounded` speak of the server that is
  consulted.
* A channel whose maker fails between its save and its `channel.create` is never
  announced: a retry finds the channel and stops.
* The date of a server channel starts as null, which is not less than any string, so
  it stays null whatever is sent there (`timeline`).
* The permissions of a member are read after the member: one who loses a role just
  before that role gains a permission may be let through, by a combination that held
  at no moment. `GrantGrounded` is what remains true.
* A child channel can be announced before its parent, which another request finds
  between its save and its `channel.create`; and a parent of another server is
  accepted, since only its type is asked for.
* A message whose `_id` was given before another's and that is stored after it can be
  missed by a client who has read past it.
* Two edits at once can leave a message with the content of one and the mentions of
  the other, when only one of them changes who is mentioned.

## 8. Not modelled

* Authentication, serialisation, validation: functions of one request, without
  state. Validation appears only in what the models take as input: a channel
  is asked for between at least two users (the runs take exactly two, so lists of
  up to twenty differ from the model only in length).
* The lists of a user's and of a server's channels: one read each. Their order is that of
  the dates (see `messages_date`).
* Pre-signed uploads: calls to S3 of which the service keeps nothing.
* Configuration, health, start-up, logging.
* A consumer that loses its connection and goes on working: a crash here ends the
  handler.
* Another service's copies of relationship events: in `Channels` each event is one
  message. Two copies handled at once would be two makers, as in `channels_race`.
* The clocks of the pods: `_id`s are given by one counter, while those of MongoDB begin
  with the second of the pod that gives them.
