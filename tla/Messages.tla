------------------------------ MODULE Messages ------------------------------
(***************************************************************************)
(* MessagesService: sending, editing and deleting messages, step by step   *)
(* from await to await, the date of the last message that a send moves in  *)
(* its channel without waiting for it, and clients who read a channel page *)
(* by page, from its end to its beginning.                                 *)
(*                                                                         *)
(* The content of a message is abstracted to the set of tags in it, its    *)
(* attachments to a set of files.  What the service derives from them are  *)
(* two arrays, mentionIds and attachments, which mongoose guards with the  *)
(* version of the document when they change, and the flag mentionEveryone, *)
(* which it does not guard.                                                *)
(***************************************************************************)
EXTENDS Integers, SequencesExt

CONSTANTS PrivateChannels, ServerChannels,
          Sends, Edits, Deletes,     \* bound: the calls, each made once
          Bodies, FirstBodies,       \* what edits and sends are called with
          NoContent,                 \* the content left out
          UserTags, HereTags,        \* tags of users, tags with 'here' in them
          TypedFiles,                \* files whose names tell their type
          Readers,                   \* bound: the clients that read a channel once
          Limits,                    \* the limits that they ask with
          MaxDay,                    \* bound: the days that pass
          MaxFailures                \* bound: calls that fail or are cut off

VARIABLES channels,    \* channels[ch]: its lastMessageDate, or Gone
          messages,    \* the documents of the collection
          nextOid,     \* the next fresh _id
          today,
          step,        \* step[c]: how far the call c has come
          body,        \* body[c]: what it was called with
          doc,         \* doc[c]: the document in its local variable
          moves,       \* the updates of lastMessageDate on their way
          failures,
          page,        \* page[r]: what the reader r has got so far
          history,     \* history: the writes to the collection, in order
          outdated,    \* history: messages last written over a newer copy
          published    \* the events, with the write that each one tells

\* Dates are days of one week, which begins on a Sunday, and a call is of one kind.
ASSUME MessagesAssumption ==
    /\ MaxDay \in 0..6 /\ MaxFailures \in Nat /\ Limits \subseteq Int
    /\ Sends \cap Edits = {} /\ (Sends \cup Edits) \cap Deletes = {}

Channels == PrivateChannels \cup ServerChannels
Calls    == Sends \cup Edits \cup Deletes
Days     == 0..MaxDay

\* createdAt is a Date, and mongoose casts it to the string 'Tue Nov 22 2022
\* ...'; createUserChannel() stores an ISO string, createServerChannel() null.
Iso(day)  == [form |-> "iso", day |-> day]
Text(day) == [form |-> "text", day |-> day]
Null      == [form |-> "null", day |-> 0]
Gone      == [form |-> "gone", day |-> 0]
Dates     == [form : {"iso", "text", "null", "gone"}, day : Days]

FirstDate(ch) == IF ch \in PrivateChannels THEN Iso(0) ELSE Null

\* Where 'Sun', 'Mon' ... 'Sat' stand in the order of strings.
WeekdayRank == <<4, 2, 6, 7, 5, 1, 3>>

\* $lt on strings: digits come before letters, and null before nothing.
Below(a, b) ==
    \/ a.form = "iso" /\ b.form = "text"
    \/ a.form = "text" /\ b.form = "text" /\ WeekdayRank[a.day + 1] < WeekdayRank[b.day + 1]

\* parseMessageContent(): content that was left out has no match().  A tag in
\* which 'here' occurs is for everyone, be it a user's; tags of roles are not kept.
Parses(b)   == b.content # NoContent
Mentions(b) == b.content \cap UserTags
Everyone(b) == b.content \cap HereTags # {}

\* createMessageAttachments()
Attachments(b) == b.files \cap TypedFiles

Document ==
    [oid : Nat, channel : Channels, content : {b.content : b \in Bodies \cup FirstBodies},
     mentionIds : SUBSET UserTags, everyone : BOOLEAN, attachments : SUBSET TypedFiles,
     version : Nat, day : Days]

Blank == [oid |-> 0]

storeVars == <<messages, nextOid, history, outdated>>
vars == <<channels, messages, nextOid, today, step, body, doc, moves,
          failures, page, history, outdated, published>>

Init ==
    /\ channels = [ch \in Channels |-> FirstDate(ch)]
    /\ messages = {}
    /\ nextOid = 1
    /\ today = 0
    /\ step = [c \in Calls |-> "idle"]
    /\ body \in [Sends \cup Edits -> Bodies \cup FirstBodies]
    /\ \A c \in Sends : body[c] \in FirstBodies
    /\ \A c \in Edits : body[c] \in Bodies
    /\ doc = [c \in Calls |-> Blank]
    /\ moves = {}
    /\ failures = 0
    /\ page \in [Readers -> [channel : Channels, limit : Limits, shown : {<<>>},
                            owed : {{}}, over : {FALSE}]]
    /\ history = <<>>
    /\ outdated = {}
    /\ published = {}

Stored(c) == {m \in messages : m.oid = doc[c].oid}

Goto(c, to) == step' = [step EXCEPT ![c] = to]

Wrote(kind, c) == history' = Append(history, [kind |-> kind, oid |-> doc[c].oid, by |-> c])

-----------------------------------------------------------------------------
\* The environment: time passes, and the channel of users is deleted.
NextDay ==
    /\ today < MaxDay
    /\ today' = today + 1
    /\ UNCHANGED <<channels, step, body, doc, moves, failures, published, storeVars, page>>

RemoveChannel(ch) ==
    /\ ch \in PrivateChannels /\ channels[ch] # Gone
    /\ channels' = [channels EXCEPT ![ch] = Gone]
    /\ UNCHANGED <<today, step, body, doc, moves, failures, published, storeVars, page>>

\* sendMessage(), up to the call of save(), which gives the _id and createdAt.
FindChannel(c, ch) ==
    /\ c \in Sends /\ step[c] = "idle"
    /\ IF channels[ch] # Gone /\ Parses(body[c])
       THEN /\ Goto(c, "ready")
            /\ doc' = [doc EXCEPT ![c] =
                  [oid |-> nextOid, channel |-> ch, content |-> body[c].content,
                   mentionIds |-> Mentions(body[c]), everyone |-> Everyone(body[c]),
                   attachments |-> Attachments(body[c]), version |-> 0, day |-> today]]
            /\ nextOid' = nextOid + 1
       ELSE Goto(c, "done") /\ UNCHANGED <<doc, nextOid>>
    /\ UNCHANGED <<channels, today, body, moves, failures, published,
                   messages, history, outdated, page>>

Insert(c) ==
    /\ c \in Sends /\ step[c] = "ready"
    /\ messages' = messages \cup {doc[c]}
    /\ Wrote("send", c)
    /\ Goto(c, "saved")
    /\ UNCHANGED <<channels, nextOid, today, body, doc, moves, failures, outdated, published, page>>

\* Mutant: any date gives way to the new one.
OlderAny(mv) == channels[mv.channel] # Gone

Older(mv) == Below(channels[mv.channel], Text(mv.day))

\* updateLastMessageDate(), once it reaches the database.
MoveDate(mv) ==
    /\ mv \in moves
    /\ moves' = moves \ {mv}
    /\ channels' = [channels EXCEPT ![mv.channel] =
                       IF Older(mv) THEN Text(mv.day) ELSE @]
    /\ UNCHANGED <<today, step, body, doc, failures, published, storeVars, page>>

LoseMove(mv) ==
    /\ mv \in moves
    /\ failures < MaxFailures /\ failures' = failures + 1
    /\ moves' = moves \ {mv}
    /\ UNCHANGED <<channels, today, step, body, doc, published, storeVars, page>>

-----------------------------------------------------------------------------
\* updateMessage(), up to the call of save(): any message may be asked for.
FindForEdit(c, oid) ==
    /\ c \in Edits /\ step[c] = "idle"
    /\ IF Parses(body[c]) /\ \E m \in messages : m.oid = oid
       THEN /\ Goto(c, "ready")
            /\ doc' = [doc EXCEPT ![c] = CHOOSE m \in messages : m.oid = oid]
       ELSE Goto(c, "done") /\ UNCHANGED doc
    /\ UNCHANGED <<channels, today, body, moves, failures, published, storeVars, page>>

\* save() writes the fields that differ from what was found, nothing else.  An
\* attachment gets a new _id each time, so only two empty lists do not differ.
Changed(was, now, stored) == IF now # was THEN now ELSE stored

FilesChange(c) == doc[c].attachments \cup Attachments(body[c]) # {}

ArraysChange(c) == Mentions(body[c]) # doc[c].mentionIds \/ FilesChange(c)

\* Mutant: what is derived from the content is left as it was.
MergedStale(c, m) == [m EXCEPT !.content = body[c].content]

Merged(c, m) ==
    [oid |-> m.oid, channel |-> m.channel, day |-> m.day,
     content |-> Changed(doc[c].content, body[c].content, m.content),
     mentionIds |-> Changed(doc[c].mentionIds, Mentions(body[c]), m.mentionIds),
     everyone |-> Changed(doc[c].everyone, Everyone(body[c]), m.everyone),
     attachments |-> IF FilesChange(c) THEN Attachments(body[c]) ELSE m.attachments,
     version |-> IF ArraysChange(c) THEN m.version + 1 ELSE m.version]

\* Mutant: the filter of save() without the version.
WritableAny(c) == Stored(c)

\* The filter of save(): the _id, and the version if an array is set.
Writable(c) == {m \in Stored(c) : ArraysChange(c) => m.version = doc[c].version}

\* Mutant: a message that is gone is inserted again.
SaveUpsert(c) ==
    /\ c \in Edits /\ step[c] = "ready"
    /\ messages' = (messages \ Stored(c)) \cup {Merged(c, doc[c])}
    /\ outdated' = outdated
    /\ Wrote("update", c)
    /\ Goto(c, "saved")
    /\ UNCHANGED <<channels, nextOid, today, body, doc, moves, failures, published, page>>

Save(c) ==
    /\ c \in Edits /\ step[c] = "ready"
    /\ \E m \in Writable(c) :
          /\ messages' = (messages \ {m}) \cup {Merged(c, m)}
          /\ outdated' = IF m = doc[c] THEN outdated \ {m.oid} ELSE outdated \cup {m.oid}
    /\ Wrote("update", c)
    /\ Goto(c, "saved")
    /\ UNCHANGED <<channels, nextOid, today, body, doc, moves, failures, published, page>>

\* VersionError or DocumentNotFoundError.
Conflict(c) ==
    /\ c \in Edits /\ step[c] = "ready"
    /\ Writable(c) = {}
    /\ Goto(c, "done")
    /\ UNCHANGED <<channels, today, body, doc, moves, failures, published, storeVars, page>>

\* deleteMessage(): findByIdAndDelete.
Delete(c, oid) ==
    /\ c \in Deletes /\ step[c] = "idle"
    /\ IF \E m \in messages : m.oid = oid
       THEN /\ Goto(c, "saved")
            /\ messages' = {m \in messages : m.oid # oid}
            /\ doc' = [doc EXCEPT ![c] = CHOOSE m \in messages : m.oid = oid]
            /\ history' = Append(history, [kind |-> "delete", oid |-> oid, by |-> c])
       ELSE Goto(c, "done") /\ UNCHANGED <<messages, doc, history>>
    /\ UNCHANGED <<channels, nextOid, today, body, moves, failures, outdated, published, page>>

-----------------------------------------------------------------------------
\* Mutants: nothing is published; the event tells the write to come.
ToldNothing(c) == {}
ToldNext(c)    == {Len(history) + 1}

Told(c) == {w \in 1..Len(history) : history[w].by = c}

\* After the populate: a send starts to move the date and does not wait for it,
\* and every call publishes what it wrote.
Announce(c) ==
    /\ step[c] = "saved"
    /\ Goto(c, "done")
    /\ moves' = IF c \in Sends THEN moves \cup {[channel |-> doc[c].channel,
                                                  day |-> doc[c].day, by |-> c]}
                ELSE moves
    /\ published' = published \cup Told(c)
    /\ UNCHANGED <<channels, today, body, doc, failures, storeVars, page>>

\* A call to the database fails, or the pod dies.
Fail(c) ==
    /\ step[c] \in {"ready", "saved"}
    /\ failures < MaxFailures /\ failures' = failures + 1
    /\ Goto(c, "failed")
    /\ UNCHANGED <<channels, today, body, doc, moves, published, storeVars, page>>

-----------------------------------------------------------------------------
Ids(ch) == {m.oid : m \in {n \in messages : n.channel = ch}}

\* Mutants: $lte in place of $lt; pages counted from the end of the channel.
BeforeInclusive(r, oid) == page[r].shown = <<>> \/ oid <= Head(page[r].shown)
BeforeBySkip(r, oid) ==
    Cardinality({o \in Ids(page[r].channel) : o > oid}) >= Len(page[r].shown)

\* A reader goes on before the oldest message it has.
Before(r, oid) == page[r].shown = <<>> \/ oid < Head(page[r].shown)

\* A limit of 0, or none, is no limit, and a negative one counts as positive.
Size(limit) == IF limit < 0 THEN -limit ELSE limit

Newest(oids, limit) ==
    {oid \in oids : limit = 0 \/ Cardinality({o \in oids : o > oid}) < Size(limit)}

\* The one ascending sequence of a set.
Ascending(oids) ==
    CHOOSE s \in [1..Cardinality(oids) -> oids] :
        \A i, j \in DOMAIN s : i < j => s[i] < s[j]

\* getMessages(): sorted by descending _id, cut, and reversed.  A page that is
\* not full is the last.
GetMessages(r) ==
    LET found == {oid \in Ids(page[r].channel) : Before(r, oid)}
        got   == Newest(found, page[r].limit)
    IN  /\ ~page[r].over
        /\ page' = [page EXCEPT ![r].shown = Ascending(got) \o @,
                                ![r].owed = IF page[r].shown = <<>> THEN found ELSE @,
                                ![r].over = page[r].limit = 0 \/ Cardinality(got) < Size(page[r].limit)]
        /\ UNCHANGED <<channels, today, step, body, doc, moves, failures, published, storeVars>>

-----------------------------------------------------------------------------
SendMessage(c)   == (\E ch \in Channels : FindChannel(c, ch)) \/ Insert(c)
UpdateMessage(c) == (\E oid \in 1..nextOid : FindForEdit(c, oid)) \/ Save(c) \/ Conflict(c)
DeleteMessage(c) == \E oid \in 1..nextOid : Delete(c, oid)

Next ==
    \/ NextDay
    \/ \E ch \in Channels : RemoveChannel(ch)
    \/ \E mv \in moves : MoveDate(mv) \/ LoseMove(mv)
    \/ \E c \in Calls : SendMessage(c) \/ UpdateMessage(c) \/ DeleteMessage(c)
                           \/ Announce(c) \/ Fail(c)
    \/ \E r \in Readers : GetMessages(r)

Spec == Init /\ [][Next]_vars

-----------------------------------------------------------------------------
\* The variables have their types.
TypeOK ==
    /\ channels \in [Channels -> Dates]
    /\ messages \subseteq Document
    /\ nextOid \in Nat \ {0} /\ today \in Days /\ failures \in 0..MaxFailures
    /\ step \in [Calls -> {"idle", "ready", "saved", "done", "failed"}]
    /\ \A c \in Calls : doc[c] = Blank \/ doc[c] \in Document
    /\ moves \subseteq [channel : Channels, day : Days, by : Sends]
    /\ history \in Seq([kind : {"send", "update", "delete"}, oid : 1..nextOid - 1, by : Calls])
    /\ page \in [Readers -> [channel : Channels, limit : Limits, shown : Seq(1..nextOid - 1),
                            owed : SUBSET (1..nextOid - 1), over : BOOLEAN]]
    /\ outdated \subseteq 1..nextOid - 1
    /\ published \subseteq 1..Len(history)

\* Whoever a message mentions is mentioned in its content, unless the last
\* edit wrote its fields over a copy that another edit had changed meanwhile.
MentionsMatchContent ==
    \A m \in messages :
        \/ m.mentionIds = Mentions(m) /\ m.everyone = Everyone(m)
        \/ m.oid \in outdated

\* A deleted message is never written again, whatever edits are in flight.
DeletedForGood ==
    \A w \in 1..Len(history) : history[w].kind = "delete" =>
        /\ \A m \in messages : m.oid # history[w].oid
        /\ \A v \in w + 1..Len(history) : history[v].oid # history[w].oid

\* The arrays of a message were both derived by one call that wrote it, however
\* many edits of it overlap: an edit that sets one of them on a copy that is
\* no longer the newest is refused.
ArraysOfOneCall ==
    \A m \in messages : \E w \in 1..Len(history) :
        /\ history[w].oid = m.oid /\ history[w].kind # "delete"
        /\ m.mentionIds = Mentions(body[history[w].by])
        /\ m.attachments = Attachments(body[history[w].by])

\* A write that nobody is told of is that of a call which was itself cut off,
\* whatever becomes of the calls beside it.
SilentOnlyAfterFailure ==
    \A w \in 1..Len(history) :
        \/ w \in published
        \/ step[history[w].by] \in {"saved", "failed"}

\* The messages whose send has returned, with their channel and day.
Delivered(ch) == {doc[c].day : c \in {s \in Sends : /\ step[s] = "done"
                                                    /\ doc[s] # Blank
                                                    /\ doc[s].channel = ch}}

\* The dates of a channel are at rest: nothing failed and nothing is pending.
AtRest(ch) ==
    /\ channels[ch] # Gone
    /\ failures = 0
    /\ \A mv \in moves : mv.channel # ch

\* In whatever order concurrent sends reach the channel, the date that stays
\* is one that no other date is greater than, as strings compare.
DateIsGreatest ==
    \A ch \in Channels : AtRest(ch) =>
        /\ \A day \in Delivered(ch) : ~Below(channels[ch], Text(day))
        /\ channels[ch] \in {FirstDate(ch)} \cup {Text(day) : day \in Delivered(ch)}

\* "lastMessageDate: { $lt: date }": of a channel's messages the date is that
\* of the last.
DateIsLatest ==
    \A ch \in Channels : AtRest(ch) =>
        \A day \in Delivered(ch) : day <= channels[ch].day

\* Whoever reads a channel page by page meets its messages in their order, and
\* none twice, whatever is sent and deleted between two pages.
PagesAscend ==
    \A r \in Readers : \A i, j \in 1..Len(page[r].shown) :
        i < j => page[r].shown[i] < page[r].shown[j]

\* When the last page is read, every message that was there at the first one
\* and still is has been shown.
PagesComplete ==
    \A r \in Readers : page[r].over =>
        page[r].owed \cap Ids(page[r].channel) \subseteq Range(page[r].shown)
=============================================================================
