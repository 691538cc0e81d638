--------------------------- MODULE MessagesProofs ---------------------------
(***************************************************************************)
(* That a message which was deleted is never written again, that its       *)
(* mentions follow its content, that no write is kept silent, that edits   *)
(* never mix their arrays, and that the greatest date stays, for any       *)
(* channels, calls, contents, files, days and failures.                    *)
(***************************************************************************)
EXTENDS Messages, TLAPS

Writes == [kind : {"send", "update", "delete"}, oid : Nat, by : Calls]

\* The types that the argument needs.
Typed ==
    /\ step \in [Calls -> {"idle", "ready", "saved", "done", "failed"}]
    /\ doc = [c \in Calls |-> doc[c]]
    /\ nextOid \in Nat
    /\ failures \in Nat
    /\ history \in Seq(Writes)

\* Every _id in use was given by the counter.
OidsGiven ==
    /\ \A m \in messages : m.oid \in 0..nextOid - 1
    /\ \A w \in 1..Len(history) : history[w].oid < nextOid
    /\ \A c \in Sends : step[c] = "ready" => doc[c].oid \in 0..nextOid - 1

OneDocument == \A m, n \in messages : m.oid = n.oid => m = n

\* The message of a send that is not stored yet is in no one else's hands: not
\* in the collection, not in its history, not with another send.
Unsent ==
    \A c \in Sends : step[c] = "ready" =>
        /\ \A m \in messages : m.oid # doc[c].oid
        /\ \A w \in 1..Len(history) : history[w].oid # doc[c].oid
        /\ \A b \in Sends : step[b] = "ready" /\ doc[b].oid = doc[c].oid => b = c

\* What a send is about to store mentions whom its content mentions.
SendsMatch ==
    \A c \in Sends : step[c] = "ready" =>
        doc[c].mentionIds = Mentions(doc[c]) /\ doc[c].everyone = Everyone(doc[c])

Inv ==
    /\ Typed
    /\ OidsGiven
    /\ OneDocument
    /\ Unsent
    /\ SendsMatch
    /\ DeletedForGood
    /\ MentionsMatchContent
    /\ SilentOnlyAfterFailure

-----------------------------------------------------------------------------
\* A step that neither writes to the collection nor starts a send.
Quiet ==
    \/ NextDay
    \/ \E ch \in Channels : RemoveChannel(ch)
    \/ \E mv \in moves : MoveDate(mv) \/ LoseMove(mv)
    \/ \E c \in Calls : (\E oid \in 1..nextOid : FindForEdit(c, oid)) \/ Conflict(c)
                           \/ Announce(c) \/ Fail(c)
    \/ \E r \in Readers : GetMessages(r)

Works(c) ==
    \/ \E ch \in Channels : FindChannel(c, ch)
    \/ Insert(c) \/ Save(c) \/ DeleteMessage(c)

LEMMA StepCases == ASSUME Next PROVE Quiet \/ \E c \in Calls : Works(c)
BY DEF Next, SendMessage, UpdateMessage, Quiet, Works

LEMMA WritesTyped == ASSUME Typed, NEW w \in 1..Len(history) PROVE history[w] \in Writes
<1>1. history \in Seq(Writes)
  BY DEF Typed
<1> QED
  BY <1>1

LEMMA InvInit == ASSUME Init PROVE Inv
<1>1. Typed
  BY MessagesAssumption DEF Init, Typed
<1>2. OidsGiven /\ OneDocument /\ Unsent /\ SendsMatch
  BY DEF Init, OidsGiven, OneDocument, Unsent, SendsMatch, Calls
<1>3. DeletedForGood /\ MentionsMatchContent /\ SilentOnlyAfterFailure
  BY DEF Init, DeletedForGood, MentionsMatchContent, SilentOnlyAfterFailure
<1> QED
  BY <1>1, <1>2, <1>3 DEF Inv

\* What a quiet step does: the collection and its history stay as they are, no
\* send gets ready, and a call that has saved tells what it wrote, or fails.
Undisturbed ==
    /\ Typed'
    /\ UNCHANGED storeVars
    /\ \A c \in Sends : step'[c] = "ready" => step[c] = "ready" /\ doc'[c] = doc[c]
    /\ published \subseteq published'
    /\ \A c \in Calls : step[c] = "failed" => step'[c] = "failed"
    /\ \A c \in Calls : step[c] = "saved" =>
          step'[c] \in {"saved", "failed"} \/ Told(c) \subseteq published'

LEMMA QuietMoves == ASSUME Typed, Quiet PROVE Undisturbed
<1> USE DEF Typed, Calls, storeVars, Goto, Undisturbed
<1>1. CASE \/ NextDay
           \/ \E ch \in Channels : RemoveChannel(ch)
           \/ \E mv \in moves : MoveDate(mv)
           \/ \E r \in Readers : GetMessages(r)
  BY <1>1 DEF NextDay, RemoveChannel, MoveDate, GetMessages
<1>2. ASSUME NEW mv \in moves, LoseMove(mv)
      PROVE  Undisturbed
  BY <1>2 DEF LoseMove
<1>3. ASSUME NEW c \in Calls, NEW oid \in 1..nextOid, FindForEdit(c, oid)
      PROVE  Undisturbed
  BY <1>3, MessagesAssumption DEF FindForEdit
<1>4. ASSUME NEW c \in Calls, Conflict(c)
      PROVE  Undisturbed
  BY <1>4 DEF Conflict
<1>5. ASSUME NEW c \in Calls, Announce(c)
      PROVE  Undisturbed
  BY <1>5 DEF Announce
<1>6. ASSUME NEW c \in Calls, Fail(c)
      PROVE  Undisturbed
  BY <1>6 DEF Fail
<1> QED
  BY <1>1, <1>2, <1>3, <1>4, <1>5, <1>6 DEF Quiet

LEMMA QuietStep == ASSUME Inv, Undisturbed PROVE Inv'
<1>1. /\ Typed' /\ messages' = messages /\ nextOid' = nextOid
      /\ history' = history /\ outdated' = outdated
  BY DEF Undisturbed, storeVars
<1>2. OidsGiven' /\ OneDocument' /\ Unsent' /\ SendsMatch'
  BY <1>1 DEF Inv, Undisturbed, OidsGiven, OneDocument, Unsent, SendsMatch,
              Mentions, Everyone
<1>3. DeletedForGood' /\ MentionsMatchContent'
  BY <1>1 DEF Inv, DeletedForGood, MentionsMatchContent, Mentions, Everyone
<1>4. SilentOnlyAfterFailure'
  <2> SUFFICES ASSUME NEW w \in 1..Len(history), w \notin published'
               PROVE  step'[history[w].by] \in {"saved", "failed"}
    BY <1>1 DEF SilentOnlyAfterFailure
  <2>1. history[w].by \in Calls
    BY WritesTyped DEF Inv, Writes
  <2>2. CASE step[history[w].by] = "saved"
    BY <2>1, <2>2 DEF Undisturbed, Told
  <2>3. CASE step[history[w].by] # "saved"
    BY <2>1, <2>3 DEF Inv, SilentOnlyAfterFailure, Undisturbed
  <2> QED
    BY <2>2, <2>3
<1> QED
  BY <1>1, <1>2, <1>3, <1>4 DEF Inv

\* A send that finds its channel takes a fresh _id.
LEMMA FindStep ==
    ASSUME Inv, NEW c \in Calls, NEW ch \in Channels, FindChannel(c, ch)
    PROVE  Inv'
<1>1. /\ messages' = messages /\ history' = history /\ outdated' = outdated
      /\ published' = published /\ failures' = failures
      /\ c \in Sends /\ step[c] = "idle"
  BY DEF FindChannel
<1>2. CASE ~(channels[ch] # Gone /\ Parses(body[c]))
  <2>1. step' = [step EXCEPT ![c] = "done"] /\ doc' = doc /\ nextOid' = nextOid
    BY <1>2 DEF FindChannel, Goto
  <2>2. Undisturbed
    BY <1>1, <2>1 DEF Inv, Typed, Undisturbed, storeVars, Calls
  <2> QED
    BY <2>2, QuietStep
<1>3. CASE channels[ch] # Gone /\ Parses(body[c])
  <2> DEFINE d == [oid |-> nextOid, channel |-> ch, content |-> body[c].content,
                   mentionIds |-> Mentions(body[c]), everyone |-> Everyone(body[c]),
                   attachments |-> Attachments(body[c]), version |-> 0, day |-> today]
  <2>1. /\ step' = [step EXCEPT ![c] = "ready"] /\ doc' = [doc EXCEPT ![c] = d]
        /\ nextOid' = nextOid + 1
    BY <1>3 DEF FindChannel, Goto
  <2>2. d.oid = nextOid /\ d.mentionIds = Mentions(d) /\ d.everyone = Everyone(d)
    BY DEF Mentions, Everyone
  <2> HIDE DEF d
  <2>3. Typed'
    <3>1. step' \in [Calls -> {"idle", "ready", "saved", "done", "failed"}]
      BY <2>1 DEF Inv, Typed
    <3>2. doc' = [b \in Calls |-> doc'[b]]
      BY <2>1 DEF Inv, Typed
    <3>3. nextOid' \in Nat /\ failures' \in Nat /\ history' \in Seq(Writes)
      BY <1>1, <2>1 DEF Inv, Typed
    <3> QED
      BY <3>1, <3>2, <3>3 DEF Typed
  <2>4. /\ step'[c] = "ready" /\ doc'[c] = d
        /\ \A b \in Calls : b # c => step'[b] = step[b] /\ doc'[b] = doc[b]
    BY <2>1 DEF Inv, Typed
  <2>5. nextOid \in Nat /\ \A w \in 1..Len(history) : history[w].oid \in Nat
    BY WritesTyped DEF Inv, Typed, Writes
  <2>6. OidsGiven' /\ OneDocument'
    <3>1. /\ \A m \in messages : m.oid \in 0..nextOid - 1
          /\ \A w \in 1..Len(history) : history[w].oid < nextOid
      BY DEF Inv, OidsGiven
    <3>2. \A b \in Sends : step'[b] = "ready" => doc'[b].oid \in 0..nextOid' - 1
      BY <2>5, <2>1, <2>2, <2>4 DEF Inv, OidsGiven, Calls
    <3> QED
      BY <1>1, <2>1, <2>5, <3>1, <3>2 DEF Inv, OidsGiven, OneDocument
  <2>7. Unsent'
    <3>1. /\ \A m \in messages : m.oid # nextOid
          /\ \A w \in 1..Len(history) : history[w].oid # nextOid
          /\ \A b \in Sends : step[b] = "ready" => doc[b].oid # nextOid
      BY <2>5 DEF Inv, OidsGiven
    <3> QED
      BY <1>1, <2>2, <2>4, <3>1 DEF Inv, Unsent, Calls
  <2>8. SendsMatch'
    BY <2>2, <2>4 DEF Inv, SendsMatch, Calls, Mentions, Everyone
  <2>9. DeletedForGood' /\ MentionsMatchContent'
    BY <1>1 DEF Inv, DeletedForGood, MentionsMatchContent, Mentions, Everyone
  <2>10. SilentOnlyAfterFailure'
    BY <1>1, <2>4, WritesTyped DEF Inv, Writes, SilentOnlyAfterFailure
  <2> QED
    BY <2>3, <2>6, <2>7, <2>8, <2>9, <2>10 DEF Inv
<1> QED
  BY <1>2, <1>3

-----------------------------------------------------------------------------
LEMMA Appended ==
    ASSUME Typed, NEW h \in Writes, history' = Append(history, h)
    PROVE  /\ history' \in Seq(Writes)
           /\ Len(history') = Len(history) + 1 /\ Len(history) \in Nat
           /\ history'[Len(history) + 1] = h
           /\ \A w \in 1..Len(history) : history'[w] = history[w]
<1>1. history \in Seq(Writes)
  BY DEF Typed
<1> QED
  BY <1>1

\* What a write h by the call c keeps, be it of a message that is stored or of
\* the one that c was about to send.
Written(c, h) ==
    /\ h \in Writes /\ h.by = c
    /\ history' = Append(history, h)
    /\ step' = [step EXCEPT ![c] = "saved"]
    /\ doc' = [b \in Calls |-> doc'[b]]
    /\ \A b \in Calls : b # c => doc'[b] = doc[b]
    /\ nextOid' = nextOid /\ failures' = failures /\ published' = published
    /\ step[c] \in {"idle", "ready"}
    /\ \/ \E m \in messages : m.oid = h.oid
       \/ c \in Sends /\ step[c] = "ready" /\ doc[c].oid = h.oid
    /\ \A m \in messages' : m \in messages \/ m.oid = h.oid
    /\ h.kind = "delete" => \A m \in messages' : m.oid # h.oid

LEMMA WrittenStep ==
    ASSUME Inv, NEW c \in Calls, NEW h, Written(c, h)
    PROVE  /\ Typed' /\ OidsGiven' /\ Unsent' /\ SendsMatch'
           /\ DeletedForGood' /\ SilentOnlyAfterFailure'
<1>1. /\ history' \in Seq(Writes)
      /\ Len(history') = Len(history) + 1 /\ Len(history) \in Nat
      /\ history'[Len(history) + 1] = h
      /\ \A w \in 1..Len(history) : history'[w] = history[w]
  BY Appended DEF Inv, Written
<1>2. /\ step'[c] = "saved"
      /\ \A b \in Calls : b # c => step'[b] = step[b] /\ doc'[b] = doc[b]
  BY DEF Inv, Typed, Written
<1>3. /\ nextOid \in Nat /\ h.oid \in 0..nextOid - 1
      /\ \A w \in 1..Len(history) : history[w].oid \in Nat /\ history[w].by \in Calls
  BY WritesTyped DEF Inv, Typed, OidsGiven, Written, Writes
<1>4. Typed'
  BY <1>1 DEF Inv, Typed, Written
<1>5. OidsGiven'
  <2>1. \A m \in messages' : m.oid \in 0..nextOid' - 1
    BY <1>3 DEF Inv, OidsGiven, Written
  <2>2. \A w \in 1..Len(history') : history'[w].oid < nextOid'
    BY <1>1, <1>3 DEF Inv, OidsGiven, Written
  <2>3. \A b \in Sends : step'[b] = "ready" => doc'[b].oid \in 0..nextOid' - 1
    BY <1>2 DEF Inv, OidsGiven, Written, Calls
  <2> QED
    BY <2>1, <2>2, <2>3 DEF OidsGiven
<1>6. Unsent'
  <2> SUFFICES ASSUME NEW s \in Sends, step'[s] = "ready"
               PROVE  /\ \A m \in messages' : m.oid # doc'[s].oid
                      /\ \A w \in 1..Len(history') : history'[w].oid # doc'[s].oid
                      /\ \A b \in Sends : step'[b] = "ready" /\ doc'[b].oid = doc'[s].oid => b = s
    BY DEF Unsent
  <2>1. s # c /\ step[s] = "ready" /\ doc'[s] = doc[s]
    BY <1>2 DEF Calls
  <2>2. /\ \A m \in messages : m.oid # doc[s].oid
        /\ \A w \in 1..Len(history) : history[w].oid # doc[s].oid
        /\ \A b \in Sends : step[b] = "ready" /\ doc[b].oid = doc[s].oid => b = s
    BY <2>1 DEF Inv, Unsent
  <2>3. h.oid # doc[s].oid
    BY <2>1, <2>2 DEF Written
  <2>4. \A w \in 1..Len(history') : history'[w].oid # doc[s].oid
    BY <1>1, <2>2, <2>3
  <2> QED
    BY <1>2, <2>1, <2>2, <2>3, <2>4 DEF Written, Calls
<1>7. SendsMatch'
  BY <1>2 DEF Inv, SendsMatch, Calls, Mentions, Everyone
<1>8. DeletedForGood'
  <2> SUFFICES ASSUME NEW w \in 1..Len(history'), history'[w].kind = "delete"
               PROVE  /\ \A m \in messages' : m.oid # history'[w].oid
                      /\ \A v \in w + 1..Len(history') : history'[v].oid # history'[w].oid
    BY DEF DeletedForGood
  <2>1. CASE w = Len(history) + 1
    BY <2>1, <1>1 DEF Written
  <2>2. CASE w \in 1..Len(history)
    <3>1. /\ history'[w] = history[w]
          /\ \A m \in messages : m.oid # history[w].oid
          /\ \A v \in w + 1..Len(history) : history[v].oid # history[w].oid
      BY <2>2, <1>1 DEF Inv, DeletedForGood
    <3>2. h.oid # history[w].oid
      BY <2>2, <3>1 DEF Inv, Unsent, Written
    <3>3. \A v \in w + 1..Len(history') : history'[v].oid # history[w].oid
      BY <2>2, <1>1, <3>1, <3>2
    <3> QED
      BY <3>1, <3>2, <3>3 DEF Written
  <2> QED
    BY <1>1, <2>1, <2>2
<1>9. SilentOnlyAfterFailure'
  BY <1>1, <1>2, <1>3 DEF Inv, SilentOnlyAfterFailure, Written
<1> QED
  BY <1>4, <1>5, <1>6, <1>7, <1>8, <1>9

\* The message is stored by a send, with the mentions of its content.
LEMMA InsertStep ==
    ASSUME Inv, NEW c \in Calls, Insert(c)
    PROVE  Inv'
<1> DEFINE h == [kind |-> "send", oid |-> doc[c].oid, by |-> c]
<1>1. /\ c \in Sends /\ step[c] = "ready"
      /\ messages' = messages \cup {doc[c]} /\ outdated' = outdated
      /\ history' = Append(history, h)
  BY DEF Insert, Wrote
<1>2. Written(c, h)
  <2>1. h \in Writes
    BY <1>1 DEF Inv, OidsGiven, Writes
  <2> QED
    BY <1>1, <2>1 DEF Insert, Goto, Inv, Typed, Written
<1>3. OneDocument'
  BY <1>1 DEF Inv, OneDocument, Unsent
<1>4. MentionsMatchContent'
  BY <1>1 DEF Inv, MentionsMatchContent, SendsMatch, Mentions, Everyone
<1> HIDE DEF h
<1> QED
  BY <1>2, <1>3, <1>4, WrittenStep DEF Inv

\* An edit writes one stored message; if it is the one that was read, all the
\* fields that are derived from the content are those of the new content.
LEMMA SaveStep ==
    ASSUME Inv, NEW c \in Calls, Save(c)
    PROVE  Inv'
<1> DEFINE h == [kind |-> "update", oid |-> doc[c].oid, by |-> c]
<1>1. PICK m \in messages :
         /\ m.oid = doc[c].oid
         /\ messages' = (messages \ {m}) \cup {Merged(c, m)}
         /\ outdated' = IF m = doc[c] THEN outdated \ {m.oid} ELSE outdated \cup {m.oid}
  BY DEF Save, Writable, Stored
<1>2. history' = Append(history, h)
  BY DEF Save, Wrote
<1>3. Merged(c, m).oid = m.oid
  BY DEF Merged
<1>4. Written(c, h)
  <2>1. h \in Writes
    BY <1>1 DEF Inv, OidsGiven, Writes
  <2> QED
    BY <1>1, <1>2, <1>3, <2>1 DEF Save, Goto, Inv, Typed, Written
<1>5. OneDocument'
  BY <1>1, <1>3 DEF Inv, OneDocument
<1>6. MentionsMatchContent'
  <2> SUFFICES ASSUME NEW n \in messages', n.oid \notin outdated'
               PROVE  n.mentionIds = Mentions(n) /\ n.everyone = Everyone(n)
    BY DEF MentionsMatchContent
  <2>1. CASE n \in messages /\ n # m
    <3>1. n.oid \notin outdated
      BY <2>1, <1>1 DEF Inv, OneDocument
    <3> QED
      BY <2>1, <3>1 DEF Inv, MentionsMatchContent
  <2>2. CASE n = Merged(c, m)
    <3>1. m = doc[c]
      BY <2>2, <1>1, <1>3
    <3> QED
      BY <2>2, <3>1 DEF Merged, Changed, Mentions, Everyone
  <2> QED
    BY <1>1, <2>1, <2>2
<1> HIDE DEF h
<1> QED
  BY <1>4, <1>5, <1>6, WrittenStep DEF Inv

\* findByIdAndDelete takes one message away, or does nothing.
LEMMA DeleteStep ==
    ASSUME Inv, NEW c \in Calls, NEW oid \in 1..nextOid, Delete(c, oid)
    PROVE  Inv'
<1>1. CASE ~\E m \in messages : m.oid = oid
  <2>1. step' = [step EXCEPT ![c] = "done"] /\ doc' = doc /\ step[c] = "idle"
    BY <1>1 DEF Delete, Goto
  <2>2. Undisturbed
    BY <1>1, <2>1 DEF Delete, Inv, Typed, Undisturbed, storeVars, Calls
  <2> QED
    BY <2>2, QuietStep
<1>2. CASE \E m \in messages : m.oid = oid
  <2> DEFINE h == [kind |-> "delete", oid |-> oid, by |-> c]
  <2>1. /\ messages' = {m \in messages : m.oid # oid} /\ outdated' = outdated
        /\ history' = Append(history, h) /\ c \in Deletes
    BY <1>2 DEF Delete
  <2>2. Written(c, h)
    <3>1. h \in Writes /\ doc' = [b \in Calls |-> doc'[b]]
      BY <1>2, <2>1 DEF Delete, Inv, Typed, OidsGiven, Writes
    <3> QED
      BY <1>2, <2>1, <3>1 DEF Delete, Goto, Inv, Typed, Written
  <2>3. OneDocument' /\ MentionsMatchContent'
    BY <2>1 DEF Inv, OneDocument, MentionsMatchContent, Mentions, Everyone
  <2> HIDE DEF h
  <2> QED
    BY <2>2, <2>3, WrittenStep DEF Inv
<1> QED
  BY <1>1, <1>2

-----------------------------------------------------------------------------
LEMMA InvStep == ASSUME Inv, [Next]_vars PROVE Inv'
<1>1. CASE UNCHANGED vars
  <2>1. Undisturbed
    BY <1>1 DEF vars, storeVars, Undisturbed, Inv, Typed
  <2> QED
    BY <2>1, QuietStep
<1>2. CASE Quiet
  BY <1>2, QuietMoves, QuietStep DEF Inv
<1>3. ASSUME NEW c \in Calls, Works(c)
      PROVE  Inv'
  BY <1>3, FindStep, InsertStep, SaveStep, DeleteStep DEF Works, DeleteMessage
<1> QED
  BY <1>1, <1>2, <1>3, StepCases

\* The inductive invariant holds of every run.
THEOREM Invariance == Spec => []Inv
BY InvInit, InvStep, PTL DEF Spec

\* Whatever edits are in flight when a message is deleted, none of them and no
\* send writes it again.
THEOREM DeletedMessagesStayDeleted == Spec => []DeletedForGood
<1>1. Inv => DeletedForGood
  BY DEF Inv
<1> QED
  BY <1>1, Invariance, PTL

\* A message whose last edit saw the copy it wrote over mentions whom its
\* content mentions.
THEOREM MentionsFollowContent == Spec => []MentionsMatchContent
<1>1. Inv => MentionsMatchContent
  BY DEF Inv
<1> QED
  BY <1>1, Invariance, PTL

\* A write that clients are never told of is that of a call which was cut off.
THEOREM NothingSilent == Spec => []SilentOnlyAfterFailure
<1>1. Inv => SilentOnlyAfterFailure
  BY DEF Inv
<1> QED
  BY <1>1, Invariance, PTL

-----------------------------------------------------------------------------
\* The arrays of a message are those that the call c derives.
ArraysOf(n, c) ==
    n.mentionIds = Mentions(body[c]) /\ n.attachments = Attachments(body[c])

\* A call that stored the message wrote its arrays.
FromOneCall(m) ==
    \E w \in 1..Len(history) :
        history[w].oid = m.oid /\ history[w].kind # "delete" /\ ArraysOf(m, history[w].by)

\* As long as no version came after the one that an edit has in hand, the
\* arrays of the stored message are those in hand.
PinnedTo(d) ==
    /\ d.version \in Nat
    /\ \E w \in 1..Len(history) : history[w].oid = d.oid
    /\ \A m \in messages : m.oid = d.oid =>
          /\ d.version <= m.version
          /\ d.version = m.version =>
                d.mentionIds = m.mentionIds /\ d.attachments = m.attachments

ArraysInv ==
    /\ \A m \in messages : m.version \in Nat /\ FromOneCall(m)
    /\ \A c \in Sends : step[c] = "ready" => ArraysOf(doc[c], c) /\ doc[c].version = 0
    /\ \A c \in Edits : step[c] = "ready" => PinnedTo(doc[c])

\* A step that writes nothing; an edit gets ready with a stored message.
ReadsOnly ==
    /\ messages' = messages /\ history' = history /\ body' = body
    /\ \A c \in Sends : step'[c] = "ready" =>
          \/ step[c] = "ready" /\ doc'[c] = doc[c]
          \/ ArraysOf(doc'[c], c) /\ doc'[c].version = 0
    /\ \A c \in Edits : step'[c] = "ready" =>
          \/ step[c] = "ready" /\ doc'[c] = doc[c]
          \/ doc'[c] \in messages

LEMMA ArraysRead == ASSUME Inv, ArraysInv, ReadsOnly PROVE ArraysInv'
<1>1. \A m \in messages' : m.version \in Nat /\ FromOneCall(m)'
  BY DEF ArraysInv, ReadsOnly, FromOneCall, ArraysOf, Mentions, Attachments
<1>2. \A c \in Sends : step'[c] = "ready" => ArraysOf(doc[c], c)' /\ doc'[c].version = 0
  BY DEF ArraysInv, ReadsOnly, ArraysOf, Mentions, Attachments
<1>3. ASSUME NEW c \in Edits, step'[c] = "ready"
      PROVE  PinnedTo(doc[c])'
  <2>1. CASE step[c] = "ready" /\ doc'[c] = doc[c]
    BY <2>1 DEF ArraysInv, ReadsOnly, PinnedTo
  <2>2. CASE doc'[c] \in messages
    <3>1. doc'[c].version \in Nat /\ FromOneCall(doc'[c])
      BY <2>2 DEF ArraysInv
    <3>2. \A m \in messages : m.oid = doc'[c].oid => m = doc'[c]
      BY <2>2 DEF Inv, OneDocument
    <3> QED
      BY <3>1, <3>2 DEF ReadsOnly, PinnedTo, FromOneCall
  <2> QED
    BY <1>3, <2>1, <2>2 DEF ReadsOnly
<1> QED
  BY <1>1, <1>2, <1>3 DEF ArraysInv

LEMMA ReadsMove ==
    ASSUME Inv, \/ UNCHANGED vars
                \/ Quiet
                \/ \E c \in Calls, ch \in Channels : FindChannel(c, ch)
    PROVE  ReadsOnly
<1> USE DEF Inv, Typed, Calls, storeVars, Goto, ReadsOnly
<1>1. CASE \/ UNCHANGED vars
           \/ NextDay
           \/ \E ch \in Channels : RemoveChannel(ch)
           \/ \E mv \in moves : MoveDate(mv) \/ LoseMove(mv)
           \/ \E r \in Readers : GetMessages(r)
  BY <1>1 DEF vars, NextDay, RemoveChannel, MoveDate, LoseMove, GetMessages
<1>2. ASSUME NEW c \in Calls, NEW oid \in 1..nextOid, FindForEdit(c, oid)
      PROVE  ReadsOnly
  <2>1. CASE Parses(body[c]) /\ \E m \in messages : m.oid = oid
    <3>1. (CHOOSE m \in messages : m.oid = oid) \in messages
      BY <2>1
    <3> QED
      BY <1>2, <2>1, <3>1, MessagesAssumption DEF FindForEdit, MessagesAssumption
  <2> QED
    BY <1>2, <2>1, MessagesAssumption DEF FindForEdit, MessagesAssumption
<1>3. ASSUME NEW c \in Calls, Conflict(c) \/ Announce(c) \/ Fail(c)
      PROVE  ReadsOnly
  BY <1>3 DEF Conflict, Announce, Fail
<1>4. ASSUME NEW c \in Calls, NEW ch \in Channels, FindChannel(c, ch)
      PROVE  ReadsOnly
  <2> DEFINE d == [oid |-> nextOid, channel |-> ch, content |-> body[c].content,
                   mentionIds |-> Mentions(body[c]), everyone |-> Everyone(body[c]),
                   attachments |-> Attachments(body[c]), version |-> 0, day |-> today]
  <2>1. CASE channels[ch] # Gone /\ Parses(body[c])
    <3>1. ArraysOf(d, c) /\ d.version = 0
      BY DEF ArraysOf
    <3>2. doc' = [doc EXCEPT ![c] = d] /\ step' = [step EXCEPT ![c] = "ready"]
      BY <1>4, <2>1 DEF FindChannel
    <3>3. c \in Sends /\ UNCHANGED <<messages, history, body>>
      BY <1>4 DEF FindChannel
    <3> HIDE DEF d
    <3>4. \A b \in Calls : b # c => step'[b] = step[b] /\ doc'[b] = doc[b]
      BY <3>2
    <3>5. doc'[c] = d
      BY <3>2, <3>3
    <3> QED
      BY <3>1, <3>3, <3>4, <3>5, MessagesAssumption DEF MessagesAssumption
  <2>2. CASE ~(channels[ch] # Gone /\ Parses(body[c]))
    BY <1>4, <2>2 DEF FindChannel
  <2> QED
    BY <2>1, <2>2
<1> QED
  BY <1>1, <1>2, <1>3, <1>4 DEF Quiet

\* What was said of the history holds of the longer one.
LEMMA ArraysAppended ==
    ASSUME Inv, NEW h \in Writes, history' = Append(history, h), body' = body
    PROVE  /\ \A m : FromOneCall(m) => FromOneCall(m)'
           /\ \A d : (\E w \in 1..Len(history) : history[w].oid = d.oid)
                        => \E w \in 1..Len(history') : history'[w].oid = d.oid
           /\ \A m : h.kind # "delete" /\ h.oid = m.oid /\ ArraysOf(m, h.by)
                        => FromOneCall(m)'
<1>1. /\ Len(history') = Len(history) + 1 /\ Len(history) \in Nat
      /\ history'[Len(history) + 1] = h
      /\ \A w \in 1..Len(history) : history'[w] = history[w]
  BY Appended DEF Inv
<1> QED
  BY <1>1 DEF FromOneCall, ArraysOf, Mentions, Attachments

LEMMA ArraysInsert == ASSUME Inv, ArraysInv, NEW c \in Calls, Insert(c) PROVE ArraysInv'
<1> DEFINE h == [kind |-> "send", oid |-> doc[c].oid, by |-> c]
<1>1. /\ c \in Sends /\ step[c] = "ready" /\ step' = [step EXCEPT ![c] = "saved"]
      /\ messages' = messages \cup {doc[c]} /\ history' = Append(history, h)
      /\ body' = body /\ doc' = doc /\ h \in Writes
      /\ h.kind = "send" /\ h.oid = doc[c].oid /\ h.by = c
  BY DEF Insert, Wrote, Goto, Inv, OidsGiven, Writes
<1> HIDE DEF h
<1>2. /\ \A m : FromOneCall(m) => FromOneCall(m)'
      /\ \A d : (\E w \in 1..Len(history) : history[w].oid = d.oid)
                   => \E w \in 1..Len(history') : history'[w].oid = d.oid
      /\ FromOneCall(doc[c])'
  BY <1>1, ArraysAppended DEF ArraysInv
<1>3. \A m \in messages' : m.version \in Nat /\ FromOneCall(m)'
  BY <1>1, <1>2 DEF ArraysInv
<1>4. \A b \in Calls : step'[b] = "ready" => step[b] = "ready"
  BY <1>1 DEF Inv, Typed
<1>5. \A b \in Sends : step'[b] = "ready" => ArraysOf(doc[b], b)' /\ doc'[b].version = 0
  BY <1>1, <1>4 DEF ArraysInv, ArraysOf, Mentions, Attachments, Calls
<1>6. ASSUME NEW b \in Edits, step'[b] = "ready"
      PROVE  PinnedTo(doc[b])'
  <2>1. PinnedTo(doc[b])
    BY <1>4, <1>6 DEF ArraysInv, Calls
  <2>2. doc[b].oid # doc[c].oid
    BY <1>1, <2>1 DEF Inv, Unsent, PinnedTo
  <2> QED
    BY <1>1, <1>2, <2>1, <2>2 DEF PinnedTo
<1> QED
  BY <1>3, <1>5, <1>6 DEF ArraysInv

\* An edit that sets an array wrote over the version it read, of which it knows
\* both arrays; one that sets none leaves both as they are.
LEMMA ArraysSave == ASSUME Inv, ArraysInv, NEW c \in Calls, Save(c) PROVE ArraysInv'
<1> DEFINE h == [kind |-> "update", oid |-> doc[c].oid, by |-> c]
<1>1. PICK m \in messages :
         /\ m.oid = doc[c].oid /\ (ArraysChange(c) => m.version = doc[c].version)
         /\ messages' = (messages \ {m}) \cup {Merged(c, m)}
  BY DEF Save, Writable, Stored
<1>2. /\ c \in Edits /\ step[c] = "ready" /\ step' = [step EXCEPT ![c] = "saved"]
      /\ history' = Append(history, h) /\ body' = body /\ doc' = doc /\ h \in Writes
      /\ h.kind = "update" /\ h.oid = doc[c].oid /\ h.by = c
  BY <1>1 DEF Save, Wrote, Goto, Inv, OidsGiven, Writes
<1> HIDE DEF h
<1>3. /\ \A n : FromOneCall(n) => FromOneCall(n)'
      /\ \A d : (\E w \in 1..Len(history) : history[w].oid = d.oid)
                   => \E w \in 1..Len(history') : history'[w].oid = d.oid
      /\ \A n : n.oid = doc[c].oid /\ ArraysOf(n, c) => FromOneCall(n)'
  BY <1>2, ArraysAppended
<1>4. /\ Merged(c, m).oid = m.oid /\ m.version \in Nat
      /\ IF ArraysChange(c)
         THEN Merged(c, m).version = m.version + 1 /\ ArraysOf(Merged(c, m), c)
         ELSE /\ Merged(c, m).version = m.version
              /\ Merged(c, m).mentionIds = m.mentionIds
              /\ Merged(c, m).attachments = m.attachments
  <2>1. m.version \in Nat /\ PinnedTo(doc[c])
    BY <1>1, <1>2 DEF ArraysInv
  <2>2. /\ Merged(c, m).oid = m.oid
        /\ Merged(c, m).version = IF ArraysChange(c) THEN m.version + 1 ELSE m.version
        /\ Merged(c, m).mentionIds = IF Mentions(body[c]) # doc[c].mentionIds
                                     THEN Mentions(body[c]) ELSE m.mentionIds
        /\ Merged(c, m).attachments = IF FilesChange(c) THEN Attachments(body[c]) ELSE m.attachments
    BY DEF Merged, Changed
  <2>3. CASE ArraysChange(c)
    <3>1. doc[c].mentionIds = m.mentionIds /\ doc[c].attachments = m.attachments
      BY <1>1, <2>1, <2>3 DEF PinnedTo
    <3>2. ~FilesChange(c) => doc[c].attachments = Attachments(body[c])
      BY DEF FilesChange
    <3> QED
      BY <2>1, <2>2, <2>3, <3>1, <3>2 DEF ArraysOf
  <2>4. CASE ~ArraysChange(c)
    BY <2>1, <2>2, <2>4 DEF ArraysChange
  <2> QED
    BY <2>3, <2>4
<1>5. ASSUME NEW n \in messages'
      PROVE  n.version \in Nat /\ FromOneCall(n)'
  <2>1. CASE n \in messages
    BY <1>3, <2>1 DEF ArraysInv
  <2>2. CASE n = Merged(c, m) /\ ArraysChange(c)
    BY <1>1, <1>3, <1>4, <2>2
  <2>3. CASE n = Merged(c, m) /\ ~ArraysChange(c)
    <3>1. FromOneCall(m)
      BY DEF ArraysInv
    <3>2. FromOneCall(n)
      BY <1>4, <2>3, <3>1 DEF FromOneCall, ArraysOf
    <3> QED
      BY <1>3, <1>4, <2>3, <3>2
  <2> QED
    BY <1>1, <2>1, <2>2, <2>3
<1>6. \A b \in Calls : step'[b] = "ready" => step[b] = "ready"
  BY <1>2 DEF Inv, Typed
<1>7. \A b \in Sends : step'[b] = "ready" => ArraysOf(doc[b], b)' /\ doc'[b].version = 0
  BY <1>2, <1>6 DEF ArraysInv, ArraysOf, Mentions, Attachments, Calls
<1>8. ASSUME NEW b \in Edits, step'[b] = "ready"
      PROVE  PinnedTo(doc[b])'
  <2>1. PinnedTo(doc[b])
    BY <1>6, <1>8 DEF ArraysInv, Calls
  <2>2. /\ doc[b].version \in Nat
        /\ \E w \in 1..Len(history') : history'[w].oid = doc[b].oid
    BY <1>3, <2>1 DEF PinnedTo
  <2>3. ASSUME NEW n \in messages', n.oid = doc[b].oid
        PROVE  /\ doc[b].version <= n.version
               /\ doc[b].version = n.version =>
                     doc[b].mentionIds = n.mentionIds /\ doc[b].attachments = n.attachments
    <3>1. CASE n \in messages
      BY <2>1, <2>3, <3>1 DEF PinnedTo
    <3>2. CASE n = Merged(c, m)
      BY <1>4, <2>1, <2>3, <3>2 DEF PinnedTo
    <3> QED
      BY <1>1, <3>1, <3>2
  <2> QED
    BY <1>2, <2>2, <2>3 DEF PinnedTo
<1> QED
  BY <1>5, <1>7, <1>8 DEF ArraysInv

LEMMA ArraysDelete ==
    ASSUME Inv, ArraysInv, NEW c \in Calls, NEW oid \in 1..nextOid, Delete(c, oid)
    PROVE  ArraysInv'
<1>1. /\ c \in Deletes /\ c \notin Sends /\ c \notin Edits /\ body' = body
      /\ messages' \subseteq messages
      /\ \A b \in Sends \cup Edits : step'[b] = step[b] /\ doc'[b] = doc[b]
  BY MessagesAssumption DEF Delete, Goto, Inv, Typed, Calls, MessagesAssumption
<1>2. CASE ~\E m \in messages : m.oid = oid
  <2>1. ReadsOnly
    BY <1>1, <1>2 DEF Delete, ReadsOnly
  <2> QED
    BY <2>1, ArraysRead
<1>3. CASE \E m \in messages : m.oid = oid
  <2> DEFINE h == [kind |-> "delete", oid |-> oid, by |-> c]
  <2>1. history' = Append(history, h) /\ h \in Writes
    BY <1>3 DEF Delete, Inv, OidsGiven, Typed, Writes
  <2> HIDE DEF h
  <2>2. /\ \A m : FromOneCall(m) => FromOneCall(m)'
        /\ \A d : (\E w \in 1..Len(history) : history[w].oid = d.oid)
                     => \E w \in 1..Len(history') : history'[w].oid = d.oid
    BY <1>1, <2>1, ArraysAppended
  <2>3. \A m \in messages' : m.version \in Nat /\ FromOneCall(m)'
    BY <1>1, <2>2 DEF ArraysInv
  <2>4. \A b \in Sends : step'[b] = "ready" => ArraysOf(doc[b], b)' /\ doc'[b].version = 0
    BY <1>1 DEF ArraysInv, ArraysOf, Mentions, Attachments
  <2>5. \A b \in Edits : step'[b] = "ready" => PinnedTo(doc[b])'
    BY <1>1, <2>2 DEF ArraysInv, PinnedTo
  <2> QED
    BY <2>3, <2>4, <2>5 DEF ArraysInv
<1> QED
  BY <1>2, <1>3

LEMMA ArraysStep == ASSUME Inv, ArraysInv, [Next]_vars PROVE ArraysInv'
<1>1. CASE Quiet \/ UNCHANGED vars \/ \E c \in Calls, ch \in Channels : FindChannel(c, ch)
  BY <1>1, ReadsMove, ArraysRead
<1>2. ASSUME NEW c \in Calls, Insert(c) \/ Save(c) \/ DeleteMessage(c)
      PROVE  ArraysInv'
  BY <1>2, ArraysInsert, ArraysSave, ArraysDelete DEF DeleteMessage
<1> QED
  BY <1>1, <1>2, StepCases DEF Works

\* However many edits of a message overlap, its mentions and attachments are
\* those of one call: the version in the filter refuses what would mix them.
THEOREM ArraysNeverMix == Spec => []ArraysOfOneCall
<1>1. Init => ArraysInv
  BY DEF Init, ArraysInv, Calls
<1>2. ArraysInv => ArraysOfOneCall
  BY DEF ArraysInv, FromOneCall, ArraysOf, ArraysOfOneCall
<1> QED
  BY <1>1, <1>2, Invariance, ArraysStep, PTL DEF Spec

-----------------------------------------------------------------------------
\* What a send has in hand: nothing, or a message of some channel and day.
InHand(c) ==
    \/ step[c] \in {"idle", "done"} /\ doc[c] = Blank
    \/ step[c] # "idle" /\ doc[c] # Blank /\ doc[c].channel \in Channels /\ doc[c].day \in Days

DateTypes ==
    /\ channels \in [Channels -> Dates]
    /\ moves \subseteq [channel : Channels, day : Days, by : Sends]
    /\ today \in Days /\ failures \in Nat /\ nextOid \in Nat \ {0}
    /\ step \in [Calls -> {"idle", "ready", "saved", "done", "failed"}]
    /\ doc = [c \in Calls |-> doc[c]]
    /\ \A c \in Sends : InHand(c)

Pending(ch) == {mv.day : mv \in {n \in moves : n.channel = ch}}

\* Of a channel's messages each has been compared with the date, or will be.
Compared ==
    \A ch \in Channels : failures = 0 /\ channels[ch] # Gone =>
        /\ \A day \in Delivered(ch) : day \in Pending(ch) \/ ~Below(channels[ch], Text(day))
        /\ channels[ch] \in {FirstDate(ch)} \cup {Text(day) : day \in Delivered(ch)}
        /\ Pending(ch) \subseteq Delivered(ch)

DateInv == DateTypes /\ Compared

\* What is greater than a date that another one is not below is itself above it.
LEMMA GreaterStill ==
    ASSUME NEW d \in Dates, NEW new \in Days, NEW other \in Days,
           Below(d, Text(new)), ~Below(d, Text(other))
    PROVE  ~Below(Text(new), Text(other))
<1>1. \A day \in Days : WeekdayRank[day + 1] \in Int
  <2>1. Days \subseteq 0..6
    BY MessagesAssumption DEF MessagesAssumption, Days
  <2>2. \A i \in 1..7 : WeekdayRank[i] \in Int
    BY DEF WeekdayRank
  <2> QED
    BY <2>1, <2>2
<1>2. d.form = "text" /\ d.day \in Days
  BY DEF Below, Text, Dates
<1>3. /\ WeekdayRank[d.day + 1] < WeekdayRank[new + 1]
      /\ ~(WeekdayRank[d.day + 1] < WeekdayRank[other + 1])
  BY <1>2 DEF Below, Text
<1> QED
  BY <1>1, <1>2, <1>3 DEF Below, Text

\* A date is not below itself.
LEMMA NotBelowSelf ==
    ASSUME NEW day \in Days
    PROVE  ~Below(Text(day), Text(day))
<1>1. Days \subseteq 0..6 /\ \A i \in 1..7 : WeekdayRank[i] \in Int
  BY MessagesAssumption DEF MessagesAssumption, Days, WeekdayRank
<1> QED
  BY <1>1 DEF Below, Text

\* A step that delivers no message and moves no date.
Unmoved ==
    /\ DateTypes'
    /\ failures' = 0 =>
          /\ failures = 0 /\ moves' = moves
          /\ \A ch \in Channels : channels'[ch] = channels[ch] \/ channels'[ch] = Gone
          /\ \A c \in Sends : \/ step'[c] = step[c] /\ doc'[c] = doc[c]
                              \/ step'[c] # "done" /\ step[c] # "done"
                              \/ step[c] # "done" /\ doc'[c] = Blank

LEMMA UnmovedStep == ASSUME DateInv, Unmoved PROVE DateInv'
<1> SUFFICES ASSUME NEW ch \in Channels, failures' = 0, channels'[ch] # Gone
             PROVE  /\ \A day \in Delivered(ch)' : \/ day \in Pending(ch)'
                                                   \/ ~Below(channels'[ch], Text(day))
                    /\ channels'[ch] \in {FirstDate(ch)} \cup {Text(day) : day \in Delivered(ch)'}
                    /\ Pending(ch)' \subseteq Delivered(ch)'
  BY DEF DateInv, Compared, Unmoved
<1>1. channels'[ch] = channels[ch] /\ failures = 0 /\ Pending(ch)' = Pending(ch)
  BY DEF Unmoved, Pending
<1>2. Delivered(ch)' = Delivered(ch)
  BY DEF Unmoved, Delivered
<1> QED
  BY <1>1, <1>2 DEF DateInv, Compared

LEMMA DateUnmoved ==
    ASSUME DateInv, \/ NextDay
                    \/ \E ch \in Channels : RemoveChannel(ch)
                    \/ \E mv \in moves : LoseMove(mv)
                    \/ \E r \in Readers : GetMessages(r)
                    \/ \E c \in Calls : SendMessage(c) \/ UpdateMessage(c) \/ DeleteMessage(c)
                                           \/ Fail(c)
    PROVE  Unmoved
<1> USE DEF DateInv, DateTypes, InHand, Calls, Goto, storeVars, Unmoved
<1>1. CASE NextDay
  BY <1>1, MessagesAssumption DEF NextDay, Days, MessagesAssumption
<1>2. ASSUME NEW ch \in Channels, RemoveChannel(ch)
      PROVE  Unmoved
  <2>1. Gone \in Dates
    BY MessagesAssumption DEF Gone, Dates, Days, MessagesAssumption
  <2> QED
    BY <1>2, <2>1 DEF RemoveChannel
<1>3. ASSUME NEW mv \in moves, LoseMove(mv)
      PROVE  Unmoved
  BY <1>3 DEF LoseMove
<1>4. CASE \E r \in Readers : GetMessages(r)
  BY <1>4 DEF GetMessages
<1>5. ASSUME NEW c \in Calls, NEW ch \in Channels, FindChannel(c, ch)
      PROVE  Unmoved
  <2>1. c \in Sends /\ step[c] = "idle" /\ doc[c] = Blank
    BY <1>5 DEF FindChannel
  <2>2. CASE channels[ch] # Gone /\ Parses(body[c])
    <3> DEFINE new == [oid |-> nextOid, channel |-> ch, content |-> body[c].content,
                       mentionIds |-> Mentions(body[c]), everyone |-> Everyone(body[c]),
                       attachments |-> Attachments(body[c]), version |-> 0, day |-> today]
    <3>1. /\ new.oid = nextOid /\ Blank.oid = 0 /\ new.channel = ch /\ new.day = today
          /\ doc' = [doc EXCEPT ![c] = new] /\ step' = [step EXCEPT ![c] = "ready"]
          /\ nextOid' = nextOid + 1
          /\ UNCHANGED <<channels, moves, today, failures>>
      BY <1>5, <2>2 DEF FindChannel, Blank
    <3> HIDE DEF new
    <3>2. new # Blank
      BY <3>1
    <3>3. /\ step'[c] = "ready" /\ doc'[c] = new
          /\ \A b \in Sends \ {c} : step'[b] = step[b] /\ doc'[b] = doc[b]
      BY <2>1, <3>1
    <3>4. new.channel \in Channels /\ new.day \in Days
      BY <3>1
    <3>5. \A b \in Sends : InHand(b)'
      BY <2>1, <3>2, <3>3, <3>4
    <3>6. /\ doc' = [b \in Calls |-> doc'[b]] /\ nextOid' \in Nat \ {0}
          /\ step' \in [Calls -> {"idle", "ready", "saved", "done", "failed"}]
      <4>1. nextOid' \in Nat \ {0}
        BY <3>1
      <4>2. doc' = [b \in Calls |-> doc'[b]]
        BY <3>1, Zenon
      <4>3. step' \in [Calls -> {"idle", "ready", "saved", "done", "failed"}]
        BY <3>1
      <4> QED
        BY <4>1, <4>2, <4>3
    <3>7. DateTypes'
      BY <3>1, <3>5, <3>6
    <3> QED
      BY <2>1, <3>1, <3>3, <3>7
  <2>3. CASE ~(channels[ch] # Gone /\ Parses(body[c]))
    BY <1>5, <2>1, <2>3 DEF FindChannel
  <2> QED
    BY <2>2, <2>3
<1>6. ASSUME NEW c \in Calls, Insert(c) \/ Fail(c)
      PROVE  Unmoved
  BY <1>6 DEF Insert, Fail
<1>7. ASSUME NEW c \in Calls, UpdateMessage(c) \/ DeleteMessage(c)
      PROVE  Unmoved
  <2>1. c \notin Sends
    BY <1>7, MessagesAssumption
       DEF UpdateMessage, DeleteMessage, FindForEdit, Save, Conflict, Delete, MessagesAssumption
  <2> QED
    BY <1>7, <2>1 DEF UpdateMessage, DeleteMessage, FindForEdit, Save, Conflict, Delete
<1> QED
  BY <1>1, <1>2, <1>3, <1>4, <1>5, <1>6, <1>7 DEF SendMessage

\* A send that returns leaves the comparison of its date behind.
LEMMA DateAnnounced == ASSUME DateInv, NEW c \in Calls, Announce(c) PROVE DateInv'
<1>1. CASE c \notin Sends
  <2>1. Unmoved
    BY <1>1 DEF Announce, DateInv, DateTypes, InHand, Calls, Goto, storeVars, Unmoved
  <2> QED
    BY <2>1, UnmovedStep
<1>2. CASE c \in Sends
  <2> DEFINE mv == [channel |-> doc[c].channel, day |-> doc[c].day, by |-> c]
  <2>1. /\ step[c] = "saved" /\ step' = [step EXCEPT ![c] = "done"] /\ doc' = doc
        /\ moves' = moves \cup {mv} /\ UNCHANGED <<channels, today, failures, nextOid>>
        /\ doc[c] # Blank /\ doc[c].channel \in Channels /\ doc[c].day \in Days
    BY <1>2 DEF Announce, Goto, storeVars, DateInv, DateTypes, InHand
  <2>2. DateTypes'
    BY <1>2, <2>1 DEF DateInv, DateTypes, InHand, Calls
  <2>3. ASSUME NEW ch \in Channels, failures' = 0, channels'[ch] # Gone
        PROVE  /\ \A day \in Delivered(ch)' : \/ day \in Pending(ch)'
                                              \/ ~Below(channels'[ch], Text(day))
               /\ channels'[ch] \in {FirstDate(ch)} \cup {Text(day) : day \in Delivered(ch)'}
               /\ Pending(ch)' \subseteq Delivered(ch)'
    <3>1. CASE doc[c].channel = ch
      <4>1. Pending(ch)' = Pending(ch) \cup {doc[c].day}
        <5>1. mv.channel = ch /\ mv.day = doc[c].day
          BY <3>1
        <5> HIDE DEF mv
        <5> QED
          BY <2>1, <5>1 DEF Pending
      <4>2. Delivered(ch)' = Delivered(ch) \cup {doc[c].day}
        BY <1>2, <2>1, <3>1 DEF Delivered, DateInv, DateTypes, Calls
      <4> QED
        BY <2>1, <2>3, <4>1, <4>2 DEF DateInv, Compared
    <3>2. CASE doc[c].channel # ch
      <4>1. Pending(ch)' = Pending(ch)
        BY <2>1, <3>2 DEF Pending
      <4>2. Delivered(ch)' = Delivered(ch)
        BY <1>2, <2>1, <3>2 DEF Delivered, DateInv, DateTypes, Calls
      <4> QED
        BY <2>1, <2>3, <4>1, <4>2 DEF DateInv, Compared
    <3> QED
      BY <3>1, <3>2
  <2> QED
    BY <2>2, <2>3 DEF DateInv, Compared
<1> QED
  BY <1>1, <1>2

\* A date that is compared stays below none of those that came before it.
LEMMA DateMoved == ASSUME DateInv, NEW mv \in moves, MoveDate(mv) PROVE DateInv'
<1>1. /\ mv.channel \in Channels /\ mv.day \in Days /\ moves' = moves \ {mv}
      /\ channels' = [channels EXCEPT ![mv.channel] = IF Older(mv) THEN Text(mv.day) ELSE @]
      /\ UNCHANGED <<today, step, doc, failures, nextOid>>
  BY DEF MoveDate, DateInv, DateTypes, storeVars
<1>2. DateTypes'
  <2>1. Text(mv.day) \in Dates
    BY <1>1 DEF Text, Dates
  <2> QED
    BY <1>1, <2>1 DEF DateInv, DateTypes, InHand
<1>3. ASSUME NEW ch \in Channels, failures' = 0, channels'[ch] # Gone
      PROVE  /\ \A day \in Delivered(ch)' : \/ day \in Pending(ch)'
                                            \/ ~Below(channels'[ch], Text(day))
             /\ channels'[ch] \in {FirstDate(ch)} \cup {Text(day) : day \in Delivered(ch)'}
             /\ Pending(ch)' \subseteq Delivered(ch)'
  <2>1. channels \in [Channels -> Dates] /\ Delivered(ch)' = Delivered(ch)
    BY <1>1 DEF DateInv, DateTypes, Delivered
  <2>2. channels[ch] # Gone
    BY <1>1, <1>3, <2>1 DEF Older, Below, Gone
  <2>3. /\ \A day \in Delivered(ch) : day \in Pending(ch) \/ ~Below(channels[ch], Text(day))
        /\ channels[ch] \in {FirstDate(ch)} \cup {Text(day) : day \in Delivered(ch)}
        /\ Pending(ch) \subseteq Delivered(ch)
    BY <1>1, <1>3, <2>2 DEF DateInv, Compared
  <2>4. Pending(ch)' \subseteq Pending(ch)
    BY <1>1 DEF Pending
  <2>5. CASE ch # mv.channel
    <3>1. channels'[ch] = channels[ch] /\ Pending(ch)' = Pending(ch)
      BY <1>1, <2>1, <2>5 DEF Pending
    <3> QED
      BY <2>1, <2>3, <3>1
  <2>6. CASE ch = mv.channel
    <3>1. mv.day \in Delivered(ch) /\ Pending(ch) \ {mv.day} \subseteq Pending(ch)'
      BY <1>1, <2>3, <2>6 DEF Pending
    <3>2. Delivered(ch) \subseteq Days
      BY DEF Delivered, DateInv, DateTypes, InHand
    <3>3. CASE Older(mv)
      <4>1. channels'[ch] = Text(mv.day) /\ Below(channels[ch], Text(mv.day))
        BY <1>1, <2>1, <2>6, <3>3 DEF Older
      <4>2. \A day \in Delivered(ch) : day \in Pending(ch)' \/ ~Below(channels'[ch], Text(day))
        BY <1>1, <2>1, <2>3, <3>1, <3>2, <4>1, GreaterStill, NotBelowSelf
      <4> QED
        BY <2>1, <2>3, <2>4, <3>1, <4>1, <4>2
    <3>4. CASE ~Older(mv)
      <4>1. channels'[ch] = channels[ch] /\ ~Below(channels[ch], Text(mv.day))
        BY <1>1, <2>1, <2>6, <3>4 DEF Older
      <4> QED
        BY <2>1, <2>3, <2>4, <3>1, <4>1
    <3> QED
      BY <3>3, <3>4
  <2> QED
    BY <2>5, <2>6
<1> QED
  BY <1>2, <1>3 DEF DateInv, Compared

LEMMA DateStep == ASSUME DateInv, [Next]_vars PROVE DateInv'
<1>1. CASE UNCHANGED vars
  <2>1. Unmoved
    BY <1>1 DEF vars, DateInv, DateTypes, InHand, Unmoved
  <2> QED
    BY <2>1, UnmovedStep
<1>2. CASE Next
  BY <1>2, DateUnmoved, UnmovedStep, DateAnnounced, DateMoved DEF Next
<1> QED
  BY <1>1, <1>2

LEMMA DateInit == ASSUME Init PROVE DateInv
<1>1. \A ch \in Channels : FirstDate(ch) \in Dates
  BY MessagesAssumption DEF FirstDate, Iso, Null, Dates, Days, MessagesAssumption
<1>2. DateTypes
  BY <1>1, MessagesAssumption DEF Init, DateTypes, InHand, Days, Calls, MessagesAssumption
<1>3. \A ch \in Channels : Delivered(ch) = {} /\ Pending(ch) = {}
  BY DEF Init, Delivered, Pending, Calls
<1> QED
  BY <1>2, <1>3 DEF Init, DateInv, Compared

\* In whatever order concurrent sends reach the channel, no date is greater, as
\* strings compare, than the one that stays.
THEOREM GreatestDateStays == Spec => []DateIsGreatest
<1>1. DateInv => DateIsGreatest
  <2> SUFFICES ASSUME DateInv, NEW ch \in Channels, AtRest(ch)
               PROVE  /\ \A day \in Delivered(ch) : ~Below(channels[ch], Text(day))
                      /\ channels[ch] \in {FirstDate(ch)} \cup {Text(day) : day \in Delivered(ch)}
    BY DEF DateIsGreatest
  <2>1. Pending(ch) = {}
    BY DEF Pending, AtRest
  <2> QED
    BY <2>1 DEF AtRest, DateInv, Compared
<1> QED
  BY <1>1, DateInit, DateStep, PTL DEF Spec
=============================================================================
