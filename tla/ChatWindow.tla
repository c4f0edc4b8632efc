----------------------------- MODULE ChatWindow -----------------------------
(***************************************************************************)
(* The chat on the screen: the store of ui/src/state.ts keeps a window of  *)
(* the open chat's messages and its pins, filled by answers of the core    *)
(* and changed by the core's events.  Each load asks, waits, and is taken  *)
(* only if the store still accepts it (acceptsContent: same epoch, same    *)
(* chat, not locked).  Answers come in any order, and an answer read       *)
(* before a deletion can come after the event that reports it.             *)
(*                                                                         *)
(* A message is its number and whether it still has a text: 1, or 0 once   *)
(* the text is gone (an edit puts one text for another).  Contacts and     *)
(* groups are both just chats.                                             *)
(***************************************************************************)
EXTENDS Integers, SequencesExt

CONSTANTS WinChats, NoChat,
          PageSize,    \* rows asked for at once (200)
          UntilMargin, \* rows asked for beyond a message looked for (50)
          WindowSize,  \* VISIBLE_MESSAGES (2000)
          MaxMids,     \* bound: messages
          MaxEpoch,    \* bound: changes of chat
          MaxAsked,    \* bound: loads under way
          MaxHappened  \* bound: events on their way

VARIABLES inCore,    \* the core's messages, by number
          happened,  \* events on their way to the store
          selected,  \* selectedChat
          winEpoch,  \* contentEpoch
          winLocked, \* contentLocked
          window,    \* messages: chat -> rows shown
          pins,      \* pinned: chat -> rows shown
          tombs,     \* deletedMessages
          loads,     \* loads under way
          reported   \* ghost: deletions the store was told of

windowVars == <<inCore, happened, selected, winEpoch, winLocked, window, pins, tombs, loads, reported>>

NoRows == [c \in WinChats |-> << >>]

WindowInit ==
  /\ inCore = << >> /\ happened = << >>
  /\ selected = NoChat /\ winEpoch = 0 /\ winLocked = FALSE
  /\ window = NoRows /\ pins = NoRows /\ tombs = {}
  /\ loads = {} /\ reported = {}

\* Rows of a chat, oldest first.
LastRows(rows, n) == SubSeq(rows, IF Len(rows) > n THEN Len(rows) - n + 1 ELSE 1, Len(rows))
FirstRows(rows, n) == SubSeq(rows, 1, IF Len(rows) > n THEN n ELSE Len(rows))
IdsOf(rows) == {rows[i].id : i \in DOMAIN rows}
Below(rows, id) == SelectSeq(rows, LAMBDA r : r.id < id)
Above(rows, id) == SelectSeq(rows, LAMBDA r : r.id > id)

-----------------------------------------------------------------------------
(* The core: what it stores, what it answers, what it reports *)

ChatRows(c) ==
  LET row(i) == [id |-> i, text |-> inCore[i].text]
      ids == SelectSeq([i \in DOMAIN inCore |-> i], LAMBDA i : inCore[i].chat = c)
  IN [i \in DOMAIN ids |-> row(ids[i])]

\* list_messages, list_group_messages: oldest first once the store reversed it.
ListMessages(c, limit, before) == LastRows(Below(ChatRows(c), before), limit)

\* message_position_dm, message_position_group: how many are newer.
MessagePosition(c, id) == Len(Above(ChatRows(c), id))

Everything == MaxMids + 1

Happens(event) == Len(happened) < MaxHappened /\ happened' = Append(happened, event)

MessageArrives(c) ==
  /\ Len(inCore) < MaxMids /\ ~winLocked
  /\ inCore' = Append(inCore, [chat |-> c, text |-> 1, pinned |-> FALSE])
  /\ Happens([kind |-> "IncomingMessage", id |-> Len(inCore) + 1, text |-> 1])
  /\ UNCHANGED <<selected, winEpoch, winLocked, window, pins, tombs, loads, reported>>

MessageChanges(i) ==
  /\ ~winLocked /\ inCore[i].text # 0
  /\ \/ /\ inCore' = [inCore EXCEPT ![i].text = 0, ![i].pinned = FALSE]
        /\ Happens([kind |-> "MessageDeleted", id |-> i, text |-> 0])
     \/ /\ UNCHANGED inCore
        /\ Happens([kind |-> "MessageEdited", id |-> i, text |-> 1])
     \/ /\ ~inCore[i].pinned
        /\ inCore' = [inCore EXCEPT ![i].pinned = TRUE]
        /\ Happens([kind |-> "MessagePinned", id |-> i, text |-> 0])
  /\ UNCHANGED <<selected, winEpoch, winLocked, window, pins, tombs, loads, reported>>

-----------------------------------------------------------------------------
(* Loads *)

AcceptsContentMutant(f) == ~winLocked /\ selected = f.chat

AcceptsContent(f) == ~winLocked /\ f.epoch = winEpoch /\ selected = f.chat

Asking(kind, id, known) ==
  [kind |-> kind, chat |-> selected, epoch |-> winEpoch, id |-> id, known |-> known,
   at |-> "asked", rows |-> << >>]

Ask(f) == loads' = IF selected = NoChat THEN loads ELSE loads \cup {f}

\* A text the store was told is gone is blank in whatever answer holds it.
RedactDeleted(rows) ==
  [i \in DOMAIN rows |-> IF rows[i].id \in tombs THEN [rows[i] EXCEPT !.text = 0] ELSE rows[i]]

FewLoads == Cardinality(loads) < MaxAsked

Room == selected # NoChat /\ FewLoads

LoadMessages ==
  /\ Room /\ Ask(Asking("latest", Everything, {}))
  /\ UNCHANGED <<inCore, happened, selected, winEpoch, winLocked, window, pins, tombs, reported>>

LoadPinned ==
  /\ Room /\ Ask(Asking("pinned", Everything, {}))
  /\ UNCHANGED <<inCore, happened, selected, winEpoch, winLocked, window, pins, tombs, reported>>

\* maybeLoadMore has one of these under way at a time.
LoadMoreMessages ==
  /\ Room /\ window[selected] # << >>
  /\ \A f \in loads : f.kind # "more"
  /\ Ask(Asking("more", window[selected][1].id, IdsOf(window[selected])))
  /\ UNCHANGED <<inCore, happened, selected, winEpoch, winLocked, window, pins, tombs, reported>>

LoadUntilMessage(id) ==
  /\ Room /\ id \notin IdsOf(window[selected])
  /\ Ask(Asking("until", id, {}))
  /\ UNCHANGED <<inCore, happened, selected, winEpoch, winLocked, window, pins, tombs, reported>>

\* How far back the message looked for is (asked first; the two answers are
\* read together here) decides how much is asked for: a
\* distant one gets a window of its own, ending with it.
Distant(f) == MessagePosition(f.chat, f.id) >= WindowSize

Answer(f) ==
  CASE f.kind = "latest" -> ListMessages(f.chat, PageSize, Everything)
    [] f.kind = "more"   -> ListMessages(f.chat, PageSize, f.id)
    [] f.kind = "pinned" -> SelectSeq(ChatRows(f.chat), LAMBDA r : inCore[r.id].pinned)
    [] f.kind = "until"  ->
       IF inCore[f.id].chat # f.chat THEN << >>
       ELSE LET n == MessagePosition(f.chat, f.id) + UntilMargin
            IN ListMessages(f.chat, IF n < WindowSize THEN n ELSE WindowSize,
                            IF Distant(f) THEN f.id + 1 ELSE Everything)

CoreAnswers(f) ==
  /\ f.at = "asked"
  /\ loads' = (loads \ {f}) \cup
       {[f EXCEPT !.at = IF f.kind = "until" /\ Distant(f) THEN "distant" ELSE "answered",
                  !.rows = Answer(f)]}
  /\ UNCHANGED <<inCore, happened, selected, winEpoch, winLocked, window, pins, tombs, reported>>

\* The window after an answer that is accepted: the newest rows, with what
\* was shown before them;
MergeLatest(f, have) == LastRows(Below(have, f.rows[1].id) \o f.rows, WindowSize)

\* older rows, less those shown when they were asked for;
MergeMore(f, have) ==
  LET older == SelectSeq(f.rows, LAMBDA r : r.id < f.id /\ r.id \notin f.known)
  IN IF older = << >> THEN have ELSE FirstRows(older \o have, WindowSize)

\* the rows about a message looked for.
MergeUntil(f, have) ==
  IF f.at = "distant" THEN f.rows
  ELSE LastRows(Below(have, f.rows[1].id) \o f.rows \o Above(have, f.rows[Len(f.rows)].id), WindowSize)

Merged(f) ==
  LET have == window[f.chat]
  IN CASE f.rows = << >> -> have
       [] f.rows # << >> /\ f.kind = "latest" -> MergeLatest(f, have)
       [] f.rows # << >> /\ f.kind = "more" -> MergeMore(f, have)
       [] f.rows # << >> /\ f.kind = "until" -> MergeUntil(f, have)

PinnedRows(f) == SelectSeq(f.rows, LAMBDA r : r.text # 0 /\ r.id \notin tombs)

AnswerComes(f) ==
  /\ f.at # "asked"
  /\ loads' = loads \ {f}
  /\ IF ~AcceptsContent(f) THEN UNCHANGED <<window, pins>>
     ELSE IF f.kind = "pinned"
     THEN pins' = [pins EXCEPT ![f.chat] = PinnedRows(f)] /\ UNCHANGED window
     ELSE window' = [window EXCEPT ![f.chat] = RedactDeleted(Merged(f))] /\ UNCHANGED pins
  /\ UNCHANGED <<inCore, happened, selected, winEpoch, winLocked, tombs, reported>>

-----------------------------------------------------------------------------
(* Chats and the lock *)

\* The subscriber of selectedChat: nothing of another chat is kept.
ActiveOnly(rows, c) == [x \in WinChats |-> IF x = c THEN rows[x] ELSE << >>]

\* Another epoch; the tombstones are kept only while the chat stays.
SelectChat(c) ==
  /\ ~winLocked /\ FewLoads /\ winEpoch < MaxEpoch
  /\ selected' = c /\ winEpoch' = winEpoch + 1
  /\ tombs' = IF c = selected THEN tombs ELSE {}
  /\ window' = ActiveOnly(window, c) /\ pins' = ActiveOnly(pins, c)
  /\ loads' = IF c = NoChat THEN loads
              ELSE loads \cup {[Asking("latest", Everything, {}) EXCEPT !.chat = c, !.epoch = winEpoch + 1]}
  /\ UNCHANGED <<inCore, happened, winLocked, reported>>

LockWindow ==
  /\ ~winLocked /\ winEpoch < MaxEpoch
  /\ winLocked' = TRUE /\ winEpoch' = winEpoch + 1 /\ selected' = NoChat
  /\ window' = NoRows /\ pins' = NoRows /\ tombs' = {} /\ happened' = << >>
  /\ UNCHANGED <<inCore, loads, reported>>

\* The main view again, after signing in.
MainView ==
  /\ winLocked /\ winLocked' = FALSE
  /\ UNCHANGED <<inCore, happened, selected, winEpoch, window, pins, tombs, loads, reported>>

-----------------------------------------------------------------------------
(* Events *)

Changed(rows, e) ==
  [i \in DOMAIN rows |-> IF rows[i].id = e.id /\ rows[i].text # 0
                         THEN [rows[i] EXCEPT !.text = e.text] ELSE rows[i]]

IncomingMessage(e) ==
  /\ IF inCore[e.id].chat = selected THEN Ask(Asking("latest", Everything, {})) ELSE UNCHANGED loads
  /\ UNCHANGED <<window, pins, tombs, reported>>

MessageEdited(e) ==
  /\ window' = [c \in WinChats |-> Changed(window[c], e)]
  /\ pins' = [c \in WinChats |-> Changed(pins[c], e)]
  /\ UNCHANGED <<tombs, loads, reported>>

\* In another chat than the open one there is nothing to blank.
MessageDeleted(e) ==
  /\ reported' = reported \cup {e.id}
  /\ IF inCore[e.id].chat # selected THEN UNCHANGED <<window, pins, tombs, loads>>
     ELSE /\ tombs' = tombs \cup {e.id}
          /\ window' = [window EXCEPT ![selected] = Changed(@, e)]
          /\ pins' = [pins EXCEPT ![selected] = SelectSeq(@, LAMBDA r : r.id # e.id)]
          /\ Ask(Asking("latest", Everything, {}))

MessagePinned(e) ==
  /\ IF inCore[e.id].chat = selected THEN Ask(Asking("pinned", Everything, {})) ELSE UNCHANGED loads
  /\ UNCHANGED <<window, pins, tombs, reported>>

HandleEvent ==
  /\ happened # << >> /\ FewLoads /\ happened' = Tail(happened)
  /\ LET e == Head(happened)
     IN \/ e.kind = "IncomingMessage" /\ IncomingMessage(e)
        \/ e.kind = "MessageEdited" /\ MessageEdited(e)
        \/ e.kind = "MessageDeleted" /\ MessageDeleted(e)
        \/ e.kind = "MessagePinned" /\ MessagePinned(e)
  /\ UNCHANGED <<inCore, selected, winEpoch, winLocked>>

-----------------------------------------------------------------------------
WindowNext ==
  \/ \E c \in WinChats : MessageArrives(c) \/ SelectChat(c)
  \/ \E i \in DOMAIN inCore : MessageChanges(i) \/ LoadUntilMessage(i)
  \/ LoadMessages \/ LoadPinned \/ LoadMoreMessages
  \/ \E f \in loads : CoreAnswers(f) \/ AnswerComes(f)
  \/ SelectChat(NoChat) \/ LockWindow \/ MainView \/ HandleEvent

WindowSpec == WindowInit /\ [][WindowNext]_windowVars

\* A text the store was told is gone is never on the screen again, in the
\* log or among the pins, whatever answers were under way: switching chats
\* forgets the tombstones, so only the epoch keeps older answers out.
GoneStaysOffScreen ==
  \A c \in WinChats :
    /\ \A i \in DOMAIN window[c] : window[c][i].id \in reported => window[c][i].text = 0
    /\ IdsOf(pins[c]) \cap reported = {}

\* "an overlapping answer must neither duplicate messages nor keep 'more'
\* coming forever" (loadMoreMessages): no message is shown twice.
ShownOnceEach == \A c \in WinChats : Cardinality(IdsOf(window[c])) = Len(window[c])
=============================================================================
