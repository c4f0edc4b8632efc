---------------------------- MODULE ChatUpdates ----------------------------
(***************************************************************************)
(* Group membership, and the edits and pins that follow a message: the     *)
(* sending side (create_group, add_group_member, send_message,             *)
(* send_to_group, send_edit, send_edit_group, pin_contact_message,         *)
(* pin_group_message of core/src/core.rs) and the receiving side           *)
(* (apply_group_ref of libcore/src/db/group_wire.rs, persist_incoming).    *)
(*                                                                         *)
(* A message is named by its author and the author's own row id, so each   *)
(* side has to translate the name into its own row.  Texts are queued and  *)
(* attempted until they are acknowledged.  Edits, pins and group           *)
(* references are sent once: whatever is lost stays lost.  Every letter    *)
(* of a group carries the sender's member list.                            *)
(***************************************************************************)
EXTENDS Integers, FiniteSets, SequencesExt

CONSTANTS Chatters,     \* people, each with a database of their own
          TheGroup,     \* the one group, named by its random id
          MaxMembers,   \* MAX_GROUP_MEMBERS
          MaxTexts,     \* bound: texts written
          MaxChanges,   \* bound: edits and pins
          MaxInFlight   \* bound: letters on their way at once

ASSUME ChatUpdatesAssumption == TheGroup \notin Chatters

VARIABLES rows,      \* person -> rows of the messages table, by id; version
                     \* counts the edits the author made of an own message
          pinned,    \* person -> ids in pinned_messages
          deferred,  \* person -> deferred_pins, oldest first
          members,   \* person -> group_members, {} without the group
          unacked,   \* person -> texts queued, as <<id, recipient>>
          letters,   \* letters on their way
          asked,     \* group messages somebody pinned, by author and origin
          texts,     \* texts written so far
          changes    \* edits and pins so far

chatVars == <<rows, pinned, deferred, members, unacked, letters, asked, texts, changes>>

Blank == -1

ChatLetter(kind, p, q, chat, author, origin, body) ==
  [kind |-> kind, from |-> p, to |-> q, group |-> chat = TheGroup,
   author |-> author, origin |-> origin, body |-> body,
   ref |-> IF chat = TheGroup THEN members[p] ELSE {}]

\* Everybody a message of this chat goes to.
Others(p, chat) == IF chat = TheGroup THEN members[p] \ {p} ELSE {chat}

ChatInit ==
  /\ rows = [p \in Chatters |-> <<>>]
  /\ pinned = [p \in Chatters |-> {}]
  /\ deferred = [p \in Chatters |-> <<>>]
  /\ members = [p \in Chatters |-> {}]
  /\ unacked = [p \in Chatters |-> {}]
  /\ letters = {} /\ asked = {} /\ texts = 0 /\ changes = 0

-----------------------------------------------------------------------------
(* The sending side *)

References(p, set, told) ==
  letters \cup {[ChatLetter("ref", p, q, TheGroup, p, 0, Blank) EXCEPT !.ref = set] : q \in told}

\* The first letter that cannot be sent ends the call: the rest are not told.
CreateGroup(p) ==
  /\ \A q \in Chatters : members[q] = {}
  /\ \E chosen \in SUBSET (Chatters \ {p}) : \E told \in SUBSET chosen :
       /\ members' = [members EXCEPT ![p] = chosen \cup {p}]
       /\ letters' = References(p, chosen \cup {p}, told)
  /\ UNCHANGED <<rows, pinned, deferred, unacked, asked, texts, changes>>

\* Nothing here looks at the limit.
AddGroupMember(p, q) ==
  /\ members[p] # {} /\ q \notin members[p]
  /\ LET now == members[p] \cup {q} IN
       \E told \in SUBSET (now \ {p}) :
         /\ members' = [members EXCEPT ![p] = now]
         /\ letters' = References(p, now, told)
  /\ UNCHANGED <<rows, pinned, deferred, unacked, asked, texts, changes>>

Send(p, chat) ==
  /\ texts < MaxTexts
  /\ chat = TheGroup => members[p] # {}
  /\ LET id == Len(rows[p]) + 1 IN
       /\ rows' = [rows EXCEPT ![p] = Append(@,
            [chat |-> chat, author |-> p, origin |-> id, body |-> 0, version |-> 0])]
       /\ unacked' = [unacked EXCEPT ![p] = @ \cup {<<id, q>> : q \in Others(p, chat)}]
  /\ texts' = texts + 1
  /\ UNCHANGED <<pinned, deferred, members, letters, asked, changes>>

\* The first attempt and every later one: the letter is built from the row,
\* with the members of now.
Attempt(p, id, q) ==
  /\ <<id, q>> \in unacked[p]
  /\ letters' = letters \cup
       {ChatLetter("text", p, q, rows[p][id].chat, p, id, rows[p][id].body)}
  /\ UNCHANGED <<rows, pinned, deferred, members, unacked, asked, texts, changes>>

\* The change is made here first, then told to whom it can be.
Told(kind, p, id, author, origin, body) ==
  \E to \in SUBSET Others(p, rows[p][id].chat) :
    letters' = letters \cup
      {ChatLetter(kind, p, q, rows[p][id].chat, author, origin, body) : q \in to}

Edited(p, id) ==
  /\ changes < MaxChanges
  /\ rows[p][id].author = p
  /\ LET body == rows[p][id].body + 1 IN
       /\ rows' = [rows EXCEPT ![p][id].body = body, ![p][id].version = body]
       /\ Told("edit", p, id, p, id, body)
  /\ changes' = changes + 1
  /\ UNCHANGED <<pinned, deferred, members, unacked, asked, texts>>

SendEdit(p, id) == /\ rows[p][id].chat # TheGroup /\ rows[p][id].body # Blank
                   /\ Edited(p, id)

SendEditGroup(p, id) == rows[p][id].chat = TheGroup /\ Edited(p, id)

PinRowMutant(p, id) == pinned[p] \cup {id}

\* A deleted message cannot be pinned.
PinRow(p, id) == IF rows[p][id].body = Blank THEN pinned[p] ELSE pinned[p] \cup {id}

Marked(kind, p, id) == IF kind = "pin" THEN PinRow(p, id) ELSE pinned[p] \ {id}

\* How a message is named on the wire.
NameOf(p, id) == <<rows[p][id].author, rows[p][id].origin>>

PinChanged(kind, p, id) ==
  /\ changes < MaxChanges
  /\ pinned' = [pinned EXCEPT ![p] = Marked(kind, p, id)]
  /\ Told(kind, p, id, NameOf(p, id)[1], NameOf(p, id)[2], Blank)
  /\ changes' = changes + 1
  /\ UNCHANGED <<rows, deferred, members, unacked, texts>>

PinContactMessage(kind, p, id) ==
  /\ rows[p][id].chat # TheGroup
  /\ PinChanged(kind, p, id)
  /\ UNCHANGED asked

PinGroupMessage(kind, p, id) ==
  /\ rows[p][id].chat = TheGroup
  /\ PinChanged(kind, p, id)
  /\ asked' = IF kind = "pin" THEN asked \cup {NameOf(p, id)} ELSE asked

\* A direct message deleted on this side, at whoever's wish.
Redact(p, id) ==
  /\ rows[p][id].chat # TheGroup /\ rows[p][id].body # Blank
  /\ rows' = [rows EXCEPT ![p][id].body = Blank]
  /\ pinned' = [pinned EXCEPT ![p] = @ \ {id}]
  /\ unacked' = [unacked EXCEPT ![p] = {u \in @ : u[1] # id}]
  /\ UNCHANGED <<deferred, members, letters, asked, texts, changes>>

-----------------------------------------------------------------------------
(* The receiving side *)

\* The sender and we are listed; of a group already here only a member may
\* speak.  The transaction is refused whole when the merge would not fit.
RefAccepted(p, l) ==
  /\ {p, l.from} \subseteq l.ref
  /\ Cardinality(l.ref) <= MaxMembers
  /\ members[p] # {} => l.from \in members[p]
  /\ Cardinality(members[p] \cup l.ref) <= MaxMembers

MergedRef(p, l) == IF l.group THEN [members EXCEPT ![p] = @ \cup l.ref] ELSE members

NewestOf(ids) == IF ids = {} THEN 0 ELSE CHOOSE i \in ids : \A j \in ids : j <= i

\* find_message_by_origin: what this contact wrote.
FindByOrigin(p, q, origin) == NewestOf({i \in DOMAIN rows[p] :
  rows[p][i].chat = q /\ rows[p][i].author = q /\ rows[p][i].origin = origin})

\* resolve_contact_message: our own id or the contact's, the newest row.
ResolveContact(p, q, origin) == NewestOf({i \in DOMAIN rows[p] :
  rows[p][i].chat = q /\ (i = origin \/ rows[p][i].origin = origin)})

ResolveGroup(p, author, origin) == NewestOf({i \in DOMAIN rows[p] :
  rows[p][i].chat = TheGroup /\ rows[p][i].author = author /\ rows[p][i].origin = origin})

Resolve(p, l) == IF l.group THEN ResolveGroup(p, l.author, l.origin)
                 ELSE IF l.kind \in {"pin", "unpin"} THEN ResolveContact(p, l.from, l.origin)
                 ELSE FindByOrigin(p, l.from, l.origin)

ChatOf(l) == IF l.group THEN TheGroup ELSE l.from

Row(l, origin) == [chat |-> ChatOf(l), author |-> l.from, origin |-> origin,
                   body |-> l.body, version |-> 0]

TakeRef(p, l) == l.kind = "ref" /\ UNCHANGED <<rows, pinned, deferred, unacked>>

\* An edit nobody can place is dropped; in a group it is kept as a message
\* of its own, without an origin.
TakeEdit(p, l) ==
  /\ l.kind = "edit"
  /\ LET id == Resolve(p, l) IN
       rows' = IF id # 0
               THEN IF rows[p][id].body = Blank THEN rows
                    ELSE [rows EXCEPT ![p][id].body = l.body]
               ELSE IF l.group THEN [rows EXCEPT ![p] = Append(@, Row(l, 0))] ELSE rows
  /\ UNCHANGED <<pinned, deferred, unacked>>

\* A pin whose message is not here yet waits for it.
TakePin(p, l) ==
  /\ l.kind \in {"pin", "unpin"}
  /\ LET id == Resolve(p, l) IN
       IF id # 0 THEN /\ pinned' = [pinned EXCEPT ![p] = Marked(l.kind, p, id)]
                      /\ UNCHANGED deferred
       ELSE /\ deferred' = [deferred EXCEPT ![p] = Append(@,
                 [chat |-> ChatOf(l), author |-> l.author, origin |-> l.origin, kind |-> l.kind])]
            /\ UNCHANGED pinned
  /\ UNCHANGED <<rows, unacked>>

\* The oldest pin that waited for this message.
Waiting(p, l) == SelectInSeq(deferred[p], LAMBDA d :
  d.chat = ChatOf(l) /\ d.author = l.from /\ d.origin = l.origin)

AlreadyHere(p, l) == Resolve(p, l) # 0

\* A text here already is acknowledged again; acknowledgements may get lost.
TakeText(p, l) ==
  /\ l.kind = "text"
  /\ IF AlreadyHere(p, l) THEN UNCHANGED <<rows, pinned, deferred>>
     ELSE LET id == Len(rows[p]) + 1
              k == Waiting(p, l) IN
          /\ rows' = [rows EXCEPT ![p] = Append(@, Row(l, l.origin))]
          /\ IF k = 0 THEN UNCHANGED <<pinned, deferred>>
             ELSE /\ deferred' = [deferred EXCEPT ![p] = RemoveAt(@, k)]
                  /\ pinned' = [pinned EXCEPT ![p] =
                       IF deferred[p][k].kind = "pin" THEN @ \cup {id} ELSE @]
  /\ \E acked \in {{}, {<<l.origin, p>>}} :
       unacked' = [unacked EXCEPT ![l.from] = @ \ acked]

Arrives(l) ==
  LET p == l.to IN
    /\ letters' = letters \ {l}
    /\ IF l.group /\ ~RefAccepted(p, l)
       THEN UNCHANGED <<rows, pinned, deferred, members, unacked>>
       ELSE /\ members' = MergedRef(p, l)
            /\ TakeRef(p, l) \/ TakeEdit(p, l) \/ TakePin(p, l) \/ TakeText(p, l)
    /\ UNCHANGED <<asked, texts, changes>>

LetterLost(l) == letters' = letters \ {l} /\ UNCHANGED
  <<rows, pinned, deferred, members, unacked, asked, texts, changes>>

-----------------------------------------------------------------------------
\* The bound on the letters on their way.
Few == Cardinality(letters') <= MaxInFlight

ChatNext ==
  \/ \E p \in Chatters :
       \/ CreateGroup(p) /\ Few
       \/ \E q \in Chatters : AddGroupMember(p, q) /\ Few
       \/ \E chat \in (Chatters \ {p}) \cup {TheGroup} : Send(p, chat)
       \/ \E u \in unacked[p] : Attempt(p, u[1], u[2]) /\ Few
       \/ \E id \in DOMAIN rows[p] :
            \/ (SendEdit(p, id) \/ SendEditGroup(p, id)) /\ Few
            \/ \E kind \in {"pin", "unpin"} :
                 (PinContactMessage(kind, p, id) \/ PinGroupMessage(kind, p, id)) /\ Few
            \/ Redact(p, id)
  \/ \E l \in letters : Arrives(l) \/ LetterLost(l)

ChatSpec == ChatInit /\ [][ChatNext]_chatVars

-----------------------------------------------------------------------------
\* An edit changes the message it names: a row never shows a version its
\* author did not write for that very message (resolve_group_message,
\* find_message_by_origin).
EditsKeepAuthor == \A p \in Chatters : \A i \in DOMAIN rows[p] :
  LET r == rows[p][i] IN r.origin # 0 =>
    /\ r.origin \in DOMAIN rows[r.author]
    /\ rows[r.author][r.origin].version >= r.body

\* A group message is pinned here only if somebody pinned that message,
\* whether the pin met the message or had to wait for it.
PinnedWasAsked == \A p \in Chatters : \A i \in pinned[p] :
  rows[p][i].chat = TheGroup => NameOf(p, i) \in asked

\* What was deleted stays empty and unpinned, whichever edit or pin of it is
\* still on its way (update_message_body, pin_contact_message).
RedactedStaysBlank == \A p \in Chatters : \A i \in DOMAIN rows[p] :
  rows[p][i].body = Blank => i \notin pinned[p]

\* Edits, pins and deletions of messages that arrive before, after or instead
\* of them: only the author's edit changes a text, a pin is one somebody asked
\* for on that message, and what was deleted stays blank.
UpdatesKeepOrigin == EditsKeepAuthor /\ PinnedWasAsked /\ RedactedStaysBlank
=============================================================================
