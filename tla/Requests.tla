------------------------------ MODULE Requests ------------------------------
(***************************************************************************)
(* Being introduced, and being deleted for both (core/src/core.rs).        *)
(* Everyone runs the same client.  A letter is handled by one task that    *)
(* awaits between its check and its commit; the user's commands (accept,   *)
(* decline, delete) run beside it.  Sessions are numbered; which of two    *)
(* crossing ones stands, and what is lost with a session, is the matter of *)
(* module Session: here whoever opened one reads both.                     *)
(***************************************************************************)
EXTENDS Naturals

CONSTANTS Persons,      \* exactly two correspondents
          Texts,        \* what each of them may write
          MaxOpened,    \* bound on sessions opened
          MaxCommands   \* bound on the users' commands

ASSUME RequestsAssumption ==
    /\ \E a, b \in Persons : a # b /\ Persons = {a, b}
    /\ MaxOpened \in Nat /\ MaxCommands \in Nat

VARIABLES standing,     \* request_state of the other one, "stranger" if no contact
          wiping,       \* wipe_pending is set for the other one
          using,        \* session letters go out on, 0 if none
          reading,      \* sessions letters can be read on
          box,          \* texts written and not acknowledged
          kept,         \* the other's texts stored in the chat
          answered,     \* of those, the ones send_ack was called for
          handling,     \* the letter being handled and where its task stands
          accepting,    \* accept_request_now under way: texts still to acknowledge
          mail,         \* letters under way
          sessionsOpened, commands

reqVars == <<standing, wiping, using, reading, box, kept, answered, handling,
             accepting, mail, sessionsOpened, commands>>

Standings == {"stranger", "none", "incoming", "outgoing"}
Kinds == {"hello", "text", "ack", "erase", "erased", "wipe"}
RequestLetters == [to : Persons, kind : Kinds, text : Texts \union {0}, on : 1 .. MaxOpened,
            init : BOOLEAN]
Idle == [at |-> "idle"]
Handlings == {Idle} \union [at : {"check", "requester", "store", "answer"}, letter : RequestLetters]

OtherPerson(p) == CHOOSE q \in Persons : q # p
Known(p) == standing[p] # "stranger"
Mail(p, kind, text) == [to |-> OtherPerson(p), kind |-> kind, text |-> text, on |-> using[p], init |-> FALSE]

\* send_payload_via_relay: without a session nothing goes, and whoever answers
\* a letter does not come back to it.
MailedFrom(p, kind, text) == IF using[p] = 0 THEN mail ELSE mail \union {Mail(p, kind, text)}

RequestsTypeOK ==
    /\ standing \in [Persons -> Standings] /\ wiping \in [Persons -> BOOLEAN]
    /\ using \in [Persons -> 0 .. MaxOpened] /\ reading \in [Persons -> SUBSET (1 .. MaxOpened)]
    /\ box \in [Persons -> SUBSET Texts] /\ kept \in [Persons -> SUBSET Texts]
    /\ answered \in [Persons -> SUBSET Texts] /\ accepting \in [Persons -> SUBSET Texts]
    /\ mail \subseteq RequestLetters /\ handling \in [Persons -> Handlings]
    /\ sessionsOpened \in 0 .. MaxOpened

RequestsInit ==
    /\ standing = [p \in Persons |-> "stranger"] /\ wiping = [p \in Persons |-> FALSE]
    /\ using = [p \in Persons |-> 0] /\ reading = [p \in Persons |-> {}]
    /\ box = [p \in Persons |-> {}] /\ kept = [p \in Persons |-> {}]
    /\ answered = [p \in Persons |-> {}] /\ accepting = [p \in Persons |-> {}]
    /\ handling = [p \in Persons |-> Idle]
    /\ mail = {} /\ sessionsOpened = 0 /\ commands = 0

Command == commands < MaxCommands /\ commands' = commands + 1

\* delete_contact: the row, and with it the chat, the session and the request
\* to delete.
Forget(p) ==
    /\ standing' = [standing EXCEPT ![p] = "stranger"]
    /\ wiping' = [wiping EXCEPT ![p] = FALSE]
    /\ using' = [using EXCEPT ![p] = 0] /\ reading' = [reading EXCEPT ![p] = {}]
    /\ box' = [box EXCEPT ![p] = {}] /\ kept' = [kept EXCEPT ![p] = {}]
    /\ answered' = [answered EXCEPT ![p] = {}] /\ accepting' = [accepting EXCEPT ![p] = {}]

-----------------------------------------------------------------------------
(* The user's commands.                                                    *)

\* accept_request_now, up to its loop: the state first, then what they sent.
AcceptNow(p) ==
    /\ standing' = [standing EXCEPT ![p] = "none"]
    /\ accepting' = [accepting EXCEPT ![p] = kept[p]]

\* add_contact_via: adding the card of someone who asked is accepting them.
AddCard(p) ==
    /\ Command
    /\ \/ /\ ~Known(p)
          /\ standing' = [standing EXCEPT ![p] = "outgoing"] /\ UNCHANGED accepting
       \/ standing[p] = "incoming" /\ AcceptNow(p)
    /\ UNCHANGED <<wiping, using, reading, box, kept, answered, handling, mail, sessionsOpened>>

\* accept_contact_request.
AcceptRequest(p) ==
    /\ Command /\ standing[p] = "incoming"
    /\ AcceptNow(p)
    /\ UNCHANGED <<wiping, using, reading, box, kept, answered, handling, mail, sessionsOpened>>

\* decline_contact_request, and delete_contact itself.
DeclineOrDelete(p) ==
    /\ Command /\ Known(p) /\ ~wiping[p]
    /\ Forget(p)
    /\ UNCHANGED <<handling, mail, sessionsOpened>>

\* delete_contact_for_both: the chat is emptied at once, the row stays until
\* the request is handed over.
DeleteForBoth(p) ==
    /\ Command /\ Known(p) /\ ~wiping[p]
    /\ \/ standing[p] = "incoming" /\ Forget(p)
       \/ /\ standing[p] # "incoming"
          /\ box' = [box EXCEPT ![p] = {}] /\ kept' = [kept EXCEPT ![p] = {}]
          /\ answered' = [answered EXCEPT ![p] = {}]
          /\ wiping' = [wiping EXCEPT ![p] = TRUE]
          /\ UNCHANGED <<standing, using, reading, accepting>>
    /\ UNCHANGED <<handling, mail, sessionsOpened>>

\* send_message; nothing can be written to a request or a hidden contact.
WriteText(p, t) ==
    /\ Command /\ standing[p] \in {"none", "outgoing"} /\ ~wiping[p]
    /\ t \notin box[p]
    /\ box' = [box EXCEPT ![p] = @ \union {t}]
    /\ UNCHANGED <<standing, wiping, using, reading, kept, answered, handling, accepting,
                   mail, sessionsOpened>>

\* Deleting one's own message for both: it goes from the queue, and a kind 1
\* letter names it.
EraseText(p, t) ==
    /\ Command /\ standing[p] \in {"none", "outgoing"} /\ ~wiping[p]
    /\ t \in box[p] /\ using[p] # 0
    /\ box' = [box EXCEPT ![p] = @ \ {t}]
    /\ mail' = mail \union {Mail(p, "erase", t)}
    /\ UNCHANGED <<standing, wiping, using, reading, kept, answered, handling, accepting, sessionsOpened>>

-----------------------------------------------------------------------------
(* flush_all_pending.                                                      *)

\* ensure_session_for: an init letter carries the introduction.
OpenSession(p) ==
    /\ standing[p] \in {"none", "outgoing"}
    /\ using[p] = 0 /\ sessionsOpened < MaxOpened
    /\ standing[p] = "outgoing" \/ box[p] # {} \/ wiping[p]
    /\ sessionsOpened' = sessionsOpened + 1
    /\ using' = [using EXCEPT ![p] = sessionsOpened + 1]
    /\ reading' = [reading EXCEPT ![p] = @ \union {sessionsOpened + 1}]
    /\ mail' = mail \union {[to |-> OtherPerson(p), kind |-> "hello", text |-> 0,
                             on |-> sessionsOpened + 1, init |-> TRUE]}
    /\ UNCHANGED <<standing, wiping, box, kept, answered, handling, accepting, commands>>

\* A text, or the retry of one not acknowledged.
FlushText(p, t) ==
    /\ standing[p] \in {"none", "outgoing"} /\ ~wiping[p] /\ using[p] # 0
    /\ t \in box[p] /\ Mail(p, "text", t) \notin mail
    /\ mail' = mail \union {Mail(p, "text", t)}
    /\ UNCHANGED <<standing, wiping, using, reading, box, kept, answered, handling,
                   accepting, sessionsOpened, commands>>

\* send_wipe: handed over, or given up on after WIPE_TTL_MS; the contact goes
\* either way.
SendWipe(p) ==
    /\ wiping[p]
    /\ \/ using[p] # 0 /\ mail' = mail \union {Mail(p, "wipe", 0)}
       \/ UNCHANGED mail
    /\ Forget(p)
    /\ UNCHANGED <<handling, sessionsOpened, commands>>

\* The loop of accept_request_now: send_ack for one of the texts.
AcceptAcks(p, t) ==
    /\ t \in accepting[p] /\ Known(p)
    /\ accepting' = [accepting EXCEPT ![p] = @ \ {t}]
    /\ answered' = [answered EXCEPT ![p] = @ \union {t}]
    /\ mail' = MailedFrom(p, "ack", t)
    /\ UNCHANGED <<standing, wiping, using, reading, box, kept, handling, sessionsOpened, commands>>

-----------------------------------------------------------------------------
(* Receiving.                                                              *)

\* handle_incoming_envelope: an init makes the contact if there is none; a
\* letter on no known session is dropped.
TakeLetter(p, l) ==
    /\ l \in mail /\ l.to = p /\ handling[p] = Idle
    /\ mail' = mail \ {l}
    /\ \/ /\ l.init
          /\ standing' = IF Known(p) THEN standing ELSE [standing EXCEPT ![p] = "incoming"]
          /\ reading' = [reading EXCEPT ![p] = @ \union {l.on}]
          /\ using' = [using EXCEPT ![p] = l.on]
          /\ handling' = [handling EXCEPT ![p] = [at |-> "check", letter |-> l]]
       \/ /\ ~l.init /\ Known(p) /\ l.on \in reading[p]
          /\ handling' = [handling EXCEPT ![p] = [at |-> "check", letter |-> l]]
          /\ UNCHANGED <<standing, reading, using>>
       \/ /\ ~l.init /\ ~(Known(p) /\ l.on \in reading[p])
          /\ UNCHANGED <<standing, reading, using, handling>>
    /\ UNCHANGED <<wiping, box, kept, answered, accepting, sessionsOpened, commands>>

\* handle_dm_control, kind 1: the text goes, and a kind 2 letter says so.
EraseAndConfirm(p, t) ==
    /\ kept' = [kept EXCEPT ![p] = @ \ {t}]
    /\ answered' = [answered EXCEPT ![p] = @ \ {t}]
    /\ accepting' = [accepting EXCEPT ![p] = @ \ {t}]
    /\ mail' = MailedFrom(p, "erased", t)
    /\ UNCHANGED <<standing, wiping, using, reading, box>>

\* persist_incoming, up to its first await.  A wipe deletes the contact; a
\* contact being deleted is not listened to; a kind 1 letter is carried out
\* and confirmed; the rest goes by the request state.
Check(p) ==
    LET l == handling[p].letter
        Goes(where) == handling' = [handling EXCEPT ![p] = [at |-> where, letter |-> l]]
        Ends == handling' = [handling EXCEPT ![p] = Idle]
    IN  /\ handling[p].at = "check"
        /\ \/ /\ ~Known(p) /\ Ends
              /\ UNCHANGED <<standing, wiping, using, reading, box, kept, answered,
                             accepting, mail>>
           \/ Known(p) /\ l.kind = "wipe" /\ Forget(p) /\ Ends /\ UNCHANGED mail
           \/ /\ Known(p) /\ l.kind # "wipe" /\ wiping[p] /\ Ends
              /\ UNCHANGED <<standing, wiping, using, reading, box, kept, answered,
                             accepting, mail>>
           \/ Known(p) /\ ~wiping[p] /\ l.kind = "erase" /\ Ends /\ EraseAndConfirm(p, l.text)
           \/ /\ Known(p) /\ ~wiping[p] /\ l.kind \in {"hello", "text", "ack", "erased"}
              /\ standing' = [standing EXCEPT ![p] =
                                 IF @ = "outgoing" /\ l.kind # "erased" THEN "none" ELSE @]
              /\ IF l.kind = "text"
                 THEN Goes(IF standing[p] = "incoming" THEN "requester" ELSE "store")
                 ELSE Ends
              /\ box' = IF l.kind = "ack" /\ standing[p] # "incoming"
                        THEN [box EXCEPT ![p] = @ \ {l.text}] ELSE box
              /\ UNCHANGED <<wiping, using, reading, kept, answered, accepting, mail>>
        /\ UNCHANGED <<sessionsOpened, commands>>

\* Whether the sender is accepted decided before the awaits and used after.
CommitMutant(p) ==
    LET l == handling[p].letter
    IN  /\ handling[p].at \in {"requester", "store"}
        /\ IF ~Known(p)
           THEN handling' = [handling EXCEPT ![p] = Idle] /\ UNCHANGED kept
           ELSE /\ kept' = [kept EXCEPT ![p] = @ \union {l.text}]
                /\ handling' = [handling EXCEPT ![p] =
                       IF @.at = "requester" THEN Idle ELSE [at |-> "answer", letter |-> l]]
        /\ UNCHANGED <<standing, wiping, using, reading, box, answered, accepting, mail,
                       sessionsOpened, commands>>

\* The commit, after the awaits: commit_incoming reads the request state in
\* the transaction that inserts the text, and a text of someone not accepted
\* is kept and nothing more.
Commit(p) ==
    LET l == handling[p].letter
    IN  /\ handling[p].at \in {"requester", "store"}
        /\ IF ~Known(p)
           THEN handling' = [handling EXCEPT ![p] = Idle] /\ UNCHANGED kept
           ELSE /\ kept' = [kept EXCEPT ![p] = @ \union {l.text}]
                /\ handling' = [handling EXCEPT ![p] =
                       IF standing[p] = "incoming" THEN Idle ELSE [at |-> "answer", letter |-> l]]
        /\ UNCHANGED <<standing, wiping, using, reading, box, answered, accepting, mail,
                       sessionsOpened, commands>>

\* send_ack at the end of both paths.
Answer(p) ==
    LET l == handling[p].letter
    IN  /\ handling[p].at = "answer"
        /\ handling' = [handling EXCEPT ![p] = Idle]
        /\ answered' = IF l.text \in kept[p] THEN [answered EXCEPT ![p] = @ \union {l.text}]
                       ELSE answered
        /\ mail' = IF Known(p) THEN MailedFrom(p, "ack", l.text) ELSE mail
        /\ UNCHANGED <<standing, wiping, using, reading, box, kept, accepting, sessionsOpened, commands>>

\* A letter that waited in the network too long.
LetterExpires ==
    /\ \E l \in mail : mail' = mail \ {l}
    /\ UNCHANGED <<standing, wiping, using, reading, box, kept, answered, handling,
                   accepting, sessionsOpened, commands>>

RequestsNext ==
    \/ \E p \in Persons :
          \/ AddCard(p) \/ AcceptRequest(p) \/ DeclineOrDelete(p) \/ DeleteForBoth(p)
          \/ OpenSession(p) \/ SendWipe(p) \/ Check(p) \/ Commit(p) \/ Answer(p)
          \/ \E t \in Texts : WriteText(p, t) \/ EraseText(p, t) \/ FlushText(p, t) \/ AcceptAcks(p, t)
          \/ \E l \in mail : TakeLetter(p, l)
    \/ LetterExpires

RequestsSpec == RequestsInit /\ [][RequestsNext]_reqVars

-----------------------------------------------------------------------------
(* Properties.                                                             *)

\* "Acceptance may race the hint/network awaits above": however the user's
\* acceptance falls between a letter's check and its commit, a text in an
\* accepted chat has been acknowledged, or the task that will is under way.
AcceptedIsAnswered ==
    \A p \in Persons : standing[p] # "incoming" =>
        \A t \in kept[p] :
            \/ t \in answered[p] \union accepting[p]
            \/ handling[p].at = "answer" /\ handling[p].letter.text = t

\* "Nothing goes to someone we have not accepted, not even an ack."
NothingToUnaccepted ==
    [][\A l \in mail' \ mail : standing[OtherPerson(l.to)] # "incoming"]_reqVars

\* "We are deleting them: nothing more from them lands in a chat we already
\* emptied."
EmptiedStaysEmpty == \A p \in Persons : wiping[p] => kept[p] = {}

\* A request and its answer hold across sessions lost and opened again.
RequestsHold == RequestsTypeOK /\ AcceptedIsAnswered
=============================================================================
