--------------------------- MODULE BrowserOutbox ----------------------------
(***************************************************************************)
(* What the browser client sends until it is settled: messages and         *)
(* deletions, and files in parts.                                          *)
(***************************************************************************)
EXTENDS Integers, FiniteSets

(***************************************************************************)
(* The browser client's outbox: messages and requests to delete them, from *)
(* the moment they are queued to the answer that settles them              *)
(* (src/ui/src/browser-core/{backend,model,files,deletion,relay}.ts).      *)
(*                                                                         *)
(* One profile writes, another one, which hosts its own mailbox, reads.  A *)
(* letter is encrypted in a transaction, deposited outside it, and the     *)
(* deposit recorded in another transaction; the reader answers Deposited   *)
(* only after it has opened and stored the letter, and the answer may be   *)
(* lost.  The reader's receipts travel the other way.  Every transaction   *)
(* is durable before its result is used (module BrowserProfile), so what a *)
(* restart loses is where each letter was on its way.                      *)
(***************************************************************************)

CONSTANTS Notes,        \* the messages
          MaxOutboxLosses,    \* bound: deposits that fail or lose their answer
          MaxReopens    \* bound: restarts of the writer, network retries

VARIABLES
  outbox,     \* letter -> its entry, or NoEntry
  rows,       \* message -> "none", "shown", "deleted" at the writer
  delivered,  \* the messages shown as delivered
  owed,       \* the deletions the reader has not confirmed (delete_pending)
  session,    \* the writer has a session
  shelf,      \* message -> "none", "text", "erased" at the reader
  opened,     \* the reader has the session
  accepted,   \* the reader accepted the writer's contact request
  replies,    \* the reader's receipts on their way
  strays,     \* deposits under way of a letter that left the outbox
  losses, reopens

outboxVars == <<outbox, rows, delivered, owed, session, shelf, opened, accepted,
                replies, strays, losses, reopens>>
writerVars == <<rows, delivered, owed>>
readerVars == <<shelf, opened, accepted, replies, strays>>

\* An entry: does it keep its payload (and row), the ciphertext ("sealed",
\* or "read" once the reader has opened it), deposited, initial, and the step
\* of sendItem it is in.
NoEntry == [live |-> FALSE, blob |-> "absent", deposited |-> FALSE, initial |-> FALSE, stage |-> "idle"]
Queued == [live |-> TRUE, blob |-> "none", deposited |-> FALSE, initial |-> FALSE, stage |-> "idle"]
Mailings == Notes \X {"text", "erase"}
Waiting(l) == outbox[l] # NoEntry

OutboxInit ==
  /\ outbox = [l \in Mailings |-> NoEntry]
  /\ rows = [n \in Notes |-> "none"]
  /\ delivered = {} /\ owed = {}
  /\ session = FALSE
  /\ shelf = [n \in Notes |-> "none"]
  /\ opened = FALSE
  /\ accepted \in BOOLEAN
  /\ replies = {} /\ strays = {}
  /\ losses = 0 /\ reopens = 0

-----------------------------------------------------------------------------
\* The writer.

SendNote(n) ==
  /\ rows[n] = "none"
  /\ rows' = [rows EXCEPT ![n] = "shown"]
  /\ outbox' = [outbox EXCEPT ![<<n, "text">>] = Queued]
  /\ UNCHANGED <<delivered, owed, session, shelf, opened, accepted, replies, strays, losses, reopens>>

\* pruneMessageOutbox: a letter not encrypted goes, a ciphertext stays until
\* it is delivered, without its text.
Pruned(entry) ==
  IF entry.blob \in {"absent", "none"} THEN NoEntry ELSE [entry EXCEPT !.live = FALSE]

\* queueDeletionControls: one request per deletion owed.
WithControl(box, n) == [box EXCEPT ![<<n, "erase">>] = IF @.live THEN @ ELSE Queued]

\* delete_message and redactMessage; queueDeletionControls of the same
\* transaction queues the request.
DeleteNote(n) ==
  /\ rows[n] = "shown"
  /\ rows' = [rows EXCEPT ![n] = "deleted"]
  /\ owed' = owed \cup {n}
  /\ outbox' = WithControl([outbox EXCEPT ![<<n, "text">>] = Pruned(@)], n)
  /\ UNCHANGED <<delivered, session, shelf, opened, accepted, replies, strays, losses, reopens>>

\* reopenForResend: a deposited letter is sent again only as a new
\* encryption, and only while it keeps its payload.
Reopened(entry) ==
  IF entry.deposited THEN [entry EXCEPT !.deposited = FALSE, !.blob = "none", !.initial = FALSE]
  ELSE entry

\* pump, dueLetters and the encrypting transaction of sendItem.
SealEntry(l) ==
  LET e == Reopened(outbox[l]) IN
  /\ Waiting(l)
  /\ outbox[l].stage = "idle"
  /\ outbox[l].deposited => outbox[l].live
  /\ outbox' = [outbox EXCEPT ![l] =
       IF e.blob = "none"
         THEN [e EXCEPT !.blob = "sealed", !.initial = ~session, !.stage = "deposit"]
         ELSE [e EXCEPT !.stage = "deposit"]]
  /\ session' = TRUE
  /\ UNCHANGED <<rows, delivered, owed, shelf, opened, accepted, replies, strays, losses, reopens>>

\* sendItem is not given an answer: the failure is recorded, the ciphertext
\* kept for the next try.
FailEntry(l) ==
  /\ outbox[l].stage = "deposit"
  /\ losses < MaxOutboxLosses
  /\ losses' = losses + 1
  /\ outbox' = [outbox EXCEPT ![l].stage = "idle"]
  /\ UNCHANGED <<writerVars, session, readerVars, reopens>>

\* settleDeposit: kept without its ciphertext while an answer is due.
SettleEntry(l) ==
  /\ outbox[l].stage = "settle"
  /\ outbox' = [outbox EXCEPT ![l] =
       IF @.live THEN [Queued EXCEPT !.deposited = TRUE] ELSE NoEntry]
  /\ UNCHANGED <<writerVars, session, readerVars, losses, reopens>>

\* expireResends: a message deposited a week ago is not encrypted again.
ExpireEntry(n) ==
  /\ outbox[<<n, "text">>].deposited /\ outbox[<<n, "text">>].live
  /\ outbox[<<n, "text">>].stage = "idle"
  /\ outbox' = [outbox EXCEPT ![<<n, "text">>] = NoEntry]
  /\ UNCHANGED <<writerVars, session, readerVars, losses, reopens>>

\* The profile is reopened or its network restarted: every send under way
\* is forgotten.
Reopen ==
  /\ reopens < MaxReopens
  /\ reopens' = reopens + 1
  /\ outbox' = [l \in Mailings |-> [outbox[l] EXCEPT !.stage = "idle"]]
  /\ UNCHANGED <<writerVars, session, readerVars, losses>>

\* A receipt that overtakes the record of its deposit is not counted.
ReceiveGotMutant(n) ==
  LET e == outbox[<<n, "text">>]
      left == IF e.live THEN IF e.blob = "none" \/ ~e.initial THEN NoEntry
                             ELSE [e EXCEPT !.live = FALSE]
              ELSE e
  IN /\ outbox' = [outbox EXCEPT ![<<n, "text">>] = left]
     /\ delivered' = IF e.deposited THEN delivered \cup {n} ELSE delivered
     /\ strays' = IF e.stage = "deposit" /\ left = NoEntry THEN strays \cup {n} ELSE strays
     /\ UNCHANGED <<rows, owed>>

\* A receipt of the message: its letter goes, except the ciphertext that
\* opens the session; without a letter left the message is delivered.
ReceiveGot(n) ==
  LET e == outbox[<<n, "text">>]
      left == IF e.live THEN IF e.blob = "none" \/ ~e.initial THEN NoEntry
                             ELSE [e EXCEPT !.live = FALSE]
              ELSE e
  IN /\ outbox' = [outbox EXCEPT ![<<n, "text">>] = left]
     /\ delivered' = delivered \cup {n}
     /\ strays' = IF e.stage = "deposit" /\ left = NoEntry THEN strays \cup {n} ELSE strays
     /\ UNCHANGED <<rows, owed>>

\* The answer to a deletion (kind 2), forgetControl included.
ReceiveErased(n) ==
  /\ owed' = owed \ {n}
  /\ outbox' = [outbox EXCEPT ![<<n, "erase">>] = IF n \in owed THEN Pruned(@) ELSE @]
  /\ UNCHANGED <<rows, delivered, strays>>

\* The reader's relay client hands over a receipt until it is stored.
TakeReply(r) ==
  /\ \/ r[2] = "got" /\ ReceiveGot(r[1])
     \/ r[2] = "erased" /\ ReceiveErased(r[1])
  /\ replies' = replies \ {r}
  /\ UNCHANGED <<session, shelf, opened, accepted, losses, reopens>>

-----------------------------------------------------------------------------
\* The reader.

\* queueReceipt: nothing to a contact not accepted yet.
ReceiptOwed(n, kind) == IF accepted THEN {<<n, kind>>} ELSE {}

\* receive of a message: stored unless it is there or was deleted.
StoreNote(n) ==
  /\ shelf' = [shelf EXCEPT ![n] = IF @ = "none" THEN "text" ELSE @]
  /\ replies' = replies \cup ReceiptOwed(n, "got")

\* receiveDeletionControl of kind 1: erased, or kept from ever appearing.
EraseNote(n) ==
  /\ shelf' = [shelf EXCEPT ![n] = "erased"]
  /\ replies' = replies \cup ReceiptOwed(n, "erased")

\* recentEnvelope: the same ciphertext again only repeats the receipt.
RepeatReceipt(l) ==
  /\ replies' = replies \cup ReceiptOwed(l[1], IF l[2] = "text" THEN "got" ELSE "erased")
  /\ UNCHANGED shelf

\* The deposit: serve answers once the letter is opened, applied and
\* flushed; a letter on a session the reader does not have is refused.
DepositEntry(l) ==
  LET e == outbox[l] IN
  /\ e.stage = "deposit"
  /\ e.blob \in {"sealed", "read"}
  /\ e.blob = "read" \/ e.initial \/ opened
  /\ CASE e.blob = "read" -> RepeatReceipt(l)
       [] e.blob = "sealed" /\ l[2] = "text" -> StoreNote(l[1])
       [] e.blob = "sealed" /\ l[2] = "erase" -> EraseNote(l[1])
  /\ opened' = TRUE
  /\ \/ /\ outbox' = [outbox EXCEPT ![l].blob = "read", ![l].stage = "settle"]
        /\ UNCHANGED losses
     \/ /\ losses < MaxOutboxLosses
        /\ losses' = losses + 1
        /\ outbox' = [outbox EXCEPT ![l].blob = "read", ![l].stage = "idle"]
  /\ UNCHANGED <<writerVars, session, accepted, strays, reopens>>

\* The deposit of a letter whose receipt came first ends too.
LateDeposit(n) ==
  /\ n \in strays
  /\ opened
  /\ strays' = strays \ {n}
  /\ \/ StoreNote(n)
     \/ UNCHANGED <<shelf, replies>>
  /\ UNCHANGED <<outbox, writerVars, session, opened, accepted, losses, reopens>>

\* A letter that cannot be opened closes the stream.
RefuseEntry(l) ==
  LET e == outbox[l] IN
  /\ e.stage = "deposit"
  /\ e.blob = "sealed" /\ ~e.initial /\ ~opened
  /\ outbox' = [outbox EXCEPT ![l].stage = "idle"]
  /\ UNCHANGED <<writerVars, session, readerVars, losses, reopens>>

\* accept_contact_request: receipts for what is shown.
AcceptWriter ==
  /\ ~accepted
  /\ \E n \in Notes : shelf[n] # "none"
  /\ accepted' = TRUE
  /\ replies' = replies \cup {<<n, "got">> : n \in {m \in Notes : shelf[m] = "text"}}
  /\ UNCHANGED <<outbox, writerVars, session, shelf, opened, strays, losses, reopens>>

OutboxNext ==
  \/ \E n \in Notes : SendNote(n) \/ DeleteNote(n) \/ LateDeposit(n) \/ ExpireEntry(n)
  \/ \E l \in Mailings : SealEntry(l) \/ FailEntry(l) \/ SettleEntry(l) \/ DepositEntry(l) \/ RefuseEntry(l)
  \/ \E r \in replies : TakeReply(r)
  \/ Reopen \/ AcceptWriter

\* The pump runs every second while the network is up, a send ends within
\* its deadlines, and the reader's own outbox works the same way.
OutboxFairness ==
  /\ \A l \in Mailings :
       /\ WF_outboxVars(SealEntry(l))
       /\ SF_outboxVars(DepositEntry(l))
       /\ WF_outboxVars(RefuseEntry(l))
       /\ WF_outboxVars(SettleEntry(l))
  /\ \A r \in Notes \X {"got", "erased"} : WF_outboxVars(r \in replies /\ TakeReply(r))

OutboxSpec == OutboxInit /\ [][OutboxNext]_outboxVars /\ OutboxFairness

-----------------------------------------------------------------------------
\* A message written to someone who accepts us is delivered and shown so, or
\* was deleted by its writer: no loss, restart, refused letter or receipt
\* that overtakes its letter leaves it waiting.
NoteSettles ==
  \A n \in Notes : (accepted /\ rows[n] = "shown") ~> (n \in delivered \/ rows[n] = "deleted")

\* A deletion reaches the reader and is confirmed, and the text does not come
\* back: not even when the letter with the text is still on its way then.
DeletionSettles ==
  \A n \in Notes :
    (accepted /\ rows[n] = "deleted") ~> [](shelf[n] = "erased" /\ n \notin owed)

\* A note and the deletion of a note both come to an end at the writer, over
\* losses, refusals, late answers and a restart.
OutboxSettles == NoteSettles /\ DeletionSettles

-----------------------------------------------------------------------------

(***************************************************************************)
(* A file in parts between two browser profiles                            *)
(* (src/ui/src/browser-core/files.ts, with backend.ts and model.ts).       *)
(*                                                                         *)
(* The sender offers the file in a message, and once that message is       *)
(* answered keeps a window of parts queued or unconfirmed; every           *)
(* transaction ends by refilling it.  The receiver writes parts, answers   *)
(* each with a receipt (the prefix it holds, the highest part seen, the    *)
(* holes between), and when the last part is in withholds its receipt      *)
(* until the whole file's hash is checked.  Either side may cancel, delete *)
(* the message or restart; a deposit may lose its answer; receipts and     *)
(* cancellations wait in the receiver's outbox and arrive in any order.    *)
(***************************************************************************)

CONSTANTS PartCount,    \* parts of the file
          Window,       \* FILE_WINDOW
          MaxHoles,     \* the holes one receipt names (64)
          MaxMishaps    \* bound: lost answers, restarts, timeouts

VARIABLES
  offer,      \* "queued", "sent" (stored, not answered), "answered"
  out,        \* the sender's transfer status
  confirmed,  \* parts the receipts confirmed (held of the sender)
  flight,     \* parts deposited and not confirmed
  queue,      \* part -> "none", "reference", "sealed", "applied"
  in,         \* the receiver's transfer status, "none" before the offer
  savedParts,     \* parts on the receiver's disk
  vetted,     \* the receiver accepted the sender's contact request
  answers,    \* receipts, cancellations on their way to the sender
  cancelled,  \* the sender's cancellation: "none", "coming", "come"
  verified,   \* the receiver checked the whole file's hash
  mishaps

filesVars == <<offer, out, confirmed, flight, queue, in, savedParts, vetted, answers,
               cancelled, verified, mishaps>>
sendingVars == <<offer, out, confirmed, flight, queue, cancelled>>
receivingVars == <<in, savedParts, verified>>

FileParts == 0 .. (PartCount - 1)
Smallest(S) == CHOOSE x \in S : \A y \in S : x <= y
Largest(S) == CHOOSE x \in S : \A y \in S : x >= y
Active(status) == status \in {"offered", "receiving", "verifying", "sending"}

FilesInit ==
  /\ offer = "queued"
  /\ out = "sending"
  /\ confirmed = {} /\ flight = {}
  /\ queue = [p \in FileParts |-> "none"]
  /\ in = "none"
  /\ savedParts = {}
  /\ vetted \in BOOLEAN
  /\ answers = {}
  /\ cancelled = "none"
  /\ verified = FALSE
  /\ mishaps = 0

-----------------------------------------------------------------------------
\* The sender's transactions.

\* queueFileChunks: references to the first parts that are neither held,
\* queued nor in flight, as far as the window has room.
Refilled(o, status, held, fl, q) ==
  LET room == Window - Cardinality({p \in FileParts : q[p] # "none"}) - Cardinality(fl)
      due == {p \in FileParts : p \notin held /\ p \notin fl /\ q[p] = "none"}
  IN [p \in FileParts |->
        IF status = "sending" /\ o = "answered" /\ p \in due
           /\ Cardinality({d \in due : d < p}) < room
        THEN "reference" ELSE q[p]]

\* stop, for the sender: references go, ciphertexts are delivered once, as
\* letters without a file.
Unreferenced(q) == [p \in FileParts |-> IF q[p] = "reference" THEN "none" ELSE q[p]]

\* The message with the offer is deposited; the receiver's answer to it is a
\* receipt the sender waits for (sendable).
OfferAnswered ==
  /\ offer = "sent" /\ vetted
  /\ offer' = "answered"
  /\ queue' = Refilled("answered", out, confirmed, flight, queue)
  /\ UNCHANGED <<out, confirmed, flight, cancelled, receivingVars, vetted, answers, mishaps>>

\* The encrypting transaction of a part: one no longer wanted is dropped.
SealPart(p) ==
  /\ queue[p] = "reference"
  /\ LET q == [queue EXCEPT ![p] = IF out = "sending" /\ p \notin confirmed THEN "sealed" ELSE "none"]
     IN queue' = Refilled(offer, out, confirmed, flight, q)
  /\ UNCHANGED <<offer, out, confirmed, flight, cancelled, receivingVars, vetted, answers, mishaps>>

\* settleDeposit, at the end of a deposit.
Settled(p) ==
  LET fl == IF out = "sending" /\ p \notin confirmed THEN flight \cup {p} ELSE flight
  IN /\ flight' = fl
     /\ queue' = Refilled(offer, out, confirmed, fl, [queue EXCEPT ![p] = "none"])

\* A part in flight is overdue: nothing after it arrives, so no receipt
\* names it.
PartOverdue(p) ==
  /\ out = "sending"
  /\ p \in flight
  /\ flight' = flight \ {p}
  /\ queue' = Refilled(offer, out, confirmed, flight \ {p}, queue)
  /\ UNCHANGED <<offer, out, confirmed, cancelled, receivingVars, vetted, answers, mishaps>>

\* stop with a notice, on cancel_files, a deleted message, a part that cannot
\* be read or a transfer that stalled.
StopSending(status) ==
  /\ out = "sending"
  /\ mishaps < MaxMishaps /\ mishaps' = mishaps + 1
  /\ out' = status
  /\ confirmed' = {} /\ flight' = {}
  /\ queue' = Unreferenced(queue)
  /\ cancelled' = "coming"
  /\ UNCHANGED <<offer, receivingVars, vetted, answers>>

\* applyFileReceipt: what the receipt shows held is held; a hole is sent
\* again only once overdue, or at once when the receiver restarted.
ReceiptHeld(a) == confirmed \cup (0 .. (a.upTo - 1)) \cup {p \in a.upTo .. (a.seenTo - 1) : p \notin a.missing}

\* dropHeldParts, the file complete or not.
Needed(q, held, done) ==
  [p \in FileParts |-> IF done \/ p \in held THEN "none" ELSE q[p]]

TakeReceipt(a) ==
  LET held == ReceiptHeld(a)
      done == held = FileParts
      fl == IF done \/ a.resumed THEN {} ELSE flight \ held
      status == IF done THEN "complete" ELSE out
  IN /\ a \in answers /\ a.kind = "receipt"
     /\ answers' = answers \ {a}
     /\ IF out = "sending"
          THEN /\ out' = status
               /\ confirmed' = IF done THEN {} ELSE held
               /\ flight' = fl
               /\ queue' = Refilled(offer, status, held, fl, Needed(queue, held, done))
          ELSE UNCHANGED <<out, confirmed, flight, queue>>
     /\ UNCHANGED <<offer, cancelled, receivingVars, vetted, mishaps>>

\* The receiver's cancellation.
TakeRefusal(a) ==
  /\ a \in answers /\ a.kind = "cancel"
  /\ answers' = answers \ {a}
  /\ IF out = "sending"
       THEN /\ out' = "cancelled"
            /\ confirmed' = {} /\ flight' = {}
            /\ queue' = Unreferenced(queue)
       ELSE UNCHANGED <<out, confirmed, flight, queue>>
  /\ UNCHANGED <<offer, cancelled, receivingVars, vetted, mishaps>>

-----------------------------------------------------------------------------
\* The receiver's transactions.

Answering(S) == answers' = answers \cup S
Cancellation == [kind |-> "cancel", upTo |-> 0, seenTo |-> 0, missing |-> {}, resumed |-> FALSE]

\* A complete transfer, whose record of held parts is cleared, is no special case.
ReceiptOfMutant(held, status, resumed) ==
  LET upTo == IF held = FileParts THEN PartCount ELSE Smallest(FileParts \ held)
      top == IF held = {} \/ Largest(held) < upTo THEN upTo ELSE Largest(held) + 1
      holes == {p \in upTo .. (top - 1) : p \notin held}
      cut == {p \in holes : Cardinality({h \in holes : h < p}) = MaxHoles}
      seenTo == IF cut = {} THEN top ELSE Smallest(cut)
  IN [kind |-> "receipt", upTo |-> upTo, seenTo |-> seenTo,
      missing |-> {h \in holes : h < seenTo}, resumed |-> resumed]

\* receipt: the prefix held, the highest part seen, the first holes between;
\* a complete transfer keeps no record of the parts held.
ReceiptOf(held, status, resumed) ==
  LET upTo == IF status = "complete" \/ held = FileParts THEN PartCount ELSE Smallest(FileParts \ held)
      top == IF status = "complete" \/ held = {} \/ Largest(held) < upTo THEN upTo ELSE Largest(held) + 1
      holes == {p \in upTo .. (top - 1) : p \notin held}
      cut == {p \in holes : Cardinality({h \in holes : h < p}) = MaxHoles}
      seenTo == IF cut = {} THEN top ELSE Smallest(cut)
  IN [kind |-> "receipt", upTo |-> upTo, seenTo |-> seenTo,
      missing |-> {h \in holes : h < seenTo}, resumed |-> resumed]

\* acceptFileOffers: storage is reserved, or the file refused.
Begun ==
  \/ /\ in' = "receiving"
     /\ Answering({ReceiptOf({}, "receiving", TRUE)})
  \/ /\ in' = "failed"
     /\ Answering({Cancellation})

\* The message with the offer arrives; before the contact is accepted the
\* offer only waits.
DepositOffer ==
  /\ offer = "queued"
  /\ offer' = "sent"
  /\ \/ vetted /\ Begun
     \/ ~vetted /\ in' = "offered" /\ UNCHANGED answers
  /\ UNCHANGED <<out, confirmed, flight, queue, cancelled, savedParts, verified, vetted, mishaps>>

\* accept_contact_request and acceptPendingFiles.
AcceptSender ==
  /\ ~vetted
  /\ offer = "sent"
  /\ vetted' = TRUE
  /\ \/ in = "offered" /\ Begun
     \/ in # "offered" /\ UNCHANGED <<in, answers>>
  /\ UNCHANGED <<sendingVars, savedParts, verified, mishaps>>

\* applyPart: written, then answered; the part that completes the file is
\* not answered yet, nor is anything while the hash runs.
ApplyPart(p) ==
  \/ /\ in \in {"failed", "cancelled", "closed"}
     /\ Answering({Cancellation})
     /\ UNCHANGED <<in, savedParts>>
  \/ /\ in \in {"verifying", "offered"}
     /\ UNCHANGED <<in, savedParts, answers>>
  \/ /\ in = "receiving"
     /\ savedParts' = savedParts \cup {p}
     /\ IF savedParts' = FileParts
          THEN in' = "verifying" /\ UNCHANGED answers
          ELSE UNCHANGED in /\ Answering({ReceiptOf(savedParts', "receiving", FALSE)})
  \/ /\ in \in {"complete", "closed_ok"}
     /\ Answering({ReceiptOf({}, "complete", FALSE)})
     /\ UNCHANGED <<in, savedParts>>

\* repeatFileReceipt, for a ciphertext that came before.
RepeatFileReceipt ==
  /\ Answering(CASE in \in {"offered", "verifying", "none"} -> {}
                 [] in \in {"failed", "cancelled", "closed"} -> {Cancellation}
                 [] in = "receiving" -> {ReceiptOf(savedParts, in, FALSE)}
                 [] OTHER -> {ReceiptOf({}, "complete", FALSE)})
  /\ UNCHANGED <<in, savedParts>>

\* A part is deposited: opened, written and recorded before the answer,
\* which may be lost.
DepositPart(p) ==
  /\ queue[p] \in {"sealed", "applied"}
  /\ IF queue[p] = "sealed" THEN ApplyPart(p) ELSE RepeatFileReceipt
  /\ \/ Settled(p) /\ UNCHANGED mishaps
     \/ /\ mishaps < MaxMishaps /\ mishaps' = mishaps + 1
        /\ queue' = [queue EXCEPT ![p] = "applied"]
        /\ UNCHANGED flight
  /\ UNCHANGED <<offer, out, confirmed, cancelled, verified, vetted>>

\* finishFileVerification.
FinishVerification ==
  /\ in = "verifying"
  /\ \/ /\ in' = "complete" /\ verified' = TRUE
        /\ Answering({ReceiptOf({}, "complete", FALSE)})
     \/ /\ in' = "failed" /\ UNCHANGED verified
        /\ Answering({Cancellation})
  /\ UNCHANGED <<sendingVars, savedParts, vetted, mishaps>>

\* cancel_files at the receiver; a deleted message closes the transfer.
StopReceiving ==
  /\ in # "none" /\ in \notin {"closed", "closed_ok"}
  /\ mishaps < MaxMishaps /\ mishaps' = mishaps + 1
  /\ \/ Active(in) /\ in' = "cancelled"
     \/ in' = IF in = "complete" THEN "closed_ok" ELSE "closed"
  /\ Answering(IF Active(in) /\ vetted THEN {Cancellation} ELSE {})
  /\ UNCHANGED <<sendingVars, savedParts, verified, vetted>>

\* The sender's cancellation arrives.
TakeCancel ==
  /\ cancelled = "coming"
  /\ vetted
  /\ cancelled' = "come"
  /\ in' = IF Active(in) THEN "cancelled" ELSE in
  /\ UNCHANGED <<offer, out, confirmed, flight, queue, savedParts, verified, vetted, answers, mishaps>>

\* resumeFiles, when the receiver opens its profile again.
ReceiverReopens ==
  /\ mishaps < MaxMishaps /\ mishaps' = mishaps + 1
  /\ in = "receiving"
  /\ Answering({ReceiptOf(savedParts, in, TRUE)})
  /\ UNCHANGED <<sendingVars, receivingVars, vetted>>

FilesNext ==
  \/ OfferAnswered \/ DepositOffer \/ AcceptSender \/ FinishVerification
  \/ StopReceiving \/ TakeCancel \/ ReceiverReopens
  \/ \E s \in {"cancelled", "failed"} : StopSending(s)
  \/ \E p \in FileParts : SealPart(p) \/ DepositPart(p) \/ PartOverdue(p)
  \/ \E a \in answers : TakeReceipt(a) \/ TakeRefusal(a)

\* The pumps of both sides run; answers waiting in an outbox go out; the hash
\* pass ends.  Cancelling, deleting and failing are never forced.
FilesFairness ==
  /\ WF_filesVars(OfferAnswered)
  /\ WF_filesVars(DepositOffer)
  /\ WF_filesVars(FinishVerification)
  /\ WF_filesVars(TakeCancel)
  /\ \A p \in FileParts : WF_filesVars(SealPart(p)) /\ WF_filesVars(DepositPart(p)) /\ WF_filesVars(PartOverdue(p))
  /\ WF_filesVars(\E a \in answers : TakeReceipt(a) \/ TakeRefusal(a))

FilesSpec == FilesInit /\ [][FilesNext]_filesVars /\ FilesFairness

-----------------------------------------------------------------------------
\* What the sender shows as delivered is on the receiver's disk, and a file
\* shown as delivered whole passed the receiver's hash check: receipts that
\* overtake each other, restarts and the withheld last receipt included.
CompleteIsStored == confirmed \subseteq savedParts /\ (out = "complete" => verified)

\* A transfer to someone who accepted us ends, one way or another.
TransferEnds == (vetted /\ offer # "queued") ~> (out # "sending")

\* The sender's cancellation ends the transfer at the receiver.
CancelEnds == (vetted /\ out = "cancelled") ~> ~Active(in)
=============================================================================
