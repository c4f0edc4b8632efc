------------------------------ MODULE FileTransfer ------------------------------
(***************************************************************************)
(* One file going in parts from one sender to one recipient: the sender's  *)
(* row in file_out_peer (files.rs Sending), its window on that recipient   *)
(* (files.rs Flow, in memory only), the recipient's file_in row            *)
(* (files.rs Received) and the letters between them, which may overtake    *)
(* each other and be lost.                                                 *)
(*                                                                         *)
(* Time is left out.  A part in flight may be past its timeout in any      *)
(* step, and the window may have any size from 1 to WINDOW: what Flow      *)
(* measures decides only which of these happens, and every property here   *)
(* holds whichever does.                                                   *)
(***************************************************************************)
EXTENDS Integers, FiniteSets, Sequences, SequencesExt, FiniteSetsExt

CONSTANTS
    Total,        \* parts of the file: files.rs chunk_count
    Window,       \* files.rs WINDOW (16 in the code)
    MaxSpan,      \* files.rs MAX_SPAN (64)
    MaxMissing,   \* files.rs MAX_MISSING (64)
    EarlyCap,     \* staged >= 64 in apply_file_chunk_inner
    MaxFileLosses,    \* bound: letters lost and sends that failed
    MaxRestarts   \* bound: restarts of either side, repeated offers, weeks gone by

ASSUME FileAssumption ==
    /\ Total \in Nat \ {0} /\ Window \in Nat \ {0} /\ EarlyCap \in Nat
    /\ MaxSpan \in Nat \ {0} /\ MaxMissing \in Nat /\ MaxMissing >= MaxSpan
    /\ MaxFileLosses \in Nat /\ MaxRestarts \in Nat

VARIABLES
    next, acked, resend, failed, cancelled, lastAck,  \* the sender's database
    sent, known,        \* Flow: the parts in flight, and whether it knows the file
    listed, partBatch,      \* send_file_parts: the file it read, the parts left to send
    state, held, early, attachments,   \* the recipient's database
    offered, parts, acks, cancels,     \* letters on their way
    lostParts, restarts

rowVars == <<next, acked, resend, failed, cancelled, lastAck>>
flowVars == <<sent, known>>
loopVars == <<listed, partBatch>>
inVars == <<state, held, early, attachments>>
netVars == <<offered, parts, acks, cancels>>
transferVars == <<rowVars, flowVars, loopVars, inVars, netVars, lostParts, restarts>>

Parts == 0..(Total - 1)

Sides == {"sender", "recipient"}

----------------------------------------------------------------------------
(* What a recipient holding the parts h tells the sender. *)

UpTo(h) == Min({i \in 0..Total : i \notin h})

SeenTo(h) == Max({0} \cup {i + 1 : i \in h})

Holes(h) == {i \in Parts : i < SeenTo(h) /\ i \notin h}

\* Only the first MAX_MISSING holes fit one acknowledgement.
Missing(h) == {i \in Holes(h) : Cardinality({j \in Holes(h) : j < i}) < MaxMissing}

Ack(h, resumed) ==
    [upTo |-> UpTo(h), seenTo |-> SeenTo(h), missing |-> Missing(h), resumed |-> resumed]

Acks == {Ack(h, r) : h \in SUBSET Parts, r \in BOOLEAN}

\* on_ack's closure: what an acknowledgement says the recipient has.
SaysHeld(ack, i) == i < ack.upTo \/ (i < ack.seenTo /\ i \notin ack.missing)

----------------------------------------------------------------------------
TransferInit ==
    /\ next = 0 /\ acked = 0 /\ resend = {} /\ failed = FALSE
    /\ cancelled = FALSE /\ lastAck = "never"
    /\ sent = {} /\ known = FALSE
    /\ listed = FALSE /\ partBatch = <<>>
    /\ state = "none" /\ held = {} /\ early = {} /\ attachments = 0
    /\ offered = TRUE /\ parts = {} /\ acks = {} /\ cancels = {}
    /\ lostParts = 0 /\ restarts = 0

\* send_file_parts reads the files still going, and only later reserves parts
\* of each: between the two it sends the parts of the files before.
ListFiles ==
    /\ ~listed /\ partBatch = <<>>
    /\ ~failed /\ ~cancelled /\ acked < Total
    /\ listed' = TRUE
    /\ UNCHANGED <<rowVars, flowVars, partBatch, inVars, netVars, lostParts, restarts>>

\* The row is read again in the transaction that reserves: a file done or
\* failed meanwhile is left alone.
ReserveNothing ==
    /\ listed /\ (failed \/ acked >= Total)
    /\ listed' = FALSE
    /\ UNCHANGED <<rowVars, flowVars, partBatch, inVars, netVars, lostParts, restarts>>

\* Never acknowledged for a day, though the recipient was heard from.
GiveUp ==
    /\ listed /\ ~failed /\ acked < Total
    /\ next > 0 /\ lastAck = "never"
    /\ failed' = TRUE
    /\ sent' = {} /\ known' = FALSE
    /\ listed' = FALSE
    /\ UNCHANGED <<next, acked, resend, cancelled, lastAck, partBatch, inVars, netVars,
                   lostParts, restarts>>

\* What Flow's measurements make of its window: they decide when it has which size.
WindowSizes == 1..Window

\* The n smallest members of a set, in order.
First(n, S) == {i \in S : Cardinality({j \in S : j < i}) < n}
Ascending(S) == SetToSortSeq(S, <)

\* Where the sender stops running ahead.
Limit == Min({acked + MaxSpan, Total})

\* Sending::due with the window at w and the parts late past their timeout,
\* from the parts again that are to go again and the flow's view of the file.
\* What was outstanding before this run counts as in flight from now.
Due(w, late, again, inFlight, isKnown) ==
    LET adopted == IF isKnown THEN inFlight
                   ELSE inFlight \cup ((acked..(next - 1)) \ again)
        toResend == again \cup {i \in late : acked <= i /\ i < next}
        flying == adopted \ late
        room == Max({0, w - Cardinality(flying)})
        resent == First(room, toResend)
        newNext == Max({next, Min({next + room - Cardinality(resent), Limit})})
        due == Ascending(resent) \o [k \in 1..(newNext - next) |-> next + k - 1]
    IN  /\ next' = newNext
        /\ resend' = toResend \ resent
        /\ sent' = flying \cup ToSet(due)
        /\ known' = TRUE
        /\ partBatch' = due
        /\ lastAck' = IF due # <<>> /\ lastAck = "since" THEN "before" ELSE lastAck

Reserve(w, late) ==
    /\ listed /\ ~failed /\ acked < Total
    /\ Due(w, late, resend, sent, known)
    /\ listed' = FALSE
    /\ UNCHANGED <<acked, failed, cancelled, inVars, netVars, lostParts, restarts>>

\* Half an hour without an acknowledgement of what went: all of it again.
Rewind(w) ==
    /\ listed /\ ~failed /\ acked < Total
    /\ resend = {} /\ next > acked /\ lastAck # "since"
    /\ Due(w, {}, acked..(next - 1), {}, FALSE)
    /\ listed' = FALSE
    /\ UNCHANGED <<acked, failed, cancelled, inVars, netVars, lostParts, restarts>>

SendPart ==
    /\ partBatch # <<>>
    /\ parts' = parts \cup {Head(partBatch)}
    /\ partBatch' = Tail(partBatch)
    /\ UNCHANGED <<rowVars, flowVars, listed, inVars, offered, acks, cancels, lostParts,
                   restarts>>

\* The write failed: it and what was to follow go again, but for what an
\* acknowledgement has covered meanwhile.
SendFails ==
    /\ partBatch # <<>> /\ lostParts < MaxFileLosses
    /\ sent' = sent \ ToSet(partBatch)
    /\ resend' = resend \cup {i \in ToSet(partBatch) : acked <= i /\ i < next}
    /\ partBatch' = <<>>
    /\ lostParts' = lostParts + 1
    /\ UNCHANGED <<next, acked, failed, cancelled, lastAck, known, listed, inVars,
                   netVars, restarts>>

\* The part cannot be read from the disk: the loop ends, and what it reserved
\* counts as in flight.
ReadFails ==
    /\ partBatch # <<>> /\ lostParts < MaxFileLosses
    /\ partBatch' = <<>>
    /\ lostParts' = lostParts + 1
    /\ UNCHANGED <<rowVars, flowVars, listed, inVars, netVars, restarts>>

\* acknowledge_file_parts: on_ack, then the file is forgotten once all is there.
\* late are the holes in flight past their timeout: a hole is lost only then.
\* The row is updated even of a file that has failed or been cancelled.
ReceiveAck(ack, late) ==
    LET flying == {i \in sent : ~SaysHeld(ack, i)}
        newAcked == Max({acked, Min({ack.upTo, next})})
        gone == IF ack.resumed
                THEN {i \in flying : i >= newAcked /\ i \notin resend}
                ELSE {i \in ack.missing : /\ newAcked <= i /\ i < next /\ i \notin resend
                                          /\ i \in flying => i \in late}
    IN  /\ ack \in acks
        /\ acks' = acks \ {ack}
        /\ acked' = newAcked
        /\ resend' = {i \in resend \cup gone : i >= newAcked /\ ~SaysHeld(ack, i)}
        /\ lastAck' = "since"
        /\ IF newAcked >= Total
           THEN sent' = {} /\ known' = FALSE
           ELSE sent' = flying \ gone /\ known' = known
        /\ UNCHANGED <<next, failed, cancelled, loopVars, inVars, offered, parts, cancels,
                       lostParts, restarts>>

\* The user stops the file: the flow forgets it and the recipient is told.
CancelFile ==
    /\ ~cancelled
    /\ cancelled' = TRUE
    /\ sent' = {} /\ known' = FALSE
    /\ cancels' = cancels \cup {"recipient"}
    /\ UNCHANGED <<next, acked, resend, failed, lastAck, loopVars, inVars, offered, parts,
                   acks, lostParts, restarts>>

----------------------------------------------------------------------------
(* The recipient. *)

\* The row once the parts h are written and marked.  With the last one the file
\* is checked: it becomes an attachment, or is refused for good and the sender
\* told.  broken is what the hash of the whole says; only a complete file has one.
Settle(h, broken) ==
    /\ held' = h
    /\ state' = IF h # Parts THEN "open" ELSE IF broken THEN "failed" ELSE "done"
    /\ attachments' = IF h = Parts /\ ~broken THEN attachments + 1 ELSE attachments
    /\ cancels' = IF h = Parts /\ broken THEN cancels \cup {"sender"} ELSE cancels

\* What on_file_chunk answers: every part is acknowledged (ACK_EVERY is 1), but
\* for the one that shows the file broken.
Answers(h, broken) == IF h = Parts /\ broken THEN {} ELSE {Ack(h, FALSE)}

\* The letter with the offer: the file is open, the parts that came before it
\* are taken in one by one, and the sender hears what is held.
ReceiveOffer(broken) ==
    /\ offered /\ state = "none"
    /\ offered' = FALSE
    /\ Settle(early, broken)
    /\ acks' = acks \cup UNION {Answers({j \in early : j <= i}, broken) : i \in early}
                    \cup {Ack(h, TRUE) : h \in {early} \ {Parts}}
    /\ early' = {}
    /\ UNCHANGED <<rowVars, flowVars, loopVars, parts, lostParts, restarts>>

\* The same letter again.  Only a file still open has a row to acknowledge.
RepeatedOffer ==
    /\ offered /\ state # "none"
    /\ offered' = FALSE
    /\ acks' = IF state = "open" THEN acks \cup {Ack(held, TRUE)} ELSE acks
    /\ UNCHANGED <<rowVars, flowVars, loopVars, inVars, parts, cancels, lostParts, restarts>>

\* Mutant: a part opens a refused file again.
TakePartMutant(i, broken) ==
    /\ state \in {"open", "failed"}
    /\ Settle(held \cup {i}, broken)
    /\ acks' = acks \cup Answers(held \cup {i}, broken)
    /\ UNCHANGED early

\* A part for an open file: written unless it was there, and answered.
TakePart(i, broken) ==
    /\ state = "open"
    /\ Settle(held \cup {i}, broken)
    /\ acks' = acks \cup Answers(held \cup {i}, broken)
    /\ UNCHANGED early

\* A part whose file has no row: set aside while there is room.
StagePart(i) ==
    /\ state \in {"none", "dropped"}
    /\ early' = IF Cardinality(early) < EarlyCap THEN early \cup {i} ELSE early
    /\ UNCHANGED <<state, held, attachments, acks, cancels>>

\* Mutant: a completed file is as silent as a refused one.
AnswerPartMutant ==
    /\ state \in {"done", "failed"}
    /\ UNCHANGED <<inVars, acks, cancels>>

\* A completed file repeats its last acknowledgement; a refused one is silent.
AnswerPart ==
    /\ state \in {"done", "failed"}
    /\ acks' = IF state = "done" THEN acks \cup {Ack(held, FALSE)} ELSE acks
    /\ UNCHANGED <<inVars, cancels>>

ReceivePart(i, broken) ==
    /\ i \in parts
    /\ parts' = parts \ {i}
    /\ \/ TakePart(i, broken)
       \/ StagePart(i)
       \/ AnswerPart
    /\ UNCHANGED <<rowVars, flowVars, loopVars, offered, lostParts, restarts>>

\* The sender stopped.  Nothing is recorded of a file with no row.
ReceiveCancel ==
    /\ "recipient" \in cancels
    /\ cancels' = cancels \ {"recipient"}
    /\ state' = IF state = "open" THEN "failed" ELSE state
    /\ UNCHANGED <<rowVars, flowVars, loopVars, held, early, attachments, offered, parts,
                   acks, lostParts, restarts>>

\* The recipient refused: the sender's row has failed.
ReceiveRefusal ==
    /\ "sender" \in cancels
    /\ cancels' = cancels \ {"sender"}
    /\ failed' = TRUE
    /\ sent' = {} /\ known' = FALSE
    /\ UNCHANGED <<next, acked, resend, cancelled, lastAck, loopVars, inVars, offered,
                   parts, acks, lostParts, restarts>>

\* gc_files: a week on, an open file and the parts set aside are dropped.
GcFiles ==
    /\ restarts < MaxRestarts
    /\ restarts' = restarts + 1
    /\ state = "open" \/ early # {}
    /\ state' = IF state = "open" THEN "dropped" ELSE state
    /\ early' = {}
    /\ UNCHANGED <<rowVars, flowVars, loopVars, held, attachments, netVars, lostParts>>

----------------------------------------------------------------------------
(* The world. *)

\* The sender stops and starts: Flow and the loop are gone, the row is not.
RestartSender ==
    /\ restarts < MaxRestarts
    /\ restarts' = restarts + 1
    /\ sent' = {} /\ known' = FALSE
    /\ listed' = FALSE /\ partBatch' = <<>>
    /\ UNCHANGED <<rowVars, inVars, netVars, lostParts>>

\* The recipient starts: it says what it holds of every open file.
RestartRecipient ==
    /\ restarts < MaxRestarts
    /\ restarts' = restarts + 1
    /\ state = "open"
    /\ acks' = acks \cup {Ack(held, TRUE)}
    /\ UNCHANGED <<rowVars, flowVars, loopVars, inVars, offered, parts, cancels, lostParts>>

\* The message that carries the offer is sent until it is acknowledged; a file
\* cancelled since is left out of it.
OfferAgain ==
    /\ restarts < MaxRestarts
    /\ restarts' = restarts + 1
    /\ ~offered /\ ~cancelled
    /\ offered' = TRUE
    /\ UNCHANGED <<rowVars, flowVars, loopVars, inVars, parts, acks, cancels, lostParts>>

\* A letter that is not kept to be sent again.
Lose ==
    /\ lostParts < MaxFileLosses
    /\ lostParts' = lostParts + 1
    /\ \/ \E i \in parts : parts' = parts \ {i} /\ UNCHANGED <<acks, cancels>>
       \/ \E ack \in acks : acks' = acks \ {ack} /\ UNCHANGED <<parts, cancels>>
       \/ \E c \in cancels : cancels' = cancels \ {c} /\ UNCHANGED <<parts, acks>>
    /\ UNCHANGED <<rowVars, flowVars, loopVars, inVars, offered, restarts>>

TransferNext ==
    \/ ListFiles \/ ReserveNothing \/ GiveUp
    \/ \E w \in WindowSizes, late \in SUBSET sent : Reserve(w, late)
    \/ \E w \in WindowSizes : Rewind(w)
    \/ SendPart \/ SendFails \/ ReadFails
    \/ \E ack \in acks : \E late \in SUBSET (sent \cap ack.missing) : ReceiveAck(ack, late)
    \/ CancelFile
    \/ \E broken \in BOOLEAN : ReceiveOffer(broken)
    \/ RepeatedOffer
    \/ \E i \in parts, broken \in BOOLEAN : ReceivePart(i, broken)
    \/ ReceiveCancel \/ ReceiveRefusal \/ GcFiles
    \/ RestartSender \/ RestartRecipient \/ OfferAgain \/ Lose

\* The loop sends again and again, every part in flight is past its timeout
\* some day, and a letter that is not lost arrives.
TransferFairness ==
    /\ WF_transferVars(ListFiles) /\ WF_transferVars(SendPart)
    /\ SF_transferVars(Reserve(Window, sent))
    /\ WF_transferVars(\E broken \in BOOLEAN : ReceiveOffer(broken))
    /\ \A i \in Parts : WF_transferVars(\E broken \in BOOLEAN : ReceivePart(i, broken))
    /\ WF_transferVars(\E ack \in acks : ReceiveAck(ack, {}))

TransferSpec == TransferInit /\ [][TransferNext]_transferVars /\ TransferFairness

----------------------------------------------------------------------------
(* Properties. *)

Live == ~failed /\ ~cancelled /\ acked < Total

\* The sender's row stays in order: acked up to next up to the end of the file,
\* and only parts between the two are to go again, whatever raced with what
\* ("it must never restore an old watermark", db/file_transfer.rs).
FileTypeOK ==
    /\ next \in 0..Total /\ acked \in 0..next /\ resend \subseteq acked..(next - 1)
    /\ failed \in BOOLEAN /\ cancelled \in BOOLEAN
    /\ lastAck \in {"never", "before", "since"}
    /\ sent \subseteq 0..(next - 1) /\ known \in BOOLEAN /\ listed \in BOOLEAN
    /\ ToSet(partBatch) \subseteq 0..(next - 1)
    /\ state \in {"none", "open", "done", "failed", "dropped"}
    /\ held \subseteq Parts /\ early \subseteq Parts /\ attachments \in Nat
    /\ offered \in BOOLEAN /\ parts \subseteq Parts /\ acks \subseteq Acks
    /\ cancels \subseteq Sides /\ lostParts \in 0..MaxFileLosses /\ restarts \in 0..MaxRestarts

\* What the sender counts as there is there: every part below acked has been
\* written and marked by the recipient, whatever order the acknowledgements
\* came in and whichever side restarted.
AckedIsHeld == 0..(acked - 1) \subseteq held

\* No part is forgotten: while the file is going and the flow knows it, each
\* part that has gone out and is not there is in flight or to go again, and so
\* is the first one not acknowledged even when it is there.  Nothing else makes
\* the sender send it: no rewind follows an acknowledgement.
NothingForgotten ==
    Live /\ known =>
        /\ acked < next => acked \in sent \cup resend
        /\ (acked..(next - 1)) \ held \subseteq sent \cup resend

\* MAX_SPAN bounds the holes, so all of them fit one acknowledgement, which has
\* room for MAX_MISSING >= MAX_SPAN: a part is never taken as held because the
\* list was cut.
HolesFit == Cardinality(Holes(held)) < MaxSpan

\* A file becomes an attachment once, when every part is there, and never one
\* that was refused.
TakenOnce ==
    /\ attachments = (IF state = "done" THEN 1 ELSE 0)
    /\ state = "done" => held = Parts

\* How a file ended at the recipient is final: no late part, repeated offer or
\* late cancel brings back a file refused or cancelled, or undoes one received.
OutcomeIsFinal == [][(state \in {"done", "failed"}) => state' = state]_transferVars

\* The sender knows that all is there, or one of the sides has given the file up.
Over == acked = Total \/ failed \/ cancelled \/ state \in {"failed", "dropped"}

\* The file arrives, and the sender knows it, unless either side gave it up.
FileArrives == <>Over

\* The parts of a file across losses, repetitions and restarts of either side:
\* what is acknowledged is held, what is missing is under way or to be sent
\* again, the whole becomes one attachment, and how it ended is final.
PartsKept ==
    []FileTypeOK /\ []AckedIsHeld /\ []NothingForgotten /\ []HolesFit /\ []TakenOnce /\ OutcomeIsFinal
=============================================================================
