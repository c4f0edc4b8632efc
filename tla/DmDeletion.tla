----------------------------- MODULE DmDeletion -----------------------------
(***************************************************************************)
(* Deleting a direct message on both devices: libcore/src/db/dm.rs,        *)
(* db/deletion_notice.rs and db/peer_events.rs, driven by session.rs.      *)
(*                                                                         *)
(* One message of Author, between two peers.  Either deletes it; the       *)
(* deletion is repeated until the other end applied it (controls 1, 2);    *)
(* the notice left in its place goes once the other person pressed OK      *)
(* (controls 3, 4).  Reports of what was done with the message go the same *)
(* way (controls 7, 10).  Every control is a letter that may be lost,      *)
(* repeated, or overtaken by any other, the message included.              *)
(***************************************************************************)
EXTENDS Naturals

CONSTANTS Peers, Author,
          Reporters,    \* the peers that report what they do with the message
          MaxTime,      \* bound: times of operations are 1..MaxTime
          MaxEvents,    \* bound: reports queued by each peer
          MaxLosses,    \* bound: letters lost
          MaxReplays    \* bound: letters handled once more

ASSUME DeletionAssumption ==
    /\ \E a, b \in Peers : a # b /\ Peers = {a, b}
    /\ Author \in Peers /\ Reporters \subseteq Peers
    /\ MaxTime \in Nat \ {0} /\ MaxEvents \in Nat /\ MaxLosses \in Nat /\ MaxReplays \in Nat

VARIABLES row,       \* messages: "none" | "live" | "deleted" (its tombstone with it)
          localAt, remoteAt,     \* dm_deletion_notices: the time of either's operation, or 0
          localSeen, remoteSeen, \* dm_deletion_notices: the peers whose flag is set
          deleteOut, \* dm_delete_outbox: the peers that have it queued
          noticeOut, \* dm_notice_outbox: the same
          eventOut,  \* dm_peer_event_outbox: the time of the report queued, or 0
          seen,      \* dm_peer_events: the time of the last report received, or 0
          done,      \* reports each peer queued so far
          batch,     \* Author's send round holds the message as it was read
          checked,   \* a copy of the message passed reject_deleted_dm_content
          net,       \* letters for each peer, [kind, at]
          lost, replayed

faults == <<lost, replayed>>
reports == <<eventOut, seen, done>>
outboxes == <<deleteOut, noticeOut>>
notices == <<localAt, remoteAt, localSeen, remoteSeen>>
vars == <<row, notices, outboxes, reports, batch, checked, net, faults>>

Other(p) == CHOOSE q \in Peers : q # p
Times == 1..MaxTime
Letter(k, t) == [kind |-> k, at |-> t]
Letters == [kind : {"content", "applied", "ok", "ok_receipt", "event_receipt"}, at : {0}]
           \cup [kind : {"delete"}, at : Times] \cup [kind : {"event"}, at : 1..MaxEvents]

Or(old, new) == IF old = 0 THEN new ELSE old

Put(p, l) == net' = [net EXCEPT ![Other(p)] = @ \cup {l}]

Init ==
    /\ row = [p \in Peers |-> IF p = Author THEN "live" ELSE "none"]
    /\ localAt = [p \in Peers |-> 0] /\ remoteAt = [p \in Peers |-> 0]
    /\ localSeen = {} /\ remoteSeen = {} /\ deleteOut = {} /\ noticeOut = {}
    /\ eventOut = [p \in Peers |-> 0] /\ seen = [p \in Peers |-> 0] /\ done = [p \in Peers |-> 0]
    /\ batch = FALSE /\ checked = FALSE
    /\ net = [p \in Peers |-> {}]
    /\ lost = 0 /\ replayed = 0

-----------------------------------------------------------------------------

\* delete_dm_tx: the notice keeps the first time of either side's operation; a
\* message deleted already is left at that.  Otherwise the row is emptied, its
\* reports go, and our own deletion is queued for the other end.
DeleteTx(p, queue, at) ==
    /\ localAt' = IF queue THEN [localAt EXCEPT ![p] = Or(@, at)] ELSE localAt
    /\ remoteAt' = IF queue THEN remoteAt ELSE [remoteAt EXCEPT ![p] = Or(@, at)]
    /\ UNCHANGED <<localSeen, remoteSeen>>
    /\ \/ row[p] = "deleted" /\ UNCHANGED <<row, deleteOut, eventOut, seen>>
       \/ /\ row[p] # "deleted"
          /\ row' = [row EXCEPT ![p] = "deleted"]
          /\ deleteOut' = deleteOut \cup IF queue THEN {p} ELSE {}
          /\ eventOut' = [eventOut EXCEPT ![p] = 0]
          /\ seen' = [seen EXCEPT ![p] = 0]

\* delete_dm_message, by the user, a timer or the clearing of a chat, of a live
\* message; a program may ask for one that is deleted already.
Delete(p, at) ==
    /\ row[p] # "none"
    /\ DeleteTx(p, TRUE, at)
    /\ UNCHANGED <<noticeOut, done, batch, checked, net, faults>>

\* acknowledge_deletion_notices: the person presses OK.
PressOk(p) ==
    /\ remoteAt[p] # 0 /\ p \notin remoteSeen
    /\ remoteSeen' = remoteSeen \cup {p}
    /\ noticeOut' = noticeOut \cup {p}
    /\ UNCHANGED <<row, localAt, remoteAt, localSeen, deleteOut, reports, batch, checked, net, faults>>

\* queue_peer_event: a screenshot of a live message; a report still queued is
\* replaced.
QueueEvent(p) ==
    /\ p \in Reporters /\ row[p] = "live" /\ done[p] < MaxEvents
    /\ done' = [done EXCEPT ![p] = @ + 1]
    /\ eventOut' = [eventOut EXCEPT ![p] = done[p] + 1]
    /\ UNCHANGED <<row, notices, outboxes, seen, batch, checked, net, faults>>

\* flush_all_pending reads the messages to send, then sends what it read ...
ReadBatch ==
    /\ row[Author] = "live" /\ ~ batch
    /\ batch' = TRUE
    /\ UNCHANGED <<row, notices, outboxes, reports, checked, net, faults>>

SendContent ==
    /\ batch
    /\ batch' = FALSE
    /\ Put(Author, Letter("content", 0))
    /\ UNCHANGED <<row, notices, outboxes, reports, checked, faults>>

\* ... and the controls queued, which stay queued.
SendDelete(p) ==
    /\ p \in deleteOut
    /\ Put(p, Letter("delete", localAt[p]))
    /\ UNCHANGED <<row, notices, outboxes, reports, batch, checked, faults>>

SendOkMutant(p) ==
    /\ p \in noticeOut
    /\ Put(p, Letter("ok", 0))
    /\ noticeOut' = noticeOut \ {p}
    /\ UNCHANGED <<row, notices, deleteOut, reports, batch, checked, faults>>
SendOk(p) ==
    /\ p \in noticeOut
    /\ Put(p, Letter("ok", 0))
    /\ UNCHANGED <<row, notices, outboxes, reports, batch, checked, faults>>

SendEvent(p) ==
    /\ eventOut[p] # 0
    /\ Put(p, Letter("event", eventOut[p]))
    /\ UNCHANGED <<row, notices, outboxes, reports, batch, checked, faults>>

-----------------------------------------------------------------------------
\* Receiving.  A letter handled leaves the relay, or is handled once more: its
\* inbox row was not yet removed when the process died.

Taken(p, l) ==
    \/ net' = [net EXCEPT ![p] = @ \ {l}] /\ UNCHANGED faults
    \/ replayed < MaxReplays /\ replayed' = replayed + 1 /\ UNCHANGED <<net, lost>>

TakenAndAnswered(p, l, answer) ==
    \/ net' = [net EXCEPT ![p] = @ \ {l}, ![Other(p)] = @ \cup {answer}] /\ UNCHANGED faults
    \/ /\ replayed < MaxReplays /\ replayed' = replayed + 1
       /\ Put(p, answer) /\ UNCHANGED lost

\* reject_deleted_dm_content lets a message through that has no tombstone ...
CheckContent(p, l) ==
    /\ l.kind = "content"
    /\ checked' = (row[p] # "deleted")
    /\ Taken(p, l)
    /\ UNCHANGED <<row, notices, outboxes, reports, batch>>

\* ... and commit_incoming_message keeps it unless it is known by then.
CommitContentMutant(p) ==
    /\ checked /\ p # Author
    /\ checked' = FALSE
    /\ row' = [row EXCEPT ![p] = "live"]
    /\ UNCHANGED <<notices, outboxes, reports, batch, net, faults>>
CommitContent(p) ==
    /\ checked /\ p # Author
    /\ checked' = FALSE
    /\ row' = [row EXCEPT ![p] = IF @ = "none" THEN "live" ELSE @]
    /\ UNCHANGED <<notices, outboxes, reports, batch, net, faults>>

\* Its time was up before it arrived: deleted unseen, as by us.
ExpireContent(p, l, at) ==
    /\ l.kind = "content" /\ row[p] # "deleted"
    /\ DeleteTx(p, TRUE, at)
    /\ Taken(p, l)
    /\ UNCHANGED <<noticeOut, done, batch, checked>>

\* Control 1, apply_dm_delete: a message not here yet gets its place taken.
ReceiveDelete(p, l) ==
    /\ l.kind = "delete"
    /\ row[p] # "none" \/ p # Author
    /\ DeleteTx(p, FALSE, l.at)
    /\ TakenAndAnswered(p, l, Letter("applied", 0))
    /\ UNCHANGED <<noticeOut, done, batch, checked>>

\* Control 2: the other end applied our deletion.
ReceiveApplied(p, l) ==
    /\ l.kind = "applied"
    /\ deleteOut' = deleteOut \ {p}
    /\ Taken(p, l)
    /\ UNCHANGED <<row, notices, noticeOut, reports, batch, checked>>

\* Control 3, receive_dm_notice_ack: they pressed OK; also proves the deletion
\* arrived.  Answered again when it comes again.
ReceiveOk(p, l) ==
    /\ l.kind = "ok"
    /\ \/ /\ row[p] = "deleted" /\ localAt[p] # 0
          /\ localSeen' = localSeen \cup {p} /\ UNCHANGED <<localAt, remoteAt, remoteSeen>>
          /\ deleteOut' = deleteOut \ {p}
          /\ TakenAndAnswered(p, l, Letter("ok_receipt", 0))
       \/ /\ ~ (row[p] = "deleted" /\ localAt[p] # 0)
          /\ Taken(p, l)
          /\ UNCHANGED <<notices, deleteOut>>
    /\ UNCHANGED <<row, noticeOut, reports, batch, checked>>

\* Control 4: our OK arrived.
ReceiveOkReceipt(p, l) ==
    /\ l.kind = "ok_receipt"
    /\ noticeOut' = noticeOut \ {p}
    /\ Taken(p, l)
    /\ UNCHANGED <<row, notices, deleteOut, reports, batch, checked>>

\* Control 7, receive_peer_event: kept for a live message; confirmed anyway.
ReceiveEvent(p, l) ==
    /\ l.kind = "event"
    /\ seen' = [seen EXCEPT ![p] = IF row[p] = "live" /\ l.at > @ THEN l.at ELSE @]
    /\ TakenAndAnswered(p, l, Letter("event_receipt", 0))
    /\ UNCHANGED <<row, notices, outboxes, eventOut, done, batch, checked>>

\* Control 10, confirm_peer_event: whatever report is queued now goes.
ReceiveEventReceipt(p, l) ==
    /\ l.kind = "event_receipt"
    /\ eventOut' = [eventOut EXCEPT ![p] = 0]
    /\ Taken(p, l)
    /\ UNCHANGED <<row, notices, outboxes, seen, done, batch, checked>>

Lose(p, l) ==
    /\ lost < MaxLosses /\ lost' = lost + 1
    /\ net' = [net EXCEPT ![p] = @ \ {l}]
    /\ UNCHANGED <<row, notices, outboxes, reports, batch, checked, replayed>>

\* A process ends: a send round is forgotten; a letter whose message was not
\* committed is still in the inbox and is handled again.
Restart(p) ==
    /\ \/ p = Author /\ batch /\ batch' = FALSE /\ UNCHANGED <<checked, net>>
       \/ /\ p # Author /\ checked /\ checked' = FALSE /\ UNCHANGED batch
          /\ net' = [net EXCEPT ![p] = @ \cup {Letter("content", 0)}]
    /\ UNCHANGED <<row, notices, outboxes, reports, faults>>

Receive(p, l) ==
    \/ CheckContent(p, l) \/ ReceiveDelete(p, l) \/ ReceiveApplied(p, l)
    \/ ReceiveOk(p, l) \/ ReceiveOkReceipt(p, l) \/ ReceiveEvent(p, l) \/ ReceiveEventReceipt(p, l)

Next ==
    \/ ReadBatch \/ SendContent
    \/ \E p \in Peers :
        \/ \E at \in Times : Delete(p, at)
        \/ PressOk(p) \/ QueueEvent(p)
        \/ SendDelete(p) \/ SendOk(p) \/ SendEvent(p) \/ CommitContent(p) \/ Restart(p)
        \/ \E l \in net[p] :
            \/ Receive(p, l) \/ Lose(p, l)
            \/ \E at \in Times : ExpireContent(p, l, at)

\* The send loop comes round, and the relays hand out the controls they hold.
Fairness ==
    \A p \in Peers :
        /\ WF_vars(SendDelete(p)) /\ WF_vars(SendOk(p))
        /\ WF_vars(\E l \in net[p] : ReceiveDelete(p, l))
        /\ WF_vars(\E l \in net[p] : ReceiveOk(p, l))
        /\ WF_vars(\E l \in net[p] : ReceiveOkReceipt(p, l))

Spec == Init /\ [][Next]_vars /\ Fairness

-----------------------------------------------------------------------------

\* The tables and the letters have their types; a deletion goes out with the
\* time of an operation of ours.
DeletionTypeOK ==
    /\ row \in [Peers -> {"none", "live", "deleted"}]
    /\ localAt \in [Peers -> {0} \cup Times] /\ remoteAt \in [Peers -> {0} \cup Times]
    /\ localSeen \subseteq Peers /\ remoteSeen \subseteq Peers
    /\ deleteOut \subseteq Peers /\ noticeOut \subseteq Peers
    /\ eventOut \in [Peers -> 0..MaxEvents] /\ seen \in [Peers -> 0..MaxEvents]
    /\ done \in [Peers -> 0..MaxEvents] /\ batch \in BOOLEAN /\ checked \in BOOLEAN
    /\ net \in [Peers -> SUBSET Letters]
    /\ lost \in 0..MaxLosses /\ replayed \in 0..MaxReplays

\* "Tombstones remain after dismissal and still reject replayed text"
\* (docs/message-deletion.md): no late copy, retry, round of sending or check
\* made before the deletion brings the content back.
NeverBack == [][\A p \in Peers : row[p] = "deleted" => row'[p] = "deleted"]_vars

\* "The authenticated remote deletion request remains pending until
\* acknowledged": a deletion of ours no longer queued was applied there.
PendingUntilApplied ==
    \A p \in Peers : localAt[p] # 0 /\ p \notin deleteOut => row[Other(p)] = "deleted"

\* "Automatic receipts, history clearing, reopening and restarts never
\* substitute for this action": our notice is dismissed only after the other
\* person pressed OK on it, with the same time of deletion before their eyes.
DismissedByHand ==
    \A p \in Peers :
        /\ p \in localSeen => Other(p) \in remoteSeen
        /\ remoteAt[p] # 0 => remoteAt[p] = localAt[Other(p)]

\* "Deleting the message, by either side or by its timer, deletes these too,
\* and drops reports still waiting to go out" (db/peer_events.rs), those that
\* arrive later included.
ReportsGone == \A p \in Peers : row[p] = "deleted" => eventOut[p] = 0 /\ seen[p] = 0

\* The controls finish, again and again: a deletion reaches the other device,
\* and an OK the notice it answers and then its own queue.
DeletionArrives ==
    []<>(/\ (\E p \in Peers : row[p] = "deleted") => \A p \in Peers : row[p] = "deleted"
         /\ \A p \in remoteSeen : Other(p) \in localSeen /\ p \notin noticeOut)

\* Deleting for both: the request stays queued until the other device applied
\* it, its notice goes only by hand, reports go with the message, and the
\* content never comes back.
DeletionHolds ==
    []DeletionTypeOK /\ []PendingUntilApplied /\ []DismissedByHand /\ []ReportsGone /\ NeverBack
=============================================================================
