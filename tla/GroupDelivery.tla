---------------------------- MODULE GroupDelivery ----------------------------
(***************************************************************************)
(* Delivery of group messages: libcore's SessionManager::send_to_group,    *)
(* the group part of flush_all_pending, acknowledge_delivery, and the      *)
(* pending_outbound queue of db.rs.                                        *)
(*                                                                         *)
(* One sender.  A message is kept with a queue row for each recipient; the *)
(* row goes with that recipient's receipt, and the message counts as       *)
(* delivered when the last row goes.  Four tasks change the queue: the     *)
(* first sending, the rounds of the send loop, receipts, and the user.     *)
(***************************************************************************)
EXTENDS Naturals

CONSTANTS Messages, Contacts,
          MaxLosses,   \* bound: letters lost or not sent
          MaxChanges   \* bound: blockings, unblockings and restarts

ASSUME GroupAssumption == MaxLosses \in Nat /\ MaxChanges \in Nat

VARIABLES kept,       \* messages in the history
          recipients, \* message -> those it was queued for
          queue,      \* pending_outbound: <<message, contact>>
          delivered,  \* messages marked delivered
          announced,  \* message -> MessageDelivered events
          old,        \* messages older than RETRY_TTL_MS
          purged,     \* messages whose queue expired
          contacts, blocked,
          todo,       \* rows send_to_group has yet to attempt
          inRound,    \* contacts the round of the send loop has yet to serve
          batch,      \* rows it read for one of them and has yet to attempt
          net,        \* copies under way
          receipts,   \* receipts under way
          received,   \* copies kept by their recipient
          lost, changes

sender == <<kept, recipients, queue, delivered, announced, purged>>
loops == <<todo, inRound, batch>>
people == <<contacts, blocked>>
groupVars == <<sender, old, people, loops, net, receipts, received, lost, changes>>

RowsOf(m) == {m} \X Contacts
Willing == contacts \ blocked

GroupInit ==
    /\ kept = {} /\ recipients = [m \in Messages |-> {}] /\ queue = {}
    /\ delivered = {} /\ announced = [m \in Messages |-> 0]
    /\ old = {} /\ purged = {}
    /\ contacts = Contacts /\ blocked = {}
    /\ todo = {} /\ inRound = {} /\ batch = {}
    /\ net = {} /\ receipts = {} /\ received = {}
    /\ lost = 0 /\ changes = 0

-----------------------------------------------------------------------------

\* send_to_group up to its first await: commit_outgoing_group keeps the message
\* and its rows in one transaction.
SendToGroup(m) ==
    /\ m \notin kept /\ recipients[m] = {} /\ m \notin old
    /\ kept' = kept \cup {m}
    /\ recipients' = [recipients EXCEPT ![m] = Willing]
    /\ queue' = queue \cup {m} \X Willing
    /\ todo' = todo \cup {m} \X Willing
    /\ UNCHANGED <<delivered, announced, purged, old, people, inRound, batch, net, receipts, received, lost, changes>>

\* attempt_group_delivery: the letter goes out, or does not; the row stays.
Attempt(row) ==
    /\ \/ net' = net \cup {row} /\ UNCHANGED lost
       \/ lost < MaxLosses /\ lost' = lost + 1 /\ UNCHANGED net
    /\ UNCHANGED queue

\* The rest of send_to_group: a contact deleted or blocked meanwhile is skipped.
FirstAttempt(row) ==
    /\ row \in todo
    /\ todo' = todo \ {row}
    /\ \/ row[2] \in Willing /\ Attempt(row)
       \/ row[2] \notin Willing /\ UNCHANGED <<queue, net, lost>>
    /\ UNCHANGED <<kept, recipients, delivered, announced, purged, old, people, inRound, batch,
                   receipts, received, changes>>

\* flush_all_pending: purge_expired_group_outbound drops every row of a message
\* with an expired one, and the contacts are listed.
PurgeExpiredMutant(rows) == {r \in rows : ~ (r[1] \in old /\ r \notin todo)}
PurgeExpired(rows) == {r \in rows : r[1] \notin old}

StartRound ==
    /\ inRound = {} /\ batch = {}
    /\ inRound' = Willing
    /\ queue' = PurgeExpired(queue)
    /\ purged' = purged \cup {m \in old : \E r \in queue : r[1] = m}
    /\ UNCHANGED <<kept, recipients, delivered, announced, old, people, todo, batch,
                   net, receipts, received, lost, changes>>

\* pending_outbound_for_recipient, for the next contact of the round.
ReadPendingMutant(c) ==
    /\ c \in inRound /\ batch = {}
    /\ inRound' = inRound \ {c}
    /\ batch' = {r \in queue : r[2] = c /\ r[1] \in old}
    /\ UNCHANGED <<sender, old, people, todo, net, receipts, received, lost, changes>>
ReadPending(c) ==
    /\ c \in inRound /\ batch = {}
    /\ inRound' = inRound \ {c}
    /\ batch' = {r \in queue : r[2] = c /\ r[1] \notin old}
    /\ UNCHANGED <<sender, old, people, todo, net, receipts, received, lost, changes>>

\* A row that was read is attempted whatever became of it since, unless its
\* message is gone; after a failure the contact's other rows wait.
Retry(row) ==
    /\ row \in batch
    /\ \/ /\ row[1] \in kept /\ Attempt(row)
          /\ batch' = IF lost' = lost THEN batch \ {row} ELSE {}
       \/ /\ row[1] \notin kept
          /\ queue' = queue \ {row} /\ batch' = batch \ {row}
          /\ UNCHANGED <<net, lost>>
    /\ UNCHANGED <<kept, recipients, delivered, announced, purged, old, people, todo, inRound,
                   receipts, received, changes>>

-----------------------------------------------------------------------------

\* A recipient keeps the message, or recognises it by its origin, and answers.
Receive(row) ==
    /\ row \in net
    /\ net' = net \ {row}
    /\ received' = received \cup {row}
    /\ receipts' = receipts \cup {row}
    /\ UNCHANGED <<sender, old, people, loops, lost, changes>>

\* acknowledge_group_delivery: NotPending, PendingRecipients or Complete.
Acknowledge(m, c) ==
    /\ queue' = queue \ {<<m, c>>}
    /\ LET complete == <<m, c>> \in queue /\ queue' \cap RowsOf(m) = {} /\ m \notin delivered
       IN  /\ delivered' = IF complete THEN delivered \cup {m} ELSE delivered
           /\ announced' = [announced EXCEPT ![m] = IF complete THEN @ + 1 ELSE @]

\* acknowledge_delivery, of a receipt from a contact that may still write to us.
ReceiveReceipt(row) ==
    /\ row \in receipts
    /\ receipts' = receipts \ {row}
    /\ \/ row[2] \in Willing /\ row[1] \in kept /\ Acknowledge(row[1], row[2])
       \/ ~ (row[2] \in Willing /\ row[1] \in kept) /\ UNCHANGED <<queue, delivered, announced>>
    /\ UNCHANGED <<kept, recipients, purged, old, people, loops, net, received, lost, changes>>

LoseReceipt(row) ==
    /\ row \in receipts /\ lost < MaxLosses
    /\ receipts' = receipts \ {row} /\ lost' = lost + 1
    /\ UNCHANGED <<sender, old, people, loops, net, received, changes>>

LoseCopy(row) ==
    /\ row \in net /\ lost < MaxLosses
    /\ net' = net \ {row} /\ lost' = lost + 1
    /\ UNCHANGED <<sender, old, people, loops, receipts, received, changes>>

-----------------------------------------------------------------------------

GrowOld(m) ==
    /\ m \in kept \ old
    /\ old' = old \cup {m}
    /\ UNCHANGED <<sender, people, loops, net, receipts, received, lost, changes>>

\* delete_message, and the trigger on messages.
DeleteMessage(m) ==
    /\ m \in kept
    /\ kept' = kept \ {m}
    /\ queue' = queue \ RowsOf(m)
    /\ UNCHANGED <<recipients, delivered, announced, purged, old, people, loops, net, receipts,
                   received, lost, changes>>

\* delete_contact, and the trigger on contacts.
DeleteContact(c) ==
    /\ c \in contacts
    /\ contacts' = contacts \ {c} /\ blocked' = blocked \ {c}
    /\ queue' = {r \in queue : r[2] # c}
    /\ UNCHANGED <<kept, recipients, delivered, announced, purged, old, loops, net, receipts,
                   received, lost, changes>>

SetBlocked(c) ==
    /\ c \in contacts /\ changes < MaxChanges
    /\ changes' = changes + 1
    /\ blocked' = IF c \in blocked THEN blocked \ {c} ELSE blocked \cup {c}
    /\ UNCHANGED <<sender, old, contacts, loops, net, receipts, received, lost>>

Crash ==
    /\ changes < MaxChanges /\ todo \cup inRound \cup batch # {}
    /\ changes' = changes + 1
    /\ todo' = {} /\ inRound' = {} /\ batch' = {}
    /\ UNCHANGED <<sender, old, people, net, receipts, received, lost>>

GroupNext ==
    \/ StartRound \/ Crash
    \/ \E m \in Messages : SendToGroup(m) \/ GrowOld(m) \/ DeleteMessage(m)
    \/ \E c \in Contacts : ReadPending(c) \/ DeleteContact(c) \/ SetBlocked(c)
    \/ \E row \in Messages \X Contacts :
        \/ FirstAttempt(row) \/ Retry(row)
        \/ Receive(row) \/ ReceiveReceipt(row) \/ LoseReceipt(row) \/ LoseCopy(row)

\* The send loop comes round, and what relays hold is handed out and handled.
GroupFairness ==
    /\ WF_groupVars(StartRound)
    /\ \A c \in Contacts : WF_groupVars(ReadPending(c))
    /\ \A row \in Messages \X Contacts :
        WF_groupVars(Retry(row)) /\ WF_groupVars(Receive(row)) /\ WF_groupVars(ReceiveReceipt(row))

GroupSpec == GroupInit /\ [][GroupNext]_groupVars /\ GroupFairness

-----------------------------------------------------------------------------

\* Rows, copies and receipts pair a message with a contact; a queue expires only
\* for a message past RETRY_TTL_MS.
GroupTypeOK ==
    /\ kept \subseteq Messages /\ recipients \in [Messages -> SUBSET Contacts]
    /\ queue \subseteq Messages \X Contacts
    /\ delivered \subseteq Messages /\ announced \in [Messages -> Nat]
    /\ old \subseteq Messages /\ purged \subseteq old
    /\ contacts \subseteq Contacts /\ blocked \subseteq contacts
    /\ todo \subseteq Messages \X Contacts /\ inRound \subseteq Contacts /\ batch \subseteq Messages \X Contacts
    /\ net \subseteq Messages \X Contacts /\ receipts \subseteq Messages \X Contacts
    /\ received \subseteq Messages \X Contacts
    /\ lost \in 0..MaxLosses /\ changes \in 0..MaxChanges

\* "the recipient's authenticated ACK is what removes their durable group
\* delivery record": while the message and the contact are kept and nothing
\* expired, a recipient without a row has the message.
QueuedUntilReceived ==
    \A m \in kept \ purged : \A c \in recipients[m] \cap contacts :
        <<m, c>> \in queue \/ <<m, c>> \in received

\* "Otherwise a late ACK could turn partial expiry into apparent complete
\* delivery": a message counts as delivered only when everyone it was sent to,
\* and was not deleted since, has it.
DeliveredToAll ==
    \A m \in delivered : \A c \in recipients[m] \cap contacts : <<m, c>> \in received

\* MessageDelivered is announced once, with the mark.
AnnouncedOnce == \A m \in Messages : announced[m] = IF m \in delivered THEN 1 ELSE 0

\* "Never erase history or mark it delivered": a message whose queue expired is
\* not marked later.
ExpiredIsFinal == [][\A m \in purged : m \in delivered' => m \in delivered]_groupVars

\* Retrying reaches everyone: a message kept, not too old, with recipients that
\* stay contacts and unblocked, is delivered in the end.
Delivered ==
    \A m \in Messages :
        <>[](m \in kept \ old /\ recipients[m] # {} /\ recipients[m] \subseteq Willing) => <>(m \in delivered)

\* The durable rows of a group message: a recipient is queued until they have
\* it, delivered means everyone, that is announced once, and expiry is final.
GroupKeeps ==
    /\ []GroupTypeOK /\ []QueuedUntilReceived /\ []DeliveredToAll /\ []AnnouncedOnce
    /\ ExpiredIsFinal
=============================================================================
