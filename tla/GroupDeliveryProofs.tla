------------------------ MODULE GroupDeliveryProofs -------------------------
(***************************************************************************)
(* GroupKeeps of GroupDelivery, and each of its parts (GroupTypeOK,        *)
(* QueuedUntilReceived, DeliveredToAll, AnnouncedOnce, ExpiredIsFinal),    *)
(* for any messages, contacts and numbers of faults.                       *)
(***************************************************************************)
EXTENDS GroupDelivery, TLAPS

\* The sets hold what their names say.
Shape ==
    /\ recipients \in [Messages -> SUBSET Contacts] /\ announced \in [Messages -> Nat]
    /\ queue \subseteq Messages \X Contacts /\ receipts \subseteq Messages \X Contacts
    /\ contacts \subseteq Contacts /\ kept \subseteq Messages /\ delivered \subseteq Messages

\* A receipt under way is from one who has the message.
ReceiptsTrue == receipts \subseteq received /\ net \subseteq Messages \X Contacts

\* A queued row is of a message sent to that contact; expiry leaves no row, and
\* only what was sent is marked.
QueueAgrees ==
    /\ \A m \in Messages : \A c \in Contacts : <<m, c>> \in queue => c \in recipients[m] /\ m \notin purged
    /\ purged \subseteq old
    /\ \A m \in delivered : recipients[m] # {}

GroupInv ==
    /\ Shape /\ ReceiptsTrue /\ QueueAgrees
    /\ QueuedUntilReceived /\ DeliveredToAll /\ AnnouncedOnce

-----------------------------------------------------------------------------

\* Nothing sent yet: all of it holds.
LEMMA InitGroup == GroupInit => GroupInv
  BY DEF GroupInit, GroupInv, Shape, ReceiptsTrue, QueueAgrees, QueuedUntilReceived, DeliveredToAll, AnnouncedOnce

\* One action at a time; under each, the parts of the invariant it disturbs.
LEMMA NextGroup == GroupInv /\ [GroupNext]_groupVars => GroupInv'
  <1> SUFFICES ASSUME GroupInv, [GroupNext]_groupVars PROVE GroupInv'
    OBVIOUS
  <1>1. CASE UNCHANGED groupVars
    <2>1. Shape' /\ ReceiptsTrue' /\ QueueAgrees' /\ QueuedUntilReceived' /\ DeliveredToAll' /\ AnnouncedOnce'
      BY <1>1 DEF GroupInv, Shape, ReceiptsTrue, QueueAgrees, QueuedUntilReceived,
         DeliveredToAll, AnnouncedOnce, groupVars, sender, loops, people
    <2> QED
      BY <2>1 DEF GroupInv
  <1>2. CASE StartRound
    <2>1. Shape'
      BY <1>2 DEF GroupInv, Shape, StartRound, PurgeExpired, sender, loops, people
    <2>2. QueueAgrees'
      BY <1>2 DEF GroupInv, Shape, QueueAgrees, StartRound, PurgeExpired, sender, loops, people
    <2>3. QueuedUntilReceived'
      BY <1>2 DEF GroupInv, Shape, QueuedUntilReceived, StartRound, PurgeExpired, sender, loops,
         people
    <2>4. ReceiptsTrue' /\ DeliveredToAll' /\ AnnouncedOnce'
      BY <1>2 DEF GroupInv, ReceiptsTrue, DeliveredToAll, AnnouncedOnce, StartRound,
         PurgeExpired, sender, loops, people
    <2> QED
      BY <2>1, <2>2, <2>3, <2>4 DEF GroupInv
  <1>3. CASE Crash
    <2>1. Shape' /\ ReceiptsTrue' /\ QueueAgrees' /\ QueuedUntilReceived' /\ DeliveredToAll' /\ AnnouncedOnce'
      BY <1>3 DEF GroupInv, Shape, ReceiptsTrue, QueueAgrees, QueuedUntilReceived,
         DeliveredToAll, AnnouncedOnce, Crash, sender, loops, people
    <2> QED
      BY <2>1 DEF GroupInv
  <1>4. ASSUME NEW m \in Messages, SendToGroup(m) PROVE GroupInv'
    <2>1. Shape'
      BY <1>4 DEF GroupInv, Shape, SendToGroup, Willing, sender, loops, people
    <2>2. QueueAgrees'
      BY <1>4 DEF GroupInv, Shape, QueueAgrees, SendToGroup, Willing, sender, loops, people
    <2>3. QueuedUntilReceived'
      <3> SUFFICES ASSUME NEW x \in (kept \ purged)', NEW y \in (recipients[x] \cap contacts)'
                   PROVE  <<x, y>> \in queue' \/ <<x, y>> \in received'
        BY DEF QueuedUntilReceived
      <3>1. CASE x = m
        BY <1>4, <3>1 DEF GroupInv, Shape, SendToGroup, people
      <3>2. CASE x # m
        BY <1>4, <3>2 DEF GroupInv, Shape, SendToGroup, people, QueuedUntilReceived
      <3> QED
        BY <3>1, <3>2
    <2>4. DeliveredToAll'
      BY <1>4 DEF GroupInv, Shape, DeliveredToAll, SendToGroup, Willing, sender, loops, people,
         QueueAgrees
    <2>5. ReceiptsTrue' /\ AnnouncedOnce'
      BY <1>4 DEF GroupInv, ReceiptsTrue, AnnouncedOnce, SendToGroup, Willing, sender, loops,
         people
    <2> QED
      BY <2>1, <2>2, <2>3, <2>4, <2>5 DEF GroupInv
  <1>5. ASSUME NEW m \in Messages, GrowOld(m) PROVE GroupInv'
    <2>1. QueueAgrees'
      BY <1>5 DEF GroupInv, Shape, QueueAgrees, GrowOld, sender, loops, people
    <2>2. Shape' /\ ReceiptsTrue' /\ QueuedUntilReceived' /\ DeliveredToAll' /\ AnnouncedOnce'
      BY <1>5 DEF GroupInv, Shape, ReceiptsTrue, QueuedUntilReceived, DeliveredToAll,
         AnnouncedOnce, GrowOld, sender, loops, people
    <2> QED
      BY <2>1, <2>2 DEF GroupInv
  <1>6. ASSUME NEW m \in Messages, DeleteMessage(m) PROVE GroupInv'
    <2>1. Shape'
      BY <1>6 DEF GroupInv, Shape, DeleteMessage, RowsOf, sender, loops, people
    <2>2. QueueAgrees'
      BY <1>6 DEF GroupInv, Shape, QueueAgrees, DeleteMessage, RowsOf, sender, loops, people
    <2>3. QueuedUntilReceived'
      BY <1>6 DEF GroupInv, Shape, QueuedUntilReceived, DeleteMessage, RowsOf, sender, loops,
         people
    <2>4. ReceiptsTrue' /\ DeliveredToAll' /\ AnnouncedOnce'
      BY <1>6 DEF GroupInv, ReceiptsTrue, DeliveredToAll, AnnouncedOnce, DeleteMessage, RowsOf,
         sender, loops, people
    <2> QED
      BY <2>1, <2>2, <2>3, <2>4 DEF GroupInv
  <1>7. ASSUME NEW c \in Contacts, ReadPending(c) PROVE GroupInv'
    <2>1. Shape' /\ ReceiptsTrue' /\ QueueAgrees' /\ QueuedUntilReceived' /\ DeliveredToAll' /\ AnnouncedOnce'
      BY <1>7 DEF GroupInv, Shape, ReceiptsTrue, QueueAgrees, QueuedUntilReceived,
         DeliveredToAll, AnnouncedOnce, ReadPending, sender, loops, people
    <2> QED
      BY <2>1 DEF GroupInv
  <1>8. ASSUME NEW c \in Contacts, DeleteContact(c) PROVE GroupInv'
    <2>1. Shape'
      BY <1>8 DEF GroupInv, Shape, DeleteContact, sender, loops, people
    <2>2. QueueAgrees'
      BY <1>8 DEF GroupInv, Shape, QueueAgrees, DeleteContact, sender, loops, people
    <2>3. QueuedUntilReceived'
      BY <1>8 DEF GroupInv, Shape, QueuedUntilReceived, DeleteContact, sender, loops, people
    <2>4. DeliveredToAll'
      BY <1>8 DEF GroupInv, Shape, DeliveredToAll, DeleteContact, sender, loops, people
    <2>5. ReceiptsTrue' /\ AnnouncedOnce'
      BY <1>8 DEF GroupInv, ReceiptsTrue, AnnouncedOnce, DeleteContact, sender, loops, people
    <2> QED
      BY <2>1, <2>2, <2>3, <2>4, <2>5 DEF GroupInv
  <1>9. ASSUME NEW c \in Contacts, SetBlocked(c) PROVE GroupInv'
    <2>1. Shape' /\ ReceiptsTrue' /\ QueueAgrees' /\ QueuedUntilReceived' /\ DeliveredToAll' /\ AnnouncedOnce'
      BY <1>9 DEF GroupInv, Shape, ReceiptsTrue, QueueAgrees, QueuedUntilReceived,
         DeliveredToAll, AnnouncedOnce, SetBlocked, sender, loops, people
    <2> QED
      BY <2>1 DEF GroupInv
  <1>10. ASSUME NEW m \in Messages, NEW c \in Contacts, FirstAttempt(<<m, c>>) PROVE GroupInv'
    <2>1. ReceiptsTrue'
      BY <1>10 DEF GroupInv, Shape, ReceiptsTrue, FirstAttempt, Attempt, sender, loops, people
    <2>2. Shape' /\ QueueAgrees' /\ QueuedUntilReceived' /\ DeliveredToAll' /\ AnnouncedOnce'
      BY <1>10 DEF GroupInv, Shape, QueueAgrees, QueuedUntilReceived, DeliveredToAll,
         AnnouncedOnce, FirstAttempt, Attempt, sender, loops, people
    <2> QED
      BY <2>1, <2>2 DEF GroupInv
  <1>11. ASSUME NEW m \in Messages, NEW c \in Contacts, Retry(<<m, c>>) PROVE GroupInv'
    <2>1. Shape'
      BY <1>11 DEF GroupInv, Shape, Retry, Attempt, sender, loops, people
    <2>2. ReceiptsTrue'
      BY <1>11 DEF GroupInv, Shape, ReceiptsTrue, Retry, Attempt, sender, loops, people
    <2>3. QueueAgrees'
      BY <1>11 DEF GroupInv, Shape, QueueAgrees, Retry, Attempt, sender, loops, people
    <2>4. QueuedUntilReceived'
      BY <1>11 DEF GroupInv, Shape, QueuedUntilReceived, Retry, Attempt, sender, loops, people
    <2>5. DeliveredToAll' /\ AnnouncedOnce'
      BY <1>11 DEF GroupInv, DeliveredToAll, AnnouncedOnce, Retry, Attempt, sender, loops,
         people
    <2> QED
      BY <2>1, <2>2, <2>3, <2>4, <2>5 DEF GroupInv
  <1>12. ASSUME NEW m \in Messages, NEW c \in Contacts, Receive(<<m, c>>) PROVE GroupInv'
    <2>1. Shape'
      BY <1>12 DEF GroupInv, Shape, Receive, sender, loops, people
    <2>2. ReceiptsTrue'
      BY <1>12 DEF GroupInv, Shape, ReceiptsTrue, Receive, sender, loops, people
    <2>3. QueuedUntilReceived'
      BY <1>12 DEF GroupInv, Shape, QueuedUntilReceived, Receive, sender, loops, people
    <2>4. DeliveredToAll'
      BY <1>12 DEF GroupInv, Shape, DeliveredToAll, Receive, sender, loops, people
    <2>5. QueueAgrees' /\ AnnouncedOnce'
      BY <1>12 DEF GroupInv, QueueAgrees, AnnouncedOnce, Receive, sender, loops, people
    <2> QED
      BY <2>1, <2>2, <2>3, <2>4, <2>5 DEF GroupInv
  <1>13. ASSUME NEW m \in Messages, NEW c \in Contacts, ReceiveReceipt(<<m, c>>) PROVE GroupInv'
    <2>1. Shape'
      BY <1>13 DEF GroupInv, Shape, ReceiveReceipt, Acknowledge, RowsOf, Willing, sender, loops,
         people
    <2>2. ReceiptsTrue'
      BY <1>13 DEF GroupInv, Shape, ReceiptsTrue, ReceiveReceipt, Acknowledge, RowsOf, Willing,
         sender, loops, people
    <2>3. QueueAgrees'
      BY <1>13 DEF GroupInv, Shape, QueueAgrees, ReceiveReceipt, Acknowledge, RowsOf, Willing,
         sender, loops, people
    <2>4. QueuedUntilReceived'
      BY <1>13 DEF GroupInv, Shape, QueuedUntilReceived, ReceiveReceipt, Acknowledge, RowsOf,
         Willing, sender, loops, people, ReceiptsTrue
    <2>5. DeliveredToAll'
      <3> SUFFICES ASSUME NEW x \in delivered', NEW y \in (recipients[x] \cap contacts)'
                   PROVE  <<x, y>> \in received'
        BY DEF DeliveredToAll
      <3>1. CASE x \in delivered
        BY <1>13, <3>1 DEF GroupInv, ReceiveReceipt, DeliveredToAll, people
      <3>2. CASE x \notin delivered
        <4>1. /\ x = m /\ m \in kept /\ <<m, c>> \in queue
              /\ queue' = queue \ {<<m, c>>} /\ queue' \cap RowsOf(m) = {}
          BY <1>13, <3>2 DEF ReceiveReceipt, Acknowledge
        <4>2. y \in recipients[m] \cap contacts /\ y \in Contacts
          BY <1>13, <4>1 DEF GroupInv, Shape, ReceiveReceipt, people
        <4>3. <<m, y>> \notin queue'
          BY <4>1, <4>2 DEF RowsOf
        <4>4. <<m, y>> \in queue \/ <<m, y>> \in received
          BY <4>1, <4>2 DEF GroupInv, QueueAgrees, QueuedUntilReceived
        <4> QED
          BY <1>13, <4>1, <4>3, <4>4 DEF GroupInv, ReceiptsTrue, ReceiveReceipt
      <3> QED
        BY <3>1, <3>2
    <2>6. AnnouncedOnce'
      BY <1>13 DEF GroupInv, Shape, AnnouncedOnce, ReceiveReceipt, Acknowledge, RowsOf, Willing,
         sender, loops, people
    <2> QED
      BY <2>1, <2>2, <2>3, <2>4, <2>5, <2>6 DEF GroupInv
  <1>14. ASSUME NEW m \in Messages, NEW c \in Contacts, LoseReceipt(<<m, c>>) PROVE GroupInv'
    <2>1. Shape'
      BY <1>14 DEF GroupInv, Shape, LoseReceipt, sender, loops, people
    <2>2. ReceiptsTrue'
      BY <1>14 DEF GroupInv, Shape, ReceiptsTrue, LoseReceipt, sender, loops, people
    <2>3. QueueAgrees' /\ QueuedUntilReceived' /\ DeliveredToAll' /\ AnnouncedOnce'
      BY <1>14 DEF GroupInv, QueueAgrees, QueuedUntilReceived, DeliveredToAll, AnnouncedOnce,
         LoseReceipt, sender, loops, people
    <2> QED
      BY <2>1, <2>2, <2>3 DEF GroupInv
  <1>15. ASSUME NEW m \in Messages, NEW c \in Contacts, LoseCopy(<<m, c>>) PROVE GroupInv'
    <2>1. ReceiptsTrue'
      BY <1>15 DEF GroupInv, Shape, ReceiptsTrue, LoseCopy, sender, loops, people
    <2>2. Shape' /\ QueueAgrees' /\ QueuedUntilReceived' /\ DeliveredToAll' /\ AnnouncedOnce'
      BY <1>15 DEF GroupInv, Shape, QueueAgrees, QueuedUntilReceived, DeliveredToAll,
         AnnouncedOnce, LoseCopy, sender, loops, people
    <2> QED
      BY <2>1, <2>2 DEF GroupInv
  <1>16. ASSUME NEW row \in Messages \X Contacts,
                FirstAttempt(row) \/ Retry(row) \/ Receive(row) \/ ReceiveReceipt(row) \/ LoseReceipt(row) \/ LoseCopy(row)
         PROVE  GroupInv'
    <2> PICK m \in Messages, c \in Contacts : row = <<m, c>>
      OBVIOUS
    <2> QED
      BY <1>10, <1>11, <1>12, <1>13, <1>14, <1>15, <1>16
  <1> QED
    BY <1>1, <1>2, <1>3, <1>4, <1>5, <1>6, <1>7, <1>8, <1>9, <1>16 DEF GroupNext

\* GroupInv is inductive, so it always holds.
LEMMA GroupInvariant == GroupSpec => []GroupInv
  BY InitGroup, NextGroup, PTL DEF GroupSpec

\* A row leaves pending_outbound only with its recipient's receipt, unless the
\* message, the contact or the whole queue of the message is given up.
THEOREM QueuedAlwaysUntilReceived == GroupSpec => []QueuedUntilReceived
  <1>1. GroupInv => QueuedUntilReceived
    BY DEF GroupInv
  <1> QED
    BY GroupInvariant, <1>1, PTL

\* acknowledge_group_delivery marks a message delivered only when everyone it
\* was sent to, and who is still a contact, has it.
THEOREM DeliveredAlwaysToAll == GroupSpec => []DeliveredToAll
  <1>1. GroupInv => DeliveredToAll
    BY DEF GroupInv
  <1> QED
    BY GroupInvariant, <1>1, PTL

\* Receipts that come again, or race each other, announce delivery once.
THEOREM AnnouncedJustOnce == GroupSpec => []AnnouncedOnce
  <1>1. GroupInv => AnnouncedOnce
    BY DEF GroupInv
  <1> QED
    BY GroupInvariant, <1>1, PTL

\* A receipt later than purge_expired_group_outbound marks nothing.
THEOREM ExpiredStaysFinal == GroupSpec => ExpiredIsFinal
  <1>1. GroupInv /\ [GroupNext]_groupVars => [\A m \in purged : m \in delivered' => m \in delivered]_groupVars
    <2> SUFFICES ASSUME GroupInv, [GroupNext]_groupVars, NEW m \in purged, m \in delivered' PROVE m \in delivered
      OBVIOUS
    <2>1. ASSUME NEW row \in Messages \X Contacts, ReceiveReceipt(row) PROVE m \in delivered
      BY <2>1 DEF GroupInv, Shape, QueueAgrees, ReceiveReceipt, Acknowledge
    <2>2. CASE delivered' = delivered
      BY <2>2
    <2> QED
      BY <2>1, <2>2 DEF GroupNext, groupVars, sender, StartRound, Crash, SendToGroup, GrowOld, DeleteMessage,
         ReadPending, DeleteContact, SetBlocked, FirstAttempt, Retry, Receive, LoseReceipt, LoseCopy
  <1> QED
    BY GroupInvariant, <1>1, PTL DEF GroupSpec, ExpiredIsFinal

\* Rows stay pairs of a message and a contact, and only what is old expires.
LEMMA GroupTyped == GroupSpec => []GroupTypeOK
  <1>1. GroupInit => GroupTypeOK
    BY GroupAssumption DEF GroupInit, GroupTypeOK
  <1>2. GroupTypeOK /\ [GroupNext]_groupVars => GroupTypeOK'
    <2> SUFFICES ASSUME GroupTypeOK, [GroupNext]_groupVars PROVE GroupTypeOK'
      OBVIOUS
    <2> USE GroupAssumption DEF sender, loops, people
    <2>1. CASE UNCHANGED groupVars
      BY <2>1 DEF GroupTypeOK, groupVars
    <2>2. CASE StartRound
      BY <2>2 DEF GroupTypeOK, StartRound, PurgeExpired, Willing
    <2>3. CASE Crash
      BY <2>3 DEF GroupTypeOK, Crash
    <2>4. ASSUME NEW m \in Messages, SendToGroup(m) PROVE GroupTypeOK'
      BY <2>4 DEF GroupTypeOK, SendToGroup, Willing
    <2>5. ASSUME NEW m \in Messages, GrowOld(m) PROVE GroupTypeOK'
      BY <2>5 DEF GroupTypeOK, GrowOld
    <2>6. ASSUME NEW m \in Messages, DeleteMessage(m) PROVE GroupTypeOK'
      BY <2>6 DEF GroupTypeOK, DeleteMessage, RowsOf
    <2>7. ASSUME NEW c \in Contacts, ReadPending(c) PROVE GroupTypeOK'
      BY <2>7 DEF GroupTypeOK, ReadPending
    <2>8. ASSUME NEW c \in Contacts, DeleteContact(c) PROVE GroupTypeOK'
      BY <2>8 DEF GroupTypeOK, DeleteContact
    <2>9. ASSUME NEW c \in Contacts, SetBlocked(c) PROVE GroupTypeOK'
      BY <2>9 DEF GroupTypeOK, SetBlocked
    <2>10. ASSUME NEW row \in Messages \X Contacts, FirstAttempt(row) PROVE GroupTypeOK'
      BY <2>10 DEF GroupTypeOK, FirstAttempt, Attempt, Willing
    <2>11. ASSUME NEW row \in Messages \X Contacts, Retry(row) PROVE GroupTypeOK'
      BY <2>11 DEF GroupTypeOK, Retry, Attempt
    <2>12. ASSUME NEW row \in Messages \X Contacts, Receive(row) PROVE GroupTypeOK'
      BY <2>12 DEF GroupTypeOK, Receive
    <2>13. ASSUME NEW row \in Messages \X Contacts, ReceiveReceipt(row) PROVE GroupTypeOK'
      BY <2>13 DEF GroupTypeOK, ReceiveReceipt, Acknowledge, RowsOf
    <2>14. ASSUME NEW row \in Messages \X Contacts, LoseReceipt(row) PROVE GroupTypeOK'
      BY <2>14 DEF GroupTypeOK, LoseReceipt
    <2>15. ASSUME NEW row \in Messages \X Contacts, LoseCopy(row) PROVE GroupTypeOK'
      BY <2>15 DEF GroupTypeOK, LoseCopy
    <2> QED
      BY <2>1, <2>2, <2>3, <2>4, <2>5, <2>6, <2>7, <2>8, <2>9, <2>10, <2>11, <2>12, <2>13, <2>14, <2>15 DEF GroupNext
  <1> QED
    BY <1>1, <1>2, PTL DEF GroupSpec

\* All that the durable rows of a group message promise, for any messages and
\* contacts: db.rs and the send loop keep a row for whoever lacks the message.
THEOREM GroupAlwaysKeeps == GroupSpec => GroupKeeps
  BY GroupTyped, QueuedAlwaysUntilReceived, DeliveredAlwaysToAll, AnnouncedJustOnce, ExpiredStaysFinal
     DEF GroupKeeps

=============================================================================
