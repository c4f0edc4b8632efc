-------------------------- MODULE DmDeletionProofs --------------------------
(***************************************************************************)
(* PendingUntilApplied, DismissedByHand, ReportsGone and NeverBack of      *)
(* DmDeletion, for any number of losses, replays, reports and times.       *)
(***************************************************************************)
EXTENDS DmDeletion, TLAPS

\* What each letter under way says of its sender.
LettersTrue ==
    \A p \in Peers : \A l \in net[p] :
        /\ l.kind = "delete"  => l.at # 0 /\ localAt[Other(p)] = l.at
        /\ l.kind = "applied" => row[Other(p)] = "deleted"
        /\ l.kind = "ok"      => Other(p) \in remoteSeen

\* A message is deleted just when one of the two operations is recorded, and
\* only recorded operations are queued or answered.
NoticeAgrees ==
    \A p \in Peers :
        /\ row[p] = "deleted" <=> (localAt[p] # 0 \/ remoteAt[p] # 0)
        /\ p \in deleteOut => localAt[p] # 0
        /\ p \in noticeOut => p \in remoteSeen
        /\ p \in remoteSeen => remoteAt[p] # 0

\* The tables are functions of the peers; letters under way are letters.
Shape ==
    /\ row \in [Peers -> {"none", "live", "deleted"}]
    /\ localAt \in [Peers -> {0} \cup Times] /\ remoteAt \in [Peers -> {0} \cup Times]
    /\ eventOut \in [Peers -> 0..MaxEvents] /\ seen \in [Peers -> 0..MaxEvents]
    /\ done \in [Peers -> 0..MaxEvents]
    /\ net \in [Peers -> SUBSET Letters]

DeletionInv ==
    /\ Shape /\ LettersTrue /\ NoticeAgrees
    /\ PendingUntilApplied /\ DismissedByHand /\ ReportsGone

-----------------------------------------------------------------------------

\* The two peers are each other's other.
LEMMA OtherPeer ==
    ASSUME NEW p \in Peers
    PROVE  Other(p) \in Peers /\ Other(p) # p /\ Other(Other(p)) = p /\ Peers = {p, Other(p)}
  <1>1. PICK a \in Peers, b \in Peers : a # b /\ Peers = {a, b}
    BY DeletionAssumption
  <1>2. \A q \in Peers : Other(q) \in Peers /\ Other(q) # q
    BY <1>1 DEF Other
  <1> QED
    BY <1>1, <1>2

\* A message not yet received, and nothing deleted, satisfies the invariant.
LEMMA InitDeletion == Init => DeletionInv
  <1> SUFFICES ASSUME Init PROVE DeletionInv
    OBVIOUS
  <1>1. Shape
    BY DeletionAssumption DEF Init, Shape
  <1>2. LettersTrue /\ NoticeAgrees
    BY OtherPeer DEF Init, LettersTrue, NoticeAgrees
  <1>3. PendingUntilApplied /\ DismissedByHand /\ ReportsGone
    BY OtherPeer DEF Init, PendingUntilApplied, DismissedByHand, ReportsGone
  <1> QED
    BY <1>1, <1>2, <1>3 DEF DeletionInv

\* One action at a time; under each, the parts of the invariant it disturbs.
LEMMA NextDeletion == DeletionInv /\ [Next]_vars => DeletionInv'
  <1> SUFFICES ASSUME DeletionInv, [Next]_vars PROVE DeletionInv'
    OBVIOUS
  <1>1. CASE UNCHANGED vars
    <2>1. Shape' /\ LettersTrue' /\ NoticeAgrees' /\ PendingUntilApplied' /\ DismissedByHand' /\ ReportsGone'
      BY <1>1 DEF DeletionInv, Shape, LettersTrue, NoticeAgrees, PendingUntilApplied,
         DismissedByHand, ReportsGone, vars, reports, outboxes, notices, faults
    <2> QED
      BY <2>1 DEF DeletionInv
  <1>2. CASE ReadBatch
    <2>1. Shape' /\ LettersTrue' /\ NoticeAgrees' /\ PendingUntilApplied' /\ DismissedByHand' /\ ReportsGone'
      BY <1>2 DEF DeletionInv, Shape, LettersTrue, NoticeAgrees, PendingUntilApplied,
         DismissedByHand, ReportsGone, ReadBatch, reports, outboxes, notices, faults
    <2> QED
      BY <2>1 DEF DeletionInv
  <1>3. CASE SendContent
    <2>1. Shape'
      BY <1>3, OtherPeer, DeletionAssumption DEF DeletionInv, Shape, SendContent, Put, Letter,
         reports, outboxes, notices, faults, Letters
    <2>2. LettersTrue'
      BY <1>3, OtherPeer, DeletionAssumption DEF DeletionInv, Shape, LettersTrue, SendContent,
         Put, Letter, reports, outboxes, notices, faults
    <2>3. NoticeAgrees' /\ PendingUntilApplied' /\ DismissedByHand' /\ ReportsGone'
      BY <1>3 DEF DeletionInv, NoticeAgrees, PendingUntilApplied, DismissedByHand, ReportsGone,
         SendContent, Put, Letter, reports, outboxes, notices, faults
    <2> QED
      BY <2>1, <2>2, <2>3 DEF DeletionInv
  <1>4. ASSUME NEW p \in Peers, NEW at \in Times, Delete(p, at) PROVE DeletionInv'
    <2>1. Shape'
      BY <1>4, OtherPeer, DeletionAssumption DEF DeletionInv, Shape, Delete, DeleteTx, Or,
         reports, outboxes, notices, faults, Times
    <2>2. LettersTrue'
      BY <1>4, OtherPeer, DeletionAssumption DEF DeletionInv, Shape, LettersTrue, Delete,
         DeleteTx, Or, reports, outboxes, notices, faults, Times
    <2>3. NoticeAgrees'
      BY <1>4, OtherPeer, DeletionAssumption DEF DeletionInv, Shape, NoticeAgrees, Delete,
         DeleteTx, Or, reports, outboxes, notices, faults, Times
    <2>4. PendingUntilApplied'
      BY <1>4, OtherPeer, DeletionAssumption DEF DeletionInv, Shape, PendingUntilApplied,
         Delete, DeleteTx, Or, reports, outboxes, notices, faults, NoticeAgrees, DismissedByHand
    <2>5. DismissedByHand'
      BY <1>4, OtherPeer, DeletionAssumption DEF DeletionInv, Shape, DismissedByHand, Delete,
         DeleteTx, Or, reports, outboxes, notices, faults, NoticeAgrees, Times
    <2>6. ReportsGone'
      BY <1>4, OtherPeer, DeletionAssumption DEF DeletionInv, Shape, ReportsGone, Delete,
         DeleteTx, Or, reports, outboxes, notices, faults
    <2> QED
      BY <2>1, <2>2, <2>3, <2>4, <2>5, <2>6 DEF DeletionInv
  <1>5. ASSUME NEW p \in Peers, PressOk(p) PROVE DeletionInv'
    <2>1. LettersTrue'
      BY <1>5, OtherPeer, DeletionAssumption DEF DeletionInv, Shape, LettersTrue, PressOk,
         reports, outboxes, notices, faults
    <2>2. NoticeAgrees'
      BY <1>5, OtherPeer, DeletionAssumption DEF DeletionInv, Shape, NoticeAgrees, PressOk,
         reports, outboxes, notices, faults
    <2>3. DismissedByHand'
      BY <1>5, OtherPeer, DeletionAssumption DEF DeletionInv, Shape, DismissedByHand, PressOk,
         reports, outboxes, notices, faults
    <2>4. Shape' /\ PendingUntilApplied' /\ ReportsGone'
      BY <1>5 DEF DeletionInv, Shape, PendingUntilApplied, ReportsGone, PressOk, reports,
         outboxes, notices, faults
    <2> QED
      BY <2>1, <2>2, <2>3, <2>4 DEF DeletionInv
  <1>6. ASSUME NEW p \in Peers, QueueEvent(p) PROVE DeletionInv'
    <2>1. Shape'
      BY <1>6, OtherPeer, DeletionAssumption DEF DeletionInv, Shape, QueueEvent, reports,
         outboxes, notices, faults
    <2>2. ReportsGone'
      BY <1>6, OtherPeer, DeletionAssumption DEF DeletionInv, Shape, ReportsGone, QueueEvent,
         reports, outboxes, notices, faults
    <2>3. LettersTrue' /\ NoticeAgrees' /\ PendingUntilApplied' /\ DismissedByHand'
      BY <1>6 DEF DeletionInv, LettersTrue, NoticeAgrees, PendingUntilApplied, DismissedByHand,
         QueueEvent, reports, outboxes, notices, faults
    <2> QED
      BY <2>1, <2>2, <2>3 DEF DeletionInv
  <1>7. ASSUME NEW p \in Peers, SendDelete(p) PROVE DeletionInv'
    <2>1. Shape'
      BY <1>7, OtherPeer, DeletionAssumption DEF DeletionInv, Shape, SendDelete, Put, Letter,
         reports, outboxes, notices, faults, Letters, NoticeAgrees
    <2>2. LettersTrue'
      BY <1>7, OtherPeer, DeletionAssumption DEF DeletionInv, Shape, LettersTrue, SendDelete,
         Put, Letter, reports, outboxes, notices, faults, NoticeAgrees
    <2>3. NoticeAgrees' /\ PendingUntilApplied' /\ DismissedByHand' /\ ReportsGone'
      BY <1>7 DEF DeletionInv, NoticeAgrees, PendingUntilApplied, DismissedByHand, ReportsGone,
         SendDelete, Put, Letter, reports, outboxes, notices, faults
    <2> QED
      BY <2>1, <2>2, <2>3 DEF DeletionInv
  <1>8. ASSUME NEW p \in Peers, SendOk(p) PROVE DeletionInv'
    <2>1. Shape'
      BY <1>8, OtherPeer, DeletionAssumption DEF DeletionInv, Shape, SendOk, Put, Letter,
         reports, outboxes, notices, faults, Letters
    <2>2. LettersTrue'
      BY <1>8, OtherPeer, DeletionAssumption DEF DeletionInv, Shape, LettersTrue, SendOk, Put,
         Letter, reports, outboxes, notices, faults, NoticeAgrees
    <2>3. NoticeAgrees' /\ PendingUntilApplied' /\ DismissedByHand' /\ ReportsGone'
      BY <1>8 DEF DeletionInv, NoticeAgrees, PendingUntilApplied, DismissedByHand, ReportsGone,
         SendOk, Put, Letter, reports, outboxes, notices, faults
    <2> QED
      BY <2>1, <2>2, <2>3 DEF DeletionInv
  <1>9. ASSUME NEW p \in Peers, SendEvent(p) PROVE DeletionInv'
    <2>1. Shape'
      BY <1>9, OtherPeer, DeletionAssumption DEF DeletionInv, Shape, SendEvent, Put, Letter,
         reports, outboxes, notices, faults, Letters
    <2>2. LettersTrue'
      BY <1>9, OtherPeer, DeletionAssumption DEF DeletionInv, Shape, LettersTrue, SendEvent,
         Put, Letter, reports, outboxes, notices, faults
    <2>3. NoticeAgrees' /\ PendingUntilApplied' /\ DismissedByHand' /\ ReportsGone'
      BY <1>9 DEF DeletionInv, NoticeAgrees, PendingUntilApplied, DismissedByHand, ReportsGone,
         SendEvent, Put, Letter, reports, outboxes, notices, faults
    <2> QED
      BY <2>1, <2>2, <2>3 DEF DeletionInv
  <1>10. ASSUME NEW p \in Peers, CommitContent(p) PROVE DeletionInv'
    <2>1. Shape'
      BY <1>10, OtherPeer, DeletionAssumption DEF DeletionInv, Shape, CommitContent, reports,
         outboxes, notices, faults
    <2>2. LettersTrue'
      BY <1>10, OtherPeer, DeletionAssumption DEF DeletionInv, Shape, LettersTrue,
         CommitContent, reports, outboxes, notices, faults
    <2>3. NoticeAgrees'
      BY <1>10, OtherPeer, DeletionAssumption DEF DeletionInv, Shape, NoticeAgrees,
         CommitContent, reports, outboxes, notices, faults
    <2>4. PendingUntilApplied'
      BY <1>10, OtherPeer, DeletionAssumption DEF DeletionInv, Shape, PendingUntilApplied,
         CommitContent, reports, outboxes, notices, faults
    <2>5. ReportsGone'
      BY <1>10, OtherPeer, DeletionAssumption DEF DeletionInv, Shape, ReportsGone,
         CommitContent, reports, outboxes, notices, faults
    <2>6. DismissedByHand'
      BY <1>10 DEF DeletionInv, DismissedByHand, CommitContent, reports, outboxes, notices,
         faults
    <2> QED
      BY <2>1, <2>2, <2>3, <2>4, <2>5, <2>6 DEF DeletionInv
  <1>11. ASSUME NEW p \in Peers, Restart(p) PROVE DeletionInv'
    <2>1. Shape'
      BY <1>11, OtherPeer, DeletionAssumption DEF DeletionInv, Shape, Restart, Letter, reports,
         outboxes, notices, faults, Letters
    <2>2. LettersTrue'
      BY <1>11, OtherPeer, DeletionAssumption DEF DeletionInv, Shape, LettersTrue, Restart,
         Letter, reports, outboxes, notices, faults
    <2>3. NoticeAgrees' /\ PendingUntilApplied' /\ DismissedByHand' /\ ReportsGone'
      BY <1>11 DEF DeletionInv, NoticeAgrees, PendingUntilApplied, DismissedByHand, ReportsGone,
         Restart, Letter, reports, outboxes, notices, faults
    <2> QED
      BY <2>1, <2>2, <2>3 DEF DeletionInv
  <1>12. ASSUME NEW p \in Peers, NEW l \in net[p], CheckContent(p, l) PROVE DeletionInv'
    <2>1. Shape'
      BY <1>12, OtherPeer, DeletionAssumption DEF DeletionInv, Shape, CheckContent, Taken,
         reports, outboxes, notices, faults
    <2>2. LettersTrue'
      BY <1>12, OtherPeer, DeletionAssumption DEF DeletionInv, Shape, LettersTrue, CheckContent,
         Taken, reports, outboxes, notices, faults
    <2>3. NoticeAgrees' /\ PendingUntilApplied' /\ DismissedByHand' /\ ReportsGone'
      BY <1>12 DEF DeletionInv, NoticeAgrees, PendingUntilApplied, DismissedByHand, ReportsGone,
         CheckContent, Taken, reports, outboxes, notices, faults
    <2> QED
      BY <2>1, <2>2, <2>3 DEF DeletionInv
  <1>13. ASSUME NEW p \in Peers, NEW l \in net[p], NEW at \in Times, ExpireContent(p, l, at) PROVE DeletionInv'
    <2>1. Shape'
      BY <1>13, OtherPeer, DeletionAssumption DEF DeletionInv, Shape, ExpireContent, DeleteTx,
         Or, Taken, reports, outboxes, notices, faults, Times
    <2>2. LettersTrue'
      BY <1>13, OtherPeer, DeletionAssumption DEF DeletionInv, Shape, LettersTrue,
         ExpireContent, DeleteTx, Or, Taken, reports, outboxes, notices, faults, Times
    <2>3. NoticeAgrees'
      BY <1>13, OtherPeer, DeletionAssumption DEF DeletionInv, Shape, NoticeAgrees,
         ExpireContent, DeleteTx, Or, Taken, reports, outboxes, notices, faults, Times
    <2>4. PendingUntilApplied'
      BY <1>13, OtherPeer, DeletionAssumption DEF DeletionInv, Shape, PendingUntilApplied,
         ExpireContent, DeleteTx, Or, Taken, reports, outboxes, notices, faults
    <2>5. DismissedByHand'
      BY <1>13, OtherPeer, DeletionAssumption DEF DeletionInv, Shape, DismissedByHand,
         ExpireContent, DeleteTx, Or, Taken, reports, outboxes, notices, faults, NoticeAgrees,
         Times
    <2>6. ReportsGone'
      BY <1>13, OtherPeer, DeletionAssumption DEF DeletionInv, Shape, ReportsGone,
         ExpireContent, DeleteTx, Or, Taken, reports, outboxes, notices, faults
    <2> QED
      BY <2>1, <2>2, <2>3, <2>4, <2>5, <2>6 DEF DeletionInv
  <1>14. ASSUME NEW p \in Peers, NEW l \in net[p], ReceiveDelete(p, l) PROVE DeletionInv'
    <2>1. Shape'
      BY <1>14, OtherPeer, DeletionAssumption DEF DeletionInv, Shape, ReceiveDelete, DeleteTx,
         Or, TakenAndAnswered, Put, Letter, reports, outboxes, notices, faults, Letters,
         LettersTrue, Times
    <2>2. LettersTrue'
      BY <1>14, OtherPeer, DeletionAssumption DEF DeletionInv, Shape, LettersTrue,
         ReceiveDelete, DeleteTx, Or, TakenAndAnswered, Put, Letter, reports, outboxes, notices,
         faults
    <2>3. NoticeAgrees'
      BY <1>14, OtherPeer, DeletionAssumption DEF DeletionInv, Shape, NoticeAgrees,
         ReceiveDelete, DeleteTx, Or, TakenAndAnswered, Put, Letter, reports, outboxes, notices,
         faults, LettersTrue
    <2>4. PendingUntilApplied'
      BY <1>14, OtherPeer, DeletionAssumption DEF DeletionInv, Shape, PendingUntilApplied,
         ReceiveDelete, DeleteTx, Or, TakenAndAnswered, Put, Letter, reports, outboxes, notices,
         faults, LettersTrue
    <2>5. DismissedByHand'
      BY <1>14, OtherPeer, DeletionAssumption DEF DeletionInv, Shape, DismissedByHand,
         ReceiveDelete, DeleteTx, Or, TakenAndAnswered, Put, Letter, reports, outboxes, notices,
         faults, LettersTrue
    <2>6. ReportsGone'
      BY <1>14, OtherPeer, DeletionAssumption DEF DeletionInv, Shape, ReportsGone,
         ReceiveDelete, DeleteTx, Or, TakenAndAnswered, Put, Letter, reports, outboxes, notices,
         faults
    <2> QED
      BY <2>1, <2>2, <2>3, <2>4, <2>5, <2>6 DEF DeletionInv
  <1>15. ASSUME NEW p \in Peers, NEW l \in net[p], ReceiveApplied(p, l) PROVE DeletionInv'
    <2>1. Shape'
      BY <1>15, OtherPeer, DeletionAssumption DEF DeletionInv, Shape, ReceiveApplied, Taken,
         reports, outboxes, notices, faults
    <2>2. LettersTrue'
      BY <1>15, OtherPeer, DeletionAssumption DEF DeletionInv, Shape, LettersTrue,
         ReceiveApplied, Taken, reports, outboxes, notices, faults
    <2>3. NoticeAgrees'
      BY <1>15, OtherPeer, DeletionAssumption DEF DeletionInv, Shape, NoticeAgrees,
         ReceiveApplied, Taken, reports, outboxes, notices, faults
    <2>4. PendingUntilApplied'
      BY <1>15, OtherPeer, DeletionAssumption DEF DeletionInv, Shape, PendingUntilApplied,
         ReceiveApplied, Taken, reports, outboxes, notices, faults, LettersTrue
    <2>5. DismissedByHand' /\ ReportsGone'
      BY <1>15 DEF DeletionInv, DismissedByHand, ReportsGone, ReceiveApplied, Taken, reports,
         outboxes, notices, faults
    <2> QED
      BY <2>1, <2>2, <2>3, <2>4, <2>5 DEF DeletionInv
  <1>16. ASSUME NEW p \in Peers, NEW l \in net[p], ReceiveOk(p, l) PROVE DeletionInv'
    <2>1. Shape'
      BY <1>16, OtherPeer, DeletionAssumption DEF DeletionInv, Shape, ReceiveOk, Taken,
         TakenAndAnswered, Put, Letter, reports, outboxes, notices, faults, Letters
    <2>2. LettersTrue'
      BY <1>16, OtherPeer, DeletionAssumption DEF DeletionInv, Shape, LettersTrue, ReceiveOk,
         Taken, TakenAndAnswered, Put, Letter, reports, outboxes, notices, faults
    <2>3. NoticeAgrees'
      BY <1>16, OtherPeer, DeletionAssumption DEF DeletionInv, Shape, NoticeAgrees, ReceiveOk,
         Taken, TakenAndAnswered, Put, Letter, reports, outboxes, notices, faults
    <2>4. PendingUntilApplied'
      BY <1>16, OtherPeer, DeletionAssumption DEF DeletionInv, Shape, PendingUntilApplied,
         ReceiveOk, Taken, TakenAndAnswered, Put, Letter, reports, outboxes, notices, faults,
         LettersTrue, NoticeAgrees
    <2>5. DismissedByHand'
      BY <1>16, OtherPeer, DeletionAssumption DEF DeletionInv, Shape, DismissedByHand,
         ReceiveOk, Taken, TakenAndAnswered, Put, Letter, reports, outboxes, notices, faults,
         LettersTrue
    <2>6. ReportsGone'
      BY <1>16 DEF DeletionInv, ReportsGone, ReceiveOk, Taken, TakenAndAnswered, Put, Letter,
         reports, outboxes, notices, faults
    <2> QED
      BY <2>1, <2>2, <2>3, <2>4, <2>5, <2>6 DEF DeletionInv
  <1>17. ASSUME NEW p \in Peers, NEW l \in net[p], ReceiveOkReceipt(p, l) PROVE DeletionInv'
    <2>1. Shape'
      BY <1>17, OtherPeer, DeletionAssumption DEF DeletionInv, Shape, ReceiveOkReceipt, Taken,
         reports, outboxes, notices, faults
    <2>2. LettersTrue'
      BY <1>17, OtherPeer, DeletionAssumption DEF DeletionInv, Shape, LettersTrue,
         ReceiveOkReceipt, Taken, reports, outboxes, notices, faults
    <2>3. NoticeAgrees'
      BY <1>17, OtherPeer, DeletionAssumption DEF DeletionInv, Shape, NoticeAgrees,
         ReceiveOkReceipt, Taken, reports, outboxes, notices, faults
    <2>4. PendingUntilApplied' /\ DismissedByHand' /\ ReportsGone'
      BY <1>17 DEF DeletionInv, PendingUntilApplied, DismissedByHand, ReportsGone,
         ReceiveOkReceipt, Taken, reports, outboxes, notices, faults
    <2> QED
      BY <2>1, <2>2, <2>3, <2>4 DEF DeletionInv
  <1>18. ASSUME NEW p \in Peers, NEW l \in net[p], ReceiveEvent(p, l) PROVE DeletionInv'
    <2>1. Shape'
      BY <1>18, OtherPeer, DeletionAssumption DEF DeletionInv, Shape, ReceiveEvent,
         TakenAndAnswered, Put, Letter, reports, outboxes, notices, faults, Letters
    <2>2. LettersTrue'
      BY <1>18, OtherPeer, DeletionAssumption DEF DeletionInv, Shape, LettersTrue, ReceiveEvent,
         TakenAndAnswered, Put, Letter, reports, outboxes, notices, faults
    <2>3. ReportsGone'
      BY <1>18, OtherPeer, DeletionAssumption DEF DeletionInv, Shape, ReportsGone, ReceiveEvent,
         TakenAndAnswered, Put, Letter, reports, outboxes, notices, faults
    <2>4. NoticeAgrees' /\ PendingUntilApplied' /\ DismissedByHand'
      BY <1>18 DEF DeletionInv, NoticeAgrees, PendingUntilApplied, DismissedByHand,
         ReceiveEvent, TakenAndAnswered, Put, Letter, reports, outboxes, notices, faults
    <2> QED
      BY <2>1, <2>2, <2>3, <2>4 DEF DeletionInv
  <1>19. ASSUME NEW p \in Peers, NEW l \in net[p], ReceiveEventReceipt(p, l) PROVE DeletionInv'
    <2>1. Shape'
      BY <1>19, OtherPeer, DeletionAssumption DEF DeletionInv, Shape, ReceiveEventReceipt,
         Taken, reports, outboxes, notices, faults
    <2>2. LettersTrue'
      BY <1>19, OtherPeer, DeletionAssumption DEF DeletionInv, Shape, LettersTrue,
         ReceiveEventReceipt, Taken, reports, outboxes, notices, faults
    <2>3. ReportsGone'
      BY <1>19, OtherPeer, DeletionAssumption DEF DeletionInv, Shape, ReportsGone,
         ReceiveEventReceipt, Taken, reports, outboxes, notices, faults
    <2>4. NoticeAgrees' /\ PendingUntilApplied' /\ DismissedByHand'
      BY <1>19 DEF DeletionInv, NoticeAgrees, PendingUntilApplied, DismissedByHand,
         ReceiveEventReceipt, Taken, reports, outboxes, notices, faults
    <2> QED
      BY <2>1, <2>2, <2>3, <2>4 DEF DeletionInv
  <1>20. ASSUME NEW p \in Peers, NEW l \in net[p], Lose(p, l) PROVE DeletionInv'
    <2>1. Shape'
      BY <1>20, OtherPeer, DeletionAssumption DEF DeletionInv, Shape, Lose, reports, outboxes,
         notices, faults
    <2>2. LettersTrue'
      BY <1>20, OtherPeer, DeletionAssumption DEF DeletionInv, Shape, LettersTrue, Lose,
         reports, outboxes, notices, faults
    <2>3. NoticeAgrees' /\ PendingUntilApplied' /\ DismissedByHand' /\ ReportsGone'
      BY <1>20 DEF DeletionInv, NoticeAgrees, PendingUntilApplied, DismissedByHand, ReportsGone,
         Lose, reports, outboxes, notices, faults
    <2> QED
      BY <2>1, <2>2, <2>3 DEF DeletionInv
  <1> QED
    BY <1>1, <1>2, <1>3, <1>4, <1>5, <1>6, <1>7, <1>8, <1>9, <1>10, <1>11, <1>12, <1>13, <1>14,
       <1>15, <1>16, <1>17, <1>18, <1>19, <1>20 DEF Next, Receive

\* DeletionInv is inductive, so it always holds.
LEMMA DeletionInvariant == Spec => []DeletionInv
  BY InitDeletion, NextDeletion, PTL DEF Spec

\* A deletion that acknowledge_dm_delete or receive_dm_notice_ack takes off the
\* queue was applied by the other device, whatever was lost, repeated or
\* overtaken.
THEOREM PendingIsUntilApplied == Spec => []PendingUntilApplied
  <1>1. DeletionInv => PendingUntilApplied
    BY DEF DeletionInv
  <1> QED
    BY DeletionInvariant, <1>1, PTL

\* No receipt, retry or restart dismisses a notice of ours: the other person
\* pressed OK (acknowledge_deletion_notices), and saw the time of our operation.
THEOREM DismissedOnlyByHand == Spec => []DismissedByHand
  <1>1. DeletionInv => DismissedByHand
    BY DEF DeletionInv
  <1> QED
    BY DeletionInvariant, <1>1, PTL

\* No report outlives the message it is about, one received late included
\* (delete_dm_tx, receive_peer_event).
THEOREM ReportsAreGone == Spec => []ReportsGone
  <1>1. DeletionInv => ReportsGone
    BY DEF DeletionInv
  <1> QED
    BY DeletionInvariant, <1>1, PTL

\* The content of a deleted message never comes back (delete_dm_tx,
\* reject_deleted_dm_content, commit_incoming_message).
THEOREM DeletedStaysDeleted == Spec => NeverBack
  <1>1. DeletionInv /\ [Next]_vars => [\A p \in Peers : row[p] = "deleted" => row'[p] = "deleted"]_vars
    <2> SUFFICES ASSUME DeletionInv, Next, NEW q \in Peers, row[q] = "deleted" PROVE row'[q] = "deleted"
      OBVIOUS
    <2> USE DEF DeletionInv, Shape
    <2>1. ASSUME NEW p \in Peers, NEW queue \in BOOLEAN, NEW at, DeleteTx(p, queue, at)
          PROVE  row'[q] = "deleted"
      BY <2>1 DEF DeleteTx
    <2>2. ASSUME NEW p \in Peers, CommitContent(p) PROVE row'[q] = "deleted"
      BY <2>2 DEF CommitContent
    <2>3. ASSUME NEW p \in Peers, NEW at \in Times, Delete(p, at) PROVE row'[q] = "deleted"
      BY <2>1, <2>3 DEF Delete
    <2>4. ASSUME NEW p \in Peers, NEW l \in net[p], NEW at \in Times, ExpireContent(p, l, at)
          PROVE  row'[q] = "deleted"
      BY <2>1, <2>4 DEF ExpireContent
    <2>5. ASSUME NEW p \in Peers, NEW l \in net[p], ReceiveDelete(p, l) PROVE row'[q] = "deleted"
      BY <2>1, <2>5 DEF ReceiveDelete
    <2>6. ASSUME NEW p \in Peers, NEW l \in net[p], Receive(p, l) PROVE row'[q] = "deleted"
      <3>1. ReceiveDelete(p, l) \/ row' = row
        BY <2>6 DEF Receive, CheckContent, ReceiveApplied, ReceiveOk, ReceiveOkReceipt, ReceiveEvent,
                    ReceiveEventReceipt
      <3> QED
        BY <2>5, <3>1
    <2>7. ASSUME NEW p \in Peers, PressOk(p) \/ QueueEvent(p) \/ SendDelete(p) \/ SendOk(p)
                                  \/ SendEvent(p) \/ Restart(p)
          PROVE  row' = row
      BY <2>7 DEF PressOk, QueueEvent, SendDelete, SendOk, SendEvent, Restart
    <2>8. ASSUME NEW p \in Peers, NEW l \in net[p], Lose(p, l) PROVE row' = row
      BY <2>8 DEF Lose
    <2>9. CASE ReadBatch \/ SendContent
      BY <2>9 DEF ReadBatch, SendContent
    <2> QED
      BY <2>2, <2>3, <2>4, <2>6, <2>7, <2>8, <2>9 DEF Next
  <1> QED
    BY DeletionInvariant, <1>1, PTL DEF Spec, NeverBack

\* The parts of DeletionTypeOK that Shape leaves to it.
Rest ==
    /\ localSeen \subseteq Peers /\ remoteSeen \subseteq Peers
    /\ deleteOut \subseteq Peers /\ noticeOut \subseteq Peers
    /\ batch \in BOOLEAN /\ checked \in BOOLEAN
    /\ lost \in 0..MaxLosses /\ replayed \in 0..MaxReplays

\* Flags and queues hold peers, and no more is lost or repeated than the bounds
\* allow.
LEMMA DeletionTyped == Spec => []DeletionTypeOK
  <1>1. Init => Rest
    <2> SUFFICES ASSUME Init PROVE Rest
      OBVIOUS
    <2>1. lost \in 0..MaxLosses /\ replayed \in 0..MaxReplays
      BY DeletionAssumption, SMT DEF Init
    <2>2. batch \in BOOLEAN /\ checked \in BOOLEAN
      BY Zenon DEF Init
    <2> QED
      BY <2>1, <2>2 DEF Init, Rest
  <1>2. Rest /\ [Next]_vars => Rest'
    <2> SUFFICES ASSUME Rest, [Next]_vars PROVE Rest'
      OBVIOUS
    <2>1. CASE UNCHANGED vars
      BY <2>1 DEF Rest, vars, reports, outboxes, notices, faults
    <2>2. CASE ReadBatch \/ SendContent
      BY <2>2 DEF ReadBatch, SendContent, Rest, reports, outboxes, notices, faults
    <2>3. ASSUME NEW p \in Peers, NEW at \in Times, Delete(p, at) PROVE Rest'
      BY <2>3 DEF Delete, DeleteTx, Rest, faults
    <2>4. ASSUME NEW p \in Peers, PressOk(p) \/ QueueEvent(p) \/ SendDelete(p) \/ SendOk(p)
                                  \/ SendEvent(p) \/ CommitContent(p) \/ Restart(p)
          PROVE  Rest'
      BY <2>4 DEF PressOk, QueueEvent, SendDelete, SendOk, SendEvent, CommitContent, Restart, Rest,
         reports, outboxes, notices, faults
    <2>5. ASSUME NEW p, NEW l, Taken(p, l) PROVE lost' \in 0..MaxLosses /\ replayed' \in 0..MaxReplays
      BY <2>5, DeletionAssumption DEF Taken, Rest, faults
    <2>6. ASSUME NEW p, NEW l, NEW a, TakenAndAnswered(p, l, a)
          PROVE  lost' \in 0..MaxLosses /\ replayed' \in 0..MaxReplays
      BY <2>6, DeletionAssumption DEF TakenAndAnswered, Rest, faults
    <2>7. ASSUME NEW p \in Peers, NEW l \in net[p], NEW at \in Times, ExpireContent(p, l, at) PROVE Rest'
      BY <2>5, <2>7 DEF ExpireContent, DeleteTx, Rest
    <2>8. ASSUME NEW p \in Peers, NEW l \in net[p], Lose(p, l) PROVE Rest'
      BY <2>8, DeletionAssumption DEF Lose, Rest, outboxes, notices
    <2>9. ASSUME NEW p \in Peers, NEW l \in net[p], Receive(p, l) PROVE Rest'
      <3>1. CASE CheckContent(p, l)
        BY <3>1, <2>5 DEF CheckContent, Rest, outboxes, notices
      <3>2. CASE ReceiveDelete(p, l)
        BY <3>2, <2>6 DEF ReceiveDelete, DeleteTx, Rest
      <3>3. CASE ReceiveApplied(p, l)
        BY <3>3, <2>5 DEF ReceiveApplied, Rest, notices
      <3>4. CASE ReceiveOk(p, l)
        BY <3>4, <2>5, <2>6 DEF ReceiveOk, Rest, notices
      <3>5. CASE ReceiveOkReceipt(p, l)
        BY <3>5, <2>5 DEF ReceiveOkReceipt, Rest, notices
      <3>6. CASE ReceiveEvent(p, l)
        BY <3>6, <2>6 DEF ReceiveEvent, Rest, outboxes, notices
      <3>7. CASE ReceiveEventReceipt(p, l)
        BY <3>7, <2>5 DEF ReceiveEventReceipt, Rest, outboxes, notices
      <3> QED
        BY <2>9, <3>1, <3>2, <3>3, <3>4, <3>5, <3>6, <3>7 DEF Receive
    <2> QED
      BY <2>1, <2>2, <2>3, <2>4, <2>7, <2>8, <2>9 DEF Next
  <1>3. DeletionInv /\ Rest => DeletionTypeOK
    BY DEF DeletionInv, Shape, Rest, DeletionTypeOK
  <1> QED
    BY DeletionInvariant, <1>1, <1>2, <1>3, PTL DEF Spec

\* All of DeletionHolds, for any number of losses, replays, reports and times:
\* the request waits for the other device, its notice goes by hand, reports go
\* with the message, and what delete_dm_tx emptied stays empty.
THEOREM DeletionAlwaysHolds == Spec => DeletionHolds
  BY DeletionTyped, PendingIsUntilApplied, DismissedOnlyByHand, ReportsAreGone, DeletedStaysDeleted
  DEF DeletionHolds

=============================================================================
