--------------------------- MODULE StandaloneRelay ---------------------------
(***************************************************************************)
(* The relay run as a server of its own (core/relay/src/main.rs) over its  *)
(* SQLite storage (core/relay/src/storage.rs), seen by one key's owner.    *)
(*                                                                         *)
(* Anyone deposits; a deposit gets a row id, and the owner's connections   *)
(* (lanes) are pushed the rows and ack them by id.  A peer that dies leaves*)
(* a lane the relay still thinks open, until CLIENT_SILENT.  A restart     *)
(* forgets lanes and cursor and keeps the storage.  The owner acks what it *)
(* has handled on the lane it came by, some time later.  What happens      *)
(* between the tasks of one deposit is RelayServer's subject: here the     *)
(* handler of a frame is one step.                                         *)
(***************************************************************************)
EXTENDS Integers, Sequences, FiniteSets, SequencesExt

CONSTANTS RelayLanes,        \* connections the owner may open
          MaxClients,        \* MAX_CLIENTS: streams served at once
          RelayPending,      \* PENDING_LIMIT: rows of one catch-up or sweep
          RelayMailLimit,    \* MAX_PER_RECIPIENT
          MaxDeposits,       \* bound: letters deposited
          MaxEnds            \* bound: deaths, closes, restarts and refusals

VARIABLES
  mailbox,    \* the rows of the owner: id -> letter
  lastRow,    \* sqlite_sequence: the highest id given out
  deposits,   \* letters deposited; a letter is its number
  lanes,      \* Lanes.senders, in order of login
  lane,       \* "none", "fresh" (catch-up to start), "open", "dead"
  pushed,     \* Pushed: [high, ids]
  laneQueue,  \* the push channel: row ids with their letters
  laneGiven,  \* rows written to the lane and not acked on it
  catchingUp, \* rows the catch-up of the lane has still to offer
  handled,    \* letters the owner has taken in
  toAck,      \* row ids the owner has still to ack on each lane
  ackedOff,   \* letters removed by an ack
  ends        \* how much of MaxEnds is used

boxVars == <<mailbox, lastRow, deposits>>
laneVars == <<lanes, lane, pushed, laneQueue, laneGiven, catchingUp>>
ownerVars == <<handled, toAck, ackedOff>>
standaloneVars == <<boxVars, laneVars, ownerVars, ends>>

NothingPushed == [high |-> 0, ids |-> {}]
EmptyLanes(v) == [c \in RelayLanes |-> v]

StandaloneInit ==
  /\ mailbox = << >> /\ lastRow = 0 /\ deposits = 0
  /\ lanes = << >> /\ lane = EmptyLanes("none") /\ pushed = NothingPushed
  /\ laneQueue = EmptyLanes(<< >>) /\ laneGiven = EmptyLanes({}) /\ catchingUp = EmptyLanes(<< >>)
  /\ handled = {} /\ toAck = EmptyLanes({}) /\ ackedOff = {} /\ ends = 0

-----------------------------------------------------------------------------
\* Storage.

Lowest(rows, n) == LET s == SetToSortSeq(rows, <) IN {s[i] : i \in 1 .. (IF n < Len(s) THEN n ELSE Len(s))}
KeepRows(rows) == [id \in rows |-> mailbox[id]]

\* Storage::pending_above: ids with their letters, in order.
WithLetters(ids) == LET s == SetToSortSeq(ids, <) IN [i \in 1 .. Len(s) |-> <<s[i], mailbox[s[i]]>>]
RowsAbove(high) == WithLetters(Lowest({id \in DOMAIN mailbox : id > high}, RelayPending))

\* Mutant: the id column without AUTOINCREMENT takes up the id of a deleted row.
NextRowMutant == 1 + (IF DOMAIN mailbox = {} THEN 0 ELSE CHOOSE m \in DOMAIN mailbox : \A i \in DOMAIN mailbox : i <= m)
\* The id column is AUTOINCREMENT: an id is not given out again.
NextRow == lastRow + 1

\* Storage::deposit: the row, then the oldest beyond the limit go.
WithRow(id, letter) ==
  LET all  == DOMAIN mailbox \cup {id}
      drop == IF Cardinality(all) > RelayMailLimit THEN Lowest(all, Cardinality(all) - RelayMailLimit) ELSE {}
  IN  [i \in all \ drop |-> IF i = id THEN letter ELSE mailbox[i]]

\* Storage::gc of a row past MESSAGE_TTL.
ExpireRow(id) ==
  /\ id \in DOMAIN mailbox
  /\ ends < MaxEnds /\ ends' = ends + 1
  /\ mailbox' = KeepRows(DOMAIN mailbox \ {id})
  /\ UNCHANGED <<lastRow, deposits, laneVars, ownerVars>>

-----------------------------------------------------------------------------
\* Lanes.

Serving(c) == lane[c] # "none"
LaneLoad(c) == Cardinality(laneGiven[c]) + Len(laneQueue[c])
LeastLoaded(among) == {c \in among : \A d \in among : LaneLoad(c) <= LaneLoad(d)}
FirstLane(c) == lanes # << >> /\ Head(lanes) = c
ClaimId(cur, id) == [high |-> IF id > cur.high THEN id ELSE cur.high, ids |-> cur.ids \cup {id}]
ClaimRow(cur, row) == ClaimId(cur, row[1])

\* A stream is taken while there is a permit; with AuthV2 it becomes a lane.
\* With no lane before it the cursor starts afresh and it has to catch up.
LaneLogin(c) ==
  /\ lane[c] = "none"
  /\ Cardinality({d \in RelayLanes : Serving(d)}) < MaxClients
  /\ lanes' = Append(lanes, c)
  /\ lane' = [lane EXCEPT ![c] = IF lanes = << >> THEN "fresh" ELSE "open"]
  /\ pushed' = IF lanes = << >> THEN NothingPushed ELSE pushed
  /\ UNCHANGED <<boxVars, laneQueue, laneGiven, catchingUp, ownerVars, ends>>

\* The catch-up reads one batch ...
ReadBacklog(c) ==
  /\ lane[c] = "fresh"
  /\ catchingUp' = [catchingUp EXCEPT ![c] = RowsAbove(0)]
  /\ lane' = [lane EXCEPT ![c] = "open"]
  /\ UNCHANGED <<boxVars, lanes, pushed, laneQueue, laneGiven, ownerVars, ends>>

\* Rows go to a lane's channel, each claimed and queued unless claimed before.
Queue(c, rows) ==
  /\ pushed' = FoldLeft(ClaimRow, pushed, rows)
  /\ laneQueue' = [laneQueue EXCEPT ![c] = @ \o SelectSeq(rows, LAMBDA row : row[1] \notin pushed.ids)]

\* ... and offers it row by row.
OfferBacklog(c) ==
  /\ Serving(c) /\ catchingUp[c] # << >>
  /\ Queue(c, <<Head(catchingUp[c])>>)
  /\ catchingUp' = [catchingUp EXCEPT ![c] = Tail(@)]
  /\ UNCHANGED <<boxVars, lanes, lane, laneGiven, ownerVars, ends>>

\* A refresh tick of the first lane: what is above the cursor.
RefreshSweep(c) ==
  /\ lane[c] \in {"open", "dead"} /\ FirstLane(c)
  /\ RowsAbove(pushed.high) # << >>
  /\ Queue(c, RowsAbove(pushed.high))
  /\ UNCHANGED <<boxVars, lanes, lane, laneGiven, catchingUp, ownerVars, ends>>

\* ClientToRelay::Send: stored, claimed for the least loaded lane, answered,
\* queued.  A sender whose stream fails at the answer leaves it claimed.
DepositRow ==
  /\ deposits < MaxDeposits
  /\ deposits' = deposits + 1
  /\ lastRow' = IF NextRow > lastRow THEN NextRow ELSE lastRow
  /\ mailbox' = WithRow(NextRow, deposits + 1)
  /\ pushed' = IF lanes = << >> THEN pushed ELSE ClaimId(pushed, NextRow)
  /\ \/ /\ lanes # << >> /\ NextRow \notin pushed.ids
        /\ \E c \in LeastLoaded(ToSet(lanes)) :
              laneQueue' = [laneQueue EXCEPT ![c] = Append(@, <<NextRow, deposits + 1>>)]
        /\ UNCHANGED ends
     \/ (lanes = << >> \/ NextRow \in pushed.ids) /\ UNCHANGED <<laneQueue, ends>>
     \/ lanes # << >> /\ ends < MaxEnds /\ ends' = ends + 1 /\ UNCHANGED laneQueue
  /\ UNCHANGED <<lanes, lane, laneGiven, catchingUp, ownerVars>>

\* client_loop writes a push to the stream; a living owner takes it in, and
\* has its id to ack.
WritePush(c) ==
  /\ Serving(c) /\ laneQueue[c] # << >>
  /\ LET row == Head(laneQueue[c])
     IN  /\ laneGiven' = [laneGiven EXCEPT ![c] = @ \cup {row[1]}]
         /\ IF lane[c] = "dead" THEN UNCHANGED <<handled, toAck>>
            ELSE handled' = handled \cup {row[2]} /\ toAck' = [toAck EXCEPT ![c] = @ \cup {row[1]}]
  /\ laneQueue' = [laneQueue EXCEPT ![c] = Tail(@)]
  /\ UNCHANGED <<boxVars, lanes, lane, pushed, catchingUp, ackedOff, ends>>

\* ClientToRelay::Ack, then the sweep above the cursor.
AckRow(c, id) ==
  /\ lane[c] \in {"fresh", "open"} /\ id \in toAck[c]
  /\ toAck' = [toAck EXCEPT ![c] = @ \ {id}]
  /\ ackedOff' = IF id \in DOMAIN mailbox THEN ackedOff \cup {mailbox[id]} ELSE ackedOff
  /\ mailbox' = KeepRows(DOMAIN mailbox \ {id})
  /\ laneGiven' = [laneGiven EXCEPT ![c] = @ \ {id}]
  /\ LET more == SelectSeq(RowsAbove(pushed.high), LAMBDA row : row[1] # id)
     IN  /\ pushed' = FoldLeft(ClaimRow, [pushed EXCEPT !.ids = @ \ {id}], more)
         /\ laneQueue' = [laneQueue EXCEPT ![c] = @ \o more]
  /\ UNCHANGED <<lastRow, deposits, lanes, lane, catchingUp, handled, ends>>

\* The owner's side goes without a close.
PeerDies(c) ==
  /\ lane[c] \in {"fresh", "open"} /\ ends < MaxEnds
  /\ ends' = ends + 1
  /\ lane' = [lane EXCEPT ![c] = "dead"]
  /\ catchingUp' = IF lane[c] = "fresh" THEN [catchingUp EXCEPT ![c] = RowsAbove(0)] ELSE catchingUp
  /\ UNCHANGED <<boxVars, lanes, pushed, laneQueue, laneGiven, ownerVars>>

\* The lane ends, on an error or silent for too long; what it was given and is
\* still stored is dealt to the others (redeal).
LaneEnds(c) ==
  /\ Serving(c)
  /\ \/ lane[c] = "dead" /\ UNCHANGED ends
     \/ lane[c] # "dead" /\ ends < MaxEnds /\ ends' = ends + 1
  /\ lane' = [lane EXCEPT ![c] = "none"]
  /\ lanes' = SelectSeq(lanes, LAMBDA d : d # c)
  /\ LET given  == laneGiven[c] \cup {row[1] : row \in ToSet(laneQueue[c])}
         rows   == WithLetters(given \cap DOMAIN mailbox)
         others == LeastLoaded(ToSet(lanes) \ {c})
     IN  IF others = {} THEN laneQueue' = [laneQueue EXCEPT ![c] = << >>]
         ELSE \E d \in others : laneQueue' = [laneQueue EXCEPT ![c] = << >>, ![d] = @ \o rows]
  /\ laneGiven' = [laneGiven EXCEPT ![c] = {}]
  /\ catchingUp' = [catchingUp EXCEPT ![c] = << >>]
  /\ toAck' = [toAck EXCEPT ![c] = {}]
  /\ UNCHANGED <<boxVars, pushed, handled, ackedOff>>

\* The process stops and starts again: the storage is what is left.
RelayRestarts ==
  /\ ends < MaxEnds /\ ends' = ends + 1
  /\ lanes' = << >> /\ lane' = EmptyLanes("none") /\ pushed' = NothingPushed
  /\ laneQueue' = EmptyLanes(<< >>) /\ laneGiven' = EmptyLanes({}) /\ catchingUp' = EmptyLanes(<< >>)
  /\ toAck' = EmptyLanes({})
  /\ UNCHANGED <<boxVars, handled, ackedOff>>

LaneStep(c) == ReadBacklog(c) \/ OfferBacklog(c) \/ RefreshSweep(c) \/ WritePush(c)

StandaloneNext ==
  \/ DepositRow \/ RelayRestarts
  \/ \E c \in RelayLanes : LaneLogin(c) \/ LaneStep(c) \/ PeerDies(c) \/ LaneEnds(c)
  \/ \E c \in RelayLanes, id \in 1 .. MaxDeposits : AckRow(c, id)
  \/ \E id \in 1 .. MaxDeposits : ExpireRow(id)

\* The relay's tasks are polled; a dead lane is noticed; the owner keeps a lane
\* and acks what it took in.
StandaloneFairness ==
  \A c \in RelayLanes :
    /\ WF_standaloneVars(LaneStep(c))
    /\ WF_standaloneVars(lane[c] = "dead" /\ LaneEnds(c))
    /\ WF_standaloneVars(LaneLogin(c))
    /\ WF_standaloneVars(\E id \in 1 .. MaxDeposits : AckRow(c, id))

StandaloneSpec == StandaloneInit /\ [][StandaloneNext]_standaloneVars /\ StandaloneFairness

-----------------------------------------------------------------------------
\* An ack removes only a letter its owner has taken in, though rows expire, are
\* evicted or are dealt to another lane while the ack is on its way.
AckedWasHandled == ackedOff \subseteq handled

\* "Catching up on what was stored is the first live connection's job"
\* (main.rs:26): what is stored reaches the owner while a lane is up.
StoredArrives ==
  \A l \in 1 .. MaxDeposits :
    (\E id \in DOMAIN mailbox : mailbox[id] = l)
      ~> (l \in handled \/ ~ \E id \in DOMAIN mailbox : mailbox[id] = l)
=============================================================================
