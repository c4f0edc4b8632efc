----------------------------- MODULE RelayServer -----------------------------
(***************************************************************************)
(* How a relay hands one owner's letters to the owner's connections        *)
(* (handle_client, client_loop and redeal of libcore/src/relay_server.rs)  *)
(* over the mailbox of MemStore.                                           *)
(*                                                                         *)
(* The owner may have several connections, the lanes.  They share a cursor *)
(* of what was handed out; whoever claims an id there pushes it: the task  *)
(* of its deposit, the catch-up of the first lane, a refresh tick or the   *)
(* sweep after an ack.  The pushes go through a bounded channel per lane.  *)
(* Each `.await' at which another task may run ends a step.  A connection  *)
(* name is used again after its handler has returned.                      *)
(***************************************************************************)
EXTENDS MemStore, SequencesExt

CONSTANTS Conns,         \* connections the owner may open
          Owner,         \* the key this relay serves (MemStoreLimits.personal)
          PushCapacity,  \* PUSH_CAPACITY
          MaxCloses,     \* bound: connections that end
          MaxDrops,      \* bound: depositors gone before they are answered
          MaxDeclines    \* bound: letters the client takes and does not ack

ASSUME RelayServerAssumption ==
    /\ Owner \in Keys /\ Lens # {}
    /\ PushCapacity \in Nat \ {0}
    /\ MaxCloses \in Nat /\ MaxDrops \in Nat /\ MaxDeclines \in Nat

VARIABLES senders,   \* Lanes.senders: the registered connections, in order
          cursor,    \* Pushed: [high, ids]
          conn,      \* "idle" | "new" (catch-up to start) | "open" | "closed"
          chan,      \* the push channel of each connection
          given,     \* pushed down a connection and not acked on it
          catchUp,   \* ids the first lane's catch-up has still to offer
          held,      \* ids a catch-up claimed and waits for room to push
          refresh,   \* ids a refresh tick has still to offer
          ackSweep,  \* ids the sweep of an ack has still to offer
          tasks,     \* deposits and redeals under way: [id, stage, lane]
          declined,  \* letters the client has and answers with no ack
          closes, drops, declines   \* how much of the bounds is used

bounds == <<closes, drops, declines>>
pushVars == <<senders, cursor, conn, chan, given, catchUp, held, refresh,
              ackSweep, tasks, declined, bounds>>
vars == <<storeVars, pushVars>>

Ids == 1..MaxId
NoLane == "none"

Open(c) == conn[c] \in {"new", "open"}
Live == {c \in Range(senders) : Open(c)}
Load(c) == Cardinality(given[c]) + Len(chan[c])
Room(c) == Len(chan[c]) < PushCapacity
IsFirst(c) == Open(c) /\ Head(SelectSeq(senders, Open)) = c
Stored == DOMAIN inner.messages
InOrder(S) == SetToSortSeq(S, <)

\* Lanes::pick: a live lane with the least outstanding, any among equals.
Pick == {c \in Live : \A d \in Live : Load(c) <= Load(d)}

Unclaimed == [high |-> 0, ids |-> {}]
Claimed(cur, id) == [high |-> Max({cur.high, id}), ids |-> cur.ids \cup {id}]

Task(id, stage, lane) == [id |-> id, stage |-> stage, lane |-> lane]

-----------------------------------------------------------------------------

Init ==
    /\ inner = EmptyInner /\ serving = Owner
    /\ senders = <<>> /\ cursor = Unclaimed
    /\ conn = [c \in Conns |-> "idle"]
    /\ chan = [c \in Conns |-> <<>>]
    /\ given = [c \in Conns |-> {}]
    /\ catchUp = [c \in Conns |-> <<>>] /\ held = [c \in Conns |-> {}]
    /\ refresh = [c \in Conns |-> <<>>] /\ ackSweep = [c \in Conns |-> <<>>]
    /\ tasks = {} /\ declined = {}
    /\ closes = 0 /\ drops = 0 /\ declines = 0

\* handle_client up to AuthOk: the lane is registered; with no live one before
\* it the cursor starts afresh and the lane has the catch-up to do.
Register(c) ==
    /\ conn[c] = "idle"
    /\ senders' = Append(SelectSeq(senders, Open), c)
    /\ cursor' = IF Live = {} THEN Unclaimed ELSE cursor
    /\ conn' = [conn EXCEPT ![c] = IF Live = {} THEN "new" ELSE "open"]
    /\ UNCHANGED <<storeVars, chan, given, catchUp, held, refresh, ackSweep,
                   tasks, declined, bounds>>

\* The catch-up task reads what is stored ...
StartCatchUp(c) ==
    /\ conn[c] = "new"
    /\ catchUp' = [catchUp EXCEPT ![c] = InOrder(PendingAbove(Owner, 0))]
    /\ conn' = [conn EXCEPT ![c] = "open"]
    /\ UNCHANGED <<storeVars, senders, cursor, chan, given, held, refresh, ackSweep,
                   tasks, declined, bounds>>

\* ... claims the next of it, unless a deposit did, and queues it; with the
\* channel full it waits, the claim made.
CatchUp(c) ==
    /\ Open(c) /\ catchUp[c] # <<>> /\ held[c] = {}
    /\ LET id == Head(catchUp[c])
           queues == id \notin cursor.ids /\ Room(c)
       IN  /\ cursor' = Claimed(cursor, id)
           /\ chan' = IF queues THEN [chan EXCEPT ![c] = Append(@, id)] ELSE chan
           /\ held' = [held EXCEPT ![c] = IF id \in cursor.ids \/ Room(c) THEN {} ELSE {id}]
    /\ catchUp' = [catchUp EXCEPT ![c] = Tail(@)]
    /\ UNCHANGED <<storeVars, senders, conn, given, refresh, ackSweep,
                   tasks, declined, bounds>>

CatchUpResume(c) ==
    /\ Open(c) /\ Room(c)
    /\ \E id \in held[c] : chan' = [chan EXCEPT ![c] = Append(@, id)]
    /\ held' = [held EXCEPT ![c] = {}]
    /\ UNCHANGED <<storeVars, senders, cursor, conn, given, catchUp, refresh, ackSweep,
                   tasks, declined, bounds>>

\* Offer the next id of a sweep with try_send: a full channel ends the sweep,
\* with the id claimed.
Offer(c, sweep) ==
    LET id    == Head(sweep[c])
        fresh == id \notin cursor.ids
    IN  /\ cursor' = Claimed(cursor, id)
        /\ chan' = IF fresh /\ Room(c) THEN [chan EXCEPT ![c] = Append(@, id)] ELSE chan
        /\ sweep' = [sweep EXCEPT ![c] = IF fresh /\ ~ Room(c) THEN <<>> ELSE Tail(@)]

\* A refresh tick, on the first live lane, looks above the cursor.
RefreshTick(c) ==
    /\ conn[c] = "open" /\ IsFirst(c) /\ refresh[c] = <<>>
    /\ PendingAbove(Owner, cursor.high) # {}
    /\ refresh' = [refresh EXCEPT ![c] = InOrder(PendingAbove(Owner, cursor.high))]
    /\ UNCHANGED <<storeVars, senders, cursor, conn, chan, given, catchUp, held, ackSweep,
                   tasks, declined, bounds>>

RefreshOffer(c) ==
    /\ Open(c) /\ refresh[c] # <<>>
    /\ Offer(c, refresh)
    /\ UNCHANGED <<storeVars, senders, conn, given, catchUp, held, ackSweep,
                   tasks, declined, bounds>>

\* ClientToRelay::Send from anyone: the mailbox takes the letter ...
Send(len) ==
    /\ DepositAccepted(Owner, len) /\ inner.next_id < MaxId
    /\ inner' = Deposited(inner, Owner, len)
    /\ tasks' = tasks \cup {Task(inner'.next_id, "stored", NoLane)}
    /\ UNCHANGED <<serving, senders, cursor, conn, chan, given, catchUp, held, refresh,
                   ackSweep, declined, bounds>>

\* ... the handler picks a lane and claims the id for it, or leaves the letter
\* to whoever claimed it or to the lane that connects next ...
ClaimDepositMutant(t) ==
    /\ t.stage = "stored"
    /\ \/ \E c \in Pick : tasks' = (tasks \ {t}) \cup {Task(t.id, "answer", c)}
       \/ Pick = {} /\ tasks' = tasks \ {t}
    /\ UNCHANGED <<storeVars, cursor, senders, conn, chan, given, catchUp, held, refresh,
                   ackSweep, declined, bounds>>
ClaimDeposit(t) ==
    /\ t.stage = "stored"
    /\ \/ \E c \in Pick :
             /\ t.id \notin cursor.ids
             /\ cursor' = Claimed(cursor, t.id)
             /\ tasks' = (tasks \ {t}) \cup {Task(t.id, "answer", c)}
       \/ /\ Pick = {} \/ t.id \in cursor.ids
          /\ cursor' = IF Pick = {} THEN cursor ELSE Claimed(cursor, t.id)
          /\ tasks' = tasks \ {t}
    /\ UNCHANGED <<storeVars, senders, conn, chan, given, catchUp, held, refresh,
                   ackSweep, declined, bounds>>

\* ... answers the depositor, whose connection may be gone: then the handler
\* returns before the push is spawned ...
AnswerDeposit(t) ==
    /\ t.stage = "answer"
    /\ \/ tasks' = (tasks \ {t}) \cup {Task(t.id, "push", t.lane)} /\ UNCHANGED drops
       \/ /\ drops < MaxDrops
          /\ drops' = drops + 1
          /\ tasks' = tasks \ {t}
    /\ UNCHANGED <<storeVars, senders, cursor, conn, chan, given, catchUp, held, refresh,
                   ackSweep, declined, closes, declines>>

\* ... and the spawned task queues it, on another lane if that one has closed;
\* the second attempt, like a redealt letter's, is the last.
Push(t) ==
    /\ t.stage \in {"push", "last"}
    /\ \/ /\ Open(t.lane) /\ Room(t.lane)
          /\ chan' = [chan EXCEPT ![t.lane] = Append(@, t.id)]
          /\ tasks' = tasks \ {t}
       \/ /\ ~ Open(t.lane) /\ UNCHANGED chan
          /\ \/ /\ t.stage = "push"
                /\ \E c \in Pick : tasks' = (tasks \ {t}) \cup {Task(t.id, "last", c)}
             \/ (t.stage = "last" \/ Pick = {}) /\ tasks' = tasks \ {t}
    /\ UNCHANGED <<storeVars, senders, cursor, conn, given, catchUp, held, refresh,
                   ackSweep, declined, bounds>>

\* client_loop takes a push off the channel and writes it to the client.
Take(c) ==
    /\ Open(c) /\ ackSweep[c] = <<>> /\ chan[c] # <<>>
    /\ chan' = [chan EXCEPT ![c] = Tail(@)]
    /\ given' = [given EXCEPT ![c] = @ \cup {Head(chan[c])}]
    /\ cursor' = Claimed(cursor, Head(chan[c]))
    /\ declined' = declined \ {Head(chan[c])}
    /\ UNCHANGED <<storeVars, senders, conn, catchUp, held, refresh, ackSweep,
                   tasks, bounds>>

\* ClientToRelay::Ack of a letter taken off this connection, then its sweep.
AckFrame(c, id) ==
    /\ Open(c) /\ ackSweep[c] = <<>> /\ id \in given[c] \ declined
    /\ inner' = Acked(inner, Owner, id)
    /\ given' = [given EXCEPT ![c] = @ \ {id}]
    /\ cursor' = [cursor EXCEPT !.ids = @ \ {id}]
    /\ ackSweep' = [ackSweep EXCEPT ![c] = InOrder({i \in PendingAbove(Owner, cursor.high) : i # id})]
    /\ UNCHANGED <<serving, senders, conn, chan, catchUp, held, refresh,
                   tasks, declined, bounds>>

AckOffer(c) ==
    /\ Open(c) /\ ackSweep[c] # <<>>
    /\ Offer(c, ackSweep)
    /\ UNCHANGED <<storeVars, senders, conn, given, catchUp, held, refresh,
                   tasks, declined, bounds>>

\* The client could not store the letter just now (handle_relay_frame of
\* session.rs, a transient error): it says nothing and waits to be offered it
\* again.
Decline(c, id) ==
    /\ Open(c) /\ id \in given[c] \ declined
    /\ declines < MaxDeclines
    /\ declines' = declines + 1
    /\ declined' = declined \cup {id}
    /\ UNCHANGED <<storeVars, senders, cursor, conn, chan, given, catchUp, held, refresh,
                   ackSweep, tasks, closes, drops>>

\* The connection ends, by an error, a close or CLIENT_SILENT: its tasks are
\* aborted, its channel closed, and what was queued counts as given.
CloseMutant(c) ==
    /\ Open(c) /\ ackSweep[c] = <<>> /\ closes < MaxCloses
    /\ closes' = closes + 1
    /\ conn' = [conn EXCEPT ![c] = "closed"]
    /\ chan' = [chan EXCEPT ![c] = <<>>]
    /\ catchUp' = [catchUp EXCEPT ![c] = <<>>] /\ held' = [held EXCEPT ![c] = {}]
    /\ refresh' = [refresh EXCEPT ![c] = <<>>]
    /\ UNCHANGED <<storeVars, senders, cursor, given, ackSweep, tasks, declined, drops, declines>>
Close(c) ==
    /\ Open(c) /\ ackSweep[c] = <<>> /\ closes < MaxCloses
    /\ closes' = closes + 1
    /\ conn' = [conn EXCEPT ![c] = "closed"]
    /\ given' = [given EXCEPT ![c] = @ \cup Range(chan[c])]
    /\ chan' = [chan EXCEPT ![c] = <<>>]
    /\ catchUp' = [catchUp EXCEPT ![c] = <<>>] /\ held' = [held EXCEPT ![c] = {}]
    /\ refresh' = [refresh EXCEPT ![c] = <<>>]
    /\ UNCHANGED <<storeVars, senders, cursor, ackSweep, tasks, declined, drops, declines>>

\* The handler unregisters its lane and deals what the lane was given and the
\* mailbox still lists to the others (redeal).
Unregister(c) ==
    /\ conn[c] = "closed"
    /\ LET others == SelectSeq(senders, LAMBDA d : d # c /\ Open(d))
           owed   == PendingAbove(Owner, 0) \cap given[c]
           lanes  == {d \in Range(others) : \A e \in Range(others) : Load(d) <= Load(e)}
       IN  /\ senders' = others
           /\ \E f \in [IF lanes = {} THEN {} ELSE owed -> lanes] :
                 tasks' = tasks \cup {Task(id, "last", f[id]) : id \in DOMAIN f}
    /\ conn' = [conn EXCEPT ![c] = "idle"]
    /\ given' = [given EXCEPT ![c] = {}]
    /\ UNCHANGED <<storeVars, cursor, chan, catchUp, held, refresh, ackSweep,
                   declined, bounds>>

ConnStep(c) ==
    \/ StartCatchUp(c) \/ CatchUp(c) \/ CatchUpResume(c)
    \/ RefreshTick(c) \/ RefreshOffer(c)
    \/ Take(c) \/ AckOffer(c) \/ Unregister(c)

TaskStep(t) == ClaimDeposit(t) \/ AnswerDeposit(t) \/ Push(t)

Next ==
    \/ \E c \in Conns : Register(c) \/ ConnStep(c) \/ Close(c)
    \/ \E c \in Conns, id \in Ids : AckFrame(c, id) \/ Decline(c, id)
    \/ \E t \in tasks : TaskStep(t)
    \/ \E len \in Lens : Send(len)

Spec == Init /\ [][Next]_vars

-----------------------------------------------------------------------------

\* The relay's bookkeeping has its shape, a channel within its capacity.
PushTypeOK ==
    /\ StoreTypeOK
    /\ senders \in Seq(Conns) /\ IsInjective(senders)
    /\ cursor \in [high : 0..MaxId, ids : SUBSET Ids]
    /\ conn \in [Conns -> {"idle", "new", "open", "closed"}]
    /\ \A c \in Conns : Range(chan[c]) \subseteq Ids /\ Len(chan[c]) <= PushCapacity
    /\ given \in [Conns -> SUBSET Ids] /\ held \in [Conns -> SUBSET Ids]
    /\ \A c \in Conns : Range(catchUp[c]) \cup Range(refresh[c]) \cup Range(ackSweep[c]) \subseteq Ids
    /\ \A t \in tasks : t.id \in Ids /\ t.stage \in {"stored", "answer", "push", "last"}
    /\ declined \subseteq Ids

\* Someone has the letter to push: a lane or a task.  A closed lane counts
\* until its handler has dealt its letters to the others.
InHand(id) ==
    \/ \E c \in Conns : conn[c] # "idle" /\ id \in Range(chan[c]) \cup given[c] \cup held[c]
    \/ \E t \in tasks : t.id = id /\ t.stage # "stored"

\* A letter not claimed is still ahead of a sweep, of the catch-up or of the
\* handler that stored it.
AheadOfASweep(id) ==
    \/ id > cursor.high
    \/ Task(id, "stored", NoLane) \in tasks
    \/ \E c \in Conns :
          conn[c] = "new"
          \/ (Open(c) /\ id \in Range(catchUp[c]) \cup Range(refresh[c]) \cup Range(ackSweep[c]))

\* "Whoever marks a message first - its deposit, an Ack's sweep, the catch-up -
\* is the one that pushes it" (relay_server.rs:69): with a lane connected, a
\* letter claimed in the cursor is in somebody's hands, whichever lanes have
\* closed.  (Not so after a depositor is cut off between the claim and its
\* answer, or a sweep meets a full channel: both end with the letter claimed.)
ClaimedIsPushed ==
    Live # {} => \A id \in Stored \cap cursor.ids : InHand(id)

\* "Another connection of this key is catching up already" (relay_server.rs:519):
\* with a lane connected, a stored letter nobody claimed is one that a sweep
\* will still come to.  Below the cursor and unclaimed it waits until the last
\* of the owner's connections has closed.
UnclaimedIsAhead ==
    Live # {} => \A id \in Stored \ cursor.ids : AheadOfASweep(id)

\* The same while no connection has closed: then no race of deposits, sweeps
\* and the catch-up moves the cursor past a letter nobody has looked at.
NoneOvertaken == closes = 0 => UnclaimedIsAhead

\* While no connection has closed, a letter is with one lane at a time and
\* there once: the deposit, the sweeps and the catch-up race for it at the
\* cursor and one wins ("parts twice", relay_server.rs:72).
PushedOnce ==
    closes = 0 =>
      \A c \in Conns :
        /\ IsInjective(chan[c])
        /\ Range(chan[c]) \cap given[c] = {}
        /\ \A d \in Conns \ {c} :
             (Range(chan[c]) \cup given[c]) \cap (Range(chan[d]) \cup given[d]) = {}

\* What the lanes of a key are dealt: each letter once, and none passed over,
\* while deposits, acks, sweeps and the catch-up race for the cursor.
DealtOnce == PushTypeOK /\ PushedOnce /\ NoneOvertaken
=============================================================================
