------------------------------- MODULE Session -------------------------------
(***************************************************************************)
(* Two peers of libcore/src/session.rs: opening a session, both ways at    *)
(* once included; sending with retries until the other end's own ack; and  *)
(* receiving through the durable inbox, with crashes in between.           *)
(*                                                                         *)
(* A session is named by the init that opened it, <<peer, count>>.  Within *)
(* it a letter opens once (module Ratchet): `spent' marks a copy still at  *)
(* the relay whose key is used.  A retry is a fresh letter.  Letters wait  *)
(* at the recipient's relay, in `net', until the recipient acks them.      *)
(* One-time prekeys are spent in the order they are published, so the one  *)
(* published, `opk', tells which are spent.                                *)
(***************************************************************************)
EXTENDS Naturals, Sequences

CONSTANTS Callers,      \* tasks of a peer that may open a session at once
          Prefetched,   \* TRUE: bundles come from bundle_cache, FALSE: they are asked for
          Reorders,     \* TRUE: letters may overtake each other
          MaxInits,     \* bound: inits of each peer
          MaxInbox,     \* bound: letters in an inbox
          MaxCrashes,   \* bound: crashes of either peer
          MaxResets,    \* bound: sessions reset by the user
          MaxLostAcks,  \* bound: acks to the relay that do not get through
          MaxDbFails,   \* bound: commits that fail
          MaxLosses     \* bound: letters lost with the connection they were sent on

ASSUME SessionAssumption ==
    /\ Callers # {} /\ Reorders \in BOOLEAN /\ Prefetched \in BOOLEAN
    /\ MaxInits \in Nat /\ MaxInbox \in Nat /\ MaxCrashes \in Nat /\ MaxResets \in Nat
    /\ MaxLostAcks \in Nat /\ MaxDbFails \in Nat /\ MaxLosses \in Nat

\* A peer is its signing key, as ours_stands compares it; each peer has one
\* message for the other.
Peers == {1, 2}
Other(p) == 3 - p

VARIABLES mem,      \* sessions: the session in memory, if any
          disk,     \* the session saved in the database, if any
          own,      \* own_inits: our init awaits its first answer
          lost,     \* lost_inits: their session, set aside for ours
          ens,      \* ensure_session_for of each task: <<>> or <<opk fetched>>
          opk,      \* the one-time prekey published and not spent
          inits,    \* inits sent so far
          net,      \* letters held for each peer by its relay, in order
          inbox,    \* letters committed and not yet processed
          stored,   \* messages in the database of their recipient
          events,   \* IncomingPayload events raised for the peer's message
          sending,  \* the peer's own message: "unsent" | "sent" | "delivered"
          faults    \* [crashes, resets, acks, db, losses]: how much of the bounds is used

vars == <<mem, disk, own, lost, ens, opk, inits, net, inbox, stored, events, sending, faults>>

NoSession == <<0, 0>>
Sids == Peers \X (1..MaxInits)

FirstLetter(p, sid, k) == [kind |-> "init", sid |-> sid, opk |-> k, spent |-> FALSE, from |-> p]
MessageLetter(p, sid) == [kind |-> "message", sid |-> sid, opk |-> 0, spent |-> FALSE, from |-> p]
Receipt(p, sid) == [kind |-> "receipt", sid |-> sid, opk |-> 0, spent |-> FALSE, from |-> p]

\* A letter is in a queue, and the queue but for one letter.
Held(s, x) == \E i \in 1..Len(s) : s[i] = x
WithoutAt(s, i) == SubSeq(s, 1, i - 1) \o SubSeq(s, i + 1, Len(s))

\* sessions, falling back to the database.
Current(p) == IF mem[p] # NoSession THEN mem[p] ELSE disk[p]

Fault(f) == faults' = [faults EXCEPT ![f] = @ + 1]

OursStands(p) == p < Other(p)

\* deliver: a letter waits at the other end's relay, unless it went into a
\* connection that was closing.  (It is sent again only once its last copy is
\* off the relay.)
Deliver(p, l) ==
    \/ /\ net' = IF Held(net[Other(p)], l) THEN net
                  ELSE [net EXCEPT ![Other(p)] = Append(@, l)]
       /\ UNCHANGED faults
    \/ /\ faults.losses < MaxLosses /\ Fault("losses")
       /\ UNCHANGED net

-----------------------------------------------------------------------------

Init ==
    /\ mem = [p \in Peers |-> NoSession] /\ disk = [p \in Peers |-> NoSession]
    /\ own = [p \in Peers |-> FALSE] /\ lost = [p \in Peers |-> NoSession]
    /\ ens = [p \in Peers |-> [c \in Callers |-> <<>>]]
    /\ opk = [p \in Peers |-> 1] /\ inits = [p \in Peers |-> 0]
    /\ net = [p \in Peers |-> <<>>]
    /\ inbox = [p \in Peers |-> <<>>] /\ stored = [p \in Peers |-> FALSE]
    /\ events = [p \in Peers |-> 0]
    /\ sending = [p \in Peers |-> "unsent"]
    /\ faults = [crashes |-> 0, resets |-> 0, acks |-> 0, db |-> 0, losses |-> 0]

\* The rest of ensure_session_for once it has a bundle: our session is saved
\* and used, whatever happened meanwhile, and the init sent.
OpenSession(p, k) ==
    LET sid == <<p, inits[p] + 1>>
    IN  /\ inits[p] < MaxInits
        /\ inits' = [inits EXCEPT ![p] = @ + 1]
        /\ own' = [own EXCEPT ![p] = TRUE]
        /\ lost' = [lost EXCEPT ![p] = NoSession]
        /\ disk' = [disk EXCEPT ![p] = sid]
        /\ mem' = [mem EXCEPT ![p] = sid]
        /\ Deliver(p, FirstLetter(p, sid, k))
        /\ UNCHANGED <<opk, inbox, stored, events, sending>>

\* ensure_session_for with nothing saved: the bundle is there already ...
OpenPrefetched(p) ==
    /\ Prefetched /\ Current(p) = NoSession
    /\ OpenSession(p, opk[Other(p)])
    /\ UNCHANGED ens

\* ... or it is asked for, and the answer awaited.
FetchBundle(p, c) ==
    /\ ~ Prefetched /\ Current(p) = NoSession /\ ens[p][c] = <<>>
    /\ ens' = [ens EXCEPT ![p][c] = <<opk[Other(p)]>>]
    /\ UNCHANGED <<mem, disk, own, lost, opk, inits, net, inbox, stored, events, sending, faults>>

OpenFetched(p, c) ==
    /\ ens[p][c] # <<>>
    /\ OpenSession(p, Head(ens[p][c]))
    /\ ens' = [ens EXCEPT ![p][c] = <<>>]

\* flush_all_pending sends what is unsent or not acked, on the current session.
SendMessageMutant(p) ==
    /\ Current(p) # NoSession /\ sending[p] = "unsent"
    /\ ~ Held(net[Other(p)], MessageLetter(p, Current(p)))
    /\ mem' = [mem EXCEPT ![p] = Current(p)]
    /\ Deliver(p, MessageLetter(p, Current(p)))
    /\ sending' = [sending EXCEPT ![p] = "sent"]
    /\ UNCHANGED <<disk, own, lost, ens, opk, inits, inbox, stored, events>>
SendMessage(p) ==
    /\ Current(p) # NoSession /\ sending[p] # "delivered"
    /\ ~ Held(net[Other(p)], MessageLetter(p, Current(p)))
    /\ mem' = [mem EXCEPT ![p] = Current(p)]
    /\ Deliver(p, MessageLetter(p, Current(p)))
    /\ sending' = [sending EXCEPT ![p] = "sent"]
    /\ UNCHANGED <<disk, own, lost, ens, opk, inits, inbox, stored, events>>

\* The letter leaves the relay, unless the ack is lost (a crash or a closed
\* connection): then it is offered again, its key spent.
AckTo(p, i) ==
    \/ net' = [net EXCEPT ![p] = WithoutAt(@, i)] /\ UNCHANGED faults
    \/ /\ faults.acks < MaxLostAcks
       /\ Fault("acks")
       /\ net' = [net EXCEPT ![p][i].spent = TRUE]

\* An init opens with a one-time prekey not spent: handle_incoming_envelope,
\* EnvelopeBlob::X3dhInit.  If it crossed an init of ours and ours stands, it
\* is set aside; otherwise it becomes the session.
ReceiveInit(p, i) ==
    LET l == net[p][i]
        crossed == own[p] /\ mem[p] # NoSession /\ lost[p] = NoSession
        aside   == crossed /\ OursStands(p)
    IN  /\ l.kind = "init" /\ l.opk = opk[p]
        /\ opk' = [opk EXCEPT ![p] = @ + 1]
        /\ lost' = [lost EXCEPT ![p] = IF aside THEN l.sid ELSE NoSession]
        /\ own' = [own EXCEPT ![p] = aside]
        /\ mem' = [mem EXCEPT ![p] = IF aside THEN @ ELSE l.sid]
        /\ disk' = [disk EXCEPT ![p] = IF aside THEN @ ELSE l.sid]
        /\ AckTo(p, i)
        /\ UNCHANGED <<ens, inits, inbox, stored, events, sending>>

\* EnvelopeBlob::Ratchet on the session in use: its new state and the letter
\* are committed together, and our init has its answer ...
ReceiveOnSession(p, i) ==
    LET l == net[p][i]
    IN  /\ l.kind # "init" /\ l.sid = Current(p) /\ ~ l.spent
        /\ mem' = [mem EXCEPT ![p] = Current(p)]
        /\ own' = [own EXCEPT ![p] = FALSE]
        /\ Len(inbox[p]) < MaxInbox
        /\ inbox' = [inbox EXCEPT ![p] = Append(@, l.kind)]
        /\ AckTo(p, i)
        /\ UNCHANGED <<disk, lost, ens, opk, inits, stored, events, sending>>

\* ... or on the session set aside; that state is in memory only ...
ReceiveOnLost(p, i) ==
    LET l == net[p][i]
    IN  /\ l.kind # "init" /\ l.sid # Current(p) /\ l.sid = lost[p] /\ ~ l.spent
        /\ Len(inbox[p]) < MaxInbox
        /\ inbox' = [inbox EXCEPT ![p] = Append(@, l.kind)]
        /\ AckTo(p, i)
        /\ UNCHANGED <<mem, disk, own, lost, ens, opk, inits, stored, events, sending>>

\* ... and a commit that fails leaves the letter at the relay, unacked, and
\* the saved session as it was.  On the session set aside the key is spent.
CommitFails(p, i) ==
    LET l == net[p][i]
    IN  /\ faults.db < MaxDbFails /\ Fault("db")
        /\ ~ l.spent
        /\ \/ /\ l.kind = "init" /\ l.opk = opk[p]
              /\ UNCHANGED <<mem, net>>
           \/ /\ l.kind # "init" /\ l.sid = Current(p)
              /\ mem' = [mem EXCEPT ![p] = NoSession] /\ UNCHANGED net
           \/ /\ l.kind # "init" /\ l.sid # Current(p) /\ l.sid = lost[p]
              /\ net' = [net EXCEPT ![p][i].spent = TRUE] /\ UNCHANGED mem
        /\ UNCHANGED <<disk, own, lost, ens, opk, inits, inbox, stored, events, sending>>

\* StaleOpk and SealedDrop: what does not open is acked and gone.
DropUnreadable(p, i) ==
    LET l == net[p][i]
    IN  /\ \/ l.kind = "init" /\ l.opk # opk[p]
           \/ l.kind # "init" /\ (l.spent \/ l.sid \notin {Current(p), lost[p]})
        /\ net' = [net EXCEPT ![p] = WithoutAt(@, i)]
        /\ UNCHANGED <<mem, disk, own, lost, ens, opk, inits, inbox, stored, events, sending, faults>>

\* persist_incoming of the oldest letter in the inbox, by the handler that
\* committed it or by drain_inbox: a message is stored unless it is known, then
\* acked end to end; a receipt marks ours delivered.
ProcessMutant(p) ==
    /\ inbox[p] # <<>>
    /\ inbox' = [inbox EXCEPT ![p] = Tail(@)]
    /\ \/ /\ Head(inbox[p]) = "message"
          /\ stored' = [stored EXCEPT ![p] = TRUE]
          /\ events' = [events EXCEPT ![p] = @ + 1]
          /\ \/ Current(p) = NoSession /\ UNCHANGED <<net, faults>>
             \/ Current(p) # NoSession /\ Deliver(p, Receipt(p, Current(p)))
          /\ UNCHANGED sending
       \/ /\ Head(inbox[p]) = "receipt"
          /\ sending' = [sending EXCEPT ![p] = "delivered"]
          /\ UNCHANGED <<stored, events, net, faults>>
    /\ UNCHANGED <<mem, disk, own, lost, ens, opk, inits>>
Process(p) ==
    /\ inbox[p] # <<>>
    /\ inbox' = [inbox EXCEPT ![p] = Tail(@)]
    /\ \/ /\ Head(inbox[p]) = "message"
          /\ stored' = [stored EXCEPT ![p] = TRUE]
          /\ events' = [events EXCEPT ![p] = IF stored[p] THEN @ ELSE @ + 1]
          /\ \/ Current(p) = NoSession /\ UNCHANGED <<net, faults>>
             \/ Current(p) # NoSession /\ Deliver(p, Receipt(p, Current(p)))
          /\ UNCHANGED sending
       \/ /\ Head(inbox[p]) = "receipt"
          /\ sending' = [sending EXCEPT ![p] = "delivered"]
          /\ UNCHANGED <<stored, events, net, faults>>
    /\ UNCHANGED <<mem, disk, own, lost, ens, opk, inits>>

\* reset_contact_session, on the user's demand: request_resync.
ResetSession(p) ==
    /\ faults.resets < MaxResets /\ Fault("resets")
    /\ mem' = [mem EXCEPT ![p] = NoSession]
    /\ disk' = [disk EXCEPT ![p] = NoSession]
    /\ UNCHANGED <<own, lost, ens, opk, inits, net, inbox, stored, events, sending>>

\* The process dies and starts again from the database.
Crash(p) ==
    /\ faults.crashes < MaxCrashes /\ Fault("crashes")
    /\ mem' = [mem EXCEPT ![p] = NoSession]
    /\ own' = [own EXCEPT ![p] = FALSE]
    /\ lost' = [lost EXCEPT ![p] = NoSession]
    /\ ens' = [ens EXCEPT ![p] = [c \in Callers |-> <<>>]]
    /\ UNCHANGED <<disk, opk, inits, net, inbox, stored, events, sending>>

\* Which letter the relay offers next.
Offered(p) == IF Reorders THEN DOMAIN net[p] ELSE DOMAIN net[p] \cap {1}

Open(p) == OpenPrefetched(p) \/ \E c \in Callers : FetchBundle(p, c) \/ OpenFetched(p, c)

Receive(p) ==
    \E i \in Offered(p) :
        ReceiveInit(p, i) \/ ReceiveOnSession(p, i) \/ ReceiveOnLost(p, i) \/ DropUnreadable(p, i)

Next ==
    \E p \in Peers :
        \/ Open(p)
        \/ SendMessage(p) \/ Receive(p) \/ Process(p)
        \/ \E i \in Offered(p) : CommitFails(p, i)
        \/ ResetSession(p) \/ Crash(p)

Fairness ==
    \A p \in Peers :
        /\ WF_vars(Open(p)) /\ WF_vars(SendMessage(p)) /\ WF_vars(Receive(p)) /\ WF_vars(Process(p))

Spec == Init /\ [][Next]_vars /\ Fairness

-----------------------------------------------------------------------------

\* Every part of the state has its shape; a session set aside is the other
\* end's, and an init spends at most one prekey, offered again or not.
SessionTypeOK ==
    /\ mem \in [Peers -> Sids \cup {NoSession}] /\ disk \in [Peers -> Sids \cup {NoSession}]
    /\ own \in [Peers -> BOOLEAN] /\ inits \in [Peers -> 0..MaxInits]
    /\ \A p \in Peers : lost[p] \in ({Other(p)} \X (1..MaxInits)) \cup {NoSession}
    /\ \A p \in Peers : opk[p] \in 1..(inits[Other(p)] + 1)
    /\ inbox \in [Peers -> Seq({"message", "receipt"})]
    /\ stored \in [Peers -> BOOLEAN]
    /\ sending \in [Peers -> {"unsent", "sent", "delivered"}]

\* What memory uses is what the database holds: a session a peer sends on
\* survives its crash.
MemoryIsSaved == \A p \in Peers : mem[p] \in {NoSession, disk[p]}

\* "The recipient's authenticated ACK" is never a lie (acknowledge_delivery): a
\* message shown as delivered is in the other end's database, whatever was
\* lost, repeated or crashed on the way.
DeliveredIsStored ==
    \A p \in Peers : sending[p] = "delivered" => stored[Other(p)]

\* A message raises one event, however often it is resent and its letters
\* processed again from the inbox ("duplicates are recognised by origin").
ShownOnce == \A p \in Peers : events[p] <= 1

\* "The letter is saved in the same commit: its key is now spent"
\* (session.rs:1239): a message whose letter opened is in the database or in
\* the inbox, though the process died or the relay still offers the letter.
SpentIsKept ==
    \A p \in Peers : \A i \in DOMAIN net[p] :
        net[p][i].kind = "message" /\ net[p][i].spent =>
            stored[p] \/ Held(inbox[p], "message")

\* Both ends are through opening sessions: no init is under way.
Quiet ==
    \A p \in Peers :
        /\ \A c \in Callers : ens[p][c] = <<>>
        /\ \A i \in DOMAIN net[p] : net[p][i].kind # "init"

\* "When two X3dhInits cross, the session opened by the side with the lower
\* signing key stands - the same answer on both ends" (session.rs:2666): once
\* no init is under way, two ends that have a session have the same one.
SameAnswer ==
    Quiet => \/ \E p \in Peers : Current(p) = NoSession
             \/ Current(1) = Current(2)

\* "Anything that did not make it goes again on the usual retry"
\* (session.rs:1187): every message is delivered and known to be.
AllDelivered == <>[](\A p \in Peers : sending[p] = "delivered")

\* What was read stays read across crashes, resets and repeated letters: a
\* message is shown once, a letter whose key is spent is in the inbox or
\* processed, nothing is shown as delivered that the other end lacks, and the
\* session in memory is the one on disk.
ReadIsKept == SessionTypeOK /\ ShownOnce /\ SpentIsKept /\ DeliveredIsStored /\ MemoryIsSaved
==============================================================================
