------------------------------- MODULE DhtNode -------------------------------
(***************************************************************************)
(* A node of the store-and-forward network (dht/src/node.rs): the table of *)
(* peers it learns, probes, shares and forgets, and a put, which looks up  *)
(* the nodes nearest a key and stores the item there and at the seeds.     *)
(* The probes of maintain, the put and other nodes' requests interleave at *)
(* every await.                                                            *)
(*                                                                         *)
(* Times are kept as orders: the table lists its destinations by           *)
(* last_probe_order and the confirmed ones by last_ok_ms.  One key is      *)
(* looked up; Near lists the destinations by their distance from it.       *)
(***************************************************************************)
EXTENDS Naturals, Sequences, SequencesExt, FiniteSets, FiniteSetsExt, Functions

CONSTANTS Others,       \* destinations of other nodes
          Seeds,        \* those built in
          Storing,      \* those that would say they store
          Near,         \* all of them, nearest the key first
          K, Alpha, MaxPeers, MaxFailures,   \* NodeConfig
          MaxChurns,    \* bound on changes of the world
          MaxNodePuts   \* bound on puts

ASSUME NodeAssumption ==
    /\ Seeds \subseteq Others /\ Storing \subseteq Others
    /\ IsInjective(Near) /\ Range(Near) = Others
    /\ {K, Alpha, MaxPeers, MaxFailures} \subseteq Nat \ {0}
    /\ MaxChurns \in Nat /\ MaxNodePuts \in Nat

VARIABLES table,    \* [peers, order, heard]
          world,    \* what a destination is: "node", "plain" or "gone"
          probes,   \* pings maintain still has to make
          put,      \* the put: [pc, queried, batch, replies, answered, targets, count]
          holders,  \* destinations that stored the item
          churns    \* how often a destination changed

nodeVars == <<table, world, probes, put, holders, churns>>

TablePeer == [confirmed : BOOLEAN, failures : 0..MaxFailures + 1, seed : BOOLEAN, stores : BOOLEAN]

Known(t) == DOMAIN t.peers

-----------------------------------------------------------------------------
\* The table.

ToTail(s, d) == Append(SelectSeq(s, LAMBDA x : x # d), d)
Untail(s, gone) == SelectSeq(s, LAMBDA x : x \notin gone)

Forget(t, gone) ==
    [peers |-> Restrict(t.peers, Known(t) \ gone),
     order |-> Untail(t.order, gone), heard |-> Untail(t.heard, gone)]

WithPeer(t, d, peer) ==
    [t EXCEPT !.peers = [x \in Known(t) \cup {d} |-> IF x = d THEN peer ELSE t.peers[x]]]

\* trim_peers: hearsay first, then the longest silent, never a seed.  Which of
\* the hearsay goes is up to the map's order.
Keepable(t, v, w) ==
    \/ ~t.peers[v].confirmed
    \/ t.peers[w].confirmed /\ \E i, j \in DOMAIN t.heard :
                                  i < j /\ t.heard[i] = v /\ t.heard[j] = w
TrimPeers(t) ==
    LET droppable == {d \in Known(t) : ~t.peers[d].seed}
        over == Max({0, Cardinality(Known(t)) - MaxPeers})
        n    == Min({over, Cardinality(droppable)})
    IN  {Forget(t, gone) : gone \in {g \in kSubset(n, droppable) :
            \A v \in g, w \in droppable \ g : Keepable(t, v, w)}}

AddCandidate(t, d, seed) ==
    TrimPeers(
      IF d \in Known(t) THEN [t EXCEPT !.peers[d].seed = @ \/ seed]
      ELSE [WithPeer(t, d, [confirmed |-> FALSE, failures |-> 0, seed |-> seed, stores |-> TRUE])
              EXCEPT !.order = Append(@, d)])

\* learn: what a node says of itself beats what others say about it.
Learn(t, d, confirmed) ==
    LET old  == IF d \in Known(t) THEN t.peers[d]
                ELSE [confirmed |-> FALSE, failures |-> 0, seed |-> FALSE, stores |-> FALSE]
        heardOf == WithPeer(t, d, [old EXCEPT !.stores = IF old.confirmed THEN @ ELSE d \in Storing])
        answered == WithPeer(t, d, [old EXCEPT !.stores = d \in Storing,
                                               !.confirmed = TRUE, !.failures = 0])
    IN  TrimPeers(IF confirmed THEN [answered EXCEPT !.order = ToTail(@, d), !.heard = ToTail(@, d)]
                  ELSE IF d \in Known(t) THEN heardOf
                  ELSE [heardOf EXCEPT !.order = Append(@, d)])

LearnAll(ts, d, confirmed) == UNION {Learn(t, d, confirmed) : t \in ts}

\* failed.  The count of a seed stops at MaxFailures here: above it nothing
\* looks at how far.
Failed(t, d) ==
    IF d \notin Known(t) THEN t
    ELSE LET n == t.peers[d].failures + 1
         IN  IF n >= MaxFailures /\ ~t.peers[d].seed THEN Forget(t, {d})
             ELSE [t EXCEPT !.peers[d].failures = Min({n, MaxFailures})]

\* open: whoever is dialled goes to the back of the queue for probes.
Dialled(t, d) == IF d \in Known(t) THEN [t EXCEPT !.order = ToTail(@, d)] ELSE t

FirstOf(s, n) == SubSeq(s, 1, Min({n, Len(s)}))
Nearest(ds, n) == FirstOf(SelectSeq(Near, LAMBDA d : d \in ds), n)

\* closest: fresh ones, or any when none is.
Closest(t, n) ==
    LET fresh == {d \in Known(t) : t.peers[d].failures = 0}
    IN  Nearest(IF fresh = {} THEN Known(t) ELSE fresh, n)

\* closest_to_share: those that answered, filled up with those that have not.
ClosestToShare(t, n) ==
    LET fresh == {d \in Known(t) : t.peers[d].failures = 0}
        vouched == Nearest({d \in fresh : t.peers[d].confirmed}, n)
    IN  vouched \o Nearest({d \in fresh : ~t.peers[d].confirmed}, n - Len(vouched))

SeedStoringNodes(t) ==
    {d \in Known(t) : t.peers[d].seed /\ t.peers[d].stores /\ t.peers[d].failures = 0}

-----------------------------------------------------------------------------

NoPut == [pc |-> "idle", made |-> 0, queried |-> {}, batch |-> {}, replies |-> {},
         answered |-> {}, targets |-> {}, count |-> 0]

NodeInit ==
    /\ table \in LET none == [peers |-> <<>>, order |-> <<>>, heard |-> <<>>]
                 IN  FoldSet(LAMBDA d, ts : UNION {AddCandidate(t, d, TRUE) : t \in ts},
                             {none}, Seeds)
    /\ world = [d \in Others |-> "node"] /\ churns = 0
    /\ probes = {} /\ put = NoPut /\ holders = {}

\* A contact's relay, or one from the saved table.
HearOf(d) ==
    /\ table' \in AddCandidate(table, d, FALSE)
    /\ UNCHANGED <<world, probes, put, holders, churns>>

\* handle: a request arrived from d; that says nothing about reaching it back.
HandleRequest(d) ==
    /\ world[d] = "node"
    /\ table' \in Learn(table, d, FALSE)
    /\ UNCHANGED <<world, probes, put, holders, churns>>

\* A destination comes up, goes, or is a relay from before the network.
Churn(d, status) ==
    /\ churns < MaxChurns /\ churns' = churns + 1
    /\ world[d] # status
    /\ world' = [world EXCEPT ![d] = status]
    /\ UNCHANGED <<table, probes, put, holders>>

\* maintain: the 2k least recently probed, reserved before awaiting any.
Maintain ==
    /\ probes = {} /\ table.order # <<>>
    /\ LET first == FirstOf(table.order, Min({2 * K, MaxPeers}))
       IN  /\ probes' = Range(first)
           /\ table' = [table EXCEPT !.order = Untail(@, Range(first)) \o first]
    /\ UNCHANGED <<world, put, holders, churns>>

\* ping: a node is confirmed, silence counted, anything else forgotten.
Ping(d) ==
    /\ d \in probes
    /\ probes' = probes \ {d}
    /\ LET t == Dialled(table, d)
       IN  \/ world[d] = "node" /\ table' \in Learn(t, d, TRUE)
           \/ world[d] = "plain" /\ table' = Forget(t, {d})
           \/ table' = Failed(t, d)
    /\ UNCHANGED <<world, put, holders, churns>>

-----------------------------------------------------------------------------
\* put: lookup, then store_at every target.

PutItem ==
    /\ put.pc = "idle" /\ put.made < MaxNodePuts
    /\ put' = [put EXCEPT !.pc = "lookup", !.made = @ + 1]
    /\ UNCHANGED <<table, world, probes, holders, churns>>

\* The next batch: at most alpha of the 2k closest not asked yet.
Batch == FirstOf(SelectSeq(Closest(table, 2 * K), LAMBDA d : d \notin put.queried), Alpha)
LookupDone == \/ Batch = <<>>
              \/ Range(Closest(table, K)) \subseteq put.queried

LookupRound ==
    /\ put.pc = "lookup" /\ ~LookupDone
    /\ put' = [put EXCEPT !.pc = "asking", !.batch = Range(Batch),
                          !.queried = @ \cup Range(Batch), !.replies = {}]
    /\ UNCHANGED <<table, world, probes, holders, churns>>

\* One FindNode of the batch: its answer waits for the others, a failure does not.
AskFindNode(d) ==
    /\ put.pc = "asking" /\ d \in put.batch
    /\ LET t == Dialled(table, d)
       IN  \/ /\ world[d] # "gone"
              /\ \E nodes \in {{}} \cup {{x} : x \in Others \ {d}} :
                    put' = [put EXCEPT !.batch = @ \ {d},
                                       !.replies = @ \cup {[of |-> d, nodes |-> nodes,
                                                              me |-> world[d] = "node"]}]
              /\ table' = t
           \/ /\ table' = Failed(t, d)
              /\ put' = [put EXCEPT !.batch = @ \ {d}]
    /\ UNCHANGED <<world, probes, holders, churns>>

\* The replies of a batch: who answers as itself is learned with those it names.
TakeReply(ts, r) ==
    IF ~r.me THEN {Forget(t, {r.of}) : t \in ts}
    ELSE FoldSet(LAMBDA d, acc : LearnAll(acc, d, FALSE), LearnAll(ts, r.of, TRUE), r.nodes)

InBatchOrder(replies) == SetToSortSeq(replies, LAMBDA q, r :
    \E i, j \in DOMAIN Near : i < j /\ Near[i] = q.of /\ Near[j] = r.of)

TakeReplies ==
    /\ put.pc = "asking" /\ put.batch = {}
    /\ table' \in FoldLeft(TakeReply, {table}, InBatchOrder(put.replies))
    /\ put' = [put EXCEPT !.pc = "lookup", !.replies = {},
                          !.answered = @ \cup {r.of : r \in {x \in put.replies : x.me}}]
    /\ UNCHANGED <<world, probes, holders, churns>>

\* The k nearest that answered and store, and every storing seed.
ChooseTargets ==
    /\ put.pc = "lookup" /\ LookupDone
    /\ put' = [put EXCEPT !.pc = "storing", !.queried = {}, !.answered = {},
                 !.targets = (Range(Nearest(put.answered, K)) \cap Storing)
                             \cup SeedStoringNodes(table)]
    /\ UNCHANGED <<table, world, probes, holders, churns>>

\* store_at.  The answer may be lost after the item was stored.
StoreAtMutant(d) ==
    /\ put.pc = "storing" /\ d \in put.targets
    /\ LET t == Dialled(table, d)
       IN  \/ /\ world[d] = "node"
              /\ holders' = IF d \in Storing THEN holders \cup {d} ELSE holders
              /\ \/ table' = t /\ put' = [put EXCEPT !.targets = @ \ {d}, !.count = @ + 1]
                 \/ table' = Failed(t, d) /\ put' = [put EXCEPT !.targets = @ \ {d}]
           \/ /\ world[d] = "plain" /\ table' = t
              /\ put' = [put EXCEPT !.targets = @ \ {d}, !.count = @ + 1] /\ UNCHANGED holders
           \/ /\ table' = Failed(t, d)
              /\ put' = [put EXCEPT !.targets = @ \ {d}] /\ UNCHANGED holders
    /\ UNCHANGED <<world, probes, churns>>
StoreAt(d) ==
    /\ put.pc = "storing" /\ d \in put.targets
    /\ LET t == Dialled(table, d)
           stored == world[d] = "node" /\ d \in Storing
           done(n) == put' = [put EXCEPT !.targets = @ \ {d}, !.count = @ + n]
       IN  \/ /\ world[d] # "gone" /\ table' = t
              /\ IF stored THEN holders' = holders \cup {d} /\ done(1)
                 ELSE UNCHANGED holders /\ done(0)
           \/ /\ stored /\ table' = Failed(t, d)
              /\ holders' = holders \cup {d} /\ done(0)
           \/ table' = Failed(t, d) /\ UNCHANGED holders /\ done(0)
    /\ UNCHANGED <<world, probes, churns>>

PutReturns ==
    /\ put.pc = "storing" /\ put.targets = {}
    /\ put' = [NoPut EXCEPT !.made = put.made]
    /\ holders' = {}
    /\ UNCHANGED <<table, world, probes, churns>>

PutStep == \/ LookupRound \/ TakeReplies \/ ChooseTargets \/ PutReturns
           \/ \E d \in Others : AskFindNode(d) \/ StoreAt(d)

NodeNext ==
    \/ PutItem \/ PutStep \/ Maintain
    \/ \E d \in Others : \/ HearOf(d) \/ HandleRequest(d) \/ Ping(d)
                         \/ \E s \in {"node", "plain", "gone"} : Churn(d, s)

\* Dials and calls time out, so a task that began goes on; maintain runs on a
\* timer for ever.
NodeFairness ==
    /\ WF_nodeVars(PutStep)
    /\ WF_nodeVars(Maintain) /\ \A d \in Others : WF_nodeVars(Ping(d))

NodeSpec == NodeInit /\ [][NodeNext]_nodeVars /\ NodeFairness

-----------------------------------------------------------------------------

\* The two orders list exactly the known and the confirmed peers, once each,
\* and the table is over its cap only by seeds.
TableAgrees ==
    /\ IsInjective(table.order) /\ Range(table.order) = Known(table)
    /\ IsInjective(table.heard)
    /\ Range(table.heard) = {d \in Known(table) : table.peers[d].confirmed}
    /\ Cardinality(Known(table)) > MaxPeers => \A d \in Known(table) : table.peers[d].seed

\* A count that put returns is of other nodes that really took the item, though
\* answers are lost, and peers are forgotten and learned again during the
\* lookup: a letter is never "in the network" on the word of nobody.
CountedIsHeld == put.count <= Cardinality(holders)

\* Whoever has gone for good stops being vouched for: probes reach every peer
\* in turn, however many newcomers arrive, and a failed one is handed to no
\* one as a node that answered.
GoneIsNotVouched ==
    \A d \in Others :
       <>[](world[d] = "gone")
          => <>[](d \in Known(table) /\ table.peers[d].confirmed => table.peers[d].failures > 0)

\* A put comes back: the lookup does not chase the nodes it is told of for ever.
PutEnds == put.pc # "idle" ~> put.pc = "idle"

\* A seed, once added, is never dropped from the table.
SeedsStay == \A d \in Seeds : d \in Known(table)

\* The routing table stays consistent and within its cap, and put counts only
\* nodes that hold the item, whatever is learnt, lost and probed meanwhile.
NodeIsSound == TableAgrees /\ CountedIsHeld

-----------------------------------------------------------------------------
(***************************************************************************)
(* Letters left in the network for somebody who is away                    *)
(* (libcore/src/dht_client.rs, dht/src/items.rs) and the recipient's       *)
(* passes that collect them (collect_from_dht in core/src/core.rs and      *)
(* libcore/src/session.rs): a first letter from somebody unknown and one   *)
(* on the session it opens.  Storing nodes are away now and then, hand     *)
(* letters on to each other and miss deletions; the recipient crashes.     *)
(*                                                                         *)
(* Time runs in half days, so that a letter can be left in the middle of   *)
(* the day its key is named after.                                         *)
(***************************************************************************)

CONSTANTS Nodes,        \* nodes that store
          Week,         \* DHT_COLLECT_DAYS_FIRST, and a letter's life in days
          LaterDays,    \* DHT_COLLECT_DAYS
          MaxHalfDays,  \* bound on the clock
          MaxRestarts   \* bound on crashes of the recipient

ASSUME MailAssumption ==
    /\ {Week, LaterDays} \subseteq Nat \ {0} /\ LaterDays <= Week
    /\ MaxHalfDays \in Nat /\ MaxRestarts \in Nat

Mail == {"intro", "letter"}
Never == MaxHalfDays + 1

VARIABLES clock,
          left,     \* when each was left in the network
          copies,   \* which nodes hold it
          seen,     \* dht_seen: when it was marked
          fate,     \* what handling it came to
          pass,     \* the pass under way: [pc, days, known, letters]
          restarts

mailVars == <<clock, left, copies, seen, fate, pass, restarts>>

MailTtl == 2 * Week                 \* MAIL_TTL_MS
SeenTtl == 2 * (Week + 1)       \* DHT_SEEN_TTL_MS
DayOf(t) == t \div 2              \* day_of

IsLeft(m) == left[m] # Never
Lives(m) == IsLeft(m) /\ clock < left[m] + MailTtl

\* mail_keys_to_poll, intro_keys_to_poll: the keys of that many days.
Polled(m, days) == DayOf(left[m]) + days > DayOf(clock)

\* What the nodes that can be reached still hold under the keys polled.
Found(m, days, reached) ==
    Lives(m) /\ Polled(m, days) /\ copies[m] \cap reached # {}

-----------------------------------------------------------------------------

NoPass == [pc |-> "rest", days |-> Week, known |-> FALSE, letters |-> <<>>]

MailInit ==
    /\ clock = 0 /\ restarts = 0
    /\ left = [m \in Mail |-> Never]
    /\ copies = [m \in Mail |-> {}]
    /\ seen = [m \in Mail |-> Never]
    /\ fate = [m \in Mail |-> <<>>]
    /\ pass = NoPass

\* put_intro, put_mail: at least one node took it.  The sender writes first to
\* somebody they have no session with.
Leave(m, at) ==
    /\ ~IsLeft(m) /\ (m = "letter" => IsLeft("intro"))
    /\ at # {}
    /\ left' = [left EXCEPT ![m] = clock]
    /\ copies' = [copies EXCEPT ![m] = at]
    /\ UNCHANGED <<clock, seen, fate, pass, restarts>>

\* A node hands what it holds to another (republish), deleted elsewhere or not.
HandOn(m, from, to) ==
    /\ Lives(m) /\ from \in copies[m] /\ to \notin copies[m]
    /\ copies' = [copies EXCEPT ![m] = @ \cup {to}]
    /\ UNCHANGED <<clock, left, seen, fate, pass, restarts>>

\* collect_from_dht reads the contacts, then collects the first letters...
CollectIntros(reached) ==
    /\ pass.pc = "rest"
    /\ pass' = [pass EXCEPT !.pc = "mail", !.known = fate["intro"] # <<>>,
                  !.letters = IF Found("intro", pass.days, reached) THEN <<"intro">> ELSE <<>>]
    /\ UNCHANGED <<clock, left, copies, seen, fate, restarts>>

\* ...then the mail of every contact it had read.
CollectMail(reached) ==
    /\ pass.pc = "mail"
    /\ pass' = [pass EXCEPT !.pc = "next",
                  !.letters = IF pass.known /\ Found("letter", pass.days, reached)
                              THEN Append(@, "letter") ELSE @]
    /\ UNCHANGED <<clock, left, copies, seen, fate, restarts>>

\* dht_seen_mark: a letter seen before is passed over.
MarkMutant ==
    /\ pass.pc = "next" /\ pass.letters # <<>>
    /\ pass' = [pass EXCEPT !.pc = "handle"]
    /\ seen' = [seen EXCEPT ![Head(pass.letters)] = clock]
    /\ UNCHANGED <<clock, left, copies, fate, restarts>>
Mark ==
    /\ pass.pc = "next" /\ pass.letters # <<>>
    /\ LET m == Head(pass.letters)
       IN  IF seen[m] # Never
           THEN /\ pass' = [pass EXCEPT !.letters = Tail(@)]
                /\ UNCHANGED seen
           ELSE /\ pass' = [pass EXCEPT !.pc = "handle"]
                /\ seen' = [seen EXCEPT ![m] = clock]
    /\ UNCHANGED <<clock, left, copies, fate, restarts>>

\* handle_incoming_envelope opened it, or found its one-time prekey used.
HandleLetter(outcome) ==
    /\ pass.pc = "handle"
    /\ LET m == Head(pass.letters)
       IN  /\ outcome = "stale" => m = "intro"
           /\ (m = "letter" => Contains(fate["intro"], "read"))
           /\ fate' = [fate EXCEPT ![m] = Append(@, outcome)]
           /\ pass' = [pass EXCEPT !.pc = "drop"]
    /\ UNCHANGED <<clock, left, copies, seen, restarts>>

\* No session opens it, or handling failed: forget it for a later pass.
HandleFails ==
    /\ pass.pc = "handle"
    /\ seen' = [seen EXCEPT ![Head(pass.letters)] = Never]
    /\ pass' = [pass EXCEPT !.pc = "next", !.letters = Tail(@)]
    /\ UNCHANGED <<clock, left, copies, fate, restarts>>

\* drop_letter: deleted at the nodes that can be reached.
DropLetter(reached) ==
    /\ pass.pc = "drop"
    /\ copies' = [copies EXCEPT ![Head(pass.letters)] = @ \ reached]
    /\ pass' = [pass EXCEPT !.pc = "next", !.letters = Tail(@)]
    /\ UNCHANGED <<clock, left, seen, fate, restarts>>

EndPass ==
    /\ pass.pc = "next" /\ pass.letters = <<>>
    /\ pass' = [NoPass EXCEPT !.days = LaterDays]
    /\ UNCHANGED <<clock, left, copies, seen, fate, restarts>>

\* dht_seen_purge, on the maintain tick of the same loop as the passes.
PurgeSeen ==
    /\ pass.pc = "rest"
    /\ seen' = [m \in Mail |-> IF seen[m] # Never /\ seen[m] + SeenTtl < clock
                               THEN Never ELSE seen[m]]
    /\ UNCHANGED <<clock, left, copies, fate, pass, restarts>>

RestartReader ==
    /\ restarts < MaxRestarts /\ restarts' = restarts + 1
    /\ pass' = NoPass
    /\ UNCHANGED <<clock, left, copies, seen, fate>>

HalfDay ==
    /\ clock < MaxHalfDays /\ clock' = clock + 1
    /\ UNCHANGED <<left, copies, seen, fate, pass, restarts>>

MailNext ==
    \/ \E m \in Mail, at \in SUBSET Nodes : Leave(m, at)
    \/ \E m \in Mail, from, to \in Nodes : HandOn(m, from, to)
    \/ \E reached \in SUBSET Nodes :
          CollectIntros(reached) \/ CollectMail(reached) \/ DropLetter(reached)
    \/ \E outcome \in {"read", "stale"} : HandleLetter(outcome)
    \/ Mark \/ HandleFails \/ EndPass \/ PurgeSeen \/ RestartReader \/ HalfDay

MailSpec == MailInit /\ [][MailNext]_mailVars

-----------------------------------------------------------------------------

\* A letter is handled once, though nodes that missed its deletion hand it on
\* and a restart looks through the whole week again: a ratchet letter opened
\* twice would look like a broken session.
HandledOnce == \A m \in Mail : Len(fate[m]) <= 1

\* A letter leaves the network before its time only once it has been handled:
\* one that no session opens yet stays for a later pass.
GoneWasHandled == \A m \in Mail : IsLeft(m) /\ copies[m] = {} => fate[m] # <<>>

\* What is remembered as handled was handled, or is being handled.
SeenIsHandled ==
    \A m \in Mail : seen[m] # Never =>
       \/ fate[m] # <<>>
       \/ pass.pc = "handle" /\ Head(pass.letters) = m

\* The first pass after a launch looks under the key of every letter that
\* still lives.
FirstPassCovers == \A m \in Mail : Lives(m) => Polled(m, Week)

\* A letter left in the network is handled once by whoever collects it, and
\* nobody erases it from the network before it was handled, though nodes are
\* asked in any order, answers are lost and the reader restarts.
MailHandledOnce == HandledOnce /\ GoneWasHandled
=============================================================================
