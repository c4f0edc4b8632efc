--------------------------- MODULE PromiseProofs ----------------------------
(***************************************************************************)
(* Three promises for every value of the constants: an inbox of the relay  *)
(* lists exactly its letters (MemStore), the first to claim an alias is    *)
(* not taken over (DhtAlias), and a rule without a lease is journalled     *)
(* (Upnp).                                                                 *)
(***************************************************************************)
EXTENDS MemStore, DhtAlias, Upnp, WellFoundedInduction, TLAPS

(***************************************************************************)
(* The index of the in-memory mailbox, for every set of keys, every cap    *)
(* and every sequence of calls.  The argument is about one value g of the  *)
(* locked struct: each helper that a method is built from turns a          *)
(* well-formed, consistent g into another.                                 *)
(***************************************************************************)

\* What Agrees needs to survive a step: the ids in
\* use were handed out before, so the next one is fresh.
Shape(g) ==
    /\ g.next_id \in Nat
    /\ DOMAIN g.messages \subseteq 1..g.next_id

\* Sound(g) is the inductive invariant, of the struct.
Sound(g) == Shape(g) /\ Agrees(g)

\* Inner::remove keeps the index in step with the letters, whatever it takes.
LEMMA RemoveSound ==
    ASSUME NEW g, Sound(g), NEW S
    PROVE  Sound(InnerRemove(g, S))
<1> DEFINE gone == S \cap DOMAIN g.messages
           h == InnerRemove(g, S)
<1>1. /\ h.next_id = g.next_id
      /\ h.messages = [i \in DOMAIN g.messages \ gone |-> g.messages[i]]
      /\ h.inboxes = InboxesWithout(g, gone)
  BY DEF InnerRemove, Without
<1>2. /\ DOMAIN h.inboxes = {k \in DOMAIN g.inboxes : ~ g.inboxes[k].ids \subseteq gone}
      /\ \A k \in DOMAIN h.inboxes : h.inboxes[k].ids = g.inboxes[k].ids \ gone
  BY <1>1 DEF InboxesWithout
<1> HIDE DEF h
<1>3. Shape(h)
  BY <1>1 DEF Sound, Shape
<1>4. ASSUME NEW k \in DOMAIN h.inboxes
      PROVE  /\ h.inboxes[k].ids # {}
             /\ h.inboxes[k].ids = {i \in DOMAIN h.messages : h.messages[i].to = k}
  <2>1. g.inboxes[k].ids = {i \in DOMAIN g.messages : g.messages[i].to = k}
    BY <1>2, <1>4 DEF Sound, Agrees
  <2>2. DOMAIN h.messages = DOMAIN g.messages \ gone
        /\ \A i \in DOMAIN h.messages : h.messages[i] = g.messages[i]
    BY <1>1
  <2> QED  BY <1>2, <1>4, <2>1, <2>2
<1>5. ASSUME NEW i \in DOMAIN h.messages
      PROVE  h.messages[i].to \in DOMAIN h.inboxes
  <2>1. i \in DOMAIN g.messages /\ i \notin gone /\ h.messages[i] = g.messages[i]
    BY <1>1, <1>5
  <2>2. g.messages[i].to \in DOMAIN g.inboxes
        /\ i \in g.inboxes[g.messages[i].to].ids
    BY <2>1 DEF Sound, Agrees
  <2> QED  BY <1>2, <2>1, <2>2
<1> QED  BY <1>3, <1>4, <1>5 DEF Sound, Agrees, h

\* A deposit files the letter under its recipient with a fresh id.
LEMMA InsertSound ==
    ASSUME NEW g, Sound(g), NEW to, NEW len
    PROVE  Sound(Insert(g, to, len))
<1> DEFINE id == g.next_id + 1
           h == Insert(g, to, len)
           had == IF to \in DOMAIN g.inboxes THEN g.inboxes[to].ids ELSE {}
<1>1. /\ h.next_id = id
      /\ DOMAIN h.messages = DOMAIN g.messages \cup {id}
      /\ h.messages[id].to = to
      /\ \A i \in DOMAIN g.messages : i # id => h.messages[i] = g.messages[i]
      /\ DOMAIN h.inboxes = DOMAIN g.inboxes \cup {to}
      /\ h.inboxes[to].ids = had \cup {id}
      /\ \A k \in DOMAIN g.inboxes : k # to => h.inboxes[k] = g.inboxes[k]
  BY DEF Insert
<1>2. id \notin DOMAIN g.messages /\ id \in Nat /\ Shape(h)
  BY <1>1 DEF Sound, Shape
<1>3. had = {i \in DOMAIN g.messages : g.messages[i].to = to}
  BY DEF Sound, Agrees
<1> HIDE DEF h, had, id
<1>4. Agrees(h)
  <2>1. ASSUME NEW k \in DOMAIN h.inboxes
        PROVE  /\ h.inboxes[k].ids # {}
               /\ h.inboxes[k].ids = {i \in DOMAIN h.messages : h.messages[i].to = k}
    <3>1. CASE k = to
      BY <1>1, <1>2, <1>3, <3>1
    <3>2. CASE k # to
      BY <1>1, <1>2, <2>1, <3>2 DEF Sound, Agrees
    <3> QED  BY <3>1, <3>2
  <2>2. ASSUME NEW i \in DOMAIN h.messages
        PROVE  h.messages[i].to \in DOMAIN h.inboxes
    BY <1>1, <1>2, <2>2 DEF Sound, Agrees
  <2> QED  BY <2>1, <2>2 DEF Agrees
<1> QED  BY <1>2, <1>4 DEF Sound, h

\* The inductive invariant.
StoreSound == Sound(inner)

\* What IndexAgrees rests on holds in every reachable state.
LEMMA SoundInvariant == StoreSpec => []StoreSound
<1>1. StoreInit => StoreSound
  BY DEF StoreInit, StoreSound, EmptyInner, Sound, Shape, Agrees
<1>2. StoreSound /\ [StoreNext]_storeVars => StoreSound'
  <2> SUFFICES ASSUME Sound(inner), [StoreNext]_storeVars
               PROVE  Sound(inner')
    BY DEF StoreSound
  <2>1. ASSUME NEW pk \in Keys, Claim(pk)
        PROVE  Sound(inner')
    BY <2>1 DEF Claim
  <2>2. ASSUME NEW pk \in Keys, NEW len \in Lens, Deposit(pk, len)
        PROVE  Sound(inner')
    BY <2>2, InsertSound, RemoveSound DEF Deposit, Deposited, EvictOwn, EvictTotal
  <2>3. ASSUME NEW pk \in Keys, NEW id \in 1..MaxId, Ack(pk, id)
        PROVE  Sound(inner')
    BY <2>3, RemoveSound DEF Ack, Acked
  <2>4. ASSUME NEW pk \in Keys, StoreBundle(pk)
        PROVE  Sound(inner')
    BY <2>4 DEF StoreBundle, Sound, Shape, Agrees
  <2>5. ASSUME NEW i \in 0..MaxId, NEW b \in 0..Len(inner.bundles), Gc(i, b)
        PROVE  Sound(inner')
    <3> DEFINE r == InnerRemove(inner, {j \in DOMAIN inner.messages : j <= i})
    <3>1. Sound(r)
      BY RemoveSound
    <3>2. inner' = [r EXCEPT !.bundles = SubSeq(@, b + 1, Len(@))]
      BY <2>5 DEF Gc
    <3> HIDE DEF r
    <3> QED  BY <3>1, <3>2 DEF Sound, Shape, Agrees
  <2>6. CASE UNCHANGED storeVars
    BY <2>6 DEF storeVars
  <2> QED  BY <2>1, <2>2, <2>3, <2>4, <2>5, <2>6 DEF StoreNext
<1> QED  BY <1>1, <1>2, PTL DEF StoreSpec

\* Under every sequence of deposits, acks, evictions and expiries an inbox
\* lists exactly its recipient's letters (Inner::remove, MemStore::deposit).
THEOREM IndexAlwaysAgrees == StoreSpec => []IndexAgrees
<1>1. StoreSound => IndexAgrees
  BY DEF StoreSound, Sound, IndexAgrees
<1> QED  BY <1>1, SoundInvariant, PTL

-----------------------------------------------------------------------------
(* DhtAlias.                                                               *)

\* A claim that is stored anywhere says when its owner founded it, however
\* often it was renewed and handed on.
AliasInv ==
    /\ today \in 0 .. MaxAliasTime
    /\ founded \in [AliasOwners -> Nat]
    /\ \A n \in AliasNodes : \A s \in stored[n] :
          /\ s.rec.owner \in AliasOwners /\ s.rec.created \in Nat
          /\ s.rec.kind = "claim" =>
                s.rec.created = founded[s.rec.owner] /\ founded[s.rec.owner] # Unfounded

LEMMA NatMin ==
    ASSUME NEW T \in SUBSET Nat, T # {}
    PROVE  \E m \in T : \A k \in T : m <= k
  <1>1. PICK m \in T : \A k \in T : ~ (<<k, m>> \in OpToRel(<, Nat))
    BY NatLessThanWellFounded, WFMin, Zenon
  <1>2. \A k \in T : ~ (k < m)
    BY <1>1 DEF OpToRel
  <1> QED
    BY <1>2

\* The first of the founders exists, so the CHOOSE of AliasState finds it.
LEMMA EarliestExists ==
    ASSUME NEW recs, recs # {}, \A r \in recs : r.created \in Nat /\ r.owner \in Nat
    PROVE  Earliest(recs) # {}
  <1> DEFINE T == {r.created : r \in recs}
  <1>1. PICK m \in T : \A k \in T : m <= k
    <2>1. T \in SUBSET Nat /\ T # {}
      OBVIOUS
    <2> HIDE DEF T
    <2> QED
      BY <2>1, NatMin
  <1> DEFINE O == {r.owner : r \in {q \in recs : q.created = m}}
  <1>2. PICK o \in O : \A k \in O : o <= k
    <2>1. O \in SUBSET Nat /\ O # {}
      BY <1>1
    <2> HIDE DEF O
    <2> QED
      BY <2>1, NatMin
  <1>3. PICK r \in recs : r.created = m /\ r.owner = o
    BY <1>2
  <1>4. ASSUME NEW q \in recs
        PROVE  r.created < q.created \/ (r.created = q.created /\ r.owner <= q.owner)
    <2>1. m <= q.created /\ m \in Nat /\ q.created \in Nat
      BY <1>1
    <2>2. q.created = m => o <= q.owner
      BY <1>2
    <2> QED
      BY <1>3, <2>1, <2>2
  <1> QED
    BY <1>3, <1>4 DEF Earliest

\* Putting a record that keeps the promise keeps it everywhere.
LEMMA PutKeeps ==
    ASSUME AliasInv, NEW rec, NEW nodes, stored' = PutAt(rec, nodes), today' = today,
           founded' \in [AliasOwners -> Nat],
           rec.owner \in AliasOwners, rec.created \in Nat,
           rec.kind = "claim" => rec.created = founded'[rec.owner] /\ founded'[rec.owner] # Unfounded,
           \A o \in AliasOwners : founded[o] # Unfounded => founded'[o] = founded[o]
    PROVE  AliasInv'
  <1> SUFFICES ASSUME NEW n \in AliasNodes, NEW s \in stored'[n]
               PROVE  /\ s.rec.owner \in AliasOwners /\ s.rec.created \in Nat
                      /\ s.rec.kind = "claim" =>
                            s.rec.created = founded'[s.rec.owner] /\ founded'[s.rec.owner] # Unfounded
    BY DEF AliasInv, Unfounded
  <1>1. s \in stored[n] \/ s.rec = rec
    BY DEF PutAt
  <1>2. CASE s \in stored[n]
    BY <1>2 DEF AliasInv
  <1>3. CASE s.rec = rec
    BY <1>3
  <1> QED
    BY <1>1, <1>2, <1>3

LEMMA AliasStep ==
    ASSUME AliasInv, AliasNext PROVE AliasInv'
  <1>a. today \in Nat /\ today # Unfounded /\ MaxAliasTime \in Nat
    BY AliasAssumption DEF AliasInv, Unfounded
  <1>1. ASSUME NEW o \in AliasOwners, NEW nodes, ClaimAlias(o, nodes) PROVE AliasInv'
    <2> DEFINE rec == AliasRecordOf("claim", o, today, ClaimTtl)
    <2>1. rec.owner = o /\ rec.created = today
      BY DEF AliasRecordOf
    <2>2. /\ founded' \in [AliasOwners -> Nat] /\ founded'[o] = today
          /\ \A p \in AliasOwners : founded[p] # Unfounded => founded'[p] = founded[p]
      BY <1>1, <1>a DEF ClaimAlias, AliasInv
    <2>3. stored' = PutAt(rec, nodes) /\ today' = today
      BY <1>1 DEF ClaimAlias
    <2> HIDE DEF rec
    <2> QED
      BY <1>a, <2>1, <2>2, <2>3, PutKeeps
  <1>2. ASSUME NEW o \in AliasOwners, NEW nodes, RefreshAlias(o, nodes) PROVE AliasInv'
    <2> DEFINE rec == AliasRecordOf("claim", o, founded[o], ClaimTtl)
    <2>1. rec.owner = o /\ rec.created = founded[o]
      BY DEF AliasRecordOf
    <2>2. founded' = founded /\ founded[o] \in Nat /\ founded[o] # Unfounded
      BY <1>2, AliasAssumption DEF RefreshAlias, AliasInv, Unfounded
    <2>3. stored' = PutAt(rec, nodes) /\ today' = today
      BY <1>2 DEF RefreshAlias
    <2>4. founded' \in [AliasOwners -> Nat]
      BY <2>2 DEF AliasInv
    <2> HIDE DEF rec
    <2> QED
      BY <2>1, <2>2, <2>3, <2>4, PutKeeps
  <1>3. ASSUME NEW o \in AliasOwners, NEW nodes, RevokeAlias(o, nodes) PROVE AliasInv'
    <2> DEFINE rec == AliasRecordOf("tombstone", o, today, TombstoneTtl)
    <2>1. rec.owner = o /\ rec.created = today /\ rec.kind = "tombstone"
      BY DEF AliasRecordOf
    <2>2. founded' = founded /\ stored' = PutAt(rec, nodes) /\ today' = today
      BY <1>3 DEF RevokeAlias
    <2>3. founded' \in [AliasOwners -> Nat]
      BY <2>2 DEF AliasInv
    <2> HIDE DEF rec
    <2> QED
      BY <1>a, <2>1, <2>2, <2>3, PutKeeps
  <1>4. ASSUME NEW n \in AliasNodes, NEW to \in AliasNodes, Repeat(n, to) PROVE AliasInv'
    <2>1. PICK s \in stored[n] : stored' = PutAt(s.rec, {to}) /\ UNCHANGED <<today, founded>>
      BY <1>4 DEF Repeat
    <2>2. /\ s.rec.owner \in AliasOwners /\ s.rec.created \in Nat /\ founded \in [AliasOwners -> Nat]
          /\ s.rec.kind = "claim" =>
                s.rec.created = founded[s.rec.owner] /\ founded[s.rec.owner] # Unfounded
      BY DEF AliasInv
    <2> QED
      BY <2>1, <2>2, PutKeeps
  <1>5. CASE AliasDay
    <2>1. today' \in 0 .. MaxAliasTime /\ founded' = founded
      BY <1>5, <1>a DEF AliasDay
    <2>2. \A n \in AliasNodes : stored'[n] \subseteq stored[n]
      BY <1>5 DEF AliasDay
    <2> QED
      BY <2>1, <2>2 DEF AliasInv, Unfounded
  <1> QED
    BY <1>1, <1>2, <1>3, <1>4, <1>5 DEF AliasNext

LEMMA AliasInvImplies ==
    ASSUME AliasInv PROVE FirstComeKept
  <1> SUFFICES ASSUME NEW nodes \in SUBSET AliasNodes, NEW o \in AliasOwners, NEW p \in AliasOwners,
                      NEW r \in OpenAliasRecords(SeenAt(nodes), "claim"), r.owner = o,
                      founded[o] < founded[p],
                      AliasState(SeenAt(nodes)) = [is |-> "claimed", owner |-> p]
               PROVE  FALSE
    BY DEF FirstComeKept
  <1> DEFINE claims == OpenAliasRecords(SeenAt(nodes), "claim")
             first  == CHOOSE f \in Earliest(claims) : TRUE
  <1>1. \A q \in claims : q.created = founded[q.owner] /\ q.owner \in AliasOwners /\ q.created \in Nat
    BY DEF OpenAliasRecords, SeenAt, AliasInv
  <1>2. \A q \in claims : q.created \in Nat /\ q.owner \in Nat
    BY <1>1, AliasAssumption
  <1>3. claims # {}
    OBVIOUS
  <1>4. AliasState(SeenAt(nodes)).owner = first.owner
    BY <1>3 DEF AliasState
  <1> HIDE DEF claims
  <1>5. first \in Earliest(claims)
    BY <1>2, <1>3, EarliestExists
  <1>6. first.owner = p
    BY <1>4
  <1> HIDE DEF first
  <1>7. first \in claims /\ first.created <= r.created
    BY <1>2, <1>5 DEF Earliest, claims
  <1>8. first.created = founded[p] /\ r.created = founded[o] /\ r.created \in Nat
    BY <1>1, <1>6, <1>7 DEF claims
  <1>9. founded[p] \in Nat /\ founded[o] \in Nat
    BY DEF AliasInv
  <1> QED
    BY <1>7, <1>8, <1>9

\* FirstComeKept for any owners, nodes, leases and lives of a record: a reader
\* that sees any claim of whoever founded the alias first never takes a later
\* claimant for its owner (alias_state of dht/src/items.rs).
THEOREM FirstComeAlwaysKept == AliasSpec => []FirstComeKept
  <1>1. AliasInit => AliasInv
    BY AliasAssumption DEF AliasInit, AliasInv, Unfounded
  <1>2. AliasInv /\ [AliasNext]_aliasVars => AliasInv'
    <2>1. ASSUME AliasInv, UNCHANGED aliasVars PROVE AliasInv'
      BY <2>1 DEF aliasVars, AliasInv, Unfounded
    <2> QED
      BY <2>1, AliasStep
  <1>3. AliasInv => FirstComeKept
    BY AliasInvImplies
  <1> QED
    BY <1>1, <1>2, <1>3, PTL DEF AliasSpec

-----------------------------------------------------------------------------
(* Upnp, on one network.                                                   *)

Cells == {Empty, Foreign} \union {Ours(g, l) : g \in Gateways, l \in {"finite", "permanent"}}
TableType == [Gateways -> [Slots -> Cells]]

\* A permanent rule of ours is on the gateway nearby, in the file, and in the
\* journal of a running worker; the rule being asked for is in both already.
UpnpInv ==
    /\ UpnpTypeOK
    /\ gateway \in {NoGateway, near}
    /\ worker \in {"release", "query", "add", "confirm"} => gateway = near
    /\ worker = "exit" /\ slotsLeft # {} => gateway = near
    /\ worker = "add" => <<rule, near>> \in disk \cap journal
    /\ \A g \in Gateways, s \in Slots :
          table[g][s] = Ours(g, "permanent") =>
             /\ g = near /\ <<s, g>> \in disk
             /\ worker # "down" => <<s, g>> \in journal

LEMMA OursFacts ==
    ASSUME NEW g \in Gateways, NEW l \in {"finite", "permanent"},
           NEW h \in Gateways, NEW m \in {"finite", "permanent"}
    PROVE  /\ Ours(g, l) \notin {Empty, Foreign}
           /\ Ours(g, l).holder = "us" /\ Ours(g, l).label = g /\ Ours(g, l).lease = l
           /\ Ours(g, l) = Ours(h, m) => g = h /\ l = m
           /\ Empty.holder = "nobody" /\ Foreign.holder = "other"
  <1>1. /\ Ours(g, l).holder = "us" /\ Ours(g, l).label = g /\ Ours(g, l).lease = l
        /\ Ours(h, m).label = h /\ Ours(h, m).lease = m
    BY DEF Ours
  <1>2. Empty.holder = "nobody" /\ Foreign.holder = "other"
    BY DEF Empty, Foreign
  <1> QED
    BY <1>1, <1>2

LEMMA NearIsGateway ==
    ASSUME UpnpInv PROVE near \in Gateways /\ near # NoGateway /\ AnySlot \in Slots
  BY NoGatewayAssumption DEF UpnpInv, UpnpTypeOK, AnySlot

\* Steps that leave the gateways and the journal alone.
LEMMA QuietUpnp ==
    ASSUME UpnpInv, UpnpTypeOK', UNCHANGED <<table, near, journal, disk>>,
           gateway' \in {NoGateway, near}, worker' # "add",
           worker' \in {"release", "query", "confirm"} => gateway' = near,
           worker' = "exit" /\ slotsLeft' # {} => gateway' = near,
           worker' # "down" => worker # "down"
    PROVE  UpnpInv'
  BY DEF UpnpInv

\* Steps of the worker between exchanges, and of the host.
LEMMA ControlKeeps ==
    ASSUME UpnpInv,
           \/ CycleDisabled \/ CycleMaintain \/ CycleDiscover \/ MaintainDone \/ Confirm
           \/ Shutdown \/ KillProcess \/ SettleJournal
    PROVE  UpnpInv'
  <1>a. near \in Gateways /\ near # NoGateway /\ AnySlot \in Slots
    BY NearIsGateway
  <1>1. CASE CycleDisabled
    <2>1. UpnpTypeOK'
      BY <1>1 DEF CycleDisabled, UpnpInv, UpnpTypeOK, journalVars, sessionVars, hostVars, RulesOn
    <2> QED
      BY <1>1, <2>1, QuietUpnp DEF CycleDisabled, UpnpInv, journalVars, sessionVars
  <1>2. CASE CycleMaintain
    <2>1. UpnpTypeOK'
      <3>1. /\ gateway' \in Gateways \union {NoGateway} /\ outcomes' \in [Slots -> Outcomes]
            /\ failures' \in 0 .. 1
        BY <1>2 DEF CycleMaintain, UpnpInv, UpnpTypeOK, sessionVars, Forgotten, Outcomes
      <3>2. worker' \in {"wait", "release"}
        BY <1>2 DEF CycleMaintain
      <3>3. slotsLeft' \subseteq Slots
        <4>1. slotsLeft \subseteq Slots /\ RulesOn(gateway) \subseteq Slots
          BY DEF UpnpInv, UpnpTypeOK, RulesOn
        <4> QED
          BY <1>2, <4>1 DEF CycleMaintain
      <3> QED
        BY <1>2, <3>1, <3>2, <3>3 DEF CycleMaintain, UpnpInv, UpnpTypeOK, journalVars
    <2> QED
      BY <1>2, <2>1, QuietUpnp DEF CycleMaintain, UpnpInv, journalVars, sessionVars, Forgotten
  <1>3. CASE CycleDiscover
    <2>1. UpnpTypeOK'
      BY <1>3, <1>a DEF CycleDiscover, UpnpInv, UpnpTypeOK, journalVars, Outcomes
    <2> QED
      BY <1>3, <2>1, QuietUpnp DEF CycleDiscover, UpnpInv, journalVars
  <1>4. CASE MaintainDone
    <2>1. UpnpTypeOK'
      <3>1. failures' \in 0 .. 1 /\ gateway' \in Gateways \union {NoGateway} /\ outcomes' \in [Slots -> Outcomes]
        BY <1>4 DEF MaintainDone, UpnpInv, UpnpTypeOK, Forgotten, Outcomes
      <3> QED
        BY <1>4, <3>1 DEF MaintainDone, UpnpInv, UpnpTypeOK, journalVars
    <2> QED
      BY <1>4, <2>1, QuietUpnp DEF MaintainDone, UpnpInv, journalVars, Forgotten
  <1>5. CASE Confirm
    <2>1. IsOurs(rule) => Found(rule).lease \in {"finite", "permanent"}
      <3>1. Found(rule) \in {Empty, Foreign} \union
                {Ours(g, l) : g \in Gateways, l \in {"finite", "permanent"}}
        BY <1>a DEF Found, UpnpInv, UpnpTypeOK
      <3>2. CASE Found(rule) \in {Empty, Foreign}
        BY <3>2 DEF IsOurs, Empty, Foreign
      <3>3. CASE \E g \in Gateways, l \in {"finite", "permanent"} : Found(rule) = Ours(g, l)
        <4>1. PICK g \in Gateways, l \in {"finite", "permanent"} : Found(rule) = Ours(g, l)
          BY <3>3
        <4>2. Ours(g, l).lease = l
          BY <4>1, OursFacts
        <4> QED
          BY <4>1, <4>2
      <3> QED
        BY <3>1, <3>2, <3>3
    <2>2. outcomes' \in [Slots -> Outcomes]
      BY <1>5, <2>1 DEF Confirm, UpnpInv, UpnpTypeOK, Outcomes
    <2>3. UpnpTypeOK'
      BY <1>5, <1>a, <2>2 DEF Confirm, UpnpInv, UpnpTypeOK, journalVars
    <2> QED
      BY <1>5, <2>3, QuietUpnp DEF Confirm, UpnpInv, journalVars
  <1>6. CASE Shutdown
    <2>1. UpnpTypeOK'
      BY <1>6 DEF Shutdown, UpnpInv, UpnpTypeOK, journalVars, sessionVars
    <2> QED
      BY <1>6, <2>1, QuietUpnp DEF Shutdown, UpnpInv, journalVars, sessionVars
  <1>7. CASE KillProcess
    <2>1. UpnpTypeOK'
      BY <1>7, <1>a DEF KillProcess, UpnpInv, UpnpTypeOK, journalVars, Forgotten, Outcomes
    <2> QED
      BY <1>7, <2>1, QuietUpnp DEF KillProcess, UpnpInv, journalVars, Forgotten
  <1>8. CASE SettleJournal
    <2>1. UpnpTypeOK'
      BY <1>8 DEF SettleJournal, UpnpInv, UpnpTypeOK, journalVars, sessionVars
    <2> QED
      BY <1>8, <2>1, QuietUpnp DEF SettleJournal, UpnpInv, journalVars, sessionVars
  <1> QED
    BY <1>1, <1>2, <1>3, <1>4, <1>5, <1>6, <1>7, <1>8

LEMMA HostKeeps ==
    ASSUME UpnpInv, RequestStop \/ Report \/ PortsChange PROVE UpnpInv'
  <1>1. UNCHANGED <<table, near, journal, disk, gateway, outcomes, failures, worker, slotsLeft, rule>>
    BY DEF RequestStop, Report, PortsChange, journalVars, sessionVars
  <1>2. wanted' \subseteq Slots
    BY DEF RequestStop, Report, PortsChange, UpnpInv, UpnpTypeOK
  <1>3. UpnpTypeOK'
    BY <1>1, <1>2 DEF UpnpInv, UpnpTypeOK
  <1> QED
    BY <1>1, <1>3 DEF UpnpInv

LEMMA SomeCells ==
    /\ Empty \in Cells
    /\ \A g \in Gateways, l \in {"finite", "permanent"} : Ours(g, l) \in Cells
  BY DEF Cells

LEMMA TableTyped == ASSUME UpnpInv PROVE table \in TableType
  BY DEF UpnpInv, UpnpTypeOK, TableType, Cells

LEMMA RetiringKeeps ==
    ASSUME UpnpInv, NEW s \in Slots, ReleaseOne(s) PROVE UpnpInv'
  <1>a. near \in Gateways /\ near # NoGateway
    BY NearIsGateway
  <1>b. gateway = near /\ worker' = worker /\ worker \in {"release", "exit"} /\ slotsLeft' \subseteq slotsLeft
    BY DEF ReleaseOne, UpnpInv
  <1>c. /\ UNCHANGED <<near, wanted, disk, gateway, outcomes, failures, rule>>
        /\ journal' = journal \/ journal' = journal \ {<<s, near>>}
    BY <1>b DEF ReleaseOne, sessionVars, Retired
  <1>d. Empty # Ours(near, "permanent") /\ \A h \in Gateways : Empty # Ours(h, "permanent")
    BY <1>a, OursFacts
  <1>1. /\ table' \in TableType
        /\ \A g \in Gateways, t \in Slots : table'[g][t] \in {Empty, table[g][t]}
    <2>1. CASE table' = [table EXCEPT ![near][s] = Empty]
      BY <2>1, <1>a, TableTyped, SomeCells DEF TableType
    <2>2. CASE table' = table
      BY <2>2 DEF UpnpInv, UpnpTypeOK, TableType, Cells
    <2> QED
      BY <2>1, <2>2 DEF ReleaseOne
  <1>2. journal' # journal => table'[near][s] # Ours(near, "permanent")
    <2> SUFFICES ASSUME journal' # journal PROVE table'[near][s] # Ours(near, "permanent")
      OBVIOUS
    <2>1. table' = IF IsOurs(s) THEN [table EXCEPT ![near][s] = Empty] ELSE table
      BY DEF ReleaseOne
    <2>2. CASE IsOurs(s)
      <3>1. table' = [table EXCEPT ![near][s] = Empty]
        BY <2>1, <2>2
      <3>2. table'[near][s] = Empty
        BY <3>1, <1>a, TableTyped, SomeCells DEF TableType
      <3> QED
        BY <3>2, <1>d
    <2>3. CASE ~IsOurs(s)
      <3>1. table[near][s] # Ours(near, "permanent")
        BY <2>3, <1>a, <1>b, OursFacts DEF IsOurs, Found
      <3> QED
        BY <2>1, <2>3, <3>1
    <2> QED
      BY <2>2, <2>3
  <1>3. UpnpTypeOK'
    <2>1. journal' \subseteq Slots \X Gateways /\ slotsLeft' \subseteq Slots
      BY <1>b, <1>c DEF UpnpInv, UpnpTypeOK
    <2> QED
      BY <1>1, <1>b, <1>c, <2>1 DEF UpnpInv, UpnpTypeOK, TableType, Cells
  <1>4. ASSUME NEW g \in Gateways, NEW t \in Slots, table'[g][t] = Ours(g, "permanent")
        PROVE  g = near /\ <<t, g>> \in disk' /\ (worker' # "down" => <<t, g>> \in journal')
    <2>1. table[g][t] = Ours(g, "permanent")
      BY <1>4, <1>1, <1>d
    <2>2. g = near /\ <<t, g>> \in disk /\ <<t, g>> \in journal
      BY <2>1, <1>b DEF UpnpInv
    <2> QED
      BY <2>2, <1>2, <1>4, <1>c
  <1> QED
    BY <1>b, <1>c, <1>3, <1>4 DEF UpnpInv

\* Steps that only write the journal's file, or read it.
LEMMA JournalKeeps ==
    ASSUME UpnpInv, ReleaseDone \/ ShutdownDone \/ StartWorker PROVE UpnpInv'
  <1>a. near \in Gateways /\ near # NoGateway
    BY NearIsGateway
  <1>1. CASE ReleaseDone
    <2>1. disk' \in {disk, journal} /\ UNCHANGED <<table, near, wanted, journal, rule>> /\ gateway = near
      BY <1>1 DEF ReleaseDone, Flushes, UpnpInv
    <2>2. /\ \/ worker' = "wait" /\ gateway' = NoGateway
             \/ worker' = "query" /\ gateway' = near
          /\ slotsLeft' \subseteq Slots /\ failures' \in 0 .. 1 /\ outcomes' \in [Slots -> Outcomes]
      BY <1>1, <2>1 DEF ReleaseDone, UpnpInv, UpnpTypeOK, Forgotten, Outcomes
    <2>3. UpnpTypeOK'
      BY <1>a, <2>1, <2>2 DEF UpnpInv, UpnpTypeOK
    <2> QED
      BY <1>1, <2>1, <2>2, <2>3 DEF UpnpInv, ReleaseDone
  <1>2. CASE ShutdownDone
    <2>1. /\ disk' \in {disk, journal} /\ UNCHANGED <<table, near, wanted, journal, rule>>
          /\ worker = "exit" /\ worker' = "down" /\ gateway' = NoGateway
          /\ slotsLeft' = {} /\ failures' = 0 /\ outcomes' \in [Slots -> Outcomes]
      BY <1>2 DEF ShutdownDone, Forgotten, Outcomes
    <2>2. UpnpTypeOK'
      BY <2>1 DEF UpnpInv, UpnpTypeOK
    <2> QED
      BY <2>1, <2>2 DEF UpnpInv
  <1>3. CASE StartWorker
    <2>1. /\ journal' = disk /\ worker' = "wait"
          /\ UNCHANGED <<table, near, wanted, disk, rule, gateway, outcomes, failures, slotsLeft>>
      BY <1>3 DEF StartWorker, sessionVars
    <2>2. UpnpTypeOK'
      BY <2>1 DEF UpnpInv, UpnpTypeOK
    <2> QED
      BY <2>1, <2>2 DEF UpnpInv
  <1> QED
    BY <1>1, <1>2, <1>3

LEMMA ReservingKeeps ==
    ASSUME UpnpInv, NEW s \in Slots, Query(s) PROVE UpnpInv'
  <1>a. near \in Gateways /\ near # NoGateway /\ AnySlot \in Slots /\ gateway = near /\ worker = "query"
    BY NearIsGateway DEF Query, UpnpInv
  <1>1. /\ UNCHANGED <<table, near, wanted, gateway, failures>> /\ slotsLeft' \subseteq slotsLeft
        /\ journal \subseteq journal' /\ journal' \subseteq journal \union {<<s, near>>}
        /\ rule' = IF worker' = "add" THEN s ELSE AnySlot
    BY <1>a DEF Query, Reserved
  <1>2. \/ worker' = "add" /\ disk' = journal' /\ <<s, near>> \in journal'
        \/ worker' = "query" /\ disk' = disk
    BY <1>a DEF Query, Reserved
  <1>3. outcomes' \in [Slots -> Outcomes]
    BY DEF Query, UpnpInv, UpnpTypeOK, Outcomes
  <1>4. UpnpTypeOK'
    BY <1>a, <1>1, <1>2, <1>3 DEF UpnpInv, UpnpTypeOK
  <1> QED
    BY <1>a, <1>1, <1>2, <1>4 DEF UpnpInv

LEMMA AddingKeeps ==
    ASSUME UpnpInv, Add PROVE UpnpInv'
  <1>a. /\ near \in Gateways /\ near # NoGateway /\ AnySlot \in Slots /\ gateway = near
        /\ rule \in Slots /\ <<rule, near>> \in disk /\ <<rule, near>> \in journal
    BY NearIsGateway DEF Add, UpnpInv, UpnpTypeOK
  <1>b. LeaseAt(near) \in {"finite", "permanent"}
    BY DEF LeaseAt
  <1>1. /\ UNCHANGED <<near, wanted, journal, disk, gateway, failures, slotsLeft>>
        /\ worker' \in {"confirm", "query"} /\ rule' \in Slots
    BY <1>a DEF Add, journalVars
  <1>2. outcomes' \in [Slots -> Outcomes]
    BY DEF Add, UpnpInv, UpnpTypeOK, Outcomes
  <1>3. /\ table' \in TableType
        /\ \A g \in Gateways, t \in Slots : (g = near /\ t = rule) \/ table'[g][t] = table[g][t]
    <2>1. CASE table' = [table EXCEPT ![near][rule] = Ours(near, LeaseAt(near))]
      BY <2>1, <1>a, <1>b, TableTyped, SomeCells DEF TableType
    <2>2. CASE table' = table
      BY <2>2 DEF UpnpInv, UpnpTypeOK, TableType, Cells
    <2> QED
      BY <1>a, <2>1, <2>2 DEF Add
  <1>4. UpnpTypeOK'
    BY <1>1, <1>2, <1>3 DEF UpnpInv, UpnpTypeOK, TableType, Cells
  <1> QED
    BY <1>a, <1>1, <1>3, <1>4 DEF UpnpInv, Add

LEMMA LapsingKeeps ==
    ASSUME UpnpInv, NEW g \in Gateways, NEW s \in Slots, Lapse(g, s) PROVE UpnpInv'
  <1>1. UNCHANGED <<near, wanted, journal, disk, gateway, outcomes, failures, worker, slotsLeft, rule>>
    BY DEF Lapse, journalVars, sessionVars
  <1>2. /\ table' \in TableType
        /\ \A h \in Gateways, t \in Slots : table'[h][t] \in {Empty, table[h][t]}
    BY TableTyped, SomeCells DEF Lapse, TableType
  <1>3. UpnpTypeOK'
    BY <1>1, <1>2 DEF UpnpInv, UpnpTypeOK, TableType, Cells
  <1>4. \A h \in Gateways : Empty # Ours(h, "permanent")
    BY OursFacts
  <1> QED
    BY <1>1, <1>2, <1>3, <1>4 DEF UpnpInv

\* Whatever fails and wherever the process is killed or stopped, a permanent
\* rule of ours on a gateway is in the journal file, for any number of
\* gateways and slots (Registry::reserve before AddPortMapping, retire after
\* the gateway's answer, the flush of release).
THEOREM PermanentAlwaysJournalled == UpnpSpec => [](UpnpTypeOK /\ PermanentIsJournalled)
  <1>1. UpnpInit => UpnpInv
    <2> SUFFICES ASSUME UpnpInit PROVE UpnpInv
      OBVIOUS
    <2>1. AnySlot \in Slots
      <3>1. wanted # {} /\ wanted \subseteq Slots
        BY DEF UpnpInit
      <3> QED
        BY <3>1 DEF AnySlot
    <2>2. /\ table \in TableType
          /\ \A g \in Gateways, s \in Slots : table[g][s] \in {Empty, Foreign}
      BY DEF UpnpInit, TableType, Cells
    <2>3. \A g \in Gateways : Ours(g, "permanent") \notin {Empty, Foreign}
      BY OursFacts
    <2>4. UpnpTypeOK
      BY <2>1, <2>2 DEF UpnpInit, UpnpTypeOK, TableType, Cells, Outcomes
    <2> QED
      BY <2>2, <2>3, <2>4 DEF UpnpInit, UpnpInv
  <1>2. UpnpInv /\ [UpnpNext]_upnpVars => UpnpInv'
    <2> SUFFICES ASSUME UpnpInv, [UpnpNext]_upnpVars PROVE UpnpInv'
      OBVIOUS
    <2>1. CASE UNCHANGED upnpVars
      BY <2>1 DEF upnpVars, journalVars, sessionVars, UpnpInv, UpnpTypeOK
    <2>2. CASE UpnpNext
      BY <2>2, ControlKeeps, HostKeeps, RetiringKeeps, JournalKeeps, ReservingKeeps, AddingKeeps,
         LapsingKeeps DEF UpnpNext
    <2> QED
      BY <2>1, <2>2
  <1>3. UpnpInv => UpnpTypeOK /\ PermanentIsJournalled
    BY DEF UpnpInv, PermanentIsJournalled
  <1> QED
    BY <1>1, <1>2, <1>3, PTL DEF UpnpSpec
=============================================================================
