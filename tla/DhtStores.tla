------------------------------ MODULE DhtStores ------------------------------
(***************************************************************************)
(* The three backends of a node's store, given the same calls: MemStorage  *)
(* (dht/src/store.rs), the messenger's table behind DbStorage              *)
(* (libcore/src/db.rs) and the standalone relay's SqliteStorage            *)
(* (core/relay/src/dht_store.rs).  Each call is one step: a mutex or a     *)
(* transaction holds for its length.                                       *)
(***************************************************************************)
EXTENDS Naturals, Sequences, SequencesExt, FiniteSets, FiniteSetsExt, Functions

CONSTANTS DhtKeys, Values, Letters, MaxValueBytes, MaxDhtBytes, MaxKeyBytes,
          MaxKeyItems, MaxTtl, MaxNow,
          MaxPuts           \* bound on items stored

ASSUME StoresAssumption ==
    /\ Letters \subseteq Values
    /\ \A v \in Values : v[2] \in Nat
    /\ {MaxValueBytes, MaxDhtBytes, MaxKeyBytes, MaxTtl, MaxNow, MaxPuts} \subseteq Nat
    /\ MaxKeyItems \in Nat \ {0}

VARIABLES mem,      \* Inner: [entries, by_key, bytes, next]
          db,       \* rows of dht_items in the messenger's database, by id
          lite,     \* rows of dht_items in the relay's database, by id
          now

storesVars == <<mem, db, lite, now>>

\* MemStorage as a sequence, oldest first: what all() and get() go through.
MemHeld == LET seqs == SetToSortSeq(DOMAIN mem.entries, <)
           IN  [i \in DOMAIN seqs |-> mem.entries[seqs[i]]]

InMem == INSTANCE DhtStorage WITH held <- MemHeld
InDb == INSTANCE DhtStorage WITH held <- db
InLite == INSTANCE DhtStorage WITH held <- lite

Bytes(s) == InDb!Bytes(s)
Admits(item) == InDb!Admits(item, now)
Clamped(item) == InDb!Clamped(item, now)

\* Where a loop that drops the first of s stops: at the first place from which
\* Done holds of the rest.
DropUntil(s, Done(_)) ==
    SubSeq(s, Min({n \in 1..Len(s) + 1 : n > Len(s) \/ Done(SubSeq(s, n, Len(s)))}), Len(s))

-----------------------------------------------------------------------------
\* MemStorage: entries by sequence number, an index and a byte count.

ListOf(m, key) == IF key \in DOMAIN m.by_key THEN m.by_key[key] ELSE <<>>

\* Inner::remove
MemRemoveMutant(m, seq) ==
    LET item == m.entries[seq]
        list == SelectSeq(m.by_key[item.key], LAMBDA s : s # seq)
    IN  [m EXCEPT !.entries = Restrict(@, DOMAIN @ \ {seq}),
                  !.by_key  = IF list = <<>> THEN Restrict(@, DOMAIN @ \ {item.key})
                              ELSE [@ EXCEPT ![item.key] = list]]
MemRemove(m, seq) ==
    LET item == m.entries[seq]
        list == SelectSeq(m.by_key[item.key], LAMBDA s : s # seq)
    IN  [m EXCEPT !.entries = Restrict(@, DOMAIN @ \ {seq}),
                  !.bytes   = @ - item.value[2],
                  !.by_key  = IF list = <<>> THEN Restrict(@, DOMAIN @ \ {item.key})
                              ELSE [@ EXCEPT ![item.key] = list]]

MemRemoveAll(m, seqs) == FoldLeft(MemRemove, m, seqs)

\* The first loop of put drops from the list of the key, the second from the
\* front of all entries while the count is over.
MemMakeRoom(m, item) ==
    LET list  == ListOf(m, item.key)
        items == [i \in DOMAIN list |-> m.entries[list[i]]]
        kept  == DropUntil(items, LAMBDA s : /\ Len(s) < MaxKeyItems
                                             /\ Bytes(s) + item.value[2] <= MaxKeyBytes)
        own   == MemRemoveAll(m, SubSeq(list, 1, Len(list) - Len(kept)))
        order == SetToSortSeq(DOMAIN own.entries, <)
        After(n) == MemRemoveAll(own, SubSeq(order, 1, n))
    IN  After(Min({n \in 0..Len(order) :
                     n = Len(order) \/ After(n).bytes + item.value[2] <= MaxDhtBytes}))

MemHolds(m, item) ==
    \E s \in Range(ListOf(m, item.key)) : m.entries[s].value = item.value

MemPut(m, item) ==
    LET r == MemMakeRoom(m, item)
    IN  IF MemHolds(m, item) THEN m
        ELSE [entries |-> [s \in DOMAIN r.entries \cup {r.next} |->
                              IF s = r.next THEN item ELSE r.entries[s]],
              by_key  |-> [k \in DOMAIN r.by_key \cup {item.key} |->
                              IF k = item.key THEN Append(ListOf(r, k), r.next)
                              ELSE r.by_key[k]],
              bytes   |-> r.bytes + item.value[2],
              next    |-> r.next + 1]

MemDelete(m, key, token) ==
    MemRemoveAll(m, SelectSeq(ListOf(m, key), LAMBDA s : m.entries[s].value = token))

MemGc(m) ==
    MemRemoveAll(m, SetToSortSeq({s \in DOMAIN m.entries : m.entries[s].expires <= now}, <))

-----------------------------------------------------------------------------
\* Db::dht_item_put: both loops ask the table again after each row they drop.

Dropped(rows, gone) == SelectSeq(rows, LAMBDA r : ~Contains(gone, r))

DbPut(rows, item) ==
    LET own  == InDb!Under(rows, item.key)
        kept == DropUntil(own, LAMBDA s : /\ Len(s) < MaxKeyItems
                                          /\ Bytes(s) + item.value[2] <= MaxKeyBytes)
        rest == Dropped(rows, SubSeq(own, 1, Len(own) - Len(kept)))
        room == DropUntil(rest, LAMBDA s : \/ Bytes(s) = 0
                                           \/ Bytes(s) + item.value[2] <= MaxDhtBytes)
    IN  IF InDb!Holds(rows, item) THEN rows ELSE Append(room, item)

DbDelete(rows, key, token) == InDb!Deleted(rows, key, token)

DbGc(rows) == InDb!Live(rows, now)

-----------------------------------------------------------------------------
\* SqliteStorage: one delete makes the key's count fit, then rows go until
\* what was over the total is gone.

LitePut(rows, item) ==
    LET own  == InLite!Under(rows, item.key)
        over == Max({0, Len(own) - MaxKeyItems + 1})
        rest == Dropped(rows, SubSeq(own, 1, over))
        room == DropUntil(rest, LAMBDA s : Bytes(s) + item.value[2] <= MaxDhtBytes)
    IN  IF InLite!Holds(rows, item) THEN rows ELSE Append(room, item)

LiteDelete(rows, key, token) == InLite!Deleted(rows, key, token)

LiteGc(rows) == InLite!Live(rows, now)

-----------------------------------------------------------------------------
\* What a backend answers: the live items under a key, all of them, and how
\* much it holds.

MemGet(key) ==
    LET list == ListOf(mem, key)
    IN  InMem!Live([i \in DOMAIN list |-> mem.entries[list[i]]], now)
MemAll == InMem!Live(MemHeld, now)
MemStats == <<Cardinality(DOMAIN mem.entries), mem.bytes>>

DbGet(key) == InDb!Live(InDb!Under(db, key), now)
DbAll == InDb!Live(db, now)
DbStats == <<Len(db), Bytes(db)>>

LiteGet(key) == InLite!Live(InLite!Under(lite, key), now)
LiteAll == InLite!Live(lite, now)
LiteStats == <<Len(lite), Bytes(lite)>>

-----------------------------------------------------------------------------

StoresInit ==
    /\ mem = [entries |-> <<>>, by_key |-> <<>>, bytes |-> 0, next |-> 1]
    /\ db = <<>> /\ lite = <<>>
    /\ now = 0

PutEach(item) ==
    /\ mem.next <= MaxPuts
    /\ Admits(item)
    /\ mem' = MemPut(mem, Clamped(item))
    /\ db' = DbPut(db, Clamped(item))
    /\ lite' = LitePut(lite, Clamped(item))
    /\ UNCHANGED now

\* Only the holder of a letter's token can delete it.
DeleteEach(key, token) ==
    /\ mem' = MemDelete(mem, key, token)
    /\ db' = DbDelete(db, key, token)
    /\ lite' = LiteDelete(lite, key, token)
    /\ UNCHANGED now

GcEach ==
    /\ mem' = MemGc(mem)
    /\ db' = DbGc(db)
    /\ lite' = LiteGc(lite)
    /\ UNCHANGED now

StoresTick == now < MaxNow /\ now' = now + 1 /\ UNCHANGED <<mem, db, lite>>

StoresNext ==
    \/ \E item \in InDb!StoredItem : PutEach(item)
    \/ \E key \in DhtKeys, token \in Letters : DeleteEach(key, token)
    \/ GcEach
    \/ StoresTick

StoresSpec == StoresInit /\ [][StoresNext]_storesVars

-----------------------------------------------------------------------------

\* MemStorage keeps the trait's promise: its index, its sequence numbers and
\* its running byte count evict exactly what the limits ask for, oldest first,
\* and nothing else ever goes but what expired or was deleted with its token.
MemImplements == InMem!StorageSpec

\* A node that moves its store from memory to the messenger's table answers no
\* differently: one counts bytes as items come and go, the other asks SQL, and
\* under every key both hold the same items in the same order.
SameAnswers ==
    /\ \A key \in DhtKeys : MemGet(key) = DbGet(key)
    /\ MemAll = DbAll /\ MemStats = DbStats

\* Every backend is to stay within the limits it was given, per key and over
\* all.  SqliteStorage never looks at max_bytes_per_key, so under one key it
\* keeps items the other two have evicted.
LiteWithinLimits ==
    /\ LiteStats[2] <= MaxDhtBytes
    /\ \A key \in DhtKeys : /\ Len(LiteGet(key)) <= MaxKeyItems
                            /\ Bytes(LiteGet(key)) <= MaxKeyBytes

==============================================================================
