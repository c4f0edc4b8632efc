----------------------------- MODULE DhtStorage -----------------------------
(***************************************************************************)
(* What dht/src/store.rs promises of a store of items held for others: the *)
(* trait Storage and the admission every backend shares.  DhtStores shows  *)
(* which backends keep the promise.                                        *)
(*                                                                         *)
(* A value is a pair of a name and a length: equal names are equal hashes. *)
(* A letter's delete token is named after its value; records have none.    *)
(***************************************************************************)
EXTENDS Naturals, Sequences, SequencesExt, FiniteSetsExt

CONSTANTS DhtKeys,          \* keys items are stored under
          Values,           \* <<name, length>>
          Letters,          \* the values that carry a delete hash
          MaxValueBytes,    \* MAX_VALUE_BYTES
          MaxDhtBytes,      \* StoreLimits.max_total_bytes
          MaxKeyBytes,      \* StoreLimits.max_bytes_per_key
          MaxKeyItems,      \* StoreLimits.max_items_per_key
          MaxTtl,           \* StoreLimits.max_ttl_ms
          MaxNow            \* bound on the clock

VARIABLES held,     \* the items, oldest first
          now

StoredItem == [key : DhtKeys, value : Values, expires : 1..MaxNow + MaxTtl + 1]

Bytes(s) == FoldLeft(LAMBDA n, item : n + item.value[2], 0, s)

Under(s, key) == SelectSeq(s, LAMBDA item : item.key = key)

Live(s, at) == SelectSeq(s, LAMBDA item : item.expires > at)

\* admit: refuse what is too large or over, shorten what asks for too long.
Admits(item, at) ==
    /\ item.value[2] <= MaxValueBytes /\ item.value[2] <= MaxKeyBytes
    /\ item.expires > at

Clamped(item, at) == [item EXCEPT !.expires = Min({@, at + MaxTtl})]

\* The same value under the same key is stored once.
Holds(s, item) == \E i \in DOMAIN s : s[i].key = item.key /\ s[i].value = item.value

\* Room for one more item: under its key, then overall.
FitsKey(s, item) ==
    Len(s) < MaxKeyItems /\ Bytes(s) + item.value[2] <= MaxKeyBytes
FitsTotal(s, item) == Bytes(s) + item.value[2] <= MaxDhtBytes

\* The newest of s that leave such room.
NewestThat(Fits(_, _), s, item) ==
    SubSeq(s, Min({n \in 1..Len(s) + 1 :
                     n = Len(s) + 1 \/ Fits(SubSeq(s, n, Len(s)), item)}), Len(s))

\* "evicting the oldest under the same key and then the oldest overall"
StoredIn(s, item) ==
    LET own  == NewestThat(FitsKey, Under(s, item.key), item)
        rest == SelectSeq(s, LAMBDA i : i.key # item.key \/ Contains(own, i))
    IN  IF Holds(s, item) THEN s
        ELSE Append(NewestThat(FitsTotal, rest, item), item)

Deleted(s, key, token) ==
    SelectSeq(s, LAMBDA item : ~(item.key = key /\ item.value = token /\ token \in Letters))

-----------------------------------------------------------------------------

StorageInit == held = <<>> /\ now = 0

StoragePut(item) ==
    /\ Admits(item, now)
    /\ held' = StoredIn(held, Clamped(item, now))
    /\ UNCHANGED now

StorageDelete(key, token) == held' = Deleted(held, key, token) /\ UNCHANGED now

StorageGc == held' = Live(held, now) /\ UNCHANGED now

StorageTick == now < MaxNow /\ now' = now + 1 /\ UNCHANGED held

StorageNext ==
    \/ \E item \in StoredItem : StoragePut(item)
    \/ \E key \in DhtKeys, token \in Letters : StorageDelete(key, token)
    \/ StorageGc
    \/ StorageTick

StorageSpec == StorageInit /\ [][StorageNext]_<<held, now>>

=============================================================================
