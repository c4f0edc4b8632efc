------------------------------ MODULE MemStore ------------------------------
(***************************************************************************)
(* The mailbox a relay keeps in memory (libcore/src/relay_server.rs):      *)
(* letters by id, an index of ids and a byte count per recipient, one byte *)
(* count for everything, and the prekey bundles.  `inner' is the struct    *)
(* behind the store's mutex, so each method is one step on it.             *)
(*                                                                         *)
(* A blob is its length.  Instants are kept as orders: ids are handed out  *)
(* under the lock that reads the clock, so a letter is older exactly when  *)
(* its id is smaller, and `bundles' lists its keys from stalest to newest. *)
(***************************************************************************)
EXTENDS Naturals, Sequences, FiniteSets, FiniteSetsExt, Functions

CONSTANTS Keys,               \* signing keys clients authenticate with
          Lens,               \* lengths of the blobs clients deposit
          MaxTotalBytes,      \* MemStoreLimits.max_total_bytes
          MaxRecipientBytes,  \* MemStoreLimits.max_recipient_bytes
          MaxBundles,         \* MemStoreLimits.max_bundles
          PendingLimit,       \* PENDING_LIMIT
          MaxId,              \* bound on the ids a run hands out
          Anyone, Nobody      \* Serving::Anyone, Serving::Nobody

ASSUME MemStoreAssumption ==
    /\ Lens \subseteq Nat
    /\ MaxTotalBytes \in Nat /\ MaxRecipientBytes \in Nat
    /\ MaxBundles \in Nat \ {0} /\ PendingLimit \in Nat /\ MaxId \in Nat
    /\ Anyone \notin Keys /\ Nobody \notin Keys /\ Anyone # Nobody

VARIABLES inner,    \* [next_id, messages, inboxes, bundles, total_bytes]
          serving   \* a key (Serving::Only), Anyone or Nobody

storeVars == <<inner, serving>>

\* MemStore::new clamps the recipient cap to the total cap.
RecipientCap == Min({MaxRecipientBytes, MaxTotalBytes})

Message == [to : Keys, len : Lens]

LenSum(messages, S) == SumFunctionOnSet([i \in S |-> messages[i].len], S)

EmptyInner == [next_id |-> 0, messages |-> <<>>, inboxes |-> <<>>,
               bundles |-> <<>>, total_bytes |-> 0]

Serves(pk) == serving = Anyone \/ serving = pk

\* Inner::remove for every id of S.  An inbox left without ids goes.
Without(messages, gone) == [i \in DOMAIN messages \ gone |-> messages[i]]

InboxesWithout(g, gone) ==
    [pk \in {k \in DOMAIN g.inboxes : ~ g.inboxes[k].ids \subseteq gone} |->
        [ids   |-> g.inboxes[pk].ids \ gone,
         bytes |-> g.inboxes[pk].bytes
                      - LenSum(g.messages, g.inboxes[pk].ids \cap gone)]]

InnerRemove(g, S) ==
    LET gone == S \cap DOMAIN g.messages
    IN  [next_id     |-> g.next_id,
         messages    |-> Without(g.messages, gone),
         inboxes     |-> InboxesWithout(g, gone),
         bundles     |-> g.bundles,
         total_bytes |-> g.total_bytes - LenSum(g.messages, gone)]

\* What a deposit writes before it makes room.
Insert(g, to, len) ==
    LET id    == g.next_id + 1
        inbox == IF to \in DOMAIN g.inboxes THEN g.inboxes[to]
                                            ELSE [ids |-> {}, bytes |-> 0]
    IN  [next_id     |-> id,
         messages    |-> [i \in DOMAIN g.messages \cup {id} |->
                             IF i = id THEN [to |-> to, len |-> len]
                                       ELSE g.messages[i]],
         inboxes     |-> [k \in DOMAIN g.inboxes \cup {to} |->
                             IF k = to THEN [ids   |-> inbox.ids \cup {id},
                                             bytes |-> inbox.bytes + len]
                                       ELSE g.inboxes[k]],
         bundles     |-> g.bundles,
         total_bytes |-> g.total_bytes + len]

\* The ids that removing the first of `ids' while the count is above `cap'
\* takes: those whose turn comes with the count still above it.
OverCap(g, ids, bytes, cap) ==
    {i \in ids : bytes - LenSum(g.messages, {j \in ids : j < i}) > cap}

EvictOwnMutant(g, to) ==
    LET ids == g.inboxes[to].ids
    IN  InnerRemove(g, OverCap(g, ids \ {Min(ids)}, g.inboxes[to].bytes, RecipientCap))
EvictOwn(g, to) ==
    InnerRemove(g, OverCap(g, g.inboxes[to].ids, g.inboxes[to].bytes, RecipientCap))

EvictTotal(g) ==
    InnerRemove(g, OverCap(g, DOMAIN g.messages, g.total_bytes, MaxTotalBytes))

\* MemStore::deposit, for a recipient served and a blob that fits.
Deposited(g, to, len) == EvictTotal(EvictOwn(Insert(g, to, len), to))

DepositAccepted(to, len) == Serves(to) /\ len <= RecipientCap

\* MemStore::pending_above: the first PENDING_LIMIT ids above the cursor.
PendingAbove(pk, cursor) ==
    LET above == IF pk \in DOMAIN inner.inboxes
                 THEN {i \in inner.inboxes[pk].ids : i > cursor} ELSE {}
    IN  {i \in above : Cardinality({j \in above : j < i}) < PendingLimit}

Acked(g, pk, id) ==
    IF id \in DOMAIN g.messages /\ g.messages[id].to = pk THEN InnerRemove(g, {id}) ELSE g

\* The bundles once pk has published: the stalest makes room for a new key.
Published(bundles, pk) ==
    IF pk \notin Range(bundles) /\ Len(bundles) >= MaxBundles
    THEN Append(Tail(bundles), pk)
    ELSE Append(SelectSeq(bundles, LAMBDA k : k # pk), pk)

-----------------------------------------------------------------------------

StoreInit == inner = EmptyInner /\ serving \in {Anyone, Nobody} \cup Keys

\* MemStore::claim: the owner of a store built before it was known.
Claim(owner) ==
    /\ serving = Nobody
    /\ serving' = owner
    /\ UNCHANGED inner

Deposit(to, len) ==
    /\ DepositAccepted(to, len)
    /\ inner.next_id < MaxId
    /\ inner' = Deposited(inner, to, len)
    /\ UNCHANGED serving

Ack(pk, id) ==
    /\ inner' = Acked(inner, pk, id)
    /\ UNCHANGED serving

StoreBundle(pk) ==
    /\ Serves(pk)
    /\ inner' = [inner EXCEPT !.bundles = Published(@, pk)]
    /\ UNCHANGED serving

\* MemStore::gc: what has outlived its time, letters up to some id and the
\* stalest bundles, goes.
Gc(lastExpired, staleBundles) ==
    /\ inner' = [InnerRemove(inner, {i \in DOMAIN inner.messages : i <= lastExpired})
                 EXCEPT !.bundles = SubSeq(@, staleBundles + 1, Len(@))]
    /\ UNCHANGED serving

StoreNext ==
    \/ \E pk \in Keys : Claim(pk)
    \/ \E pk \in Keys, len \in Lens : Deposit(pk, len)
    \/ \E pk \in Keys, id \in 1..MaxId : Ack(pk, id)
    \/ \E pk \in Keys : StoreBundle(pk)
    \/ \E i \in 0..MaxId, b \in 0..Len(inner.bundles) : Gc(i, b)

StoreSpec == StoreInit /\ [][StoreNext]_storeVars

-----------------------------------------------------------------------------

\* The store has the shape of the Rust struct: letters under ids already
\* handed out, at most one bundle per key.
StoreTypeOK ==
    /\ inner.next_id \in 0..MaxId
    /\ DOMAIN inner.messages \subseteq 1..inner.next_id
    /\ \A i \in DOMAIN inner.messages : inner.messages[i] \in Message
    /\ DOMAIN inner.inboxes \subseteq Keys
    /\ inner.total_bytes \in Nat
    /\ inner.bundles \in Seq(Keys) /\ IsInjective(inner.bundles)
    /\ serving \in {Anyone, Nobody} \cup Keys

\* The index by recipient and the letters agree: an inbox lists exactly its
\* recipient's letters, and no inbox is kept empty.  Inner::remove and deposit
\* update the two separately; a letter missing from its inbox is never pushed
\* again and can only leave by age.
Agrees(g) ==
    /\ \A pk \in DOMAIN g.inboxes :
          /\ g.inboxes[pk].ids # {}
          /\ g.inboxes[pk].ids = {i \in DOMAIN g.messages : g.messages[i].to = pk}
    /\ \A i \in DOMAIN g.messages : g.messages[i].to \in DOMAIN g.inboxes
IndexAgrees == Agrees(inner)

\* The byte counts the caps are enforced by are the bytes really held, through
\* every deposit, eviction, ack and expiry: a count that drifts up shrinks the
\* mailbox for good, one that drifts down lets it outgrow its memory budget.
BytesAccounted ==
    /\ inner.total_bytes = LenSum(inner.messages, DOMAIN inner.messages)
    /\ \A pk \in DOMAIN inner.inboxes :
          inner.inboxes[pk].bytes = LenSum(inner.messages, inner.inboxes[pk].ids)

\* The memory budget holds after every call: all letters, each recipient's,
\* and the number of bundles.
WithinBudget ==
    /\ LenSum(inner.messages, DOMAIN inner.messages) <= MaxTotalBytes
    /\ \A pk \in DOMAIN inner.inboxes :
          LenSum(inner.messages, inner.inboxes[pk].ids) <= RecipientCap
    /\ Len(inner.bundles) <= MaxBundles

\* Making room takes a recipient's letters from the oldest on and never the
\* one just deposited ("it is never the one evicted"), although the two loops
\* of deposit look at two different counts.
EvictsOldestFirst ==
    [][inner'.next_id # inner.next_id =>
         /\ inner'.next_id \in DOMAIN inner'.messages
         /\ \A gone \in DOMAIN inner.messages \ DOMAIN inner'.messages :
            \A kept \in DOMAIN inner.messages \cap DOMAIN inner'.messages :
                inner.messages[gone].to = inner.messages[kept].to => gone < kept]_storeVars

\* The two maps of the store agree, its byte counts are those of its blobs,
\* neither budget is exceeded, and what makes room is the oldest.
StoreKeeps ==
    []StoreTypeOK /\ []IndexAgrees /\ []BytesAccounted /\ []WithinBudget /\ EvictsOldestFirst
=============================================================================
