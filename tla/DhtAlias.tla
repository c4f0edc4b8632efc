------------------------------ MODULE DhtAlias ------------------------------
(***************************************************************************)
(* One alias in the network (dht/src/items.rs, the alias operations of     *)
(* libcore/src/dht_client.rs): owners claim it, renew the claim, burn it;  *)
(* storing nodes grant every record a lease shorter than it asks for and   *)
(* hand records on; a reader judges by the records it can see.             *)
(*                                                                         *)
(* Records are signed, so a record says what its owner says.  Owners are   *)
(* numbered in the order of their keys.                                    *)
(***************************************************************************)
EXTENDS Naturals

CONSTANTS AliasOwners,  \* a set of numbers
          AliasNodes,
          Lease,        \* StoreLimits.max_ttl_ms: what a node grants
          ClaimTtl, TombstoneTtl,
          MaxAliasTime

ASSUME AliasAssumption ==
    /\ AliasOwners \subseteq Nat /\ Lease \in Nat \ {0} /\ MaxAliasTime \in Nat
    /\ ClaimTtl \in Nat /\ TombstoneTtl \in Nat /\ Lease <= ClaimTtl /\ ClaimTtl < TombstoneTtl

Unfounded == MaxAliasTime + 1

VARIABLES today,
          stored,   \* what each node holds: a record and the end of its lease
          founded   \* when each owner first claimed, as the owner remembers it

aliasVars == <<today, stored, founded>>

AliasRecord == [kind : {"claim", "tombstone"}, owner : AliasOwners,
                created : 0..MaxAliasTime, expires : 0..MaxAliasTime + TombstoneTtl]

\* build_alias_record: a record may not be founded in the future.
AliasRecordOf(kind, owner, created, ttl) ==
    [kind |-> kind, owner |-> owner, created |-> created, expires |-> today + ttl]

\* Put at some nodes, each of which clamps its life (admit) and takes a record
\* it already holds for the same one.
PutAt(rec, nodes) ==
    [n \in AliasNodes |-> IF n \in nodes /\ \A s \in stored[n] : s.rec # rec
        THEN stored[n] \cup {[rec |-> rec,
                               until |-> IF rec.expires < today + Lease THEN rec.expires ELSE today + Lease]}
        ELSE stored[n]]

Earliest(recs) == {r \in recs : \A q \in recs :
    r.created < q.created \/ (r.created = q.created /\ r.owner <= q.owner)}

\* founding_of_owner, then the first of the founders; of records alike in time
\* and owner any will do here, since only the owner is looked at.
OpenAliasRecords(recs, kind) ==
    {r \in recs : r.kind = kind /\ r.created <= today /\ r.expires > today}

AliasState(recs) ==
    LET claims == OpenAliasRecords(recs, "claim")
        burns  == OpenAliasRecords(recs, "tombstone")
        first  == CHOOSE r \in Earliest(claims) : TRUE
    IN  IF claims # {}
        THEN [is |-> IF \E t \in burns : t.owner = first.owner THEN "revoked" ELSE "claimed",
              owner |-> first.owner]
        ELSE IF burns # {}
        THEN [is |-> "revoked", owner |-> (CHOOSE r \in Earliest(burns) : TRUE).owner]
        ELSE [is |-> "available", owner |-> Unfounded]

\* What a reader that reaches these nodes sees.
SeenAt(nodes) == {s.rec : s \in {x \in UNION {stored[n] : n \in nodes} : x.until > today}}

-----------------------------------------------------------------------------

AliasInit ==
    /\ today = 0
    /\ stored = [n \in AliasNodes |-> {}]
    /\ founded = [o \in AliasOwners |-> Unfounded]

\* claim_alias: published, whatever the network says of the alias.
ClaimAlias(o, nodes) ==
    /\ founded[o] = Unfounded
    /\ stored' = PutAt(AliasRecordOf("claim", o, today, ClaimTtl), nodes)
    /\ founded' = [founded EXCEPT ![o] = today]
    /\ UNCHANGED today

\* refresh_alias: a later expiry, the same place in the line.
RefreshAliasMutant(o, nodes) ==
    /\ founded[o] <= today
    /\ stored' = PutAt(AliasRecordOf("claim", o, today, ClaimTtl), nodes)
    /\ UNCHANGED <<today, founded>>
RefreshAlias(o, nodes) ==
    /\ founded[o] <= today
    /\ stored' = PutAt(AliasRecordOf("claim", o, founded[o], ClaimTtl), nodes)
    /\ UNCHANGED <<today, founded>>

RevokeAlias(o, nodes) ==
    /\ founded[o] <= today
    /\ stored' = PutAt(AliasRecordOf("tombstone", o, today, TombstoneTtl), nodes)
    /\ UNCHANGED <<today, founded>>

\* A node, or a reader, gives a record to another node: its lease starts anew.
Repeat(n, to) ==
    \E s \in stored[n] : /\ s.until > today
                         /\ stored' = PutAt(s.rec, {to})
                         /\ UNCHANGED <<today, founded>>

AliasDay ==
    /\ today < MaxAliasTime /\ today' = today + 1
    /\ stored' = [n \in AliasNodes |-> {s \in stored[n] : s.until > today + 1}]
    /\ UNCHANGED founded

AliasNext ==
    \/ \E o \in AliasOwners, nodes \in (SUBSET AliasNodes) \ {{}} :
          ClaimAlias(o, nodes) \/ RefreshAlias(o, nodes) \/ RevokeAlias(o, nodes)
    \/ \E n, to \in AliasNodes : Repeat(n, to)
    \/ AliasDay

AliasSpec == AliasInit /\ [][AliasNext]_aliasVars

-----------------------------------------------------------------------------

\* First come, first served: a reader that sees any claim of whoever claimed
\* first, however often renewed and on however few nodes, never takes a later
\* claimant for the owner.
FirstComeKept ==
    \A nodes \in SUBSET AliasNodes, o, p \in AliasOwners :
       (/\ \E r \in OpenAliasRecords(SeenAt(nodes), "claim") : r.owner = o
        /\ founded[o] < founded[p])
       => AliasState(SeenAt(nodes)) # [is |-> "claimed", owner |-> p]

\* While the tombstone of the one who claimed first is visible nobody else has
\* the alias.
BurnedStaysBurned ==
    \A nodes \in SUBSET AliasNodes, o, p \in AliasOwners :
       (/\ \E r \in OpenAliasRecords(SeenAt(nodes), "tombstone") : r.owner = o
        /\ founded[o] < founded[p])
       => AliasState(SeenAt(nodes)) # [is |-> "claimed", owner |-> p]

=============================================================================
