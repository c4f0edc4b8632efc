--------------------------- MODULE SessionProofs ---------------------------
(***************************************************************************)
(* ReadIsKept of Session, for any number of callers, inits, crashes,       *)
(* resets, lost acks and lost letters, in any order of delivery.           *)
(*                                                                         *)
(* The inductive invariant says what a letter under way proves, in         *)
(* LetterTrue: a receipt that its writer stored the message, a letter      *)
(* whose key is spent that what it said is kept, an init that the prekey   *)
(* it names had been published for it.                                     *)
(***************************************************************************)
EXTENDS Session, TLAPS

Kinds == {"init", "message", "receipt"}

NetLetters == [kind : Kinds, sid : Sids, opk : Nat, spent : BOOLEAN, from : Peers]

Faults == [crashes : Nat, resets : Nat, acks : Nat, db : Nat, losses : Nat]

SessionTypes ==
    /\ mem \in [Peers -> Sids \cup {NoSession}] /\ disk \in [Peers -> Sids \cup {NoSession}]
    /\ own \in [Peers -> BOOLEAN] /\ lost \in [Peers -> Sids \cup {NoSession}]
    /\ ens \in [Peers -> [Callers -> Seq(Nat)]]
    /\ opk \in [Peers -> Nat] /\ inits \in [Peers -> 0..MaxInits]
    /\ net \in [Peers -> Seq(NetLetters)]
    /\ inbox \in [Peers -> Seq({"message", "receipt"})]
    /\ stored \in [Peers -> BOOLEAN] /\ events \in [Peers -> Nat]
    /\ sending \in [Peers -> {"unsent", "sent", "delivered"}]
    /\ faults \in Faults

\* A session set aside is the other end's, and no more prekeys are spent, or
\* fetched to be spent, than inits were made.
PrekeysCounted ==
    /\ \A p \in Peers : lost[p] # NoSession => lost[p][1] = Other(p)
    /\ \A p \in Peers : opk[p] \in 1..(inits[Other(p)] + 1)
    /\ \A p \in Peers, c \in Callers : \A i \in DOMAIN ens[p][c] : ens[p][c][i] \in 1..(inits[p] + 1)

\* What a letter held for q proves.  With commits that fail, a key can be
\* spent on the session set aside and nothing kept.
LetterTrue(q, l) ==
    /\ l.kind = "init" => l.sid[1] = Other(q) /\ l.opk <= inits[Other(q)]
    /\ l.kind = "receipt" => stored[Other(q)]
    /\ MaxDbFails = 0 /\ l.kind = "message" /\ l.spent => stored[q] \/ Held(inbox[q], "message")

LettersTrue == \A q \in Peers : \A i \in DOMAIN net[q] : LetterTrue(q, net[q][i])

\* A receipt that waits in the inbox is as true as one under way.
InboxTrue == \A q \in Peers : Held(inbox[q], "receipt") => stored[Other(q)]

EventsCounted == \A p \in Peers : events[p] = IF stored[p] THEN 1 ELSE 0

SessionInv ==
    /\ SessionTypes /\ PrekeysCounted /\ LettersTrue /\ InboxTrue /\ EventsCounted
    /\ DeliveredIsStored /\ MemoryIsSaved

-----------------------------------------------------------------------------
(* Sequences of letters *)

LEMMA OtherPeer ==
    ASSUME NEW p \in Peers
    PROVE  Other(p) \in Peers /\ Other(p) # p /\ Other(Other(p)) = p
           /\ \A q \in Peers : q # p => q = Other(p)
  BY DEF Peers, Other

LEMMA RemovedFrom ==
    ASSUME NEW S, NEW s \in Seq(S), NEW i \in DOMAIN s
    PROVE  /\ WithoutAt(s, i) \in Seq(S)
           /\ \A k \in DOMAIN WithoutAt(s, i) : \E j \in DOMAIN s : WithoutAt(s, i)[k] = s[j]
  <1> DEFINE t == SubSeq(s, 1, i - 1)
             u == SubSeq(s, i + 1, Len(s))
  <1>1. i \in 1..Len(s) /\ Len(s) \in Nat
    OBVIOUS
  <1>2. t \in Seq(S) /\ Len(t) = i - 1 /\ \A k \in 1..(i - 1) : t[k] = s[k]
    BY <1>1
  <1>3. u \in Seq(S) /\ Len(u) = Len(s) - i /\ \A k \in 1..(Len(s) - i) : u[k] = s[i + k]
    <2>1. i + 1 \in 1..(Len(s) + 1) /\ Len(s) \in i..Len(s)
      BY <1>1
    <2>2. u \in Seq(S)
      BY <1>1, <2>1
    <2>3. Len(u) = Len(s) - i
      BY <1>1, <2>1
    <2>4. ASSUME NEW k \in 1..(Len(s) - i) PROVE u[k] = s[i + k]
      BY <1>1, <2>1, SMTT(20)
    <2> QED
      BY <2>2, <2>3, <2>4
  <1> HIDE DEF t, u
  <1>4. /\ t \o u \in Seq(S) /\ Len(t \o u) = Len(s) - 1
        /\ \A k \in 1..(Len(s) - 1) : (t \o u)[k] = IF k <= i - 1 THEN t[k] ELSE u[k - (i - 1)]
    <2>0. t \in Seq(S) /\ u \in Seq(S)
      BY <1>2, <1>3
    <2>1. t \o u \in Seq(S) /\ Len(t \o u) = Len(t) + Len(u)
      BY <2>0
    <2>2. \A k \in 1..(Len(t) + Len(u)) : (t \o u)[k] = IF k <= Len(t) THEN t[k] ELSE u[k - Len(t)]
      BY <2>0
    <2>3. Len(t) + Len(u) = Len(s) - 1
      BY <1>1, <1>2, <1>3
    <2> QED
      BY <1>2, <2>1, <2>2, <2>3
  <1>5. ASSUME NEW k \in DOMAIN (t \o u) PROVE \E j \in DOMAIN s : (t \o u)[k] = s[j]
    <2>1. k \in 1..(Len(s) - 1)
      BY <1>1, <1>4
    <2>2. CASE k <= i - 1
      BY <1>1, <1>2, <1>4, <2>1, <2>2
    <2>3. CASE ~(k <= i - 1)
      <3>1. k - (i - 1) \in 1..(Len(s) - i) /\ i + (k - (i - 1)) = k + 1 /\ k + 1 \in DOMAIN s
        BY <1>1, <2>1, <2>3
      <3>2. (t \o u)[k] = s[k + 1]
        BY <1>3, <1>4, <2>1, <2>3, <3>1
      <3> QED
        BY <3>1, <3>2
    <2> QED
      BY <2>2, <2>3
  <1>6. WithoutAt(s, i) = t \o u
    BY DEF WithoutAt, t, u
  <1> QED
    BY <1>4, <1>5, <1>6

LEMMA AppendedTo ==
    ASSUME NEW S, NEW s \in Seq(S), NEW e \in S
    PROVE  /\ Append(s, e) \in Seq(S)
           /\ \A k \in DOMAIN Append(s, e) : Append(s, e)[k] = e \/ \E j \in DOMAIN s : Append(s, e)[k] = s[j]
           /\ Held(Append(s, e), e)
           /\ \A x : Held(s, x) => Held(Append(s, e), x)
           /\ \A x : Held(Append(s, e), x) => x = e \/ Held(s, x)
  BY DEF Held

LEMMA TailOf ==
    ASSUME NEW S, NEW s \in Seq(S), s # << >>
    PROVE  /\ Tail(s) \in Seq(S) /\ Head(s) \in S
           /\ \A x : Held(s, x) <=> x = Head(s) \/ Held(Tail(s), x)
  <1>1. /\ Tail(s) \in Seq(S) /\ Head(s) \in S /\ Len(s) \in Nat /\ Len(s) >= 1 /\ Len(Tail(s)) = Len(s) - 1
        /\ \A i \in 1..(Len(s) - 1) : Tail(s)[i] = s[i + 1]
    OBVIOUS
  <1>2. ASSUME NEW x, Held(s, x) PROVE x = Head(s) \/ Held(Tail(s), x)
    <2>1. PICK i \in 1..Len(s) : s[i] = x
      BY <1>2 DEF Held
    <2>2. CASE i = 1
      BY <2>1, <2>2
    <2>3. CASE i # 1
      <3>1. i - 1 \in 1..Len(Tail(s)) /\ Tail(s)[i - 1] = x
        BY <1>1, <2>1, <2>3
      <3> QED
        BY <3>1 DEF Held
    <2> QED
      BY <2>2, <2>3
  <1>3. ASSUME NEW x, x = Head(s) \/ Held(Tail(s), x) PROVE Held(s, x)
    <2>1. CASE x = Head(s)
      BY <1>1, <2>1 DEF Held
    <2>2. CASE Held(Tail(s), x)
      <3>1. PICK i \in 1..Len(Tail(s)) : Tail(s)[i] = x
        BY <2>2 DEF Held
      <3>2. i + 1 \in 1..Len(s) /\ s[i + 1] = x
        BY <1>1, <3>1
      <3> QED
        BY <3>2 DEF Held
    <2> QED
      BY <1>3, <2>1, <2>2
  <1> QED
    BY <1>1, <1>2, <1>3

LEMMA FaultCounted ==
    ASSUME faults \in Faults, NEW f \in {"crashes", "resets", "acks", "db", "losses"}, Fault(f)
    PROVE  faults' \in Faults
  BY DEF Faults, Fault

\* A letter handed to the relay is one more at the other end, or lost.
LEMMA Delivered ==
    ASSUME SessionTypes, NEW p \in Peers, NEW l \in NetLetters, Deliver(p, l)
    PROVE  /\ net' \in [Peers -> Seq(NetLetters)] /\ faults' \in Faults
           /\ \A q \in Peers : \A i \in DOMAIN net'[q] :
                \/ \E j \in DOMAIN net[q] : net'[q][i] = net[q][j]
                \/ q = Other(p) /\ net'[q][i] = l
  <1>1. CASE net' = net /\ faults' = faults
    BY <1>1 DEF SessionTypes
  <1>2. CASE net' = [net EXCEPT ![Other(p)] = Append(@, l)] /\ faults' = faults
    <2>1. net[Other(p)] \in Seq(NetLetters) /\ Other(p) \in Peers
      BY OtherPeer DEF SessionTypes
    <2>2. net'[Other(p)] = Append(net[Other(p)], l) /\ \A q \in Peers : q # Other(p) => net'[q] = net[q]
      BY <1>2, <2>1 DEF SessionTypes
    <2>3. /\ net'[Other(p)] \in Seq(NetLetters)
          /\ \A k \in DOMAIN net'[Other(p)] :
                net'[Other(p)][k] = l \/ \E j \in DOMAIN net[Other(p)] : net'[Other(p)][k] = net[Other(p)][j]
      BY <2>1, <2>2, AppendedTo
    <2>4. net' \in [Peers -> Seq(NetLetters)] /\ faults' \in Faults
      BY <1>2, <2>2, <2>3 DEF SessionTypes
    <2> QED
      BY <2>2, <2>3, <2>4
  <1>3. CASE Fault("losses") /\ UNCHANGED net
    <2>1. faults' \in Faults
      BY <1>3, FaultCounted DEF SessionTypes
    <2> QED
      BY <1>3, <2>1 DEF SessionTypes
  <1> QED
    BY <1>1, <1>2, <1>3 DEF Deliver

Spent(l) == [l EXCEPT !.spent = TRUE]

\* A letter acked is gone, or offered again with its key spent.
LEMMA AckedTo ==
    ASSUME SessionTypes, NEW p \in Peers, NEW i \in DOMAIN net[p], AckTo(p, i)
    PROVE  /\ net' \in [Peers -> Seq(NetLetters)] /\ faults' \in Faults
           /\ \A q \in Peers : \A k \in DOMAIN net'[q] :
                \/ \E j \in DOMAIN net[q] : net'[q][k] = net[q][j]
                \/ q = p /\ net'[q][k] = Spent(net[p][i])
  <1>0. net[p] \in Seq(NetLetters) /\ net[p][i] \in NetLetters
    BY DEF SessionTypes
  <1>1. CASE net' = [net EXCEPT ![p] = WithoutAt(@, i)] /\ UNCHANGED faults
    <2>1. net'[p] = WithoutAt(net[p], i) /\ \A q \in Peers : q # p => net'[q] = net[q]
      BY <1>1 DEF SessionTypes
    <2> QED
      BY <1>0, <1>1, <2>1, RemovedFrom DEF SessionTypes
  <1>2. CASE Fault("acks") /\ net' = [net EXCEPT ![p][i].spent = TRUE]
    <2>1. Spent(net[p][i]) \in NetLetters
      BY <1>0 DEF NetLetters, Spent
    <2>2. net'[p] = [net[p] EXCEPT ![i] = Spent(net[p][i])] /\ \A q \in Peers : q # p => net'[q] = net[q]
      BY <1>0, <1>2 DEF SessionTypes, Spent
    <2>3. net'[p] \in Seq(NetLetters) /\ DOMAIN net'[p] = DOMAIN net[p]
          /\ \A k \in DOMAIN net[p] : net'[p][k] = IF k = i THEN Spent(net[p][i]) ELSE net[p][k]
      BY <1>0, <2>1, <2>2
    <2>4. net' \in [Peers -> Seq(NetLetters)] /\ faults' \in Faults
      BY <1>2, <2>2, <2>3, FaultCounted DEF SessionTypes
    <2> QED
      BY <2>2, <2>3, <2>4
  <1> QED
    BY <1>1, <1>2 DEF AckTo

-----------------------------------------------------------------------------
(* The steps *)

LEMMA TypesAt ==
    ASSUME SessionTypes, NEW q \in Peers
    PROVE  /\ inits[q] \in 0..MaxInits /\ inits[q] \in Nat /\ opk[q] \in Nat
           /\ net[q] \in Seq(NetLetters) /\ \A i \in DOMAIN net[q] : net[q][i] \in NetLetters
           /\ inbox[q] \in Seq({"message", "receipt"})
           /\ \A c \in Callers : ens[q][c] \in Seq(Nat)
  BY SessionAssumption DEF SessionTypes

\* A step that opens no session leaves the counts of inits alone.
LEMMA InitsSame ==
    ASSUME SessionTypes, UNCHANGED inits
    PROVE  \A q \in Peers : inits[q] <= inits'[q] /\ inits'[q] \in Nat
  <1> TAKE q \in Peers
  <1>1. inits[q] \in Nat
    BY TypesAt
  <1> QED
    BY <1>1

LEMMA InitSession == Init => SessionInv
  <1> SUFFICES ASSUME Init PROVE SessionInv
    OBVIOUS
  <1> USE SessionAssumption DEF Init
  <1>1. own \in [Peers -> BOOLEAN] /\ stored \in [Peers -> BOOLEAN]
    BY Zenon
  <1>2. SessionTypes
    BY <1>1 DEF SessionTypes, Faults
  <1>3. PrekeysCounted
    BY OtherPeer DEF PrekeysCounted, Peers
  <1>4. LettersTrue /\ InboxTrue
    BY DEF LettersTrue, InboxTrue, Held, Peers
  <1>5. EventsCounted /\ DeliveredIsStored /\ MemoryIsSaved
    BY DEF EventsCounted, DeliveredIsStored, MemoryIsSaved, Peers
  <1> QED
    BY <1>2, <1>3, <1>4, <1>5 DEF SessionInv

\* A letter under way stays true while what it speaks of grows.
LEMMA NetStep ==
    ASSUME SessionInv,
           \A q \in Peers : inits[q] <= inits'[q] /\ inits'[q] \in Nat,
           \A q \in Peers : stored[q] => stored'[q],
           \A q \in Peers : Held(inbox[q], "message") => stored'[q] \/ Held(inbox'[q], "message"),
           \A q \in Peers : \A i \in DOMAIN net'[q] :
               (\E j \in DOMAIN net[q] : net'[q][i] = net[q][j]) \/ LetterTrue(q, net[q][i])'
    PROVE  LettersTrue'
  <1> SUFFICES ASSUME NEW q \in Peers, NEW i \in DOMAIN net'[q], NEW j \in DOMAIN net[q],
                      net'[q][i] = net[q][j]
               PROVE  LetterTrue(q, net[q][i])'
    BY DEF LettersTrue
  <1> PICK x : x = net[q][j]
    OBVIOUS
  <1>1. LetterTrue(q, x) /\ x.opk \in Nat /\ inits[Other(q)] \in Nat /\ Other(q) \in Peers
    BY TypesAt, OtherPeer DEF SessionInv, LettersTrue, NetLetters
  <1>2. x.kind = "init" => x.sid[1] = Other(q) /\ x.opk <= inits'[Other(q)]
    BY <1>1 DEF LetterTrue
  <1>3. x.kind = "receipt" => stored'[Other(q)]
    BY <1>1 DEF LetterTrue
  <1>4. MaxDbFails = 0 /\ x.kind = "message" /\ x.spent => stored'[q] \/ Held(inbox'[q], "message")
    BY <1>1 DEF LetterTrue
  <1> QED
    BY <1>2, <1>3, <1>4 DEF LetterTrue

\* The session in use is the one saved.
LEMMA CurrentIsSaved ==
    ASSUME SessionInv, NEW p \in Peers
    PROVE  Current(p) = disk[p] /\ Current(p) \in Sids \cup {NoSession}
  BY DEF SessionInv, SessionTypes, MemoryIsSaved, Current

LEMMA OpenStep ==
    ASSUME SessionInv, NEW p \in Peers, NEW k \in 1..(inits[p] + 1), OpenSession(p, k),
           ens' = ens \/ \E c \in Callers : ens' = [ens EXCEPT ![p][c] = << >>]
    PROVE  SessionInv'
  <1> USE DEF SessionInv
  <1> PICK sid : sid = <<p, inits[p] + 1>>
    OBVIOUS
  <1> PICK l : l = FirstLetter(p, sid, k)
    OBVIOUS
  <1>1. /\ inits[p] < MaxInits /\ inits' = [inits EXCEPT ![p] = @ + 1]
        /\ own' = [own EXCEPT ![p] = TRUE] /\ lost' = [lost EXCEPT ![p] = NoSession]
        /\ disk' = [disk EXCEPT ![p] = sid] /\ mem' = [mem EXCEPT ![p] = sid]
        /\ Deliver(p, l)
        /\ UNCHANGED <<opk, inbox, stored, events, sending>>
    BY DEF OpenSession
  <1>2. inits[p] \in 0..MaxInits /\ MaxInits \in Nat
    BY SessionAssumption DEF SessionTypes
  <1>3. sid \in Sids
    BY <1>1, <1>2 DEF Sids
  <1>4. l \in NetLetters
    BY <1>2, <1>3 DEF NetLetters, FirstLetter, Kinds
  <1>5. /\ net' \in [Peers -> Seq(NetLetters)] /\ faults' \in Faults
        /\ \A q \in Peers : \A i \in DOMAIN net'[q] :
             \/ \E j \in DOMAIN net[q] : net'[q][i] = net[q][j]
             \/ q = Other(p) /\ net'[q][i] = l
    BY <1>1, <1>4, Delivered
  <1>6. \A q \in Peers : inits'[q] = IF q = p THEN inits[p] + 1 ELSE inits[q]
    BY <1>1 DEF SessionTypes
  <1>7. ens' \in [Peers -> [Callers -> Seq(Nat)]]
        /\ \A q \in Peers, c \in Callers : ens'[q][c] = ens[q][c] \/ ens'[q][c] = << >>
    <2>1. ens \in [Peers -> [Callers -> Seq(Nat)]]
      BY DEF SessionTypes
    <2>2. CASE ens' = ens
      BY <2>1, <2>2
    <2>3. ASSUME NEW c \in Callers, ens' = [ens EXCEPT ![p][c] = << >>]
          PROVE  /\ ens' \in [Peers -> [Callers -> Seq(Nat)]]
                 /\ \A q \in Peers, d \in Callers : ens'[q][d] = ens[q][d] \/ ens'[q][d] = << >>
      <3>1. [ens[p] EXCEPT ![c] = << >>] \in [Callers -> Seq(Nat)]
        BY <2>1
      <3> QED
        BY <2>1, <2>3, <3>1
    <2> QED
      BY <2>2, <2>3
  <1>8. SessionTypes'
    <2>1. inits' \in [Peers -> 0..MaxInits]
      BY <1>1, <1>2 DEF SessionTypes
    <2>2. own' \in [Peers -> BOOLEAN]
      BY <1>1, Zenon DEF SessionTypes
    <2> QED
      BY <1>1, <1>3, <1>5, <1>7, <2>1, <2>2 DEF SessionTypes
  <1>9. PrekeysCounted'
    <2>1. \A q \in Peers : lost'[q] # NoSession => lost'[q][1] = Other(q)
      BY <1>1 DEF PrekeysCounted, SessionTypes
    <2>2. \A q \in Peers : opk'[q] \in 1..(inits'[Other(q)] + 1)
      <3> SUFFICES ASSUME NEW q \in Peers PROVE opk[q] \in 1..(inits'[Other(q)] + 1)
        BY <1>1
      <3>1. Other(q) \in Peers
        BY OtherPeer
      <3>2. opk[q] \in 1..(inits[Other(q)] + 1) /\ inits[Other(q)] \in Nat
        BY <3>1, TypesAt DEF PrekeysCounted
      <3> HIDE DEF SessionInv
      <3> QED
        BY <1>6, <3>1, <3>2
    <2>3. \A q \in Peers, c \in Callers : \A i \in DOMAIN ens'[q][c] : ens'[q][c][i] \in 1..(inits'[q] + 1)
      <3> SUFFICES ASSUME NEW q \in Peers, NEW c \in Callers, NEW i \in DOMAIN ens'[q][c]
                   PROVE  ens'[q][c][i] \in 1..(inits'[q] + 1)
        OBVIOUS
      <3>1. ens'[q][c] = ens[q][c]
        BY <1>7
      <3>2. ens[q][c][i] \in 1..(inits[q] + 1) /\ inits[q] \in Nat
        BY <3>1, TypesAt DEF PrekeysCounted
      <3> QED
        BY <1>6, <3>1, <3>2
    <2> QED
      BY <2>1, <2>2, <2>3 DEF PrekeysCounted
  <1>10. LettersTrue'
    <2>1. \A q \in Peers : inits[q] <= inits'[q] /\ inits'[q] \in Nat
      BY <1>6, TypesAt
    <2>2. ASSUME NEW q \in Peers, NEW i \in DOMAIN net'[q], q = Other(p), net'[q][i] = l
          PROVE  LetterTrue(q, net[q][i])'
      <3>1. l.kind = "init" /\ l.sid[1] = p /\ l.opk = k /\ Other(q) = p
        BY <2>2, OtherPeer DEF FirstLetter
      <3>2. k <= inits'[p]
        BY <1>2, <1>6
      <3> QED
        BY <2>2, <3>1, <3>2 DEF LetterTrue
    <2> QED
      BY <1>1, <1>5, <2>1, <2>2, NetStep
  <1>11. InboxTrue' /\ EventsCounted' /\ DeliveredIsStored'
    BY <1>1 DEF InboxTrue, EventsCounted, DeliveredIsStored
  <1>12. MemoryIsSaved'
    BY <1>1 DEF MemoryIsSaved, SessionTypes
  <1> QED
    BY <1>8, <1>9, <1>10, <1>11, <1>12

LEMMA FetchStep ==
    ASSUME SessionInv, NEW p \in Peers, NEW c \in Callers, FetchBundle(p, c)
    PROVE  SessionInv'
  <1> USE DEF SessionInv
  <1> PICK k : k = opk[Other(p)]
    OBVIOUS
  <1>1. k \in 1..(inits[p] + 1) /\ k \in Nat
    BY OtherPeer, TypesAt DEF PrekeysCounted
  <1>2. ens' = [ens EXCEPT ![p][c] = <<k>>]
        /\ UNCHANGED <<mem, disk, own, lost, opk, inits, net, inbox, stored, events, sending, faults>>
    BY DEF FetchBundle
  <1>3. ens \in [Peers -> [Callers -> Seq(Nat)]]
    BY DEF SessionTypes
  <1>4. <<k>> \in Seq(Nat) /\ DOMAIN <<k>> = {1} /\ <<k>>[1] = k
    BY <1>1
  <1>5. [ens[p] EXCEPT ![c] = <<k>>] \in [Callers -> Seq(Nat)]
    BY <1>3, <1>4
  <1>6. /\ ens' \in [Peers -> [Callers -> Seq(Nat)]]
        /\ \A q \in Peers, d \in Callers : ens'[q][d] = IF q = p /\ d = c THEN <<k>> ELSE ens[q][d]
    BY <1>2, <1>3, <1>5
  <1>7. SessionTypes'
    BY <1>2, <1>6 DEF SessionTypes
  <1>8. \A q \in Peers, d \in Callers : \A i \in DOMAIN ens'[q][d] : ens'[q][d][i] \in 1..(inits'[q] + 1)
    <2> SUFFICES ASSUME NEW q \in Peers, NEW d \in Callers, NEW i \in DOMAIN ens'[q][d]
                 PROVE  ens'[q][d][i] \in 1..(inits[q] + 1)
      BY <1>2
    <2>1. CASE q = p /\ d = c
      BY <1>1, <1>4, <1>6, <2>1
    <2>2. CASE ~ (q = p /\ d = c)
      BY <1>6, <2>2 DEF PrekeysCounted
    <2> QED
      BY <2>1, <2>2
  <1>9. PrekeysCounted'
    BY <1>2, <1>8 DEF PrekeysCounted
  <1>10. LettersTrue'
    BY <1>2 DEF LettersTrue, LetterTrue
  <1>11. InboxTrue' /\ EventsCounted' /\ DeliveredIsStored' /\ MemoryIsSaved'
    BY <1>2 DEF InboxTrue, EventsCounted, DeliveredIsStored, MemoryIsSaved
  <1> QED
    BY <1>7, <1>9, <1>10, <1>11

LEMMA SendStep ==
    ASSUME SessionInv, NEW p \in Peers, SendMessage(p)
    PROVE  SessionInv'
  <1> USE DEF SessionInv
  <1> PICK l : l = MessageLetter(p, Current(p))
    OBVIOUS
  <1>1. /\ mem' = [mem EXCEPT ![p] = Current(p)] /\ Deliver(p, l)
        /\ sending' = [sending EXCEPT ![p] = "sent"] /\ Current(p) # NoSession
        /\ UNCHANGED <<disk, own, lost, ens, opk, inits, inbox, stored, events>>
    BY DEF SendMessage
  <1>2. Current(p) = disk[p] /\ Current(p) \in Sids
    BY <1>1, CurrentIsSaved
  <1>3. l \in NetLetters
    BY <1>2 DEF NetLetters, MessageLetter, Kinds
  <1>4. /\ net' \in [Peers -> Seq(NetLetters)] /\ faults' \in Faults
        /\ \A q \in Peers : \A i \in DOMAIN net'[q] :
             \/ \E j \in DOMAIN net[q] : net'[q][i] = net[q][j]
             \/ q = Other(p) /\ net'[q][i] = l
    BY <1>1, <1>3, Delivered
  <1>5. SessionTypes'
    BY <1>1, <1>2, <1>4 DEF SessionTypes
  <1>6. LettersTrue'
    <2>1. ASSUME NEW q \in Peers, NEW i \in DOMAIN net'[q], net'[q][i] = l PROVE LetterTrue(q, net[q][i])'
      BY <2>1 DEF LetterTrue, MessageLetter
    <2>2. \A q \in Peers : inits[q] <= inits'[q] /\ inits'[q] \in Nat
      BY <1>1, InitsSame
    <2> QED
      BY <1>1, <1>4, <2>1, <2>2, NetStep
  <1>7. PrekeysCounted' /\ InboxTrue' /\ EventsCounted'
    BY <1>1 DEF PrekeysCounted, InboxTrue, EventsCounted
  <1>8. DeliveredIsStored' /\ MemoryIsSaved'
    BY <1>1, <1>2 DEF DeliveredIsStored, MemoryIsSaved, SessionTypes
  <1> QED
    BY <1>5, <1>6, <1>7, <1>8

\* The letters at the relays after an ack, whatever its letter did.
LEMMA AckKeepsLetters ==
    ASSUME SessionInv, NEW p \in Peers, NEW i \in DOMAIN net[p], AckTo(p, i),
           UNCHANGED <<inits, stored>>,
           \A q \in Peers : Held(inbox[q], "message") => Held(inbox'[q], "message"),
           net[p][i].kind = "message" => Held(inbox'[p], "message")
    PROVE  LettersTrue'
  <1> USE DEF SessionInv
  <1> PICK x : x = net[p][i]
    OBVIOUS
  <1>1. LetterTrue(p, x) /\ x \in NetLetters
    BY TypesAt DEF LettersTrue
  <1>2. /\ Spent(x).kind = x.kind /\ Spent(x).sid = x.sid /\ Spent(x).opk = x.opk
    BY <1>1 DEF NetLetters, Spent
  <1>3. ASSUME NEW k \in DOMAIN net'[p], net'[p][k] = Spent(x) PROVE LetterTrue(p, net[p][k])'
    BY <1>1, <1>2, <1>3 DEF LetterTrue
  <1>4. \A q \in Peers : inits[q] <= inits'[q] /\ inits'[q] \in Nat
    BY InitsSame
  <1>5. \A q \in Peers : \A k \in DOMAIN net'[q] :
           (\E j \in DOMAIN net[q] : net'[q][k] = net[q][j]) \/ (q = p /\ net'[q][k] = Spent(x))
    BY AckedTo
  <1>6. \A q \in Peers : stored[q] => stored'[q]
    OBVIOUS
  <1> QED
    BY <1>3, <1>4, <1>5, <1>6, NetStep

LEMMA ReceiveInitStep ==
    ASSUME SessionInv, NEW p \in Peers, NEW i \in DOMAIN net[p], ReceiveInit(p, i)
    PROVE  SessionInv'
  <1> USE DEF SessionInv
  <1> PICK l : l = net[p][i]
    OBVIOUS
  <1>1. PICK aside \in BOOLEAN :
        /\ l.kind = "init" /\ l.opk = opk[p] /\ opk' = [opk EXCEPT ![p] = @ + 1]
        /\ lost' = [lost EXCEPT ![p] = IF aside THEN l.sid ELSE NoSession]
        /\ own' = [own EXCEPT ![p] = aside]
        /\ mem' = [mem EXCEPT ![p] = IF aside THEN @ ELSE l.sid]
        /\ disk' = [disk EXCEPT ![p] = IF aside THEN @ ELSE l.sid]
        /\ AckTo(p, i)
        /\ UNCHANGED <<ens, inits, inbox, stored, events, sending>>
    BY DEF ReceiveInit
  <1>2. l \in NetLetters /\ LetterTrue(p, l) /\ l.sid \in Sids
    BY TypesAt DEF LettersTrue, NetLetters
  <1>3. l.sid[1] = Other(p) /\ opk[p] <= inits[Other(p)] /\ opk[p] \in Nat /\ inits[Other(p)] \in Nat
    BY <1>1, <1>2, TypesAt, OtherPeer DEF LetterTrue
  <1>4. net' \in [Peers -> Seq(NetLetters)] /\ faults' \in Faults
    BY <1>1, AckedTo
  <1>5. SessionTypes'
    <2>1. own' \in [Peers -> BOOLEAN]
      BY <1>1, Zenon DEF SessionTypes
    <2>2. opk' \in [Peers -> Nat]
      <3>1. opk \in [Peers -> Nat]
        BY DEF SessionTypes
      <3> HIDE DEF SessionInv
      <3>2. opk[p] + 1 \in Nat
        BY <1>3
      <3> QED
        BY <1>1, <3>1, <3>2
    <2>3. mem' \in [Peers -> Sids \cup {NoSession}] /\ disk' \in [Peers -> Sids \cup {NoSession}]
          /\ lost' \in [Peers -> Sids \cup {NoSession}]
      BY <1>1, <1>2 DEF SessionTypes
    <2> QED
      BY <1>1, <1>4, <2>1, <2>2, <2>3 DEF SessionTypes
  <1>6. PrekeysCounted'
    <2>1. \A q \in Peers : lost'[q] # NoSession => lost'[q][1] = Other(q)
      BY <1>1, <1>3 DEF PrekeysCounted, SessionTypes
    <2>2. \A q \in Peers : opk'[q] = IF q = p THEN opk[p] + 1 ELSE opk[q]
      BY <1>1 DEF SessionTypes
    <2>3. \A q \in Peers : opk'[q] \in 1..(inits'[Other(q)] + 1)
      <3> SUFFICES ASSUME NEW q \in Peers PROVE opk'[q] \in 1..(inits[Other(q)] + 1)
        BY <1>1
      <3>1. CASE q = p
        BY <1>3, <2>2, <3>1
      <3>2. CASE q # p
        BY <2>2, <3>2 DEF PrekeysCounted
      <3> QED
        BY <3>1, <3>2
    <2> QED
      BY <1>1, <2>1, <2>3 DEF PrekeysCounted
  <1>7. LettersTrue'
    BY <1>1, AckKeepsLetters
  <1>8. InboxTrue' /\ EventsCounted' /\ DeliveredIsStored'
    BY <1>1 DEF InboxTrue, EventsCounted, DeliveredIsStored
  <1>9. MemoryIsSaved'
    BY <1>1 DEF MemoryIsSaved, SessionTypes
  <1> QED
    BY <1>5, <1>6, <1>7, <1>8, <1>9

\* A letter that opens is committed to the inbox, on either session.
LEMMA CommitStep ==
    ASSUME SessionInv, NEW p \in Peers, NEW i \in DOMAIN net[p],
           ReceiveOnSession(p, i) \/ ReceiveOnLost(p, i)
    PROVE  SessionInv'
  <1> USE DEF SessionInv
  <1> PICK l : l = net[p][i]
    OBVIOUS
  <1>1. /\ l.kind # "init" /\ inbox' = [inbox EXCEPT ![p] = Append(@, l.kind)] /\ AckTo(p, i)
        /\ UNCHANGED <<disk, lost, ens, opk, inits, stored, events, sending>>
        /\ mem' = mem \/ mem' = [mem EXCEPT ![p] = Current(p)]
        /\ own' = own \/ own' = [own EXCEPT ![p] = FALSE]
    BY DEF ReceiveOnSession, ReceiveOnLost
  <1>2. l \in NetLetters /\ LetterTrue(p, l) /\ l.kind \in {"message", "receipt"}
    BY <1>1, TypesAt DEF LettersTrue, NetLetters, Kinds
  <1>3. net' \in [Peers -> Seq(NetLetters)] /\ faults' \in Faults
    BY <1>1, AckedTo
  <1>4. /\ inbox'[p] = Append(inbox[p], l.kind) /\ \A q \in Peers : q # p => inbox'[q] = inbox[q]
        /\ inbox[p] \in Seq({"message", "receipt"})
    BY <1>1 DEF SessionTypes
  <1>5. /\ inbox'[p] \in Seq({"message", "receipt"}) /\ Held(inbox'[p], l.kind)
        /\ \A x : Held(inbox[p], x) => Held(inbox'[p], x)
        /\ \A x : Held(inbox'[p], x) => x = l.kind \/ Held(inbox[p], x)
    <2> PICK s : s = inbox[p]
      OBVIOUS
    <2>1. s \in Seq({"message", "receipt"}) /\ inbox'[p] = Append(s, l.kind)
      BY <1>4
    <2> HIDE DEF SessionInv
    <2> QED
      BY <1>2, <2>1, AppendedTo
  <1>6. Current(p) = disk[p] /\ Current(p) \in Sids \cup {NoSession}
    BY CurrentIsSaved
  <1>7. SessionTypes'
    <2>1. inbox' \in [Peers -> Seq({"message", "receipt"})]
      BY <1>1, <1>4, <1>5 DEF SessionTypes
    <2>2. mem' \in [Peers -> Sids \cup {NoSession}]
      BY <1>1, <1>6 DEF SessionTypes
    <2>3. own' \in [Peers -> BOOLEAN]
      BY <1>1, Zenon DEF SessionTypes
    <2> QED
      BY <1>1, <1>3, <2>1, <2>2, <2>3 DEF SessionTypes
  <1>8. LettersTrue'
    <2>1. \A q \in Peers : Held(inbox[q], "message") => Held(inbox'[q], "message")
      BY <1>4, <1>5
    <2>2. net[p][i].kind = "message" => Held(inbox'[p], "message")
      BY <1>5
    <2> QED
      BY <1>1, <2>1, <2>2, AckKeepsLetters
  <1>9. InboxTrue'
    <2> SUFFICES ASSUME NEW q \in Peers, Held(inbox'[q], "receipt") PROVE stored[Other(q)]
      BY <1>1 DEF InboxTrue, Held
    <2>1. CASE Held(inbox[q], "receipt")
      BY <2>1 DEF InboxTrue
    <2>2. CASE ~Held(inbox[q], "receipt")
      BY <1>2, <1>4, <1>5, <2>2 DEF LetterTrue
    <2> QED
      BY <2>1, <2>2
  <1>10. PrekeysCounted' /\ EventsCounted' /\ DeliveredIsStored'
    BY <1>1 DEF PrekeysCounted, EventsCounted, DeliveredIsStored
  <1>11. MemoryIsSaved'
    BY <1>1, <1>6 DEF MemoryIsSaved, SessionTypes
  <1> QED
    BY <1>7, <1>8, <1>9, <1>10, <1>11

\* A commit that fails changes nothing but the copy in memory and, on the
\* session set aside, the key of a letter still at the relay.
LEMMA CommitFailsStep ==
    ASSUME SessionInv, NEW p \in Peers, NEW i \in DOMAIN net[p], CommitFails(p, i)
    PROVE  SessionInv'
  <1> USE DEF SessionInv
  <1> PICK l : l = net[p][i]
    OBVIOUS
  <1>1. /\ faults.db < MaxDbFails /\ Fault("db")
        /\ mem' = mem \/ mem' = [mem EXCEPT ![p] = NoSession]
        /\ net' = net \/ (l.kind # "init" /\ net' = [net EXCEPT ![p][i].spent = TRUE])
        /\ UNCHANGED <<disk, own, lost, ens, opk, inits, inbox, stored, events, sending>>
    BY DEF CommitFails
  <1>2. MaxDbFails # 0
    <2>1. faults.db \in Nat
      BY DEF SessionTypes, Faults
    <2> QED
      BY <1>1, <2>1, SessionAssumption
  <1>3. faults' \in Faults
    BY <1>1, FaultCounted DEF SessionTypes
  <1>4. l \in NetLetters /\ LetterTrue(p, l) /\ net[p] \in Seq(NetLetters)
    BY TypesAt DEF LettersTrue
  <1>5. /\ Spent(l) \in NetLetters /\ Spent(l).kind = l.kind /\ Spent(l).sid = l.sid /\ Spent(l).opk = l.opk
    BY <1>4 DEF NetLetters, Spent
  <1>6. net' \in [Peers -> Seq(NetLetters)]
        /\ \A q \in Peers : \A k \in DOMAIN net'[q] :
             \/ \E j \in DOMAIN net[q] : net'[q][k] = net[q][j]
             \/ q = p /\ net'[q][k] = Spent(l)
    <2>1. CASE net' = net
      BY <2>1 DEF SessionTypes
    <2>2. CASE net' = [net EXCEPT ![p][i].spent = TRUE]
      <3>1. net'[p] = [net[p] EXCEPT ![i] = Spent(l)] /\ \A q \in Peers : q # p => net'[q] = net[q]
        BY <1>4, <2>2 DEF SessionTypes, Spent
      <3>2. net'[p] \in Seq(NetLetters) /\ DOMAIN net'[p] = DOMAIN net[p]
            /\ \A k \in DOMAIN net[p] : net'[p][k] = IF k = i THEN Spent(l) ELSE net[p][k]
        BY <1>4, <1>5, <3>1
      <3>3. net' \in [Peers -> Seq(NetLetters)]
        BY <2>2, <3>1, <3>2 DEF SessionTypes
      <3> QED
        BY <3>1, <3>2, <3>3
    <2> QED
      BY <1>1, <2>1, <2>2
  <1>7. SessionTypes'
    <2>1. mem' \in [Peers -> Sids \cup {NoSession}]
      BY <1>1 DEF SessionTypes
    <2> QED
      BY <1>1, <1>3, <1>6, <2>1 DEF SessionTypes
  <1>8. LettersTrue'
    <2>1. ASSUME NEW q \in Peers, NEW k \in DOMAIN net'[q], q = p, net'[q][k] = Spent(l)
          PROVE  LetterTrue(q, net[q][k])'
      BY <1>1, <1>2, <1>4, <1>5, <2>1 DEF LetterTrue
    <2>2. \A q \in Peers : inits[q] <= inits'[q] /\ inits'[q] \in Nat
      BY <1>1, InitsSame
    <2> QED
      BY <1>1, <1>6, <2>1, <2>2, NetStep
  <1>9. PrekeysCounted' /\ InboxTrue' /\ EventsCounted' /\ DeliveredIsStored'
    BY <1>1 DEF PrekeysCounted, InboxTrue, EventsCounted, DeliveredIsStored
  <1>10. MemoryIsSaved'
    BY <1>1 DEF MemoryIsSaved, SessionTypes
  <1> QED
    BY <1>7, <1>8, <1>9, <1>10

LEMMA DropStep ==
    ASSUME SessionInv, NEW p \in Peers, NEW i \in DOMAIN net[p], DropUnreadable(p, i)
    PROVE  SessionInv'
  <1> USE DEF SessionInv
  <1>1. /\ net' = [net EXCEPT ![p] = WithoutAt(@, i)]
        /\ UNCHANGED <<mem, disk, own, lost, ens, opk, inits, inbox, stored, events, sending, faults>>
    BY DEF DropUnreadable
  <1>2. net[p] \in Seq(NetLetters)
    BY TypesAt
  <1>3. net'[p] = WithoutAt(net[p], i) /\ \A q \in Peers : q # p => net'[q] = net[q]
    BY <1>1 DEF SessionTypes
  <1>4. /\ net'[p] \in Seq(NetLetters)
        /\ \A k \in DOMAIN net'[p] : \E j \in DOMAIN net[p] : net'[p][k] = net[p][j]
    BY <1>2, <1>3, RemovedFrom
  <1>5. net' \in [Peers -> Seq(NetLetters)]
    BY <1>1, <1>3, <1>4 DEF SessionTypes
  <1>6. SessionTypes'
    BY <1>1, <1>5 DEF SessionTypes
  <1>7. LettersTrue'
    <2>1. \A q \in Peers : inits[q] <= inits'[q] /\ inits'[q] \in Nat
      BY <1>1, InitsSame
    <2>2. \A q \in Peers : \A k \in DOMAIN net'[q] : \E j \in DOMAIN net[q] : net'[q][k] = net[q][j]
      BY <1>3, <1>4
    <2>3. \A q \in Peers : inbox'[q] = inbox[q] /\ stored'[q] = stored[q]
      BY <1>1
    <2> HIDE DEF SessionInv
    <2> QED
      BY <2>1, <2>2, <2>3, NetStep
  <1> QED
    BY <1>1, <1>6, <1>7 DEF PrekeysCounted, InboxTrue, EventsCounted, DeliveredIsStored, MemoryIsSaved

\* A letter processed from the inbox: the message is stored before it is
\* acknowledged, and a receipt was true when it was written.
LEMMA ProcessStep ==
    ASSUME SessionInv, NEW p \in Peers, Process(p)
    PROVE  SessionInv'
  <1> USE DEF SessionInv
  <1> PICK k : k = Head(inbox[p])
    OBVIOUS
  <1>1. /\ inbox[p] # << >> /\ inbox' = [inbox EXCEPT ![p] = Tail(@)]
        /\ UNCHANGED <<mem, disk, own, lost, ens, opk, inits>>
        /\ \/ /\ k = "message" /\ stored' = [stored EXCEPT ![p] = TRUE]
              /\ events' = [events EXCEPT ![p] = IF stored[p] THEN @ ELSE @ + 1]
              /\ \/ UNCHANGED <<net, faults>>
                 \/ Current(p) # NoSession /\ Deliver(p, Receipt(p, Current(p)))
              /\ UNCHANGED sending
           \/ /\ k = "receipt" /\ sending' = [sending EXCEPT ![p] = "delivered"]
              /\ UNCHANGED <<stored, events, net, faults>>
    BY DEF Process
  <1>2. inbox[p] \in Seq({"message", "receipt"})
    BY TypesAt
  <1>3. /\ Tail(inbox[p]) \in Seq({"message", "receipt"})
        /\ \A x : Held(inbox[p], x) <=> x = k \/ Held(Tail(inbox[p]), x)
    BY <1>1, <1>2, TailOf
  <1>4. inbox'[p] = Tail(inbox[p]) /\ \A q \in Peers : q # p => inbox'[q] = inbox[q]
    BY <1>1 DEF SessionTypes
  <1>5. inbox' \in [Peers -> Seq({"message", "receipt"})]
    BY <1>1, <1>3, <1>4 DEF SessionTypes
  <1>6. \A q \in Peers : stored[q] => stored'[q]
    BY <1>1 DEF SessionTypes
  <1>7. stored' \in [Peers -> BOOLEAN]
    BY <1>1, Zenon DEF SessionTypes
  <1>8. \A q \in Peers : Held(inbox[q], "message") => stored'[q] \/ Held(inbox'[q], "message")
    <2>1. CASE k = "message"
      <3>1. stored'[p]
        BY <1>1, <2>1 DEF SessionTypes
      <3> QED
        BY <1>4, <3>1
    <2>2. CASE k # "message"
      BY <1>3, <1>4, <2>2
    <2> QED
      BY <2>1, <2>2
  <1>9. InboxTrue'
    <2> SUFFICES ASSUME NEW q \in Peers, Held(inbox'[q], "receipt") PROVE stored'[Other(q)]
      BY DEF InboxTrue, Held
    <2>1. Held(inbox[q], "receipt")
      BY <1>3, <1>4
    <2> QED
      BY <1>6, <2>1, OtherPeer DEF InboxTrue
  <1>10. MemoryIsSaved' /\ PrekeysCounted'
    BY <1>1 DEF MemoryIsSaved, PrekeysCounted
  <1>11. \A q \in Peers : inits[q] <= inits'[q] /\ inits'[q] \in Nat
    BY <1>1, InitsSame
  <1>12. CASE k = "message"
    <2>0. /\ stored' = [stored EXCEPT ![p] = TRUE] /\ UNCHANGED sending
          /\ events' = [events EXCEPT ![p] = IF stored[p] THEN @ ELSE @ + 1]
          /\ \/ UNCHANGED <<net, faults>>
             \/ Current(p) # NoSession /\ Deliver(p, Receipt(p, Current(p)))
      BY <1>1, <1>12
    <2> PICK l : l = Receipt(p, Current(p))
      OBVIOUS
    <2>1. /\ net' \in [Peers -> Seq(NetLetters)] /\ faults' \in Faults
          /\ \A q \in Peers : \A i \in DOMAIN net'[q] :
               \/ \E j \in DOMAIN net[q] : net'[q][i] = net[q][j]
               \/ q = Other(p) /\ net'[q][i] = l
      <3>1. CASE UNCHANGED <<net, faults>>
        BY <3>1 DEF SessionTypes
      <3>2. CASE Current(p) # NoSession /\ Deliver(p, l)
        <4>1. Current(p) \in Sids
          BY <3>2, CurrentIsSaved
        <4>2. l \in NetLetters
          BY <4>1 DEF NetLetters, Receipt, Kinds
        <4> QED
          BY <3>2, <4>2, Delivered
      <3> QED
        BY <2>0, <3>1, <3>2
    <2>2. events' \in [Peers -> Nat]
      BY <2>0 DEF SessionTypes
    <2>3. SessionTypes'
      BY <1>1, <1>5, <1>7, <2>0, <2>1, <2>2 DEF SessionTypes
    <2>4. ASSUME NEW q \in Peers, NEW i \in DOMAIN net'[q], q = Other(p), net'[q][i] = l
          PROVE  LetterTrue(q, net[q][i])'
      <3>1. l.kind = "receipt" /\ Other(q) = p /\ stored'[p]
        <4>1. l.kind = "receipt"
          BY DEF Receipt
        <4>2. Other(q) = p
          BY <2>4, OtherPeer
        <4>3. stored'[p]
          BY <2>0 DEF SessionTypes
        <4> QED
          BY <4>1, <4>2, <4>3
      <3> QED
        BY <2>4, <3>1 DEF LetterTrue
    <2>5. LettersTrue'
      BY <1>6, <1>8, <1>11, <2>1, <2>4, NetStep
    <2>6. EventsCounted'
      BY <2>0 DEF EventsCounted, SessionTypes
    <2>7. DeliveredIsStored'
      BY <1>6, <2>0, OtherPeer DEF DeliveredIsStored
    <2> QED
      BY <1>9, <1>10, <2>3, <2>5, <2>6, <2>7
  <1>13. CASE k = "receipt"
    <2>1. sending' = [sending EXCEPT ![p] = "delivered"] /\ UNCHANGED <<stored, events, net, faults>>
      BY <1>1, <1>13
    <2>2. SessionTypes'
      BY <1>1, <1>5, <2>1 DEF SessionTypes
    <2>3. LettersTrue'
      BY <1>6, <1>8, <1>11, <2>1, NetStep
    <2>4. stored[Other(p)]
      BY <1>3, <1>13 DEF InboxTrue
    <2>5. DeliveredIsStored'
      BY <2>1, <2>4 DEF DeliveredIsStored, SessionTypes
    <2>6. EventsCounted'
      BY <2>1 DEF EventsCounted
    <2> QED
      BY <1>9, <1>10, <2>2, <2>3, <2>5, <2>6
  <1> QED
    BY <1>1, <1>12, <1>13

\* What a reset or a crash forgets was not needed.
LEMMA ForgetStep ==
    ASSUME SessionInv, NEW p \in Peers, ResetSession(p) \/ Crash(p)
    PROVE  SessionInv'
  <1> USE DEF SessionInv
  <1>1. /\ Fault("resets") \/ Fault("crashes")
        /\ mem' = [mem EXCEPT ![p] = NoSession]
        /\ disk' = disk \/ disk' = [disk EXCEPT ![p] = NoSession]
        /\ own' = own \/ own' = [own EXCEPT ![p] = FALSE]
        /\ lost' = lost \/ lost' = [lost EXCEPT ![p] = NoSession]
        /\ ens' = ens \/ ens' = [ens EXCEPT ![p] = [c \in Callers |-> << >>]]
        /\ UNCHANGED <<opk, inits, net, inbox, stored, events, sending>>
    BY DEF ResetSession, Crash
  <1>2. faults' \in Faults
    BY <1>1, FaultCounted DEF SessionTypes
  <1>3. ens' \in [Peers -> [Callers -> Seq(Nat)]]
        /\ \A q \in Peers, c \in Callers : ens'[q][c] = ens[q][c] \/ ens'[q][c] = << >>
    <2> PICK none : none = [c \in Callers |-> << >>]
      OBVIOUS
    <2>1. ens \in [Peers -> [Callers -> Seq(Nat)]]
      BY DEF SessionTypes
    <2>2. none \in [Callers -> Seq(Nat)] /\ \A c \in Callers : none[c] = << >>
      OBVIOUS
    <2>3. CASE ens' = ens
      BY <2>1, <2>3
    <2>4. CASE ens' = [ens EXCEPT ![p] = none]
      BY <2>1, <2>2, <2>4
    <2> QED
      BY <1>1, <2>3, <2>4
  <1>4. own' \in [Peers -> BOOLEAN]
    BY <1>1, Zenon DEF SessionTypes
  <1>5. /\ mem' \in [Peers -> Sids \cup {NoSession}] /\ disk' \in [Peers -> Sids \cup {NoSession}]
        /\ lost' \in [Peers -> Sids \cup {NoSession}]
    BY <1>1 DEF SessionTypes
  <1>6. SessionTypes'
    BY <1>1, <1>2, <1>3, <1>4, <1>5 DEF SessionTypes
  <1>7. PrekeysCounted'
    <2>1. \A q \in Peers : lost'[q] # NoSession => lost'[q][1] = Other(q)
      BY <1>1 DEF PrekeysCounted, SessionTypes
    <2>2. \A q \in Peers, c \in Callers : \A i \in DOMAIN ens'[q][c] : ens'[q][c][i] \in 1..(inits'[q] + 1)
      <3> SUFFICES ASSUME NEW q \in Peers, NEW c \in Callers, NEW i \in DOMAIN ens'[q][c]
                   PROVE  ens'[q][c][i] \in 1..(inits'[q] + 1)
        OBVIOUS
      <3>1. ens'[q][c] = ens[q][c]
        BY <1>3
      <3> QED
        BY <1>1, <3>1 DEF PrekeysCounted
    <2> QED
      BY <1>1, <2>1, <2>2 DEF PrekeysCounted
  <1>8. LettersTrue' /\ InboxTrue' /\ EventsCounted' /\ DeliveredIsStored'
    BY <1>1 DEF LettersTrue, LetterTrue, InboxTrue, EventsCounted, DeliveredIsStored
  <1>9. MemoryIsSaved'
    BY <1>1 DEF MemoryIsSaved, SessionTypes
  <1> QED
    BY <1>6, <1>7, <1>8, <1>9

-----------------------------------------------------------------------------
(* Every step *)

LEMMA OpenSteps ==
    ASSUME SessionInv, NEW p \in Peers, Open(p)
    PROVE  SessionInv'
  <1>1. CASE OpenPrefetched(p)
    <2>1. opk[Other(p)] \in 1..(inits[p] + 1)
      BY OtherPeer DEF SessionInv, PrekeysCounted
    <2> QED
      BY <1>1, <2>1, OpenStep DEF OpenPrefetched
  <1>2. ASSUME NEW c \in Callers, FetchBundle(p, c) PROVE SessionInv'
    BY <1>2, FetchStep
  <1>3. ASSUME NEW c \in Callers, OpenFetched(p, c) PROVE SessionInv'
    <2>1. ens[p][c] \in Seq(Nat) /\ ens[p][c] # << >>
      BY <1>3, TypesAt DEF SessionInv, OpenFetched
    <2>2. 1 \in DOMAIN ens[p][c] /\ Head(ens[p][c]) = ens[p][c][1]
      BY <2>1
    <2>3. Head(ens[p][c]) \in 1..(inits[p] + 1)
      BY <2>2 DEF SessionInv, PrekeysCounted
    <2> QED
      BY <1>3, <2>3, OpenStep DEF OpenFetched
  <1> QED
    BY <1>1, <1>2, <1>3 DEF Open

LEMMA SessionStep == SessionInv /\ [Next]_vars => SessionInv'
  <1> SUFFICES ASSUME SessionInv, [Next]_vars PROVE SessionInv'
    OBVIOUS
  <1>1. CASE UNCHANGED vars
    BY <1>1 DEF vars, SessionInv, SessionTypes, PrekeysCounted, LettersTrue, LetterTrue, InboxTrue,
                EventsCounted, DeliveredIsStored, MemoryIsSaved
  <1>2. ASSUME NEW p \in Peers, Receive(p) \/ \E i \in Offered(p) : CommitFails(p, i)
        PROVE  SessionInv'
    <2>1. Offered(p) \subseteq DOMAIN net[p]
      BY DEF Offered
    <2> QED
      BY <1>2, <2>1, ReceiveInitStep, CommitStep, DropStep, CommitFailsStep DEF Receive
  <1>3. ASSUME NEW p \in Peers, SendMessage(p) \/ Process(p) \/ ResetSession(p) \/ Crash(p)
        PROVE  SessionInv'
    BY <1>3, SendStep, ProcessStep, ForgetStep
  <1> QED
    BY <1>1, <1>2, <1>3, OpenSteps DEF Next

LEMMA SessionTyped == SessionInv => SessionTypeOK
  <1> SUFFICES ASSUME SessionInv PROVE SessionTypeOK
    OBVIOUS
  <1>1. ASSUME NEW p \in Peers PROVE lost[p] \in ({Other(p)} \X (1..MaxInits)) \cup {NoSession}
    BY DEF SessionInv, SessionTypes, PrekeysCounted, Sids
  <1> QED
    BY <1>1 DEF SessionTypeOK, SessionInv, SessionTypes, PrekeysCounted

\* What ReadIsKept says but for the letters spent, whatever fails: a message
\* raises one event, what is shown as delivered is in the other end's database,
\* and the session in memory is the one saved.
THEOREM OnceAndTruly == Spec => [](SessionTypeOK /\ ShownOnce /\ DeliveredIsStored /\ MemoryIsSaved)
  <1>1. SessionInv => SessionTypeOK /\ ShownOnce /\ DeliveredIsStored /\ MemoryIsSaved
    BY SessionTyped DEF SessionInv, EventsCounted, ShownOnce
  <1> QED
    BY InitSession, SessionStep, <1>1, PTL DEF Spec

\* ReadIsKept: with a database whose commits succeed, a letter whose key is
\* spent is also in the inbox or processed, through crashes, resets, lost
\* letters and lost acks in any number and order.
THEOREM ReadIsAlwaysKept ==
    ASSUME MaxDbFails = 0
    PROVE  Spec => []ReadIsKept
  <1>1. SessionInv => ReadIsKept
    <2> SUFFICES ASSUME SessionInv PROVE ReadIsKept
      OBVIOUS
    <2>1. LettersTrue /\ EventsCounted /\ DeliveredIsStored /\ MemoryIsSaved
      BY DEF SessionInv
    <2>2. ShownOnce
      BY <2>1 DEF EventsCounted, ShownOnce
    <2>3. SpentIsKept
      BY <2>1 DEF LettersTrue, LetterTrue, SpentIsKept
    <2> QED
      BY <2>1, <2>2, <2>3, SessionTyped DEF ReadIsKept
  <1> QED
    BY InitSession, SessionStep, <1>1, PTL DEF Spec
=============================================================================
