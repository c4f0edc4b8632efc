--------------------------- MODULE BrowserProofs ----------------------------
(***************************************************************************)
(* ProfileSurvives of BrowserProfile for every set of passwords, passkeys, *)
(* letters and files, and any number of transactions and faults.           *)
(***************************************************************************)
EXTENDS BrowserProfile, TLAPS

\* Slot i has the newest record and is the slot of its generation: the write
\* of the next generation goes to the other one.
Holds(store, i) ==
  /\ i \in Complete(store)
  /\ Target(store[i].generation) = i
  /\ \A j \in Complete(store) :
       store[j] = store[i] \/ store[j].generation < store[i].generation

StoreInv(store) == Complete(store) = {} \/ \E i \in Slots : Holds(store, i)

PhaseInv ==
  /\ engine = NoSnapshot <=> phase = "locked"
  /\ candidate = NoSnapshot <=> phase \in {"locked", "idle"}
  /\ phase = "acting" =>
       candidate.generation = engine.generation /\ engine.generation < MaxGeneration
  /\ phase \in {"sealed", "mirror", "flushed"} =>
       candidate.generation = engine.generation + 1

\* Where the engine's snapshot and the candidate are on disk.  A profile that
\* was just created is nowhere yet.
PlaceInv ==
  /\ phase \in {"idle", "acting", "sealed"} =>
       \/ slots[Target(engine.generation)] = engine
          /\ Holds(slots, Target(engine.generation))
       \/ /\ Complete(slots) = {} /\ engine.generation = 0 /\ phase # "idle"
          /\ phase = "acting" => candidate = engine
  /\ phase \in {"mirror", "flushed"} =>
       slots[Target(candidate.generation)] = candidate
       /\ Holds(slots, Target(candidate.generation))
  /\ Complete(slots) = {} => wire = {} /\ recorded = NoSnapshot

\* The message keys of a snapshot lie below its ratchet, each for one letter,
\* and so do those that left.
KeysInv(s) ==
  /\ s.ratchet <= s.generation + 1
  /\ \A c \in s.out : c[1] < s.ratchet
  /\ \A c, d \in s.out : c[1] = d[1] => c[2] = d[2]
  /\ \A c \in wire : c[1] < s.ratchet
  /\ \A c \in wire, d \in s.out : c[1] = d[1] => c[2] = d[2]

SnapshotInv(s) ==
  s # NoSnapshot => KeysInv(s) /\ s.files \subseteq blobs

RatchetInv ==
  /\ engine # NoSnapshot => engine.ratchet <= engine.generation
  /\ phase \in {"sealed", "mirror", "flushed"} => candidate.ratchet <= candidate.generation
  /\ \A i \in Complete(slots) : slots[i].ratchet <= slots[i].generation

\* The record opens with the credentials of s and refers to no other file.
Agrees(record, s) ==
  record.pass = s.pass /\ record.keys = s.keys /\ record.files \subseteq s.files

SecretsInv ==
  /\ candidate # NoSnapshot /\ ~ mirror => Agrees(engine, candidate)
  /\ phase = "idle" \/ (phase = "acting" /\ candidate # engine) =>
       \A i \in Complete(slots) : Agrees(slots[i], engine)
  /\ phase = "mirror" => mirror
  /\ phase = "flushed" => \A i \in Complete(slots) : Agrees(slots[i], candidate)

ProfileInv ==
  /\ ProfileTypeOK /\ StoreInv(slots)
  /\ PhaseInv /\ PlaceInv /\ RatchetInv /\ SecretsInv
  /\ SnapshotInv(engine) /\ SnapshotInv(candidate) /\ SnapshotInv(Newest(slots))
  /\ RecordedSurvives /\ KeyUsedOnce

-----------------------------------------------------------------------------
SlotType == [Slots -> {EmptySlot, TornSlot} \cup Snapshots]

\* What is known of a snapshot's fields, and that no marker is one.
LEMMA SnapshotFacts ==
  ASSUME NEW s \in Snapshots
  PROVE  /\ s \notin {NoSnapshot, EmptySlot, TornSlot}
         /\ s.generation \in 0 .. MaxGeneration /\ s.ratchet \in 0 .. MaxGeneration
         /\ s.generation \in Nat /\ s.ratchet \in Nat
         /\ s.pass \in Passwords /\ s.keys \subseteq Passkeys
         /\ s.out \subseteq ((0 .. MaxGeneration) \X BrowserLetters)
         /\ s.files \subseteq BrowserFiles
  <1>1. s.generation \in 0 .. MaxGeneration /\ s.ratchet \in 0 .. MaxGeneration
    BY DEF Snapshots
  <1>2. s.generation \in Nat /\ s.ratchet \in Nat
    BY <1>1, ProfileAssumption
  <1>3. s \notin {NoSnapshot, EmptySlot, TornSlot}
    BY <1>2 DEF NoSnapshot, EmptySlot, TornSlot
  <1> QED
    BY <1>1, <1>2, <1>3 DEF Snapshots

\* Consecutive generations go to different slots.
LEMMA TargetFacts ==
  ASSUME NEW g \in Nat
  PROVE  Target(g) \in Slots /\ 1 - Target(g) \in Slots
         /\ Target(g + 1) = 1 - Target(g) /\ 1 - Target(g) # Target(g)
  BY DEF Target, Slots

LEMMA OtherSlot ==
  ASSUME NEW i \in Slots, NEW j \in Slots
  PROVE  1 - i \in Slots /\ 1 - i # i /\ (j # i => j = 1 - i)
  BY DEF Slots

LEMMA CompleteFacts ==
  ASSUME NEW store \in SlotType, NEW i \in Slots
  PROVE  i \in Complete(store) <=> store[i] \in Snapshots
  <1>1. store[i] \in {EmptySlot, TornSlot} \cup Snapshots
    BY DEF SlotType
  <1> QED
    BY <1>1, SnapshotFacts DEF Complete

\* The slot that holds the newest record is the one newest() picks.
LEMMA NewestOf ==
  ASSUME NEW store \in SlotType, NEW i \in Slots, Holds(store, i)
  PROVE  Newest(store) = store[i] /\ store[i] \in Snapshots
  <1> DEFINE Best(k) == \A j \in Complete(store) : store[j].generation <= store[k].generation
  <1> DEFINE k == CHOOSE k \in Complete(store) : Best(k)
  <1>1. \A j \in Complete(store) : j \in Slots /\ store[j] \in Snapshots
    BY CompleteFacts DEF Complete
  <1>2. \A j \in Complete(store) : store[j].generation \in Nat
    BY <1>1, SnapshotFacts
  <1>3. i \in Complete(store) /\ Best(i)
    BY <1>2 DEF Holds
  <1>4. k \in Complete(store) /\ Best(k)
    BY <1>3
  <1>5. store[i].generation <= store[k].generation
    BY <1>3, <1>4
  <1>6. store[k] = store[i]
    BY <1>2, <1>3, <1>4, <1>5 DEF Holds
  <1>7. Newest(store) = store[k]
    BY <1>3 DEF Newest
  <1> QED
    BY <1>1, <1>3, <1>6, <1>7

\* A complete write of a later generation into its slot.
LEMMA PutHolds ==
  ASSUME NEW store \in SlotType, NEW c \in Snapshots, NEW t \in Slots,
         t = Target(c.generation),
         Complete(store) = {}
         \/ (Holds(store, 1 - t) /\ store[1 - t].generation < c.generation)
  PROVE  LET new == [store EXCEPT ![t] = c] IN
         /\ new \in SlotType /\ new[t] = c /\ new[1 - t] = store[1 - t]
         /\ Holds(new, t)
  <1> DEFINE new == [store EXCEPT ![t] = c]
  <1>1. 1 - t \in Slots /\ 1 - t # t /\ \A j \in Slots : j # t => j = 1 - t
    BY OtherSlot
  <1>2. new \in SlotType /\ new[t] = c /\ new[1 - t] = store[1 - t]
    BY <1>1 DEF SlotType
  <1>3. t \in Complete(new)
    BY <1>2, CompleteFacts
  <1>4. ASSUME NEW j \in Complete(new)
        PROVE  new[j] = c \/ new[j].generation < c.generation
    <2>1. j \in Slots /\ new[j] \in Snapshots
      BY <1>2, CompleteFacts DEF Complete
    <2>2. CASE j = t
      BY <2>2, <1>2
    <2>3. CASE j = 1 - t
      <3>1. store[1 - t] \in Snapshots
        BY <2>1, <2>3, <1>2
      <3>2. 1 - t \in Complete(store)
        BY <3>1, <1>1, CompleteFacts
      <3> QED
        BY <3>2, <2>3, <1>2
    <2> QED
      BY <2>1, <2>2, <2>3, <1>1
  <1> HIDE DEF new
  <1>5. Holds(new, t)
    BY <1>2, <1>3, <1>4 DEF Holds
  <1> QED
    BY <1>2, <1>5 DEF new

\* A write into the other slot that leaves no record, or none that is newer.
LEMMA OtherKeeps ==
  ASSUME NEW store \in SlotType, NEW t \in Slots, Holds(store, 1 - t),
         NEW left \in {EmptySlot, TornSlot} \cup Snapshots,
         left \in Snapshots => left = store[1 - t] \/ left.generation < store[1 - t].generation
  PROVE  LET new == [store EXCEPT ![t] = left] IN
         /\ new \in SlotType /\ new[1 - t] = store[1 - t] /\ Holds(new, 1 - t)
  <1> DEFINE new == [store EXCEPT ![t] = left]
  <1>1. 1 - t \in Slots /\ 1 - t # t /\ \A j \in Slots : j # t => j = 1 - t
    BY OtherSlot
  <1>2. new \in SlotType /\ new[t] = left /\ new[1 - t] = store[1 - t]
    BY <1>1 DEF SlotType
  <1>3. 1 - t \in Complete(store) /\ store[1 - t] \in Snapshots
    BY <1>1, CompleteFacts DEF Holds
  <1>4. 1 - t \in Complete(new)
    BY <1>1, <1>2, <1>3, CompleteFacts
  <1>5. ASSUME NEW j \in Complete(new)
        PROVE  new[j] = new[1 - t] \/ new[j].generation < new[1 - t].generation
    <2>1. j \in Slots /\ new[j] \in Snapshots
      BY <1>2, CompleteFacts DEF Complete
    <2> QED
      BY <2>1, <1>1, <1>2
  <1> HIDE DEF new
  <1>6. Holds(new, 1 - t)
    BY <1>2, <1>4, <1>5 DEF Holds
  <1> QED
    BY <1>2, <1>6 DEF new

\* The invariant's facts about types, for the steps below.
LEMMA InvTypes ==
  ASSUME ProfileInv
  PROVE  /\ slots \in SlotType
         /\ phase # "locked" => engine \in Snapshots
         /\ phase \notin {"locked", "idle"} => candidate \in Snapshots
         /\ \A i \in Complete(slots) : i \in Slots /\ slots[i] \in Snapshots
         /\ Newest(slots) = NoSnapshot <=> Complete(slots) = {}
         /\ Complete(slots) # {} => Newest(slots) \in Snapshots
  <1>1. slots \in SlotType
    BY DEF ProfileInv, ProfileTypeOK, SlotType
  <1>2. \A i \in Complete(slots) : i \in Slots /\ slots[i] \in Snapshots
    BY <1>1, CompleteFacts DEF Complete
  <1>3. ASSUME Complete(slots) # {}
        PROVE  Newest(slots) \in Snapshots
    <2>1. PICK i \in Slots : Holds(slots, i)
      BY <1>3 DEF ProfileInv, StoreInv
    <2> QED
      BY <2>1, <1>1, NewestOf
  <1>4. Newest(slots) = NoSnapshot <=> Complete(slots) = {}
    BY <1>3, SnapshotFacts DEF Newest
  <1> QED
    BY <1>1, <1>2, <1>3, <1>4 DEF ProfileInv, ProfileTypeOK, PhaseInv

\* Beginning a transaction with a changed copy of the engine's snapshot.
LEMMA BeginKeeps ==
  ASSUME ProfileInv, NEW s \in Snapshots, NEW r \in BOOLEAN, BeginWith(s, r),
         s # engine, s.generation = engine.generation, ~ r => Agrees(engine, s),
         KeysInv(s), s.files \subseteq blobs', blobs \subseteq blobs',
         blobs' \subseteq BrowserFiles
  PROVE  ProfileInv'
  <1>0. /\ phase = "idle" /\ phase' = "acting" /\ candidate' = s /\ mirror' = r
        /\ slots' = slots /\ engine' = engine /\ recorded' = recorded /\ wire' = wire
        /\ profileFaults' = profileFaults /\ engine.generation < MaxGeneration
    BY DEF BeginWith
  <1>a. engine \in Snapshots /\ s # NoSnapshot /\ engine # NoSnapshot
    BY <1>0, InvTypes, SnapshotFacts
  <1>1. ProfileTypeOK'
    BY <1>0 DEF ProfileInv, ProfileTypeOK
  <1>2. StoreInv(slots)' /\ RecordedSurvives' /\ KeyUsedOnce'
    BY <1>0 DEF ProfileInv, RecordedSurvives, KeyUsedOnce
  <1>3. PhaseInv'
    BY <1>0, <1>a DEF PhaseInv
  <1>4. PlaceInv'
    BY <1>0 DEF ProfileInv, PlaceInv
  <1>5. RatchetInv'
    BY <1>0 DEF ProfileInv, RatchetInv
  <1>6. SecretsInv'
    BY <1>0 DEF ProfileInv, SecretsInv, Agrees
  <1>7. SnapshotInv(s)'
    BY <1>0 DEF SnapshotInv, KeysInv
  <1>8. SnapshotInv(engine)' /\ SnapshotInv(Newest(slots))'
    BY <1>0 DEF ProfileInv, SnapshotInv, KeysInv
  <1> QED
    BY <1>0, <1>1, <1>2, <1>3, <1>4, <1>5, <1>6, <1>7, <1>8 DEF ProfileInv

\* Closing: memory is wiped, and an interrupted write left the newest record
\* as it was or put the candidate after it.
LEMMA CloseKeeps ==
  ASSUME ProfileInv, CloseNow, slots' \in SlotType, UNCHANGED <<blobs, recorded, wire>>,
         profileFaults' \in 0 .. MaxFaults,
         \A i \in Complete(slots') : slots'[i].ratchet <= slots'[i].generation,
         \/ Complete(slots) = {} /\ Complete(slots') = {}
         \/ \E i \in Slots :
              /\ Holds(slots', i)
              /\ \/ slots'[i] = Newest(slots)
                 \/ /\ slots'[i] = candidate
                    /\ recorded # NoSnapshot => recorded.generation < candidate.generation
  PROVE  ProfileInv'
  <1>0. /\ phase' = "locked" /\ candidate' = NoSnapshot /\ engine' = NoSnapshot
        /\ mirror' = FALSE /\ blobs' = blobs /\ recorded' = recorded /\ wire' = wire
    BY DEF CloseNow
  <1>1. ProfileTypeOK'
    BY <1>0 DEF ProfileInv, ProfileTypeOK, SlotType
  <1>2. PhaseInv' /\ SecretsInv' /\ SnapshotInv(engine)' /\ SnapshotInv(candidate)'
        /\ KeyUsedOnce' /\ RatchetInv'
    BY <1>0 DEF ProfileInv, PhaseInv, SecretsInv, SnapshotInv, KeyUsedOnce, RatchetInv
  <1>3. CASE Complete(slots) = {} /\ Complete(slots') = {}
    <2>1. wire = {} /\ recorded = NoSnapshot
      BY <1>3 DEF ProfileInv, PlaceInv
    <2>2. PlaceInv' /\ StoreInv(slots)' /\ RecordedSurvives'
      BY <2>1, <1>3, <1>0 DEF PlaceInv, StoreInv, RecordedSurvives
    <2>3. Newest(slots') = NoSnapshot
      BY <1>3 DEF Newest
    <2>4. SnapshotInv(Newest(slots))'
      BY <2>3 DEF SnapshotInv
    <2> QED
      BY <2>2, <2>4, <1>1, <1>2 DEF ProfileInv
  <1>4. CASE \E i \in Slots :
               /\ Holds(slots', i)
               /\ \/ slots'[i] = Newest(slots)
                  \/ /\ slots'[i] = candidate
                     /\ recorded # NoSnapshot => recorded.generation < candidate.generation
    <2>1. PICK i \in Slots :
               /\ Holds(slots', i)
               /\ \/ slots'[i] = Newest(slots)
                  \/ /\ slots'[i] = candidate
                     /\ recorded # NoSnapshot => recorded.generation < candidate.generation
      BY <1>4
    <2>2. Newest(slots') = slots'[i] /\ slots'[i] \in Snapshots
      BY <2>1, NewestOf
    <2>3. slots'[i] # NoSnapshot
      BY <2>2, SnapshotFacts
    <2>4. PlaceInv' /\ StoreInv(slots)'
      BY <2>1, <1>0 DEF PlaceInv, StoreInv, Holds
    <2>5. SnapshotInv(slots'[i])
      BY <2>1 DEF ProfileInv
    <2>6. SnapshotInv(Newest(slots))'
      BY <2>2, <2>5, <1>0 DEF SnapshotInv, KeysInv
    <2>7. RecordedSurvives'
      <3>1. recorded # NoSnapshot => recorded.generation \in Nat
        BY SnapshotFacts DEF ProfileInv, ProfileTypeOK
      <3>2. slots'[i].generation \in Nat
        BY <2>2, SnapshotFacts
      <3> QED
        BY <2>1, <2>2, <1>0, <3>1, <3>2 DEF ProfileInv, RecordedSurvives
    <2> QED
      BY <2>4, <2>6, <2>7, <1>1, <1>2 DEF ProfileInv
  <1> QED
    BY <1>3, <1>4

\* The engine's snapshot between transactions: on disk, its keys in order.
LEMMA IdleFacts ==
  ASSUME ProfileInv, phase = "idle"
  PROVE  /\ engine \in Snapshots /\ KeysInv(engine) /\ engine.files \subseteq blobs
         /\ engine.ratchet <= engine.generation
         /\ blobs \subseteq BrowserFiles
         /\ Newest(slots) = engine
         /\ wire \subseteq ((0 .. MaxGeneration) \X BrowserLetters)
  <1>1. engine \in Snapshots /\ engine # NoSnapshot
    BY InvTypes, SnapshotFacts
  <1>2. Target(engine.generation) \in Slots
    BY <1>1, SnapshotFacts, TargetFacts
  <1>3. Newest(slots) = engine
    BY <1>2, NewestOf, InvTypes DEF ProfileInv, PlaceInv
  <1> QED
    BY <1>1, <1>3 DEF ProfileInv, SnapshotInv, RatchetInv, ProfileTypeOK

LEMMA EncryptKeeps ==
  ASSUME ProfileInv, NEW l \in BrowserLetters, EncryptLetter(l)
  PROVE  ProfileInv'
  <1> DEFINE s == [engine EXCEPT !.ratchet = @ + 1, !.out = @ \cup {<<engine.ratchet, l>>}]
  <1>0. phase = "idle" /\ BeginWith(s, FALSE) /\ blobs' = blobs /\ engine.generation < MaxGeneration
    BY DEF EncryptLetter, BeginWith
  <1>1. /\ engine \in Snapshots /\ KeysInv(engine) /\ engine.files \subseteq blobs
        /\ engine.ratchet <= engine.generation /\ blobs \subseteq BrowserFiles
    BY <1>0, IdleFacts
  <1>2. engine.generation \in Nat /\ engine.ratchet \in Nat
    BY <1>1, SnapshotFacts
  <1>3. engine.ratchet + 1 \in 0 .. MaxGeneration /\ engine.ratchet \in 0 .. MaxGeneration
    BY <1>0, <1>1, <1>2, ProfileAssumption
  <1>4. /\ s \in Snapshots /\ s.generation = engine.generation /\ s.ratchet = engine.ratchet + 1
        /\ s.out = engine.out \cup {<<engine.ratchet, l>>} /\ s.files = engine.files
        /\ s.pass = engine.pass /\ s.keys = engine.keys
    <2>1. <<engine.ratchet, l>> \in (0 .. MaxGeneration) \X BrowserLetters
      BY <1>3
    <2>2. engine.out \cup {<<engine.ratchet, l>>} \subseteq (0 .. MaxGeneration) \X BrowserLetters
      BY <2>1, <1>1, SnapshotFacts
    <2> QED
      BY <2>2, <1>1, <1>3 DEF Snapshots
  <1> HIDE DEF s
  <1>5. s # engine /\ Agrees(engine, s)
    BY <1>2, <1>4 DEF Agrees
  <1>6. \A c \in engine.out : c[1] \in Nat /\ c[1] < engine.ratchet
    BY <1>1, SnapshotFacts DEF KeysInv
  <1>7. \A c \in wire : c[1] \in Nat /\ c[1] < engine.ratchet
    BY <1>1 DEF KeysInv, ProfileInv, ProfileTypeOK
  <1>8. KeysInv(s)
    <2>1. \A c \in s.out : c[1] < s.ratchet
      BY <1>2, <1>4, <1>6
    <2>2. \A c, d \in s.out : c[1] = d[1] => c[2] = d[2]
      BY <1>1, <1>2, <1>4, <1>6 DEF KeysInv
    <2>3. \A c \in wire : c[1] < s.ratchet
      BY <1>2, <1>4, <1>7
    <2>4. ASSUME NEW c \in wire, NEW d \in s.out, c[1] = d[1]
          PROVE  c[2] = d[2]
      <3>1. CASE d \in engine.out
        BY <3>1, <2>4, <1>1 DEF KeysInv
      <3>2. CASE d = <<engine.ratchet, l>>
        BY <3>2, <2>4, <1>2, <1>7
      <3> QED
        BY <3>1, <3>2, <1>4
    <2> QED
      BY <1>1, <1>2, <1>4, <2>1, <2>2, <2>3, <2>4 DEF KeysInv
  <1> QED
    BY <1>0, <1>1, <1>4, <1>5, <1>8, BeginKeeps

LEMMA SettleKeeps ==
  ASSUME ProfileInv, NEW c \in (0 .. MaxGeneration) \X BrowserLetters, SettleLetter(c)
  PROVE  ProfileInv'
  <1> DEFINE s == [engine EXCEPT !.out = @ \ {c}]
  <1>0. phase = "idle" /\ BeginWith(s, FALSE) /\ blobs' = blobs /\ c \in engine.out
    BY DEF SettleLetter, BeginWith
  <1>1. /\ engine \in Snapshots /\ KeysInv(engine) /\ engine.files \subseteq blobs
        /\ blobs \subseteq BrowserFiles
    BY <1>0, IdleFacts
  <1>2. /\ s \in Snapshots /\ s.generation = engine.generation /\ s.ratchet = engine.ratchet
        /\ s.out = engine.out \ {c} /\ s.files = engine.files
        /\ s.pass = engine.pass /\ s.keys = engine.keys
    BY <1>1 DEF Snapshots
  <1> HIDE DEF s
  <1>3. s # engine /\ Agrees(engine, s) /\ KeysInv(s)
    BY <1>0, <1>1, <1>2 DEF Agrees, KeysInv
  <1> QED
    BY <1>0, <1>1, <1>2, <1>3, BeginKeeps

LEMMA PasswordKeeps ==
  ASSUME ProfileInv, NEW p \in Passwords, ChangePassword(p)
  PROVE  ProfileInv'
  <1> DEFINE s == [engine EXCEPT !.pass = p]
  <1>0. phase = "idle" /\ BeginWith(s, TRUE) /\ blobs' = blobs /\ p # engine.pass
    BY DEF ChangePassword, WithPassword, BeginWith
  <1>1. /\ engine \in Snapshots /\ KeysInv(engine) /\ engine.files \subseteq blobs
        /\ blobs \subseteq BrowserFiles
    BY <1>0, IdleFacts
  <1>2. /\ s \in Snapshots /\ s.generation = engine.generation /\ s.ratchet = engine.ratchet
        /\ s.out = engine.out /\ s.files = engine.files /\ s.pass = p
    BY <1>1 DEF Snapshots
  <1> HIDE DEF s
  <1>3. s # engine /\ KeysInv(s)
    BY <1>0, <1>1, <1>2 DEF KeysInv
  <1> QED
    BY <1>0, <1>1, <1>2, <1>3, BeginKeeps

LEMMA EnrollKeeps ==
  ASSUME ProfileInv, NEW k \in Passkeys, EnrollPasskey(k)
  PROVE  ProfileInv'
  <1> DEFINE s == [engine EXCEPT !.keys = @ \cup {k}]
  <1>0. phase = "idle" /\ BeginWith(s, TRUE) /\ blobs' = blobs /\ k \notin engine.keys
    BY DEF EnrollPasskey, Enrolls, BeginWith
  <1>1. /\ engine \in Snapshots /\ KeysInv(engine) /\ engine.files \subseteq blobs
        /\ blobs \subseteq BrowserFiles
    BY <1>0, IdleFacts
  <1>2. /\ s \in Snapshots /\ s.generation = engine.generation /\ s.ratchet = engine.ratchet
        /\ s.out = engine.out /\ s.files = engine.files /\ s.keys = engine.keys \cup {k}
    BY <1>1 DEF Snapshots
  <1> HIDE DEF s
  <1>3. s # engine /\ KeysInv(s)
    BY <1>0, <1>1, <1>2 DEF KeysInv
  <1> QED
    BY <1>0, <1>1, <1>2, <1>3, BeginKeeps

LEMMA AttachKeeps ==
  ASSUME ProfileInv, NEW f \in BrowserFiles, AttachFile(f)
  PROVE  ProfileInv'
  <1> DEFINE s == [engine EXCEPT !.files = @ \cup {f}]
  <1>0. phase = "idle" /\ BeginWith(s, FALSE) /\ blobs' = blobs \cup {f} /\ f \notin blobs
    BY DEF AttachFile, SealFile, BeginWith
  <1>1. /\ engine \in Snapshots /\ KeysInv(engine) /\ engine.files \subseteq blobs
        /\ blobs \subseteq BrowserFiles
    BY <1>0, IdleFacts
  <1>2. /\ s \in Snapshots /\ s.generation = engine.generation /\ s.ratchet = engine.ratchet
        /\ s.out = engine.out /\ s.files = engine.files \cup {f}
        /\ s.pass = engine.pass /\ s.keys = engine.keys
    BY <1>1 DEF Snapshots
  <1> HIDE DEF s
  <1>3. s # engine /\ Agrees(engine, s) /\ KeysInv(s)
    BY <1>0, <1>1, <1>2 DEF Agrees, KeysInv
  <1> QED
    BY <1>0, <1>1, <1>2, <1>3, BeginKeeps

LEMMA EraseKeeps ==
  ASSUME ProfileInv, NEW f \in BrowserFiles, EraseFile(f)
  PROVE  ProfileInv'
  <1> DEFINE s == [engine EXCEPT !.files = @ \ {f}]
  <1>0. phase = "idle" /\ BeginWith(s, TRUE) /\ blobs' = blobs /\ f \in engine.files
    BY DEF EraseFile, BeginWith
  <1>1. /\ engine \in Snapshots /\ KeysInv(engine) /\ engine.files \subseteq blobs
        /\ blobs \subseteq BrowserFiles
    BY <1>0, IdleFacts
  <1>2. /\ s \in Snapshots /\ s.generation = engine.generation /\ s.ratchet = engine.ratchet
        /\ s.out = engine.out /\ s.files = engine.files \ {f}
    BY <1>1 DEF Snapshots
  <1> HIDE DEF s
  <1>3. s # engine /\ KeysInv(s)
    BY <1>0, <1>1, <1>2 DEF KeysInv
  <1> QED
    BY <1>0, <1>1, <1>2, <1>3, BeginKeeps

\* Closing with no write under way.
LEMMA QuietClose ==
  ASSUME ProfileInv, CloseNow, UNCHANGED <<slots, blobs, recorded, wire>>,
         profileFaults' \in 0 .. MaxFaults
  PROVE  ProfileInv'
  <1>1. slots' \in SlotType /\ slots' = slots
    BY InvTypes
  <1>2. Complete(slots) = {} \/ \E i \in Slots : Holds(slots, i) /\ slots[i] = Newest(slots)
    BY InvTypes, NewestOf DEF ProfileInv, StoreInv
  <1>3. \A i \in Complete(slots) : slots[i].ratchet <= slots[i].generation
    BY DEF ProfileInv, RatchetInv
  <1>4. \/ Complete(slots) = {} /\ Complete(slots') = {}
        \/ \E i \in Slots : Holds(slots', i) /\ slots'[i] = Newest(slots)
    BY <1>1, <1>2
  <1> QED
    BY <1>1, <1>3, <1>4, CloseKeeps

\* Where a write under way goes, and what the other slot has.
LEMMA WrittenFacts ==
  ASSUME ProfileInv, phase \in {"sealed", "mirror"}
  PROVE  /\ candidate \in Snapshots /\ engine \in Snapshots
         /\ Written \in Slots
         /\ phase = "sealed" =>
              /\ Written = Target(candidate.generation)
              /\ \/ Complete(slots) = {}
                 \/ /\ Holds(slots, 1 - Written) /\ slots[1 - Written] = engine
                    /\ Newest(slots) = engine /\ engine.generation < candidate.generation
         /\ phase = "mirror" =>
              /\ Written = 1 - Target(candidate.generation)
              /\ 1 - Written = Target(candidate.generation)
              /\ Holds(slots, 1 - Written)
              /\ slots[1 - Written] = candidate /\ Newest(slots) = candidate
  <1>1. candidate \in Snapshots /\ engine \in Snapshots /\ slots \in SlotType
    BY InvTypes
  <1>2. candidate.generation \in Nat /\ engine.generation \in Nat
        /\ candidate.generation = engine.generation + 1
    BY <1>1, SnapshotFacts DEF ProfileInv, PhaseInv
  <1> DEFINE e == Target(engine.generation)
             c == Target(candidate.generation)
  <1>3. e \in Slots /\ c \in Slots /\ c = 1 - e /\ e = 1 - c
    <2>1. e \in Slots /\ c \in Slots /\ c = 1 - e
      BY <1>2, TargetFacts
    <2> QED
      BY <2>1 DEF Slots
  <1>4. Written = IF phase = "sealed" THEN c ELSE e
    BY <1>3 DEF Written
  <1>5. CASE phase = "sealed"
    <2>1. Complete(slots) = {} \/ (slots[e] = engine /\ Holds(slots, e))
      BY <1>5 DEF ProfileInv, PlaceInv
    <2>2. Holds(slots, e) => Newest(slots) = slots[e]
      BY <1>1, <1>3, NewestOf
    <2>3. Written = c /\ 1 - Written = e
      BY <1>3, <1>4, <1>5
    <2>4. engine.generation < candidate.generation
      BY <1>2
    <2> HIDE DEF e
    <2> QED
      BY <2>1, <2>2, <2>3, <2>4, <1>1, <1>3, <1>5
  <1>6. CASE phase = "mirror"
    <2>1. slots[c] = candidate /\ Holds(slots, c)
      BY <1>6 DEF ProfileInv, PlaceInv
    <2>2. Newest(slots) = slots[c]
      BY <2>1, <1>1, <1>3, NewestOf
    <2> QED
      BY <2>1, <2>2, <1>1, <1>3, <1>4, <1>6
  <1> QED
    BY <1>5, <1>6

\* A write that stops anywhere, after which the profile is closed.
LEMMA InterruptedKeeps ==
  ASSUME ProfileInv, phase \in {"sealed", "mirror"}, CloseNow,
         NEW left \in Interrupted(slots[Written]),
         slots' = [slots EXCEPT ![Written] = left],
         UNCHANGED <<blobs, recorded, wire>>, profileFaults' \in 0 .. MaxFaults
  PROVE  ProfileInv'
  <1> DEFINE w == Written
  <1>1. candidate \in Snapshots /\ slots \in SlotType /\ w \in Slots
    BY WrittenFacts, InvTypes
  <1>2. slots[w] \in {EmptySlot, TornSlot} \cup Snapshots
    BY <1>1 DEF SlotType
  <1>3. left \in {EmptySlot, TornSlot} \cup Snapshots
        /\ (left \in Snapshots => left = candidate \/ left = slots[w])
    BY <1>1, <1>2, SnapshotFacts DEF Interrupted
  <1>4. slots' \in SlotType /\ slots'[w] = left /\ \A i \in Slots : i # w => slots'[i] = slots[i]
    BY <1>1, <1>3 DEF SlotType
  <1>5. 1 - w \in Slots /\ 1 - w # w /\ \A j \in Slots : j # w => j = 1 - w
    BY <1>1, OtherSlot
  <1>6. ASSUME NEW i \in Complete(slots')
        PROVE  slots'[i].ratchet <= slots'[i].generation
    <2>1. i \in Slots /\ slots'[i] \in Snapshots
      BY <1>4, CompleteFacts DEF Complete
    <2>2. slots'[i] = candidate \/ slots'[i] = slots[i]
      BY <2>1, <1>3, <1>4
    <2>3. slots[i] \in Snapshots => slots[i].ratchet <= slots[i].generation
      BY <2>1, <1>1, CompleteFacts DEF ProfileInv, RatchetInv
    <2>4. candidate.ratchet <= candidate.generation
      BY DEF ProfileInv, RatchetInv
    <2> QED
      BY <2>1, <2>2, <2>3, <2>4
  <1>7. \/ Complete(slots) = {} /\ Complete(slots') = {}
        \/ \E i \in Slots :
              /\ Holds(slots', i)
              /\ \/ slots'[i] = Newest(slots)
                 \/ /\ slots'[i] = candidate
                    /\ recorded # NoSnapshot => recorded.generation < candidate.generation
    <2>1. CASE Complete(slots) = {}
      <3>0. phase # "mirror"
        BY <2>1, WrittenFacts DEF Holds
      <3>1. phase = "sealed" /\ recorded = NoSnapshot /\ w = Target(candidate.generation)
        BY <3>0, <2>1, WrittenFacts DEF ProfileInv, PlaceInv
      <3>2. CASE left = candidate
        <4>1. Holds(slots', w)
          BY <3>1, <3>2, <2>1, <1>1, PutHolds
        <4> QED
          BY <4>1, <3>1, <3>2, <1>1, <1>4
      <3>3. CASE left # candidate
        <4>1. \A i \in Slots : slots[i] \notin Snapshots
          BY <2>1, <1>1, CompleteFacts
        <4>2. \A i \in Slots : slots'[i] \notin Snapshots
          BY <4>1, <3>3, <1>1, <1>3, <1>4
        <4>3. Complete(slots') = {}
          BY <4>2, <1>4, CompleteFacts DEF Complete
        <4> QED
          BY <4>3, <2>1
      <3> QED
        BY <3>2, <3>3
    <2>2. CASE phase = "sealed" /\ Complete(slots) # {}
      <3>1. /\ w = Target(candidate.generation) /\ Holds(slots, 1 - w) /\ slots[1 - w] = engine
            /\ Newest(slots) = engine /\ engine.generation < candidate.generation
            /\ engine \in Snapshots
        BY <2>2, WrittenFacts
      <3>2. CASE left = candidate
        <4>1. Holds(slots', w)
          BY <3>1, <3>2, <1>1, PutHolds
        <4>2. recorded # NoSnapshot => recorded.generation < candidate.generation
          <5>1. recorded # NoSnapshot => recorded.generation \in Nat
            BY SnapshotFacts DEF ProfileInv, ProfileTypeOK
          <5>2. engine.generation \in Nat /\ candidate.generation \in Nat
            BY <3>1, <1>1, SnapshotFacts
          <5>3. recorded # NoSnapshot => engine = recorded \/ engine.generation > recorded.generation
            BY <3>1 DEF ProfileInv, RecordedSurvives
          <5> QED
            BY <5>1, <5>2, <5>3, <3>1
        <4> QED
          BY <4>1, <4>2, <3>2, <1>1, <1>4
      <3>3. CASE left # candidate
        <4>1. left \in Snapshots => left = slots[1 - w] \/ left.generation < slots[1 - w].generation
          <5>1. SUFFICES ASSUME left \in Snapshots
                         PROVE  left = slots[1 - w] \/ left.generation < slots[1 - w].generation
            OBVIOUS
          <5>2. left = slots[w] /\ w \in Complete(slots)
            BY <5>1, <3>3, <1>1, <1>3, CompleteFacts
          <5> QED
            BY <5>2, <3>1 DEF Holds
        <4>2. slots'[1 - w] = slots[1 - w] /\ Holds(slots', 1 - w)
          BY <4>1, <3>1, <1>1, <1>3, OtherKeeps
        <4> QED
          BY <4>2, <3>1, <1>5
      <3> QED
        BY <3>2, <3>3
    <2>3. CASE phase = "mirror"
      <3>1. /\ Holds(slots, 1 - w) /\ slots[1 - w] = candidate /\ Newest(slots) = candidate
        BY <2>3, WrittenFacts
      <3>2. left \in Snapshots => left = slots[1 - w] \/ left.generation < slots[1 - w].generation
        <4>1. SUFFICES ASSUME left \in Snapshots, left # candidate
                       PROVE  left = slots[1 - w] \/ left.generation < slots[1 - w].generation
          BY <3>1
        <4>2. left = slots[w] /\ w \in Complete(slots)
          BY <4>1, <1>1, <1>3, CompleteFacts
        <4> QED
          BY <4>2, <3>1 DEF Holds
      <3>3. slots'[1 - w] = slots[1 - w] /\ Holds(slots', 1 - w)
        BY <3>1, <3>2, <1>1, <1>3, OtherKeeps
      <3> QED
        BY <3>1, <3>3, <1>5
    <2> QED
      BY <2>1, <2>2, <2>3
  <1> HIDE DEF w
  <1> QED
    BY <1>4, <1>6, <1>7, CloseKeeps

LEMMA CreateKeeps ==
  ASSUME ProfileInv, NEW p \in Passwords, CreateProfile(p)
  PROVE  ProfileInv'
  <1> DEFINE s == FreshProfile(p)
  <1>0. /\ phase = "locked" /\ phase' = "acting" /\ engine' = s /\ candidate' = s
        /\ mirror' = FALSE /\ blobs' = {} /\ slots' = slots /\ recorded' = recorded
        /\ wire' = wire /\ profileFaults' = profileFaults
        /\ \A i \in Slots : slots[i] = EmptySlot
    BY DEF CreateProfile, Resume
  <1>1. Complete(slots) = {}
    BY <1>0 DEF Complete
  <1>2. wire = {} /\ recorded = NoSnapshot
    BY <1>1 DEF ProfileInv, PlaceInv
  <1>3. /\ s \in Snapshots /\ s.generation = 0 /\ s.ratchet = 0 /\ s.out = {} /\ s.files = {}
    <2>1. 0 \in 0 .. MaxGeneration
      BY ProfileAssumption
    <2>2. s \in Snapshots
      BY <2>1 DEF FreshProfile, Snapshots
    <2> QED
      BY <2>2 DEF FreshProfile
  <1> HIDE DEF s
  <1>4. s # NoSnapshot
    BY <1>3, SnapshotFacts
  <1>5. Newest(slots) = NoSnapshot
    BY <1>1 DEF Newest
  <1>6. ProfileTypeOK'
    BY <1>0, <1>3 DEF ProfileInv, ProfileTypeOK
  <1>7. PhaseInv'
    <2>1. 0 < MaxGeneration
      BY ProfileAssumption
    <2> QED
      BY <1>0, <1>3, <1>4, <2>1 DEF PhaseInv
  <1>8. PlaceInv' /\ StoreInv(slots)'
    BY <1>0, <1>1, <1>2, <1>3 DEF PlaceInv, StoreInv
  <1>9. RatchetInv'
    BY <1>0, <1>1, <1>3 DEF RatchetInv
  <1>10. SecretsInv'
    BY <1>0, <1>1 DEF SecretsInv, Agrees
  <1>11. SnapshotInv(s)'
    BY <1>0, <1>2, <1>3 DEF SnapshotInv, KeysInv
  <1>12. SnapshotInv(Newest(slots))' /\ RecordedSurvives' /\ KeyUsedOnce'
    BY <1>0, <1>2, <1>5 DEF SnapshotInv, RecordedSurvives, KeyUsedOnce
  <1> QED
    BY <1>0, <1>6, <1>7, <1>8, <1>9, <1>10, <1>11, <1>12 DEF ProfileInv

LEMMA OpenKeeps ==
  ASSUME ProfileInv, NEW credential, OpenProfile(credential)
  PROVE  ProfileInv'
  <1> DEFINE s == Newest(slots)
  <1>0. /\ phase = "locked" /\ phase' = "acting" /\ engine' = s /\ candidate' = s
        /\ mirror' = FALSE /\ blobs' = blobs \cap s.files /\ slots' = slots
        /\ recorded' = recorded /\ wire' = wire /\ profileFaults' = profileFaults
        /\ s # NoSnapshot /\ s.generation < MaxGeneration
    BY DEF OpenProfile, Resume, Collected
  <1>1. Complete(slots) # {} /\ s \in Snapshots /\ slots \in SlotType
    BY <1>0, InvTypes
  <1>2. PICK i \in Slots : Holds(slots, i)
    BY <1>1 DEF ProfileInv, StoreInv
  <1>3. s = slots[i] /\ Target(s.generation) = i
    BY <1>1, <1>2, NewestOf DEF Holds
  <1>4. s.ratchet <= s.generation
    BY <1>2, <1>3 DEF ProfileInv, RatchetInv, Holds
  <1>5. SnapshotInv(s)
    BY DEF ProfileInv
  <1> HIDE DEF s
  <1>6. ProfileTypeOK'
    BY <1>0, <1>1 DEF ProfileInv, ProfileTypeOK
  <1>7. PhaseInv'
    BY <1>0 DEF PhaseInv
  <1>8. PlaceInv' /\ StoreInv(slots)'
    BY <1>0, <1>1, <1>2, <1>3 DEF ProfileInv, PlaceInv, StoreInv
  <1>9. RatchetInv'
    BY <1>0, <1>4 DEF ProfileInv, RatchetInv
  <1>10. SecretsInv'
    BY <1>0 DEF SecretsInv, Agrees
  <1>11. SnapshotInv(engine)' /\ SnapshotInv(candidate)'
    BY <1>0, <1>5 DEF SnapshotInv, KeysInv
  <1>12. Newest(slots)' = engine' /\ RecordedSurvives' /\ KeyUsedOnce'
    BY <1>0 DEF ProfileInv, RecordedSurvives, KeyUsedOnce, s
  <1>13. SnapshotInv(Newest(slots))'
    BY <1>11, <1>12
  <1> QED
    BY <1>13, <1>6, <1>7, <1>8, <1>9, <1>10, <1>11, <1>12 DEF ProfileInv

LEMMA RemoveKeeps ==
  ASSUME ProfileInv, RemoveProfile
  PROVE  ProfileInv'
  <1>0. /\ phase = "locked" /\ phase' = "locked" /\ engine' = engine /\ candidate' = candidate
        /\ mirror' = mirror /\ blobs' = {} /\ slots' = [i \in Slots |-> EmptySlot]
        /\ recorded' = NoSnapshot /\ wire' = {} /\ profileFaults' = profileFaults
    BY DEF RemoveProfile
  <1>1. Complete(slots') = {} /\ Newest(slots') = NoSnapshot
    BY <1>0 DEF Complete, Newest
  <1>2. engine = NoSnapshot /\ candidate = NoSnapshot
    BY <1>0 DEF ProfileInv, PhaseInv
  <1>3. ProfileTypeOK'
    BY <1>0 DEF ProfileInv, ProfileTypeOK
  <1>4. PhaseInv' /\ PlaceInv' /\ StoreInv(slots)' /\ RatchetInv' /\ SecretsInv'
    BY <1>0, <1>1, <1>2 DEF PhaseInv, PlaceInv, StoreInv, RatchetInv, SecretsInv
  <1>5. SnapshotInv(engine)' /\ SnapshotInv(candidate)' /\ SnapshotInv(Newest(slots))'
        /\ RecordedSurvives' /\ KeyUsedOnce'
    BY <1>0, <1>1, <1>2 DEF SnapshotInv, RecordedSurvives, KeyUsedOnce
  <1> QED
    BY <1>3, <1>4, <1>5 DEF ProfileInv

LEMMA ThrowKeeps ==
  ASSUME ProfileInv, ActionThrows
  PROVE  ProfileInv'
  <1>0. phase = "acting" /\ profileFaults' \in 0 .. MaxFaults
        /\ slots' = slots /\ recorded' = recorded /\ wire' = wire
    BY ProfileAssumption DEF ActionThrows, ProfileInv, ProfileTypeOK
  <1>1. CASE candidate = engine
    BY <1>0, <1>1, QuietClose DEF ActionThrows
  <1>2. CASE candidate # engine
    <2>1. /\ candidate' = NoSnapshot /\ mirror' = FALSE /\ phase' = "idle" /\ engine' = engine
          /\ blobs' = blobs \ (candidate.files \ engine.files)
      BY <1>2 DEF ActionThrows
    <2>2. engine \in Snapshots /\ engine # NoSnapshot
      BY <1>0, InvTypes, SnapshotFacts
    <2>3. ProfileTypeOK'
      BY <1>0, <2>1 DEF ProfileInv, ProfileTypeOK
    <2>4. PhaseInv' /\ RatchetInv' /\ SecretsInv' /\ StoreInv(slots)'
      BY <1>0, <1>2, <2>1, <2>2 DEF ProfileInv, PhaseInv, RatchetInv, SecretsInv
    <2>5. SnapshotInv(engine)' /\ SnapshotInv(candidate)'
      BY <1>0, <2>1 DEF ProfileInv, SnapshotInv, KeysInv
    <2>6. slots[Target(engine.generation)] = engine /\ Holds(slots, Target(engine.generation))
      BY <1>0, <1>2 DEF ProfileInv, PlaceInv
    <2>7. Target(engine.generation) \in Slots
      BY <2>2, SnapshotFacts, TargetFacts
    <2>8. Newest(slots) = engine
      BY <2>6, <2>7, InvTypes, NewestOf
    <2>9. PlaceInv'
      BY <1>0, <2>1, <2>6 DEF PlaceInv, Holds
    <2>10. SnapshotInv(Newest(slots))' /\ RecordedSurvives' /\ KeyUsedOnce'
      BY <1>0, <2>1, <2>5, <2>8 DEF ProfileInv, RecordedSurvives, KeyUsedOnce
    <2> QED
      BY <2>3, <2>4, <2>5, <2>9, <2>10 DEF ProfileInv
  <1> QED
    BY <1>1, <1>2

LEMMA SealKeeps ==
  ASSUME ProfileInv, Seal
  PROVE  ProfileInv'
  <1>0. /\ phase = "acting" /\ phase' = "sealed" /\ slots' = slots /\ blobs' = blobs
        /\ engine' = engine /\ mirror' = mirror /\ recorded' = recorded /\ wire' = wire
        /\ profileFaults' = profileFaults
        /\ candidate' = [candidate EXCEPT !.generation = @ + 1]
    BY DEF Seal, SealNext
  <1>1. candidate \in Snapshots /\ engine \in Snapshots /\ candidate # NoSnapshot /\ engine # NoSnapshot
    BY <1>0, InvTypes, SnapshotFacts
  <1>2. /\ candidate.generation \in Nat /\ candidate.ratchet \in Nat
        /\ candidate.generation = engine.generation /\ candidate.generation < MaxGeneration
        /\ KeysInv(candidate) /\ candidate.files \subseteq blobs
    BY <1>0, <1>1, SnapshotFacts DEF ProfileInv, PhaseInv, SnapshotInv
  <1>3. candidate.generation + 1 \in 0 .. MaxGeneration
    BY <1>2, ProfileAssumption
  <1>4. /\ candidate' \in Snapshots /\ candidate'.generation = candidate.generation + 1
        /\ candidate'.ratchet = candidate.ratchet /\ candidate'.out = candidate.out
        /\ candidate'.files = candidate.files /\ candidate'.pass = candidate.pass
        /\ candidate'.keys = candidate.keys
    BY <1>0, <1>1, <1>3 DEF Snapshots
  <1>5. candidate' # NoSnapshot
    BY <1>4, SnapshotFacts
  <1>6. ProfileTypeOK'
    BY <1>0, <1>4 DEF ProfileInv, ProfileTypeOK
  <1>7. PhaseInv'
    BY <1>0, <1>1, <1>2, <1>4, <1>5 DEF PhaseInv
  <1>8. PlaceInv' /\ StoreInv(slots)'
    BY <1>0 DEF ProfileInv, PlaceInv
  <1>9. RatchetInv'
    BY <1>0, <1>2, <1>4 DEF ProfileInv, RatchetInv, KeysInv
  <1>10. SecretsInv'
    BY <1>0, <1>1, <1>4 DEF ProfileInv, SecretsInv, Agrees
  <1>11. SnapshotInv(candidate)'
    BY <1>0, <1>2, <1>4 DEF SnapshotInv, KeysInv
  <1>12. SnapshotInv(engine)' /\ SnapshotInv(Newest(slots))' /\ RecordedSurvives' /\ KeyUsedOnce'
    BY <1>0 DEF ProfileInv, SnapshotInv, KeysInv, RecordedSurvives, KeyUsedOnce
  <1> QED
    BY <1>6, <1>7, <1>8, <1>9, <1>10, <1>11, <1>12 DEF ProfileInv

\* The write that completes, of the first slot and of the recovery copy.
LEMMA WriteKeeps ==
  ASSUME ProfileInv, WriteSlot
  PROVE  ProfileInv'
  <1> DEFINE w == Written
  <1>0. /\ phase \in {"sealed", "mirror"}
        /\ blobs' = blobs /\ engine' = engine /\ candidate' = candidate /\ mirror' = mirror
        /\ recorded' = recorded /\ wire' = wire /\ profileFaults' = profileFaults
        /\ slots' = [slots EXCEPT ![w] = candidate]
        /\ phase' = IF phase = "sealed" /\ mirror THEN "mirror" ELSE "flushed"
    BY DEF WriteSlot, Written
  <1>1. /\ candidate \in Snapshots /\ engine \in Snapshots /\ slots \in SlotType /\ w \in Slots
        /\ candidate # NoSnapshot /\ engine # NoSnapshot
    BY <1>0, WrittenFacts, InvTypes, SnapshotFacts
  <1>2. Target(candidate.generation) \in Slots
    BY <1>1, SnapshotFacts, TargetFacts
  <1>3. /\ slots' \in SlotType /\ slots'[w] = candidate
        /\ \A i \in Slots : i # w => slots'[i] = slots[i]
    BY <1>0, <1>1 DEF SlotType
  <1> DEFINE t == Target(candidate.generation)
  <1>4. Holds(slots', t) /\ slots'[t] = candidate
    <2>1. CASE phase = "sealed"
      <3>1. w = t /\ (Complete(slots) = {}
                      \/ (Holds(slots, 1 - w) /\ slots[1 - w].generation < candidate.generation))
        BY <2>1, WrittenFacts
      <3> HIDE DEF w
      <3>2. w = Target(candidate.generation)
        BY <3>1
      <3>3. Holds(slots', w)
        BY <3>1, <3>2, <1>0, <1>1, PutHolds
      <3> QED
        BY <3>1, <3>3, <1>3
    <2>2. CASE phase = "mirror"
      <3>1. 1 - w = t /\ Holds(slots, 1 - w) /\ slots[1 - w] = candidate
        BY <2>2, WrittenFacts
      <3> HIDE DEF w
      <3>2. Holds(slots', 1 - w) /\ slots'[1 - w] = slots[1 - w]
        BY <3>1, <1>0, <1>1, OtherKeeps
      <3> QED
        BY <3>1, <3>2
    <2> QED
      BY <2>1, <2>2, <1>0
  <1>5. Newest(slots') = candidate /\ Complete(slots') # {}
    BY <1>2, <1>3, <1>4, NewestOf DEF Holds
  <1>6. ProfileTypeOK'
    BY <1>0, <1>3 DEF ProfileInv, ProfileTypeOK, SlotType
  <1>7. PhaseInv'
    BY <1>0 DEF ProfileInv, PhaseInv
  <1>8. PlaceInv' /\ StoreInv(slots)'
    BY <1>0, <1>2, <1>4, <1>5 DEF PlaceInv, StoreInv
  <1>9. RatchetInv'
    <2>1. candidate.ratchet <= candidate.generation
      BY <1>0 DEF ProfileInv, RatchetInv
    <2>2. ASSUME NEW i \in Complete(slots')
          PROVE  slots'[i].ratchet <= slots'[i].generation
      <3>1. i \in Slots /\ slots'[i] \in Snapshots
        BY <1>3, CompleteFacts DEF Complete
      <3>2. i # w => i \in Complete(slots)
        BY <3>1, <1>1, <1>3, CompleteFacts
      <3> QED
        BY <3>1, <3>2, <2>1, <1>3 DEF ProfileInv, RatchetInv
    <2> QED
      BY <2>1, <2>2, <1>0 DEF ProfileInv, RatchetInv
  <1>10. SecretsInv'
    <2>1. phase' = "mirror" => mirror
      BY <1>0
    <2>2. ~ mirror => Agrees(engine, candidate)
      BY <1>1 DEF ProfileInv, SecretsInv
    <2>3. ASSUME phase' = "flushed", NEW i \in Complete(slots')
          PROVE  Agrees(slots'[i], candidate)
      <3>1. i \in Slots /\ slots'[i] \in Snapshots
        BY <1>3, CompleteFacts DEF Complete
      <3>2. CASE slots'[i] = candidate
        BY <3>2 DEF Agrees
      <3>3. CASE slots'[i] # candidate
        <4>1. i # w /\ i = 1 - w /\ slots'[i] = slots[i] /\ i \in Complete(slots)
          BY <3>1, <3>3, <1>1, <1>3, OtherSlot, CompleteFacts
        <4>2. phase = "sealed"
          BY <4>1, <3>3, <1>0, WrittenFacts
        <4>3. ~ mirror /\ slots[i] = engine
          BY <4>1, <4>2, <2>3, <1>0, WrittenFacts DEF ProfileInv, ProfileTypeOK
        <4> QED
          BY <4>1, <4>3, <2>2
      <3> QED
        BY <3>2, <3>3
    <2> QED
      BY <2>1, <2>2, <2>3, <1>0 DEF SecretsInv, Agrees
  <1>11. SnapshotInv(engine)' /\ SnapshotInv(candidate)' /\ SnapshotInv(Newest(slots))' /\ KeyUsedOnce'
    <2>1. SnapshotInv(engine)' /\ SnapshotInv(candidate)' /\ KeyUsedOnce'
      BY <1>0 DEF ProfileInv, SnapshotInv, KeysInv, KeyUsedOnce
    <2>2. Newest(slots)' = candidate'
      BY <1>0, <1>5
    <2> QED
      BY <2>1, <2>2
  <1>12. RecordedSurvives'
    <2>1. recorded # NoSnapshot => recorded.generation \in Nat
      BY SnapshotFacts DEF ProfileInv, ProfileTypeOK
    <2>2. candidate.generation \in Nat /\ engine.generation \in Nat
      BY <1>1, SnapshotFacts
    <2>3. recorded = NoSnapshot \/ Newest(slots) = candidate
          \/ (Newest(slots) = engine /\ engine.generation < candidate.generation)
      BY <1>0, WrittenFacts DEF ProfileInv, PlaceInv
    <2>4. recorded # NoSnapshot => candidate = recorded \/ recorded.generation < candidate.generation
      BY <2>1, <2>2, <2>3 DEF ProfileInv, RecordedSurvives
    <2> QED
      BY <2>4, <1>0, <1>5, <2>1, <2>2 DEF RecordedSurvives
  <1> QED
    BY <1>6, <1>7, <1>8, <1>9, <1>10, <1>11, <1>12 DEF ProfileInv

LEMMA CommitKeeps ==
  ASSUME ProfileInv, CommitProfile
  PROVE  ProfileInv'
  <1>0. /\ phase = "flushed" /\ phase' = "idle" /\ engine' = candidate /\ recorded' = candidate
        /\ candidate' = NoSnapshot /\ mirror' = FALSE /\ slots' = slots /\ wire' = wire
        /\ profileFaults' = profileFaults
        /\ blobs' \subseteq blobs /\ blobs \cap candidate.files \subseteq blobs'
    BY DEF CommitProfile
  <1>1. candidate \in Snapshots /\ candidate # NoSnapshot
    BY <1>0, InvTypes, SnapshotFacts
  <1>2. slots[Target(candidate.generation)] = candidate /\ Holds(slots, Target(candidate.generation))
    BY <1>0 DEF ProfileInv, PlaceInv
  <1>3. Target(candidate.generation) \in Slots
    BY <1>1, SnapshotFacts, TargetFacts
  <1>4. Newest(slots) = candidate /\ Complete(slots) # {}
    BY <1>2, <1>3, InvTypes, NewestOf DEF Holds
  <1>5. ProfileTypeOK'
    BY <1>0, <1>1 DEF ProfileInv, ProfileTypeOK
  <1>6. PhaseInv' /\ PlaceInv' /\ StoreInv(slots)'
    BY <1>0, <1>1, <1>2, <1>4 DEF ProfileInv, PhaseInv, PlaceInv
  <1>7. RatchetInv' /\ SecretsInv'
    BY <1>0 DEF ProfileInv, RatchetInv, SecretsInv
  <1>8. SnapshotInv(engine)' /\ SnapshotInv(candidate)'
    BY <1>0, <1>1 DEF ProfileInv, SnapshotInv, KeysInv
  <1>9. Newest(slots)' = engine'
    BY <1>0, <1>4
  <1>10. SnapshotInv(Newest(slots))' /\ RecordedSurvives' /\ KeyUsedOnce'
    BY <1>0, <1>8, <1>9 DEF ProfileInv, RecordedSurvives, KeyUsedOnce
  <1> QED
    BY <1>5, <1>6, <1>7, <1>8, <1>10 DEF ProfileInv

\* A ciphertext that leaves is one of the committed state's: its key is below
\* the ratchet of what any later opening reads.
LEMMA DepositKeeps ==
  ASSUME ProfileInv, NEW c \in (0 .. MaxGeneration) \X BrowserLetters, DepositLetter(c)
  PROVE  ProfileInv'
  <1>0. /\ phase = "idle" /\ c \in engine.out /\ wire' = wire \cup {c}
        /\ slots' = slots /\ blobs' = blobs /\ engine' = engine /\ candidate' = candidate
        /\ mirror' = mirror /\ phase' = phase /\ recorded' = recorded
        /\ profileFaults' = profileFaults
    BY DEF DepositLetter
  <1>1. engine \in Snapshots /\ KeysInv(engine) /\ Newest(slots) = engine
        /\ engine.files \subseteq blobs /\ engine # NoSnapshot
    BY <1>0, IdleFacts, SnapshotFacts
  <1>2. ProfileTypeOK'
    BY <1>0 DEF ProfileInv, ProfileTypeOK
  <1>3. Complete(slots) # {}
    BY <1>1, InvTypes
  <1>4. PhaseInv' /\ PlaceInv' /\ StoreInv(slots)' /\ RatchetInv' /\ SecretsInv'
    BY <1>0, <1>3 DEF ProfileInv, PhaseInv, PlaceInv, RatchetInv, SecretsInv
  <1>5. KeysInv(engine)' /\ KeyUsedOnce'
    <2>1. \A d \in wire : c[1] = d[1] => c[2] = d[2]
      BY <1>0, <1>1 DEF KeysInv
    <2>2. KeyUsedOnce'
      BY <2>1, <1>0 DEF ProfileInv, KeyUsedOnce
    <2>3. \A d \in wire \cup {c} : d[1] < engine.ratchet
      BY <1>0, <1>1 DEF KeysInv
    <2>4. \A d \in wire \cup {c}, e \in engine.out : d[1] = e[1] => d[2] = e[2]
      BY <1>0, <1>1 DEF KeysInv
    <2> QED
      BY <2>2, <2>3, <2>4, <1>0, <1>1 DEF KeysInv
  <1>6. SnapshotInv(engine)' /\ SnapshotInv(candidate)' /\ Newest(slots)' = engine'
    BY <1>0, <1>1, <1>5 DEF ProfileInv, SnapshotInv, PhaseInv
  <1>7. SnapshotInv(Newest(slots))' /\ RecordedSurvives'
    BY <1>0, <1>6 DEF ProfileInv, RecordedSurvives
  <1> QED
    BY <1>2, <1>4, <1>5, <1>6, <1>7 DEF ProfileInv

LEMMA DeathKeeps ==
  ASSUME ProfileInv, TabDies \/ WriteFails \/ LockProfile
  PROVE  ProfileInv'
  <1>0. CloseNow /\ UNCHANGED <<blobs, recorded, wire>>
    BY DEF TabDies, WriteFails, LockProfile
  <1>1. profileFaults' \in 0 .. MaxFaults
    BY ProfileAssumption DEF TabDies, WriteFails, LockProfile, ProfileInv, ProfileTypeOK
  <1>2. CASE slots' = slots
    BY <1>0, <1>1, <1>2, QuietClose
  <1>3. CASE /\ phase \in {"sealed", "mirror"}
             /\ \E left \in Interrupted(slots[Written]) : slots' = [slots EXCEPT ![Written] = left]
    BY <1>0, <1>1, <1>3, InterruptedKeeps
  <1> QED
    BY <1>2, <1>3 DEF TabDies, WriteFails, LockProfile

LEMMA ProfileInvInit ==
  ASSUME InitProfile PROVE ProfileInv
  <1>1. Complete(slots) = {} /\ Newest(slots) = NoSnapshot
    BY DEF InitProfile, Complete, Newest
  <1>2. ProfileTypeOK
    <2>1. profileFaults \in 0 .. MaxFaults
      BY ProfileAssumption DEF InitProfile
    <2>2. slots \in SlotType
      BY DEF InitProfile, SlotType
    <2>3. /\ blobs \subseteq BrowserFiles /\ mirror \in BOOLEAN
          /\ wire \subseteq ((0 .. MaxGeneration) \X BrowserLetters)
      BY DEF InitProfile
    <2> QED
      BY <2>1, <2>2, <2>3 DEF InitProfile, ProfileTypeOK, SlotType
  <1>3. PhaseInv /\ PlaceInv /\ StoreInv(slots) /\ RatchetInv /\ SecretsInv
    BY <1>1 DEF InitProfile, PhaseInv, PlaceInv, StoreInv, RatchetInv, SecretsInv
  <1>4. SnapshotInv(engine) /\ SnapshotInv(candidate) /\ SnapshotInv(Newest(slots))
        /\ RecordedSurvives /\ KeyUsedOnce
    BY <1>1 DEF InitProfile, SnapshotInv, RecordedSurvives, KeyUsedOnce
  <1> QED
    BY <1>2, <1>3, <1>4 DEF ProfileInv

LEMMA ProfileInvStep ==
  ASSUME ProfileInv, ProfileNext PROVE ProfileInv'
  BY CreateKeeps, PasswordKeeps, OpenKeeps, EnrollKeeps, EncryptKeeps, SettleKeeps, DepositKeeps,
     AttachKeeps, EraseKeeps, RemoveKeeps, ThrowKeeps, SealKeeps, WriteKeeps, CommitKeeps, DeathKeeps
  DEF ProfileNext

LEMMA ProfileInvStutter ==
  ASSUME ProfileInv, UNCHANGED profileVars PROVE ProfileInv'
  <1>0. /\ slots' = slots /\ blobs' = blobs /\ engine' = engine /\ candidate' = candidate
        /\ mirror' = mirror /\ phase' = phase /\ recorded' = recorded /\ wire' = wire
        /\ profileFaults' = profileFaults
    BY DEF profileVars
  <1>1. ProfileTypeOK' /\ PhaseInv' /\ PlaceInv' /\ StoreInv(slots)' /\ RatchetInv' /\ SecretsInv'
    BY <1>0 DEF ProfileInv, ProfileTypeOK, PhaseInv, PlaceInv, RatchetInv, SecretsInv
  <1>2. SnapshotInv(engine)' /\ SnapshotInv(candidate)' /\ SnapshotInv(Newest(slots))'
    BY <1>0 DEF ProfileInv, SnapshotInv, KeysInv
  <1>3. RecordedSurvives' /\ KeyUsedOnce'
    BY <1>0 DEF ProfileInv, RecordedSurvives, KeyUsedOnce
  <1> QED
    BY <1>1, <1>2, <1>3 DEF ProfileInv

\* ProfileSurvives for any passwords, passkeys, letters and files, any number
\* of transactions, and a tab that dies or a write that fails at any step
\* (vault.rs and engine.rs of the browser router, storage.ts): what was
\* reported done opens again with exactly the credentials the profile has, no
\* message key leaves on two letters, and no file of the record is missing.
THEOREM ProfileAlwaysSurvives == ProfileSpec => []ProfileSurvives
  <1>1. InitProfile => ProfileInv
    BY ProfileInvInit
  <1>2. ProfileInv /\ [ProfileNext]_profileVars => ProfileInv'
    BY ProfileInvStep, ProfileInvStutter
  <1>3. ProfileInv => ProfileSurvives
    <2> SUFFICES ASSUME ProfileInv PROVE ProfileSurvives
      OBVIOUS
    <2>1. OnlyCurrentSecrets
      BY DEF ProfileInv, SecretsInv, Agrees, OnlyCurrentSecrets
    <2>2. FilesPresent
      BY DEF ProfileInv, SnapshotInv, FilesPresent, FileOpens
    <2> QED
      BY <2>1, <2>2 DEF ProfileInv, ProfileSurvives
  <1> QED
    BY <1>1, <1>2, <1>3, PTL DEF ProfileSpec
=============================================================================
