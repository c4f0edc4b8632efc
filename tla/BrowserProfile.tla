--------------------------- MODULE BrowserProfile ---------------------------
(***************************************************************************)
(* What the browser client keeps: the profile in its two slots, and the    *)
(* ratchet sessions of the engine.                                         *)
(***************************************************************************)
EXTENDS Integers, FiniteSets, Sequences

(***************************************************************************)
(* The browser client's profile: an engine holding keys and state in       *)
(* memory, transactions on it, and the two slots of private storage the    *)
(* sealed snapshots go to (src/browser-router/src/{vault,engine}.rs and    *)
(* src/ui/src/browser-core/{storage,backend}.ts).                          *)
(*                                                                         *)
(* A snapshot keeps what the properties tell apart: the generation, the    *)
(* credentials of its header, the index of the next message key, the       *)
(* ciphertexts that wait for their relay and the attachments it refers to. *)
(* A slot is empty, torn (bytes that fail Record::parse) or a complete     *)
(* snapshot.  A transaction is begun with its change (`acting`), sealed,   *)
(* written to one slot, written to the other one if it changes credentials *)
(* or erases, and committed; the tab may die or the profile be locked in   *)
(* between.                                                                *)
(***************************************************************************)

CONSTANTS Passwords, Passkeys, BrowserLetters, BrowserFiles,
          MaxGeneration,   \* bound: transactions of a profile
          MaxFaults        \* bound: crashes, failed writes and actions that throw

ASSUME ProfileAssumption == MaxGeneration \in Nat \ {0} /\ MaxFaults \in Nat

VARIABLES
  slots,      \* the files vault-a.bin and vault-b.bin
  blobs,      \* the encrypted attachment files on disk
  engine,     \* the committed snapshot in memory, or NoSnapshot
  candidate,  \* the transaction's copy, or NoSnapshot
  mirror,     \* the transaction replaces both slots
  phase,      \* how far the running transaction is
  recorded,   \* the last snapshot whose transaction was reported done
  wire,       \* the ciphertexts <<key, letter>> handed to a relay
  profileFaults

profileVars == <<slots, blobs, engine, candidate, mirror, phase, recorded, wire, profileFaults>>

NoSnapshot == [generation |-> -1]
EmptySlot == [generation |-> -2]
TornSlot == [generation |-> -3]

Slots == {0, 1}
Snapshots ==
  [generation: 0 .. MaxGeneration, pass: Passwords, keys: SUBSET Passkeys,
   ratchet: 0 .. MaxGeneration, out: SUBSET ((0 .. MaxGeneration) \X BrowserLetters),
   files: SUBSET BrowserFiles]

ProfileTypeOK ==
  /\ slots \in [Slots -> {EmptySlot, TornSlot} \cup Snapshots]
  /\ blobs \subseteq BrowserFiles
  /\ engine \in Snapshots \cup {NoSnapshot}
  /\ candidate \in Snapshots \cup {NoSnapshot}
  /\ mirror \in BOOLEAN
  /\ phase \in {"locked", "idle", "acting", "sealed", "mirror", "flushed"}
  /\ recorded \in Snapshots \cup {NoSnapshot}
  /\ wire \subseteq ((0 .. MaxGeneration) \X BrowserLetters)
  /\ profileFaults \in 0 .. MaxFaults

\* Record::parse: a record is used only when its checksum and sizes hold.
Complete(store) == {i \in Slots : store[i] \notin {EmptySlot, TornSlot}}

\* newest: the complete record of the highest generation, before any
\* credential is tried.
Newest(store) ==
  IF Complete(store) = {} THEN NoSnapshot
  ELSE LET i == CHOOSE i \in Complete(store) :
                  \A j \in Complete(store) : store[j].generation <= store[i].generation
       IN store[i]

\* Mutant: every record goes to the first slot.
TargetMutant(generation) == 0

\* The slot a generation is written to.
Target(generation) == generation % 2

InitProfile ==
  /\ slots = [i \in Slots |-> EmptySlot]
  /\ blobs = {}
  /\ engine = NoSnapshot /\ candidate = NoSnapshot
  /\ mirror = FALSE
  /\ phase = "locked"
  /\ recorded = NoSnapshot
  /\ wire = {}
  /\ profileFaults = 0

-----------------------------------------------------------------------------
\* Opening and closing.

\* Begin of the transaction every opening ends with: the snapshot as it is.
Resume(snapshot) ==
  /\ engine' = snapshot
  /\ candidate' = snapshot
  /\ mirror' = FALSE
  /\ phase' = "acting"

\* Vault::create: a new key under the password, nothing sealed yet.
FreshProfile(p) ==
  [generation |-> 0, pass |-> p, keys |-> {}, ratchet |-> 0, out |-> {}, files |-> {}]

\* ProfileStorage.open with create: only where neither slot holds a byte.
CreateProfile(p) ==
  /\ phase = "locked"
  /\ \A i \in Slots : slots[i] = EmptySlot
  /\ Resume(FreshProfile(p))
  /\ blobs' = {}
  /\ UNCHANGED <<slots, recorded, wire, profileFaults>>

\* What collect leaves: the files the opened state refers to.
Collected(snapshot) == blobs \cap snapshot.files

\* passkey_entries: what the unlock screen offers, from the newest record.
PasskeyEntries(store) == IF Newest(store) = NoSnapshot THEN {} ELSE Newest(store).keys

\* Vault::open_password and Vault::open_passkey.
Opens(credential, snapshot) == credential = snapshot.pass \/ credential \in snapshot.keys

\* open_password with any password, open_passkey with one that was offered;
\* what does not open is refused and changes nothing.
OpenProfile(credential) ==
  LET snapshot == Newest(slots) IN
  /\ phase = "locked"
  /\ snapshot # NoSnapshot
  /\ snapshot.generation < MaxGeneration
  /\ credential \in Passwords \cup PasskeyEntries(slots)
  /\ Opens(credential, snapshot)
  /\ Resume(snapshot)
  /\ blobs' = Collected(snapshot)
  /\ UNCHANGED <<slots, recorded, wire, profileFaults>>

\* closeNow: the memory is wiped, the storage released.
CloseNow ==
  /\ engine' = NoSnapshot
  /\ candidate' = NoSnapshot
  /\ mirror' = FALSE
  /\ phase' = "locked"

\* vault_lock while a transaction waits for something, or none runs.
LockProfile ==
  /\ phase \in {"idle", "acting"}
  /\ CloseNow
  /\ UNCHANGED <<slots, blobs, recorded, wire, profileFaults>>

\* delete_profile: the directory goes while no tab has the profile open.
RemoveProfile ==
  /\ phase = "locked"
  /\ \E i \in Slots : slots[i] # EmptySlot
  /\ slots' = [i \in Slots |-> EmptySlot]
  /\ blobs' = {}
  /\ recorded' = NoSnapshot
  /\ wire' = {}
  /\ UNCHANGED <<engine, candidate, mirror, phase, profileFaults>>

-----------------------------------------------------------------------------
\* Transactions.

\* engine.begin and the action of the transaction.
BeginWith(snapshot, replaces) ==
  /\ phase = "idle"
  /\ engine.generation < MaxGeneration
  /\ candidate' = snapshot
  /\ mirror' = replaces
  /\ phase' = "acting"
  /\ UNCHANGED <<slots, engine, recorded, wire, profileFaults>>

\* engine.encrypt in sendItem: the next message key, the ciphertext queued.
EncryptLetter(l) ==
  /\ BeginWith([engine EXCEPT !.ratchet = @ + 1, !.out = @ \cup {<<engine.ratchet, l>>}], FALSE)
  /\ UNCHANGED blobs

\* settleDeposit: the relay stored the ciphertext, it leaves the outbox.
SettleLetter(c) ==
  /\ BeginWith([engine EXCEPT !.out = @ \ {c}], FALSE)
  /\ c \in engine.out \cap wire
  /\ UNCHANGED blobs

\* Vault::change_password: the same key under another password.
WithPassword(snapshot, p) == [snapshot EXCEPT !.pass = p]

ChangePassword(p) ==
  /\ BeginWith(WithPassword(engine, p), TRUE)
  /\ p # engine.pass
  /\ UNCHANGED blobs

\* Vault::enroll_passkey: neither a ninth one nor the same one twice.
Enrolls(snapshot, k) == Cardinality(snapshot.keys) < 8 /\ k \notin snapshot.keys

EnrollPasskey(k) ==
  /\ BeginWith([engine EXCEPT !.keys = @ \cup {k}], TRUE)
  /\ Enrolls(engine, k)
  /\ UNCHANGED blobs

\* seal_attachment_part for every part, under a key of the file's own.
SealFile(f) == blobs' = blobs \cup {f}

\* storeBytes: a file of its own fresh name is complete before the snapshot
\* refers to it.
AttachFile(f) ==
  /\ f \notin blobs
  /\ \A i \in Complete(slots) : f \notin slots[i].files
  /\ BeginWith([engine EXCEPT !.files = @ \cup {f}], FALSE)
  /\ SealFile(f)

\* A message with a file is deleted or expires: removedFiles is not empty.
EraseFile(f) ==
  /\ BeginWith([engine EXCEPT !.files = @ \ {f}], TRUE)
  /\ f \in engine.files
  /\ UNCHANGED blobs

\* The action throws: new files are removed, the engine rolled back; during
\* an opening the profile closes instead.
ActionThrows ==
  /\ phase = "acting"
  /\ profileFaults < MaxFaults
  /\ profileFaults' = profileFaults + 1
  /\ IF candidate = engine
       THEN CloseNow /\ UNCHANGED blobs
       ELSE /\ candidate' = NoSnapshot
            /\ mirror' = FALSE
            /\ phase' = "idle"
            /\ blobs' = blobs \ (candidate.files \ engine.files)
            /\ UNCHANGED engine
  /\ UNCHANGED <<slots, recorded, wire>>

\* Vault::seal_next: the record of the next generation.
SealNext(snapshot) == [snapshot EXCEPT !.generation = @ + 1]

\* BrowserEngine::seal, after which the candidate is frozen.
Seal ==
  /\ phase = "acting"
  /\ candidate' = SealNext(candidate)
  /\ phase' = "sealed"
  /\ UNCHANGED <<slots, blobs, engine, mirror, recorded, wire, profileFaults>>

\* writeAll of the first slot, and of the recovery copy when asked for.
WriteSlot ==
  LET i == Target(candidate.generation) IN
  /\ \/ /\ phase = "sealed"
        /\ slots' = [slots EXCEPT ![i] = candidate]
        /\ phase' = IF mirror THEN "mirror" ELSE "flushed"
     \/ /\ phase = "mirror"
        /\ slots' = [slots EXCEPT ![1 - i] = candidate]
        /\ phase' = "flushed"
  /\ UNCHANGED <<blobs, engine, candidate, mirror, recorded, wire, profileFaults>>

\* What an interrupted writeAll leaves in its slot.
Interrupted(old) == {EmptySlot, TornSlot, candidate, old}

\* The slot being written.
Written ==
  IF phase = "sealed" THEN Target(candidate.generation) ELSE 1 - Target(candidate.generation)

\* writeAll throws: the new record may or may not be durable, so the profile
\* is closed and read again.
WriteFails ==
  /\ phase \in {"sealed", "mirror"}
  /\ profileFaults < MaxFaults
  /\ profileFaults' = profileFaults + 1
  /\ \E left \in Interrupted(slots[Written]) : slots' = [slots EXCEPT ![Written] = left]
  /\ CloseNow
  /\ UNCHANGED <<blobs, recorded, wire>>

\* engine.commit; only now the transaction's caller goes on.  Files no
\* longer referred to are removed in the background.
CommitProfile ==
  /\ phase = "flushed"
  /\ engine' = candidate
  /\ recorded' = candidate
  /\ candidate' = NoSnapshot
  /\ mirror' = FALSE
  /\ phase' = "idle"
  /\ blobs' \in {blobs, blobs \ (engine.files \ candidate.files)}
  /\ UNCHANGED <<slots, wire, profileFaults>>

\* sendItem after its transaction: the ciphertext of the committed state goes
\* to the peer's relay, again and again until the relay answers.
DepositLetter(c) ==
  /\ phase = "idle"
  /\ c \in engine.out
  /\ wire' = wire \cup {c}
  /\ UNCHANGED <<slots, blobs, engine, candidate, mirror, phase, recorded, profileFaults>>

\* The tab dies; a slot being written keeps any part of the write.
TabDies ==
  /\ phase # "locked"
  /\ profileFaults < MaxFaults
  /\ profileFaults' = profileFaults + 1
  /\ IF phase \in {"sealed", "mirror"}
       THEN \E left \in Interrupted(slots[Written]) : slots' = [slots EXCEPT ![Written] = left]
       ELSE UNCHANGED slots
  /\ CloseNow
  /\ UNCHANGED <<blobs, recorded, wire>>

ProfileNext ==
  \/ \E p \in Passwords : CreateProfile(p) \/ ChangePassword(p)
  \/ \E c \in Passwords \cup Passkeys : OpenProfile(c)
  \/ \E k \in Passkeys : EnrollPasskey(k)
  \/ \E l \in BrowserLetters : EncryptLetter(l)
  \/ \E c \in (0 .. MaxGeneration) \X BrowserLetters : SettleLetter(c) \/ DepositLetter(c)
  \/ \E f \in BrowserFiles : AttachFile(f) \/ EraseFile(f)
  \/ LockProfile \/ RemoveProfile \/ ActionThrows
  \/ Seal \/ WriteSlot \/ WriteFails \/ CommitProfile \/ TabDies

ProfileSpec == InitProfile /\ [][ProfileNext]_profileVars

-----------------------------------------------------------------------------
\* Whatever dies or fails, and whenever, what a later opening reads is the
\* last transaction that was reported done, or the one after it.
RecordedSurvives ==
  recorded # NoSnapshot =>
    \/ Newest(slots) = recorded
    \/ Newest(slots).generation > recorded.generation

\* Once a transaction is reported done, no readable record anywhere opens
\* with a credential, or refers to a file, that the profile no longer has: a
\* replaced password and an erased file are gone from the recovery copy too.
OnlyCurrentSecrets ==
  phase = "idle" =>
    \A i \in Complete(slots) :
      /\ slots[i].pass = engine.pass
      /\ slots[i].keys = engine.keys
      /\ slots[i].files \subseteq engine.files

\* No two letters ever leave under the same message key, although a key
\* used in a transaction that was lost is handed out again.
KeyUsedOnce ==
  \A c, d \in wire : c[1] = d[1] => c[2] = d[2]

\* attachment_part when it opens: the record has the file's wrapped key, the
\* directory its ciphertext.
FileOpens(snapshot, f) == f \in snapshot.files \cap blobs

\* Every file of the record an opening would read opens.
FilesPresent ==
  Newest(slots) # NoSnapshot => \A f \in Newest(slots).files : FileOpens(Newest(slots), f)

\* The profile across torn writes, failed actions and a tab that dies at any
\* step: what was recorded opens again, no slot opens with a password that was
\* replaced, no ratchet key goes out on two letters, and no file of the profile
\* was erased.
ProfileSurvives == ProfileTypeOK /\ RecordedSurvives /\ OnlyCurrentSecrets /\ KeyUsedOnce /\ FilesPresent

-----------------------------------------------------------------------------

(***************************************************************************)
(* The ratchet sessions of the browser engine                              *)
(* (src/browser-router/src/engine.rs): sessions opened from a bundle       *)
(* fetched earlier, sessions opened by both sides at once, one-time        *)
(* prekeys, and the session, the lost one and the alternates a letter is   *)
(* tried on.                                                               *)
(*                                                                         *)
(* A session is named by the letter that opened it.  A letter encrypted    *)
(* once is deposited again, the same bytes, until its receiver takes it    *)
(* (src/ui/src/browser-core/backend.ts, sendItem); the receiver's          *)
(* transaction either opens it or leaves everything as it was.             *)
(***************************************************************************)

CONSTANTS Engines,          \* the profiles, numbered by their signing keys
          MaxAlternates,    \* MAX_ALTERNATES
          TargetPrekeys,    \* TARGET_OPK
          MaxMail           \* bound: letters written

NoBrowserSession == 0

VARIABLES
  mail,       \* the outboxes: letters waiting to be taken
  taken,      \* the letters opened by their receiver
  primary,    \* sessions
  crossing,   \* lost_inits
  alternates,
  ownInits,   \* "none", "fresh" (younger than the grace) or "old"
  prekeys,    \* otks
  nextPrekey

sessionVars == <<mail, taken, primary, crossing, alternates, ownInits, prekeys, nextPrekey>>

Pairs == {p \in Engines \X Engines : p[1] # p[2]}
MailIds == 1 .. MaxMail
MailWritten == Cardinality(mail) + Cardinality(taken)

SessionsInit ==
  /\ mail = {} /\ taken = {}
  /\ primary = [p \in Pairs |-> NoBrowserSession]
  /\ crossing = [p \in Pairs |-> NoBrowserSession]
  /\ alternates = [p \in Pairs |-> <<>>]
  /\ ownInits = [p \in Pairs |-> "none"]
  /\ prekeys = [e \in Engines |-> [i \in 1 .. TargetPrekeys |-> i]]
  /\ nextPrekey = [e \in Engines |-> TargetPrekeys + 1]

\* A message is queued: neither a bundle nor a ciphertext yet.
WriteMail(from, to) ==
  /\ MailWritten < MaxMail
  /\ mail' = mail \cup {[id |-> MailWritten + 1, from |-> from, to |-> to,
                         kind |-> "plain", prekey |-> 0, session |-> NoBrowserSession]}
  /\ UNCHANGED <<taken, primary, crossing, alternates, ownInits, prekeys, nextPrekey>>

\* my_bundle: the first one-time prekey of the committed state, for
\* everybody who asks until it is spent.
MyBundle(e) == prekeys[e][1]

\* has_session
HasSession(pair) == primary[pair] # NoBrowserSession

\* sendItem asks for the bundle outside the transaction, when no session is
\* there yet.
FetchBrowserBundle(m) ==
  /\ m.kind = "plain" /\ m.prekey = 0
  /\ ~ HasSession(<<m.from, m.to>>)
  /\ mail' = (mail \ {m}) \cup {[m EXCEPT !.prekey = MyBundle(m.to)]}
  /\ UNCHANGED <<taken, primary, crossing, alternates, ownInits, prekeys, nextPrekey>>

\* Mutant: the session that is replaced is dropped.
KeptSessionsMutant(old, list) == list

\* The older sessions kept for letters still under way.
KeptSessions(old, list) ==
  IF old = NoBrowserSession THEN list
  ELSE SubSeq(<<old>> \o list, 1, IF Len(list) + 1 > MaxAlternates THEN MaxAlternates ELSE Len(list) + 1)

\* BrowserEngine::encrypt: on the session if there is one, else a new
\* session from the bundle fetched before.
EncryptMail(m) ==
  LET pair == <<m.from, m.to>> IN
  /\ m.kind = "plain"
  /\ \/ /\ primary[pair] # NoBrowserSession
        /\ mail' = (mail \ {m}) \cup {[m EXCEPT !.kind = "ratchet", !.session = primary[pair]]}
        /\ UNCHANGED <<primary, crossing, ownInits>>
     \/ /\ primary[pair] = NoBrowserSession
        /\ m.prekey # 0
        /\ mail' = (mail \ {m}) \cup {[m EXCEPT !.kind = "initial", !.session = m.id]}
        /\ primary' = [primary EXCEPT ![pair] = m.id]
        /\ crossing' = [crossing EXCEPT ![pair] = NoBrowserSession]
        /\ ownInits' = [ownInits EXCEPT ![pair] = "fresh"]
  /\ UNCHANGED <<taken, alternates, prekeys, nextPrekey>>

\* The grace in which two openings count as simultaneous passes.
InitAges(pair) ==
  /\ ownInits[pair] = "fresh"
  /\ ownInits' = [ownInits EXCEPT ![pair] = "old"]
  /\ UNCHANGED <<mail, taken, primary, crossing, alternates, prekeys, nextPrekey>>

\* accept_x3dh needs the prekey the sender used.
HasPrekey(m) == \E i \in 1 .. Len(prekeys[m.to]) : prekeys[m.to][i] = m.prekey

\* Spends it and refills the pool.
SpendPrekey(m) ==
  LET e == m.to
      left == SelectSeq(prekeys[e], LAMBDA k : k # m.prekey)
  IN /\ prekeys' = [prekeys EXCEPT ![e] = Append(left, nextPrekey[e])]
     /\ nextPrekey' = [nextPrekey EXCEPT ![e] = @ + 1]

\* ours_stands: of two openings that cross, the one of the lower key.
BrowserOursStands(e, other) == e < other

\* The answer Deposited: the letter leaves its outbox.
TakeMail(m) ==
  /\ mail' = mail \ {m}
  /\ taken' = taken \cup {m.id}

\* BrowserEngine::decrypt of an opening letter.
DecryptInitial(m) ==
  LET pair == <<m.to, m.from>>
      crossed == /\ ownInits[pair] # "none"
                 /\ primary[pair] # NoBrowserSession
                 /\ crossing[pair] = NoBrowserSession
      stands == crossed /\ ownInits[pair] = "fresh" /\ BrowserOursStands(m.to, m.from)
  IN /\ m.kind = "initial"
     /\ HasPrekey(m)
     /\ SpendPrekey(m)
     /\ TakeMail(m)
     /\ IF stands
          THEN /\ crossing' = [crossing EXCEPT ![pair] = m.session]
               /\ UNCHANGED <<primary, alternates, ownInits>>
          ELSE /\ crossing' = [crossing EXCEPT ![pair] = NoBrowserSession]
               /\ ownInits' = [ownInits EXCEPT ![pair] = "none"]
               /\ alternates' = [alternates EXCEPT ![pair] = KeptSessions(primary[pair], @)]
               /\ primary' = [primary EXCEPT ![pair] = m.session]

\* The sessions a ratchet letter is tried on, in this order.
Readable(pair) ==
  {primary[pair], crossing[pair]} \cup {alternates[pair][i] : i \in 1 .. Len(alternates[pair])}

\* BrowserEngine::decrypt of an ordinary letter.
DecryptRatchet(m) ==
  LET pair == <<m.to, m.from>> IN
  /\ m.kind = "ratchet"
  /\ m.session \in Readable(pair)
  /\ TakeMail(m)
  /\ ownInits' = IF primary[pair] = m.session
                   THEN [ownInits EXCEPT ![pair] = "none"] ELSE ownInits
  /\ UNCHANGED <<primary, crossing, alternates, prekeys, nextPrekey>>

SessionsNext ==
  \/ \E p \in Pairs : WriteMail(p[1], p[2]) \/ InitAges(p)
  \/ \E m \in mail : FetchBrowserBundle(m) \/ EncryptMail(m) \/ DecryptInitial(m) \/ DecryptRatchet(m)

\* Every letter of an outbox is tried again until it is taken: its delay is
\* bounded (retryDelay) and one in progress holds only its own slot.
SessionsFairness ==
  \A i \in MailIds :
    WF_sessionVars(\E m \in mail : m.id = i /\
      (FetchBrowserBundle(m) \/ EncryptMail(m) \/ DecryptInitial(m) \/ DecryptRatchet(m)))

SessionsSpec == SessionsInit /\ [][SessionsNext]_sessionVars /\ SessionsFairness

-----------------------------------------------------------------------------
MaxPrekeys == 256    \* MAX_OPK
MaxSessions == 1024  \* MAX_SESSIONS

\* deserialize_vault_payload: the limits a payload is refused for when the
\* profile is opened again.
Loads(e) ==
  /\ Cardinality({p \in Pairs : p[1] = e /\ HasSession(p)}) <= MaxSessions
  /\ Cardinality({p \in Pairs : p[1] = e /\ crossing[p] # NoBrowserSession}) <= MaxSessions
  /\ Cardinality({p \in Pairs : p[1] = e /\ ownInits[p] # "none"}) <= MaxSessions
  /\ Len(prekeys[e]) <= MaxPrekeys
  /\ \A i, j \in 1 .. Len(prekeys[e]) : prekeys[e][i] = prekeys[e][j] => i = j
  /\ \A p \in Pairs : p[1] = e => Len(alternates[p]) <= MaxAlternates

\* Two profiles that write to each other, and may open sessions to each
\* other at the same time with the opening and the ordinary letters taken in
\* any order: the receiver of every encrypted letter can open it, now or once
\* the letter that opens its session, still in the same outbox, is taken; and
\* what an engine seals after any of these steps loads again.
LettersStayReadable ==
  /\ \A e \in Engines : Loads(e)
  /\ \A m \in mail :
    /\ m.kind = "initial" => HasPrekey(m)
    /\ m.kind = "ratchet" =>
         \/ m.session \in Readable(<<m.to, m.from>>)
         \/ \E opening \in mail : opening.kind = "initial" /\ opening.session = m.session

\* "The ciphertext opened an X3DH session: deliver it, never drop it": a
\* letter that opens a session is eventually taken by its receiver.
InitialIsTaken ==
  \A i \in MailIds : (\E m \in mail : m.id = i /\ m.kind = "initial") ~> i \in taken
=============================================================================
