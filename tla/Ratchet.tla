------------------------------- MODULE Ratchet -------------------------------
(***************************************************************************)
(* Key material: the double ratchet, and the page of memory that keys are  *)
(* sealed under while the program runs.                                    *)
(***************************************************************************)
EXTENDS Naturals, Sequences, FiniteSets, FiniteSetsExt

(***************************************************************************)
(* The double ratchet of libcore/src/crypto.rs between the two ends of one *)
(* session, over a network that delays, reorders, repeats and loses.       *)
(*                                                                         *)
(* Key material is symbolic.  A root key is the sequence of Diffie-Hellman *)
(* outputs mixed into it, a chain is named by the root history it was      *)
(* derived from, a message key is a chain and a position; the output of    *)
(* two key pairs is the set of the two.  Opening a letter succeeds when    *)
(* the key derived is the key it was sealed with (the AEAD check).         *)
(***************************************************************************)

CONSTANTS MaxSkip,   \* MAX_SKIP: message keys kept for letters not seen yet
          MaxSent    \* bound: letters each end sends

ASSUME RatchetAssumption == MaxSkip \in Nat /\ MaxSent \in Nat

VARIABLES state,    \* the RatchetState of each end
          sent,     \* letters put on the network, by either end
          opened    \* how often each letter was opened

ratchetVars == <<state, sent, opened>>

\* "alice" initiates (new_alice), "bob" responds (new_bob).
Ends == {"alice", "bob"}
OtherEnd(p) == IF p = "alice" THEN "bob" ELSE "alice"

Key(p, k) == <<p, k>>       \* the k-th ratchet key pair of an end
Spk == Key("bob", 0)        \* bob's signed prekey
NoKey == <<>>
NoChain == <<{}>>
Mixed(rk, dh) == Append(rk, dh)

NewAlice ==
    LET first == Key("alice", 1)
        rk    == Mixed(<<>>, {first, Spk})
    IN  [dhs |-> first, dhr |-> Spk, rk |-> rk, cks |-> rk, ckr |-> NoChain,
         ns |-> 0, nr |-> 0, pn |-> 0, skipped |-> {}]

NewBob ==
    [dhs |-> Spk, dhr |-> NoKey, rk |-> <<>>, cks |-> NoChain, ckr |-> NoChain,
     ns |-> 0, nr |-> 0, pn |-> 0, skipped |-> {}]

Skipped(dh, n, chain) == [dh |-> dh, n |-> n, mk |-> <<chain, n>>]

\* RatchetState::skip_message_keys: refused beyond MAX_SKIP, counting the keys
\* already kept; with no receiving chain yet there is nothing to derive.
Gap(s, until) == IF until > s.nr THEN until - s.nr ELSE 0

CanSkip(s, until) ==
    /\ Gap(s, until) <= MaxSkip
    /\ Cardinality(s.skipped) + Gap(s, until) <= MaxSkip

SkipMessageKeys(s, until) ==
    IF s.ckr = NoChain THEN s
    ELSE [s EXCEPT
            !.nr = @ + Gap(s, until),
            !.skipped = @ \cup {Skipped(s.dhr, i, s.ckr) :
                                i \in {j \in s.nr..until : j < until}}]

\* RatchetState::dh_ratchet: a receiving chain for the sender's new key and a
\* sending chain under a fresh key of our own.
DhRatchet(s, dh) ==
    LET fresh == Key(s.dhs[1], s.dhs[2] + 1)
        rk1   == Mixed(s.rk, {s.dhs, dh})
        rk2   == Mixed(rk1, {fresh, dh})
    IN  [s EXCEPT !.pn = s.ns, !.ns = 0, !.nr = 0, !.dhr = dh, !.ckr = rk1,
                  !.dhs = fresh, !.rk = rk2, !.cks = rk2]

\* RatchetState::decrypt works on a copy and keeps it only if the letter opens.
Kept(s, l) == {k \in s.skipped : k.dh = l.dh /\ k.n = l.n}

OnChain(s, l) ==
    IF l.dh = s.dhr THEN s ELSE DhRatchet(SkipMessageKeys(s, l.pn), l.dh)

Readable(s, l) ==
    LET c == OnChain(s, l)
    IN  /\ l.dh = s.dhr \/ CanSkip(s, l.pn)
        /\ CanSkip(c, l.n)
        /\ c.ckr # NoChain
        /\ <<c.ckr, SkipMessageKeys(c, l.n).nr>> = l.mk

Opens(s, l) ==
    IF Kept(s, l) # {} THEN \E k \in Kept(s, l) : k.mk = l.mk ELSE Readable(s, l)

\* The state once the letter is opened.
AfterChainMutant(s, l) ==
    IF Kept(s, l) # {} THEN [s EXCEPT !.skipped = @ \ Kept(s, l)]
    ELSE SkipMessageKeys(OnChain(s, l), l.n)
After(s, l) ==
    IF Kept(s, l) # {} THEN [s EXCEPT !.skipped = @ \ Kept(s, l)]
    ELSE LET c == SkipMessageKeys(OnChain(s, l), l.n) IN [c EXCEPT !.nr = @ + 1]

RatchetLetters(p) == {l \in sent : l.from = p}

-----------------------------------------------------------------------------

\* x3dh_initiate seals the first letter on alice's new state, and x3dh_respond
\* builds bob's from it.
FirstLetter ==
    [from |-> "alice", id |-> 1, dh |-> NewAlice.dhs, pn |-> 0, n |-> 0,
     mk |-> <<NewAlice.cks, 0>>]

RatchetInit ==
    /\ state = [p \in Ends |-> IF p = "alice" THEN [NewAlice EXCEPT !.ns = 1]
                                              ELSE After(NewBob, FirstLetter)]
    /\ sent = {FirstLetter}
    /\ opened = [id \in Ends \X (1..MaxSent) |-> IF id = <<"alice", 1>> THEN 1 ELSE 0]

\* RatchetState::encrypt.
Encrypt(p) ==
    LET s == state[p]
    IN  /\ s.cks # NoChain
        /\ Cardinality(RatchetLetters(p)) < MaxSent
        /\ sent' = sent \cup {[from |-> p, id |-> Cardinality(RatchetLetters(p)) + 1, dh |-> s.dhs,
                               pn |-> s.pn, n |-> s.ns, mk |-> <<s.cks, s.ns>>]}
        /\ state' = [state EXCEPT ![p].ns = @ + 1]
        /\ UNCHANGED opened

\* A letter, new or repeated, arrives; one that does not open changes nothing.
Decrypt(p, l) ==
    /\ l.from = OtherEnd(p)
    /\ Opens(state[p], l)
    /\ state' = [state EXCEPT ![p] = After(@, l)]
    /\ opened' = [opened EXCEPT ![<<l.from, l.id>>] = @ + 1]
    /\ UNCHANGED sent

RatchetNext == \E p \in Ends : Encrypt(p) \/ \E l \in sent : Decrypt(p, l)

RatchetSpec == RatchetInit /\ [][RatchetNext]_ratchetVars

-----------------------------------------------------------------------------

\* Counters stay counters and the kept keys stay within MAX_SKIP.
RatchetTypeOK ==
    /\ \A p \in Ends :
         /\ state[p].ns \in 0..MaxSent /\ state[p].nr \in 0..MaxSent
         /\ state[p].pn \in 0..MaxSent
         /\ Cardinality(state[p].skipped) <= MaxSkip
    /\ \A l \in sent : l.n < MaxSent /\ l.pn <= MaxSent

\* The letters p has not opened of those sent to it.
Missing(p) == {l \in RatchetLetters(OtherEnd(p)) : opened[<<l.from, l.id>>] = 0}

\* A letter opens once, however often the relay offers it: its key is spent
\* with it, on the chain or among the keys kept (decrypt_inner).
OpenedOnce == \A id \in DOMAIN opened : opened[id] <= 1

\* No message key seals two letters, across any exchange of ratchet keys.
KeysUnique == \A l, m \in sent : l.mk = m.mk => l = m

\* The keys kept are those of letters still to come, so nothing opened can be
\* opened again from them.
KeptKeysAreMissing ==
    \A p \in Ends : \A k \in state[p].skipped : \E l \in Missing(p) : l.mk = k.mk /\ l.dh = k.dh

\* As long as no more than MAX_SKIP other letters are missing, each missing one
\* opens whenever it arrives, in any order and across ratchet steps: nothing
\* that was read before may have thrown its key away.
MissingLettersOpen ==
    \A p \in Ends :
        Cardinality(Missing(p)) <= MaxSkip + 1 => \A l \in Missing(p) : Opens(state[p], l)

\* The ratchet under late, lost, repeated and reordered letters: no letter
\* opens twice, no key serves two letters, and a letter that is missing opens
\* when it comes while the gap is within MAX_SKIP.
OpensOnce == RatchetTypeOK /\ OpenedOnce /\ KeysUnique /\ KeptKeysAreMissing /\ MissingLettersOpen

-----------------------------------------------------------------------------
(***************************************************************************)
(* Keys in memory (libcore/src/memory.rs): ciphertext lives in ordinary    *)
(* memory, the key that wraps it on one locked page, which every owner     *)
(* shares, is inaccessible between operations and goes with the last       *)
(* owner.  Threads create, open, clone and drop sealed keys; the calls     *)
(* that lock or protect the page may fail, and a thread may panic while    *)
(* the page is open.                                                       *)
(***************************************************************************)

CONSTANTS MemThreads, Secrets,
          MaxPages,      \* bound on the pages allocated
          MaxMemFaults   \* bound on system calls that fail and on panics

ASSUME MemoryAssumption == MaxPages \in Nat /\ MaxMemFaults \in Nat

VARIABLES pages,        \* the pages allocated, by number
          currentPage,  \* CURRENT: the page its Weak was made from, or 0
          sealedBy,     \* the page a live Sealed holds an Arc of, or 0
          memTask,      \* the operation of each thread
          aborted,      \* the process aborted
          memFaults

memoryVars == <<pages, currentPage, sealedBy, memTask, aborted, memFaults>>

Zeroed == "zeroed"
NoThread == "nobody"
NoTask == [at |-> "idle", op |-> "none", page |-> 0, secret |-> Zeroed]

MemoryInit ==
    /\ pages = [n \in 1 .. MaxPages |->
                   [state |-> "none", scratch |-> Zeroed, holder |-> NoThread, poisoned |-> FALSE]]
    /\ currentPage = 0 /\ sealedBy = [s \in Secrets |-> 0]
    /\ memTask = [t \in MemThreads |-> NoTask] /\ aborted = FALSE /\ memFaults = 0

MemFault == memFaults < MaxMemFaults /\ memFaults' = memFaults + 1

\* The owners of a page: sealed keys, and a thread on its way to one.  An open
\* borrows the key it opens.
PageOwners(n) ==
    {s \in Secrets : sealedBy[s] = n} \union
    {t \in MemThreads : memTask[t].op = "create" /\ memTask[t].page = n}

\* LockedPage::allocate, the wrapping key drawn and the page closed; and
\* LockedPage::drop.
AllocatedPage(page) == [page EXCEPT !.state = "closed"]
WipedPage(page) == [page EXCEPT !.state = "gone", !.scratch = Zeroed]

\* LockedPage::protect, to read and write for one thread, and back.
OpenedPage(page, t, secret) ==
    [page EXCEPT !.state = "open", !.scratch = secret, !.holder = t]
ClosedPage(page) ==
    [page EXCEPT !.state = "closed", !.scratch = Zeroed, !.holder = NoThread]

\* Protector::shared: the page in use if it still has an owner, or a new one.
PageInUse == currentPage # 0 /\ PageOwners(currentPage) # {}
SharedPage == IF PageInUse THEN currentPage ELSE currentPage + 1

\* A secret still being made does not count.
LeftByMutant(owner, n, page) ==
    IF {s \in Secrets : sealedBy[s] = n} \subseteq {owner} THEN WipedPage(page) ELSE page

\* The page as the last of its owners leaves it.
LeftBy(owner, n, page) == IF PageOwners(n) \subseteq {owner} THEN WipedPage(page) ELSE page

\* Sealed::create: from_slice, random, SealedBlob::from_slice.
CreateSealed(t, s) ==
    /\ ~aborted /\ memTask[t] = NoTask /\ sealedBy[s] = 0
    /\ \A u \in MemThreads : memTask[u].secret # s
    /\ SharedPage <= MaxPages
    /\ \/ /\ pages' = [pages EXCEPT ![SharedPage] = IF PageInUse THEN @ ELSE AllocatedPage(@)]
          /\ currentPage' = SharedPage
          /\ memTask' = [memTask EXCEPT ![t] =
                [at |-> "lock", op |-> "create", page |-> SharedPage, secret |-> s]]
          /\ UNCHANGED memFaults
       \/ ~PageInUse /\ MemFault /\ UNCHANGED <<pages, currentPage, memTask>>
    /\ UNCHANGED <<sealedBy, aborted>>

\* Sealed::open, SealedBlob::expose.
OpenSealed(t, s) ==
    /\ ~aborted /\ memTask[t] = NoTask /\ sealedBy[s] # 0
    /\ memTask' = [memTask EXCEPT ![t] =
          [at |-> "lock", op |-> "open", page |-> sealedBy[s], secret |-> s]]
    /\ UNCHANGED <<pages, currentPage, sealedBy, aborted, memFaults>>

\* The operation ends without a key; a thread that was the last owner drops
\* the page.
GivesUp(t, page) ==
    LET n == memTask[t].page
    IN  /\ pages' = [pages EXCEPT ![n] =
                        IF memTask[t].op = "create" THEN LeftBy(t, n, page) ELSE page]
        /\ memTask' = [memTask EXCEPT ![t] = NoTask]
        /\ UNCHANGED <<currentPage, sealedBy, aborted>>

\* Protector::access: the lock is waited for; it may be poisoned, and the page
\* may refuse to open.
EnterPage(t) ==
    LET n == memTask[t].page
    IN  /\ ~aborted /\ memTask[t].at = "lock" /\ pages[n].holder = NoThread
        /\ \/ /\ ~pages[n].poisoned
              /\ pages' = [pages EXCEPT ![n] = OpenedPage(@, t, memTask[t].secret)]
              /\ memTask' = [memTask EXCEPT ![t].at = "inside"]
              /\ UNCHANGED <<currentPage, sealedBy, aborted, memFaults>>
           \/ pages[n].poisoned /\ GivesUp(t, pages[n]) /\ UNCHANGED memFaults
           \/ ~pages[n].poisoned /\ MemFault /\ GivesUp(t, pages[n])

\* PageAccess::drop at the end of the operation: scratch is wiped and the page
\* closed, or the process aborts.
LeavePage(t) ==
    LET n == memTask[t].page
    IN  /\ ~aborted /\ memTask[t].at = "inside"
        /\ \/ /\ pages' = [pages EXCEPT ![n] = ClosedPage(@)]
              /\ sealedBy' = IF memTask[t].op = "create"
                             THEN [sealedBy EXCEPT ![memTask[t].secret] = n] ELSE sealedBy
              /\ memTask' = [memTask EXCEPT ![t] = NoTask]
              /\ UNCHANGED <<aborted, memFaults>>
           \/ MemFault /\ aborted' = TRUE /\ UNCHANGED <<pages, sealedBy, memTask>>
        /\ UNCHANGED currentPage

\* fill or the cipher fails, or the thread panics with the page open: the
\* guards are dropped on the way out, and a panic poisons the lock.
FailInside(t) ==
    /\ ~aborted /\ memTask[t].at = "inside" /\ MemFault
    /\ \E panics \in BOOLEAN :
          GivesUp(t, [ClosedPage(pages[memTask[t].page]) EXCEPT !.poisoned = panics])

\* Sealed::clone: the ciphertext is copied, the page shared.
CloneSealed(s, c) ==
    /\ ~aborted /\ sealedBy[s] # 0 /\ sealedBy[c] = 0
    /\ \A u \in MemThreads : memTask[u].secret # c
    /\ sealedBy' = [sealedBy EXCEPT ![c] = sealedBy[s]]
    /\ UNCHANGED <<pages, currentPage, memTask, aborted, memFaults>>

\* A Sealed nobody borrows is dropped, and with the last one the page; a page
\* that does not open to be wiped aborts the process.
DropSealed(s) ==
    /\ ~aborted /\ sealedBy[s] # 0 /\ \A u \in MemThreads : memTask[u].secret # s
    /\ \/ /\ pages' = [pages EXCEPT ![sealedBy[s]] = LeftBy(s, sealedBy[s], @)]
          /\ sealedBy' = [sealedBy EXCEPT ![s] = 0]
          /\ UNCHANGED <<aborted, memFaults>>
       \/ /\ PageOwners(sealedBy[s]) = {s} /\ MemFault /\ aborted' = TRUE
          /\ UNCHANGED <<pages, sealedBy>>
    /\ UNCHANGED <<currentPage, memTask>>

\* capabilities: a page of its own where none is in use, dropped at once.
Preflight ==
    /\ ~aborted /\ ~PageInUse /\ SharedPage <= MaxPages
    /\ pages' = [pages EXCEPT ![SharedPage] = WipedPage(AllocatedPage(@))]
    /\ currentPage' = SharedPage
    /\ UNCHANGED <<sealedBy, memTask, aborted, memFaults>>

MemoryNext ==
    \/ Preflight
    \/ \E t \in MemThreads : EnterPage(t) \/ LeavePage(t) \/ FailInside(t)
    \/ \E t \in MemThreads, s \in Secrets : CreateSealed(t, s) \/ OpenSealed(t, s)
    \/ \E s \in Secrets : DropSealed(s) \/ \E c \in Secrets : CloneSealed(s, c)

MemorySpec == MemoryInit /\ [][MemoryNext]_memoryVars

\* "It is NOACCESS between operations": open for one thread, with that
\* thread's secret, or closed and wiped.
IdlePageIsClosed ==
    \A n \in 1 .. MaxPages :
        LET page == pages[n]
        IN  IF page.holder = NoThread
            THEN page.state # "open" /\ page.scratch = Zeroed
            ELSE /\ page.state = "open" /\ memTask[page.holder].at = "inside"
                 /\ page.scratch = memTask[page.holder].secret

\* "Destroyed with its last owner", and not before: the page every live key
\* needs is there, it is the only one, and one without owners is gone.
PageLivesWithOwners ==
    \A n \in 1 .. MaxPages :
        /\ PageOwners(n) # {} <=> pages[n].state \in {"open", "closed"}
        /\ PageOwners(n) # {} => n = currentPage

\* Whatever creates, clones, drops, failures and panics interleave, the page a
\* live key is sealed under is there, and open only to the thread inside.
KeysKeepTheirPage == IdlePageIsClosed /\ PageLivesWithOwners
=============================================================================
