-------------------------------- MODULE Vault --------------------------------
(***************************************************************************)
(* The vault of a profile (libcore/src/security.rs) and the binding of its *)
(* key to the machine (libcore/src/device_binding.rs).                     *)
(*                                                                         *)
(* Operations on one path exclude each other (the registry of locks), so   *)
(* one is under way at a time, on one of the handles the process opened;   *)
(* each handle has its own copy of the header.  A step ends wherever       *)
(* something outside memory has changed, and the process may be killed     *)
(* between any two.  Files are replaced whole (write a temporary, rename). *)
(***************************************************************************)
EXTENDS Naturals, FiniteSets

CONSTANTS Handles,      \* Vault values opened by the process
          Passes,       \* passphrases
          Limits,       \* values of max_attempts
          MaxOps,       \* bound on operations begun
          MaxKills      \* bound on kills

ASSUME VaultAssumption == MaxOps \in Nat /\ MaxKills \in Nat /\ Limits \subseteq Nat

NoPass == "none"
NoHeader == [primary |-> NoPass]
Modes == {"wipe", "decoy"}

VARIABLES file,        \* vault.bin
          binding,     \* .device-binding-v2.json names a credential
          credential,  \* and the OS has it
          memory,      \* the header in each open handle
          vop,         \* the operation under way
          chosen,      \* what the owner was last told is in force, or asked for
          guesses,     \* wrong passphrases answered since a right one
          vops, kills

vaultVars == <<file, binding, credential, memory, vop, chosen, guesses, vops, kills>>

NoOp == [pc |-> "idle"]

Header(primary, duress, m, n) ==
    [primary |-> primary, duress |-> duress, mode |-> m, attempts |-> 0, max |-> n]
Settings(h) == [primary |-> h.primary, duress |-> h.duress, mode |-> h.mode, max |-> h.max]

\* A duress passphrase that is the passphrase itself is not one.
Duress(dp, pass) == IF dp = pass THEN NoPass ELSE dp

VaultInit ==
    /\ file = NoHeader /\ binding = FALSE /\ credential = FALSE
    /\ memory = [h \in Handles |-> NoHeader]
    /\ vop = NoOp /\ chosen = {} /\ guesses = 0 /\ vops = 0 /\ kills = 0

Begin(op) == vop = NoOp /\ vops < MaxOps /\ vops' = vops + 1 /\ vop' = op

Done == vop' = NoOp

-----------------------------------------------------------------------------

\* create_with_params: the device first, the vault after it.
Create(h, pass, dp, m, n) ==
    /\ file = NoHeader
    /\ Begin([pc |-> "enroll", h |-> h, new |-> Header(pass, Duress(dp, pass), m, n)])
    /\ UNCHANGED <<file, binding, credential, memory, chosen, guesses, kills>>

\* enroll: what an earlier create left behind is used if it loads.
EnrollCredential ==
    /\ vop.pc = "enroll"
    /\ IF binding
       THEN /\ vop' = IF credential THEN [vop EXCEPT !.pc = "create"] ELSE NoOp
            /\ UNCHANGED credential
       ELSE vop' = [vop EXCEPT !.pc = "publish"] /\ credential' = TRUE
    /\ UNCHANGED <<file, binding, memory, chosen, guesses, vops, kills>>

PublishBinding ==
    /\ vop.pc = "publish"
    /\ binding' = TRUE
    /\ vop' = [vop EXCEPT !.pc = "create"]
    /\ UNCHANGED <<file, credential, memory, chosen, guesses, vops, kills>>

WriteCreated ==
    /\ vop.pc = "create"
    /\ file' = vop.new
    /\ memory' = [memory EXCEPT ![vop.h] = vop.new]
    /\ chosen' = {Settings(vop.new)} /\ guesses' = 0
    /\ Done
    /\ UNCHANGED <<binding, credential, vops, kills>>

\* open: nothing without the credential or the file.
OpenVault(h) ==
    /\ vop = NoOp /\ vops < MaxOps /\ vops' = vops + 1
    /\ binding /\ credential /\ file # NoHeader
    /\ memory' = [memory EXCEPT ![h] = file]
    /\ UNCHANGED <<file, binding, credential, vop, chosen, guesses, kills>>

-----------------------------------------------------------------------------

\* The operations that begin with unlock_locked, and what is to follow it.
BeginUnlock(h, pass, then) ==
    /\ memory[h] # NoHeader
    /\ Begin([pc |-> "read", h |-> h, pass |-> pass, then |-> then])
    /\ UNCHANGED <<file, binding, credential, memory, chosen, guesses, kills>>

Unlock(h, pass) == BeginUnlock(h, pass, [kind |-> "unlock"])
ChangePassphrase(h, old, new) == BeginUnlock(h, old, [kind |-> "change", pass |-> new])
SetDuress(h, pass, dp, m) == BeginUnlock(h, pass, [kind |-> "duress", pass |-> dp, mode |-> m])
SetMaxAttempts(h, pass, n) == BeginUnlock(h, pass, [kind |-> "max", max |-> n])

\* unlock_locked: the device secret and the file are read again; without
\* either nothing is counted.
ReadAgain ==
    /\ vop.pc = "read"
    /\ IF binding /\ credential /\ file # NoHeader
       THEN memory' = [memory EXCEPT ![vop.h] = file] /\ vop' = [vop EXCEPT !.pc = "try"]
       ELSE UNCHANGED memory /\ Done
    /\ UNCHANGED <<file, binding, credential, chosen, guesses, vops, kills>>

\* The header with the attempt counted is written before anything is said.
Opened(h, pass) == memory[h].primary = pass
OpenedDuress(h, pass) == ~Opened(h, pass) /\ memory[h].duress # NoPass /\ memory[h].duress = pass

TryPrimary ==
    /\ vop.pc = "try" /\ Opened(vop.h, vop.pass)
    /\ LET h == [memory[vop.h] EXCEPT !.attempts = 0]
       IN  memory' = [memory EXCEPT ![vop.h] = h] /\ file' = h
    /\ guesses' = 0
    /\ vop' = IF vop.then.kind = "unlock" THEN NoOp ELSE [vop EXCEPT !.pc = "apply"]
    /\ UNCHANGED <<binding, credential, chosen, vops, kills>>

TryDuress ==
    /\ vop.pc = "try" /\ OpenedDuress(vop.h, vop.pass)
    /\ LET h == [memory[vop.h] EXCEPT !.attempts = 0]
       IN  /\ memory' = [memory EXCEPT ![vop.h] = h]
           /\ file' = h
           /\ vop' = IF h.mode = "wipe" THEN [vop EXCEPT !.pc = "destroy"] ELSE NoOp
    /\ guesses' = 0
    /\ UNCHANGED <<binding, credential, chosen, vops, kills>>

\* The attempt is counted in memory and written with the answer.
TryWrongMutant ==
    /\ vop.pc = "try" /\ ~Opened(vop.h, vop.pass) /\ ~OpenedDuress(vop.h, vop.pass)
    /\ LET h == [memory[vop.h] EXCEPT !.attempts = @ + 1]
       IN  /\ memory' = [memory EXCEPT ![vop.h] = h]
           /\ vop' = [vop EXCEPT !.pc = IF h.max > 0 /\ h.attempts >= h.max
                                        THEN "destroy" ELSE "refuse"]
    /\ UNCHANGED <<file, binding, credential, chosen, guesses, vops, kills>>

TryWrong ==
    /\ vop.pc = "try" /\ ~Opened(vop.h, vop.pass) /\ ~OpenedDuress(vop.h, vop.pass)
    /\ LET h == [memory[vop.h] EXCEPT !.attempts = @ + 1]
       IN  /\ memory' = [memory EXCEPT ![vop.h] = h]
           /\ file' = h
           /\ vop' = [vop EXCEPT !.pc = IF h.max > 0 /\ h.attempts >= h.max
                                        THEN "destroy" ELSE "refuse"]
    /\ UNCHANGED <<binding, credential, chosen, guesses, vops, kills>>

AnswerWrong ==
    /\ vop.pc = "refuse"
    /\ guesses' = guesses + 1
    /\ Done
    /\ UNCHANGED <<file, binding, credential, memory, chosen, vops, kills>>

-----------------------------------------------------------------------------

\* What follows a right passphrase.  set_duress puts the mode in memory
\* before it refuses a duress passphrase equal to the passphrase.
Applied(h) ==
    CASE vop.then.kind = "change" -> [h EXCEPT !.primary = vop.then.pass]
      [] vop.then.kind = "duress" -> [h EXCEPT !.mode = vop.then.mode, !.duress = vop.then.pass]
      [] vop.then.kind = "max" -> [h EXCEPT !.max = vop.then.max]

Refused == vop.then.kind = "duress" /\ vop.then.pass = vop.pass

ApplyInMemory ==
    /\ vop.pc = "apply"
    /\ IF Refused
       THEN /\ memory' = [memory EXCEPT ![vop.h].mode = vop.then.mode]
            /\ Done /\ UNCHANGED chosen
       ELSE /\ memory' = [memory EXCEPT ![vop.h] = Applied(@)]
            /\ chosen' = chosen \union {Settings(Applied(memory[vop.h]))}
            /\ vop' = [vop EXCEPT !.pc = "write"]
    /\ UNCHANGED <<file, binding, credential, guesses, vops, kills>>

WriteApplied ==
    /\ vop.pc = "write"
    /\ file' = memory[vop.h]
    /\ chosen' = {Settings(memory[vop.h])}
    /\ Done
    /\ UNCHANGED <<binding, credential, memory, guesses, vops, kills>>

\* wipe_all, and the wipes an unlock ends in: the credential, its reference,
\* and only then the files.
WipeAll(h) ==
    /\ memory[h] # NoHeader
    /\ Begin([pc |-> "destroy", h |-> h])
    /\ UNCHANGED <<file, binding, credential, memory, chosen, guesses, kills>>

DestroyCredential ==
    /\ vop.pc = "destroy"
    /\ IF binding
       THEN credential' = FALSE /\ vop' = [vop EXCEPT !.pc = "unpublish"]
       ELSE UNCHANGED credential /\ Done
    /\ UNCHANGED <<file, binding, memory, chosen, guesses, vops, kills>>

RemoveBinding ==
    /\ vop.pc = "unpublish"
    /\ binding' = FALSE
    /\ vop' = [vop EXCEPT !.pc = "erase"]
    /\ UNCHANGED <<file, credential, memory, chosen, guesses, vops, kills>>

SecureWipe ==
    /\ vop.pc = "erase"
    /\ file' = NoHeader /\ chosen' = {} /\ guesses' = 0
    /\ Done
    /\ UNCHANGED <<binding, credential, memory, vops, kills>>

\* The process is killed; the next one has no handles.
Kill ==
    /\ kills < MaxKills
    /\ kills' = kills + 1
    /\ memory' = [h \in Handles |-> NoHeader]
    /\ Done
    /\ UNCHANGED <<file, binding, credential, chosen, guesses, vops>>

-----------------------------------------------------------------------------

VaultOperation(h) ==
    \/ OpenVault(h) \/ WipeAll(h)
    \/ \E pass \in Passes :
        \/ Unlock(h, pass)
        \/ \E new \in Passes : ChangePassphrase(h, pass, new)
        \/ \E dp \in Passes \union {NoPass}, m \in Modes : SetDuress(h, pass, dp, m)
        \/ \E n \in Limits : SetMaxAttempts(h, pass, n)
        \/ \E dp \in Passes \union {NoPass}, m \in Modes, n \in Limits : Create(h, pass, dp, m, n)

VaultStep ==
    \/ EnrollCredential \/ PublishBinding \/ WriteCreated
    \/ ReadAgain \/ TryPrimary \/ TryDuress \/ TryWrong \/ AnswerWrong
    \/ ApplyInMemory \/ WriteApplied
    \/ DestroyCredential \/ RemoveBinding \/ SecureWipe

VaultNext == (\E h \in Handles : VaultOperation(h)) \/ VaultStep \/ Kill

VaultSpec == VaultInit /\ [][VaultNext]_vaultVars

-----------------------------------------------------------------------------

\* Whatever handles are used and wherever the process is killed, fewer wrong
\* passphrases than max_attempts are answered "invalid passphrase" in a row.
GuessesBounded == (file # NoHeader /\ file.max > 0) => guesses < file.max

\* The vault on disk always holds the passphrases, the duress mode and the
\* limit last set, or those of the change being made: no handle's older copy
\* of the header, and no refused change, comes back.
SettingsKept == file # NoHeader => Settings(file) \in chosen

\* The vault across handles and kills: fewer wrong passphrases than
\* max_attempts are answered, and the settings on disk are those last set.
VaultHolds == GuessesBounded /\ SettingsKept
=============================================================================
