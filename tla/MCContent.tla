----------------------------- MODULE MCContent ------------------------------
(* What the database keeps of conversations: deletions for both, staged    *)
(* files; the ratchet that opens the letters, keys in memory, and the      *)
(* window on a chat.                                                       *)
EXTENDS DmDeletion, StagedFiles, Ratchet, ChatWindow, TLC

VARIABLE part    \* the component that runs

contentVars == <<part, vars, stagedVars, windowVars, ratchetVars, memoryVars>>

ContentInit ==
    /\ part \in {"deletion", "staged", "window", "ratchet", "memory"}
    /\ Init /\ StagedInit /\ WindowInit /\ RatchetInit /\ MemoryInit

ContentNext ==
    /\ UNCHANGED part
    /\ \/ part = "deletion" /\ Next /\ UNCHANGED <<stagedVars, windowVars, ratchetVars, memoryVars>>
       \/ part = "staged" /\ StagedNext /\ UNCHANGED <<vars, windowVars, ratchetVars, memoryVars>>
       \/ part = "window" /\ WindowNext /\ UNCHANGED <<vars, stagedVars, ratchetVars, memoryVars>>
       \/ part = "ratchet" /\ RatchetNext /\ UNCHANGED <<vars, stagedVars, windowVars, memoryVars>>
       \/ part = "memory" /\ MemoryNext /\ UNCHANGED <<vars, stagedVars, windowVars, ratchetVars>>

ContentSpec == ContentInit /\ [][ContentNext]_contentVars

ContentSymmetry == Permutations(WinChats)
=============================================================================
