----------------------------- MODULE MCSessions -----------------------------
(* What is read and kept: the sessions and the inbox of the messenger,     *)
(* those of the browser client, its profile, and the mailbox of a relay.   *)
EXTENDS Session, BrowserProfile, MemStore

VARIABLE part    \* the component that runs

keptVars == <<part, vars, sessionVars, profileVars, storeVars>>

KeptInit ==
    /\ part \in {"session", "browser", "profile", "store"}
    /\ Init /\ SessionsInit /\ InitProfile /\ StoreInit
    /\ part # "store" => serving = Anyone

KeptNext ==
    /\ UNCHANGED part
    /\ \/ part = "session" /\ Next /\ UNCHANGED <<sessionVars, profileVars, storeVars>>
       \/ part = "browser" /\ SessionsNext /\ UNCHANGED <<vars, profileVars, storeVars>>
       \/ part = "profile" /\ ProfileNext /\ UNCHANGED <<vars, sessionVars, storeVars>>
       \/ part = "store" /\ StoreNext /\ UNCHANGED <<vars, sessionVars, profileVars>>

KeptSpec == KeptInit /\ [][KeptNext]_keptVars
=============================================================================
