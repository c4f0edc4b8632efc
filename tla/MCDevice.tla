------------------------------ MODULE MCDevice ------------------------------
(* One device: a file that comes in parts, the start of the router and of  *)
(* the app, and updates of messages.                                       *)
EXTENDS FileTransfer, Startup, ChatUpdates, TLC

VARIABLE part    \* the component that runs

deviceVars == <<part, transferVars, routerVars, appVars, chatVars>>

DeviceInit ==
    /\ part \in {"file", "router", "boot", "chat"}
    /\ TransferInit /\ RouterStartInit /\ AppInit /\ ChatInit

DeviceNext ==
    /\ UNCHANGED part
    /\ \/ part = "file" /\ TransferNext /\ UNCHANGED <<routerVars, appVars, chatVars>>
       \/ part = "router" /\ RouterStartNext /\ UNCHANGED <<transferVars, appVars, chatVars>>
       \/ part = "boot" /\ AppNext /\ UNCHANGED <<transferVars, routerVars, chatVars>>
       \/ part = "chat" /\ ChatNext /\ UNCHANGED <<transferVars, routerVars, appVars>>

DeviceSpec == DeviceInit /\ [][DeviceNext]_deviceVars

DeviceSymmetry == Permutations(Chatters)
=============================================================================
