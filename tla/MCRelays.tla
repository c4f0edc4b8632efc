------------------------------ MODULE MCRelays ------------------------------
(* The relays (the lanes of the built-in one racing for letters, the       *)
(* stand-alone one, the aliases of the network they form), and what a      *)
(* profile is kept in: the vault and the backup; and contact requests.  One *)
(* component runs.                                                         *)
EXTENDS RelayServer, StandaloneRelay, DhtAlias, Vault, Backup, Requests, TLC

VARIABLE part    \* the component that runs

relaysVars == <<part, vars, standaloneVars, aliasVars, vaultVars, backupVars, reqVars>>

RelaysInit ==
    /\ part \in {"race", "standalone", "alias", "vault", "backup", "requests"}
    /\ Init /\ StandaloneInit /\ AliasInit /\ VaultInit /\ BackupInit /\ RequestsInit

RelaysNext ==
    /\ UNCHANGED part
    /\ \/ part = "race" /\ Next /\ UNCHANGED <<standaloneVars, aliasVars, vaultVars, backupVars, reqVars>>
       \/ part = "standalone" /\ StandaloneNext /\ UNCHANGED <<vars, aliasVars, vaultVars, backupVars, reqVars>>
       \/ part = "alias" /\ AliasNext /\ UNCHANGED <<vars, standaloneVars, vaultVars, backupVars, reqVars>>
       \/ part = "vault" /\ VaultNext /\ UNCHANGED <<vars, standaloneVars, aliasVars, backupVars, reqVars>>
       \/ part = "backup" /\ BackupNext /\ UNCHANGED <<vars, standaloneVars, aliasVars, vaultVars, reqVars>>
       \/ part = "requests" /\ RequestsNext /\ UNCHANGED <<vars, standaloneVars, aliasVars, vaultVars, backupVars>>

RelaysSpec == RelaysInit /\ [][RelaysNext]_relaysVars

RelaysSymmetry == Permutations(Conns)
=============================================================================
