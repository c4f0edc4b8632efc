------------------------------- MODULE Backup -------------------------------
(***************************************************************************)
(* Exporting a profile and restoring it into a new one (core/src/lib.rs,   *)
(* libcore/src/db/dm.rs).  The export is a series of queries with no       *)
(* transaction around them, so the profile changes between two of them.    *)
(* Contacts travel without their row ids and get new ones, in the order    *)
(* the list shows them; what refers to a contact by its id is to be        *)
(* brought over to the new one.                                            *)
(***************************************************************************)
EXTENDS Naturals, Sequences, SequencesExt

CONSTANTS Mates,        \* people who may be contacts
          MaxRowIds,    \* bound on contact rows ever inserted
          MaxTextIds,   \* bound on messages ever inserted
          MaxChanges    \* bound on the profile's changes

ASSUME BackupAssumption == {MaxRowIds, MaxTextIds, MaxChanges} \subseteq Nat

VARIABLES live,         \* the profile: [people, order, texts, wipes]
          lastContactRow,      \* AUTOINCREMENT of contacts
          lastText,
          author,       \* ghost: with whom a message was exchanged
          askedGone,    \* ghost: whom the user asked to delete for both
          export,       \* the backup as far as it is written
          exportAt, restored, restoreAt, changes

backupVars == <<live, lastContactRow, lastText, author, askedGone, export, exportAt, restored,
                restoreAt, changes>>

Rows == 1 .. MaxRowIds
TextIds == 1 .. MaxTextIds
Empty == [people |-> <<>>, order |-> <<>>, texts |-> <<>>, erased |-> {}, wipes |-> {}]

\* A profile: contact rows (id to person), the ids as list_contacts returns
\* them, messages (id to contact id), those whose body is erased, and the
\* contacts with a wipe_pending_<id> setting.
BackupInit ==
    /\ live = Empty /\ lastContactRow = 0 /\ lastText = 0
    /\ author = [t \in TextIds |-> "none"] /\ askedGone = {}
    /\ export = [settings |-> {}, ids |-> <<>>, refs |-> <<>>, gone |-> {}, contacts |-> <<>>,
                 texts |-> <<>>, blank |-> {}]
    /\ exportAt = "idle" /\ restored = Empty /\ restoreAt = "idle" /\ changes = 0

PutRow(f, k, v) == [x \in DOMAIN f \union {k} |-> IF x = k THEN v ELSE f[x]]
WithoutRows(f, S) == [x \in DOMAIN f \ S |-> f[x]]

-----------------------------------------------------------------------------
(* The profile in use.                                                     *)

Change == changes < MaxChanges /\ restoreAt = "idle" /\ changes' = changes + 1

AddMate(m) ==
    /\ Change /\ lastContactRow < MaxRowIds /\ \A r \in DOMAIN live.people : live.people[r] # m
    /\ lastContactRow' = lastContactRow + 1
    /\ live' = [live EXCEPT !.people = PutRow(@, lastContactRow + 1, m), !.order = Append(@, lastContactRow + 1)]
    /\ askedGone' = askedGone \ {m}
    /\ UNCHANGED <<lastText, author, export, exportAt, restored, restoreAt>>

\* A message: the contact moves to the top of the list.
Talk(r) ==
    /\ Change /\ r \in DOMAIN live.people /\ r \notin live.wipes /\ lastText < MaxTextIds
    /\ lastText' = lastText + 1
    /\ author' = [author EXCEPT ![lastText + 1] = live.people[r]]
    /\ live' = [live EXCEPT !.texts = PutRow(@, lastText + 1, r), !.order = <<r>> \o Remove(@, r)]
    /\ UNCHANGED <<lastContactRow, askedGone, export, exportAt, restored, restoreAt>>

\* A message deleted: its body goes, its row stays.
EraseOne(t) ==
    /\ Change /\ t \in DOMAIN live.texts \ live.erased
    /\ live' = [live EXCEPT !.erased = @ \union {t}]
    /\ UNCHANGED <<lastContactRow, lastText, author, askedGone, export, exportAt, restored, restoreAt>>

TextsOf(db, r) == {t \in DOMAIN db.texts : db.texts[t] = r}

\* delete_contact: the row, its messages with it, and its wipe key.
RemoveMate(r) ==
    /\ Change /\ r \in DOMAIN live.people
    /\ live' = [live EXCEPT !.people = WithoutRows(@, {r}), !.order = Remove(@, r),
                            !.texts = WithoutRows(@, TextsOf(live, r)), !.wipes = @ \ {r},
                            !.erased = @ \ TextsOf(live, r)]
    /\ UNCHANGED <<lastContactRow, lastText, author, askedGone, export, exportAt, restored, restoreAt>>

\* delete_contact_for_both: the messages go, the row stays with its wipe key.
WipeMate(r) ==
    /\ Change /\ r \in DOMAIN live.people \ live.wipes
    /\ live' = [live EXCEPT !.texts = WithoutRows(@, TextsOf(live, r)), !.wipes = @ \union {r},
                            !.erased = @ \ TextsOf(live, r)]
    /\ askedGone' = askedGone \union {live.people[r]}
    /\ UNCHANGED <<lastContactRow, lastText, author, export, exportAt, restored, restoreAt>>

-----------------------------------------------------------------------------
(* export_raw_backup_data, a query at a time.                              *)

ExportSettings ==
    /\ exportAt = "idle"
    /\ export' = [export EXCEPT !.settings = live.wipes] /\ exportAt' = "settings"
    /\ UNCHANGED <<live, lastContactRow, lastText, author, askedGone, restored, restoreAt, changes>>

\* export_dm_state: contact ids with their identities, and the messages'
\* state, under one lock.
ExportDmState ==
    /\ exportAt = "settings"
    /\ export' = [export EXCEPT !.ids = live.people, !.refs = live.texts, !.gone = live.erased]
    /\ exportAt' = "sidecar"
    /\ UNCHANGED <<live, lastContactRow, lastText, author, askedGone, restored, restoreAt, changes>>

ExportContacts ==
    /\ exportAt = "sidecar"
    /\ export' = [export EXCEPT !.contacts = [i \in DOMAIN live.order |-> live.people[live.order[i]]]]
    /\ exportAt' = "contacts"
    /\ UNCHANGED <<live, lastContactRow, lastText, author, askedGone, restored, restoreAt, changes>>

ExportMessages ==
    /\ exportAt = "contacts"
    /\ export' = [export EXCEPT !.texts = live.texts, !.blank = live.erased]
    /\ exportAt' = "done"
    /\ UNCHANGED <<live, lastContactRow, lastText, author, askedGone, restored, restoreAt, changes>>

-----------------------------------------------------------------------------
(* restore_raw_backup_data.  Every stage is a transaction of its own; the  *)
(* first failure ends it.                                                  *)

RestoreSettings ==
    /\ exportAt = "done" /\ restoreAt = "idle"
    /\ restored' = [Empty EXCEPT !.wipes = export.settings] /\ restoreAt' = "settings"
    /\ UNCHANGED <<live, lastContactRow, lastText, author, askedGone, export, exportAt, changes>>

\* add_contact in the order of the backup: new ids from 1.
RestoreContacts ==
    /\ restoreAt = "settings"
    /\ restored' = [restored EXCEPT !.people = export.contacts, !.order = [i \in DOMAIN export.contacts |-> i]]
    /\ restoreAt' = "contacts"
    /\ UNCHANGED <<live, lastContactRow, lastText, author, askedGone, export, exportAt, changes>>

\* dm_backup_contact_map: fails when an exported identity has no row.
ContactMap == [old \in DOMAIN export.ids |->
                  CHOOSE new \in DOMAIN restored.people : restored.people[new] = export.ids[old]]
MapFails ==
    \/ \E old \in DOMAIN export.ids : \A new \in DOMAIN restored.people : restored.people[new] # export.ids[old]
    \/ \E t \in DOMAIN export.texts : export.texts[t] \notin DOMAIN export.ids

\* A profile restored as it was before the contact map: the ids as exported.
RestoreMessagesMutant ==
    /\ restoreAt = "contacts"
    /\ IF MapFails
       THEN restoreAt' = "failed" /\ UNCHANGED restored
       ELSE /\ restored' = [restored EXCEPT
                  !.texts = [t \in DOMAIN export.texts |->
                                IF export.texts[t] \in DOMAIN restored.people THEN export.texts[t]
                                ELSE ContactMap[export.texts[t]]],
                  !.erased = export.blank]
            /\ restoreAt' = "messages"
    /\ UNCHANGED <<live, lastContactRow, lastText, author, askedGone, export, exportAt, changes>>

\* The messages under their new contacts.
RestoreMessages ==
    /\ restoreAt = "contacts"
    /\ IF MapFails
       THEN restoreAt' = "failed" /\ UNCHANGED restored
       ELSE /\ restored' = [restored EXCEPT
                  !.texts = [t \in DOMAIN export.texts |-> ContactMap[export.texts[t]]],
                  !.erased = export.blank]
            /\ restoreAt' = "messages"
    /\ UNCHANGED <<live, lastContactRow, lastText, author, askedGone, export, exportAt, changes>>

\* restore_dm_state: what the sidecar knows of the messages, erasing those it
\* saw deleted.
RestoreDmState ==
    /\ restoreAt = "messages"
    /\ restored' = [restored EXCEPT
          !.texts = [t \in DOMAIN @ |-> IF t \in DOMAIN export.refs THEN ContactMap[export.refs[t]] ELSE @[t]],
          !.erased = @ \union (export.gone \intersect DOMAIN restored.texts)]
    /\ restoreAt' = "done"
    /\ UNCHANGED <<live, lastContactRow, lastText, author, askedGone, export, exportAt, changes>>

BackupNext ==
    \/ \E m \in Mates : AddMate(m)
    \/ \E r \in Rows : Talk(r) \/ RemoveMate(r) \/ WipeMate(r)
    \/ \E t \in TextIds : EraseOne(t)
    \/ ExportSettings \/ ExportDmState \/ ExportContacts \/ ExportMessages
    \/ RestoreSettings \/ RestoreContacts \/ RestoreMessages \/ RestoreDmState

-----------------------------------------------------------------------------
(* Properties.                                                             *)

\* A restored message is in the chat of the one it was exchanged with,
\* whatever rows came, went or changed places during the export.
TextsKeepTheirChat ==
    restoreAt = "done" =>
        \A t \in DOMAIN restored.texts : restored.people[restored.texts[t]] = author[t]

\* "When we asked this contact to delete everything, if we did": a contact
\* marked for deletion in the restored profile is one the user asked to
\* delete.
WipedWasAsked ==
    restoreAt = "done" =>
        \A r \in restored.wipes \intersect DOMAIN restored.people : restored.people[r] \in askedGone
=============================================================================
