-------------------------- MODULE ConnectionStore --------------------------
(****************************************************************************)
(* The saved connections.  A configuration is in SwiftData: an object of    *)
(* the model context, on disk once the context is saved.  Its password is   *)
(* in the keychain.  The view model's operations change one after the other *)
(* and give up at the first error that is not ignored; the application may  *)
(* end anywhere.  The lists of the view keep the objects they were given.   *)
(*                                                                          *)
(* An operation runs on the main actor from beginning to end: one step per  *)
(* call that can fail.                                                      *)
(****************************************************************************)
EXTENDS Naturals, FiniteSets

CONSTANTS
    Config,         \* configurations, by their id
    Password,
    NoPassword,     \* nil in an argument; errSecItemNotFound in the keychain
    NoConfig        \* in place of the configuration of an operation on all

ASSUME ConstantAssumption == NoPassword \notin Password /\ NoConfig \notin Config

(* The calls that may fail; "fetch" is any fetch of the model context.      *)
Call == {"save", "fetch", "SecItemAdd", "SecItemDelete"}

(* Where an operation is: before one of them, before the second fetch of    *)
(* loadConnections, or at rest.                                             *)
Place == Call \cup {"fetchRecent", "idle", "done", "failed"}

(* What a configuration holds: its fields, in two versions, and whether     *)
(* credentialKeyRef is set.                                                 *)
Content == [fields : {0, 1}, credentialKeyRef : BOOLEAN]

Secret == Password \cup {NoPassword}

VARIABLES
    faults,         \* the calls that may fail here
    context,        \* modelContext: what each configuration it has holds
    disk,           \* what is saved
    keychain,       \* the password of each id
    connections,    \* the view model's list
    recentConnections,  \* its list of those connected to last
    searchResults,  \* its list of search results
    op              \* the last operation and how far it has got

lists == <<connections, recentConnections, searchResults>>
stored == <<disk, keychain>>
vars == <<faults, context, stored, lists, op>>

NoOperation == [kind |-> "none", config |-> NoConfig, password |-> NoPassword, at |-> "idle"]

Init ==
    /\ faults \in SUBSET Call
    /\ context = << >>
    /\ disk = << >>
    /\ keychain = [c \in Config |-> NoPassword]
    /\ connections = {} /\ recentConnections = {} /\ searchResults = {}
    /\ op = NoOperation

Idle == op.at \in {"idle", "done", "failed"}

Begin(kind, c, password, at) ==
    op' = [kind |-> kind, config |-> c, password |-> password, at |-> at]

GoesOn(at) == op' = [op EXCEPT !.at = at]

With(configs, c, content) ==
    [d \in DOMAIN configs \cup {c} |-> IF d = c THEN content ELSE configs[d]]

Without(configs, c) == [d \in DOMAIN configs \ {c} |-> configs[d]]

(* An assignment to a property of the object: one that is no longer in the  *)
(* context changes nothing that is kept.                                    *)
Edited(c, field, value) ==
    IF c \in DOMAIN context THEN [context EXCEPT ![c][field] = value] ELSE context

----------------------------------------------------------------------------
(* The operations begin.                                                    *)

(* The configurations the user can pick: the objects of the lists.          *)
Listed == connections \cup recentConnections \cup searchResults

(* A UUID nothing knows yet.                                                *)
New(c) ==
    /\ c \notin DOMAIN context \cup DOMAIN disk \cup Listed
    /\ keychain[c] = NoPassword

(* addConnection, and duplicateConnection, which passes no password.        *)
AddConnection(c, password) ==
    /\ Idle
    /\ New(c)
    /\ context' = With(context, c, [fields |-> 0, credentialKeyRef |-> FALSE])
    /\ Begin("add", c, password, "save")
    /\ UNCHANGED <<faults, stored, lists>>

(* AddConnectionView.saveConnection writes the object's fields, then        *)
(* updateConnection.                                                        *)
UpdateConnection(c, password) ==
    /\ Idle
    /\ c \in Listed
    /\ \E fields \in {0, 1} : context' = Edited(c, "fields", fields)
    /\ Begin("update", c, password, "save")
    /\ UNCHANGED <<faults, stored, lists>>

(* Mutant: the password goes after the configuration.                       *)
DeleteConnectionConfigFirst(c) ==
    /\ Idle
    /\ c \in Listed
    /\ disk' = Without(disk, c) /\ context' = Without(context, c)
    /\ Begin("delete", c, NoPassword, "SecItemDelete")
    /\ UNCHANGED <<faults, keychain, lists>>

(* deleteConnection.                                                        *)
DeleteConnection(c) ==
    /\ Idle
    /\ c \in Listed
    /\ Begin("delete", c, NoPassword, "SecItemDelete")
    /\ UNCHANGED <<faults, context, stored, lists>>

(* markAsConnected, of a listed configuration or of the one quickConnect    *)
(* makes, which is in no context.                                           *)
MarkAsConnected ==
    /\ Idle
    /\ \/ \E c \in Listed, fields \in {0, 1} : context' = Edited(c, "fields", fields)
       \/ context' = context
    /\ Begin("mark", NoConfig, NoPassword, "save")
    /\ UNCHANGED <<faults, stored, lists>>

(* loadConnections, when the list appears.                                  *)
ListAppears ==
    /\ Idle
    /\ Begin("load", NoConfig, NoPassword, "fetch")
    /\ UNCHANGED <<faults, context, stored, lists>>

(* performSearch: the query decides which are found; an error, none.        *)
PerformSearch ==
    /\ Idle
    /\ searchResults' \in SUBSET DOMAIN context
    /\ UNCHANGED <<faults, context, stored, connections, recentConnections, op>>

(* SettingsViewModel.clearAllPasswords; an error is ignored.                *)
ClearAllPasswords ==
    /\ Idle
    /\ \/ keychain' = [c \in Config |-> NoPassword]
       \/ "SecItemDelete" \in faults /\ keychain' = keychain
    /\ UNCHANGED <<faults, context, disk, lists, op>>

----------------------------------------------------------------------------
(* The operations go on.                                                    *)

Fails(call) ==
    /\ op.at = call /\ call \in faults
    /\ GoesOn("failed")
    /\ UNCHANGED <<faults, context, stored, lists>>

(* Mutant: no password is saved as one.                                     *)
SaveThenPassword ==
    /\ op.at = "save"
    /\ disk' = context
    /\ GoesOn(IF op.kind \in {"add", "update"} THEN "SecItemDelete" ELSE "fetch")
    /\ UNCHANGED <<faults, context, keychain, lists>>

(* context.save() saves all that is pending.  addConnection and             *)
(* updateConnection go on to the password if there is one.                  *)
Save ==
    /\ op.at = "save"
    /\ disk' = context
    /\ GoesOn(IF op.password # NoPassword THEN "SecItemDelete" ELSE "fetch")
    /\ UNCHANGED <<faults, context, keychain, lists>>

(* deletePassword under try?: an error is ignored.  savePassword goes on to *)
(* SecItemAdd, the storage service's delete to the configuration.           *)
DeletePassword ==
    /\ op.at = "SecItemDelete"
    /\ \/ keychain' = [keychain EXCEPT ![op.config] = NoPassword]
       \/ "SecItemDelete" \in faults /\ keychain' = keychain
    /\ IF op.kind = "delete"
       THEN context' = Without(context, op.config) /\ GoesOn("save")
       ELSE context' = context /\ GoesOn("SecItemAdd")
    /\ UNCHANGED <<faults, disk, lists>>

(* Mutant: the reference is not saved.                                      *)
AddPasswordThenLoad ==
    /\ op.at = "SecItemAdd"
    /\ keychain[op.config] = NoPassword
    /\ keychain' = [keychain EXCEPT ![op.config] = op.password]
    /\ context' = Edited(op.config, "credentialKeyRef", TRUE)
    /\ GoesOn("fetch")
    /\ UNCHANGED <<faults, disk, lists>>

(* SecItemAdd, then credentialKeyRef is set.  An item that is still there   *)
(* is an error.                                                             *)
AddPassword ==
    /\ op.at = "SecItemAdd"
    /\ keychain[op.config] = NoPassword
    /\ keychain' = [keychain EXCEPT ![op.config] = op.password]
    /\ context' = Edited(op.config, "credentialKeyRef", TRUE)
    /\ op' = [op EXCEPT !.at = "save", !.password = NoPassword]
    /\ UNCHANGED <<faults, disk, lists>>

PasswordIsDuplicate ==
    /\ op.at = "SecItemAdd"
    /\ keychain[op.config] # NoPassword
    /\ GoesOn("failed")
    /\ UNCHANGED <<faults, context, stored, lists>>

(* loadConnections: the list of all, then that of those connected to last;  *)
(* if the second fetch fails the first list is the new one already.         *)
LoadConnections ==
    /\ op.at = "fetch"
    /\ connections' = DOMAIN context
    /\ GoesOn("fetchRecent")
    /\ UNCHANGED <<faults, context, stored, recentConnections, searchResults>>

(* The dates decide which are recent.                                       *)
LoadRecent ==
    /\ op.at = "fetchRecent"
    /\ recentConnections' \in SUBSET DOMAIN context
    /\ GoesOn("done")
    /\ UNCHANGED <<faults, context, stored, connections, searchResults>>

LoadRecentFails ==
    /\ op.at = "fetchRecent" /\ "fetch" \in faults
    /\ GoesOn("failed")
    /\ UNCHANGED <<faults, context, stored, lists>>

Operation ==
    \/ \E call \in {"save", "fetch", "SecItemAdd"} : Fails(call)
    \/ Save \/ DeletePassword \/ AddPassword \/ PasswordIsDuplicate
    \/ LoadConnections \/ LoadRecent \/ LoadRecentFails

----------------------------------------------------------------------------
(* SwiftData saves a main context by itself when the main thread is free.   *)
Autosave ==
    /\ Idle
    /\ disk # context
    /\ disk' = context
    /\ UNCHANGED <<faults, context, keychain, lists, op>>

(* The application ends, at any moment, and starts again.                   *)
Restart ==
    /\ context' = disk
    /\ connections' = {} /\ recentConnections' = {} /\ searchResults' = {}
    /\ op' = NoOperation
    /\ UNCHANGED <<faults, stored>>

Next ==
    \/ \E c \in Config, password \in Secret :
          AddConnection(c, password) \/ UpdateConnection(c, password)
    \/ \E c \in Config : DeleteConnection(c)
    \/ MarkAsConnected \/ ListAppears \/ PerformSearch \/ ClearAllPasswords
    \/ Operation
    \/ Autosave \/ Restart

Spec == Init /\ [][Next]_vars

----------------------------------------------------------------------------
(* What has to hold.                                                        *)

Configs == UNION {[S -> Content] : S \in SUBSET Config}

(* Every variable has the values the code can give it.                      *)
TypeOK ==
    /\ faults \subseteq Call
    /\ context \in Configs /\ disk \in Configs
    /\ keychain \in [Config -> Secret]
    /\ Listed \subseteq Config
    /\ op \in [kind : {"none", "add", "update", "delete", "mark", "load"},
               config : Config \cup {NoConfig}, password : Secret,
               at : Place]
    /\ op.at = "SecItemDelete" => op.config \in Config
    /\ op.at = "SecItemAdd" => op.config \in Config /\ op.password \in Password

(* After an operation that saves and reports no error the list, the context *)
(* and the disk agree and what is recent is listed, whatever earlier        *)
(* operations left behind when they failed.                                 *)
SuccessSettles ==
    op.at = "done" /\ op.kind # "load" =>
        disk = context /\ connections = DOMAIN disk /\ recentConnections \subseteq connections

Orphaned(c) == keychain[c] # NoPassword /\ c \notin DOMAIN disk

(* With a keychain that deletes what it is told to, there is one way to     *)
(* leave a password without its configuration: to edit a configuration that *)
(* is deleted already, which a list still shows.  No failure and no restart *)
(* in the middle of an operation does it.                                   *)
OrphanedByEditOnly ==
    [][\A c \in Config :
          ~Orphaned(c) /\ Orphaned(c)' /\ "SecItemDelete" \notin faults =>
             /\ op.kind = "update" /\ op.config = c /\ op.at = "SecItemAdd"
             /\ c \notin DOMAIN context]_vars

=============================================================================
