----------------------- MODULE ConnectionStoreProofs -----------------------
(****************************************************************************)
(* What holds of ConnectionStore for any configurations and passwords and   *)
(* whichever calls may fail.  The invariants follow an operation from call  *)
(* to call: what is saved when, and that a configuration that is deleted    *)
(* and not yet saved as deleted has lost its password.                      *)
(****************************************************************************)
EXTENDS ConnectionStore, TLAPS

(* A password is only given to addConnection and updateConnection.          *)
PasswordGiven ==
    /\ op.password # NoPassword => op.kind \in {"add", "update"} /\ op.config \in Config
    /\ op.at \in {"SecItemDelete", "SecItemAdd"} /\ op.kind # "delete" =>
          op.password \in Password

(* After a save nothing is pending until the operation is over.             *)
SavedBeforePassword ==
    /\ op.at \in {"SecItemDelete", "SecItemAdd"} /\ op.kind # "delete" => disk = context
    /\ op.at \in {"fetch", "fetchRecent"} /\ op.kind # "load" => disk = context
    /\ op.at = "fetchRecent" => connections = DOMAIN context

(* A configuration that is being added is in the context.                   *)
AddedPresent ==
    op.kind = "add" /\ op.at \in {"save", "SecItemDelete", "SecItemAdd"} =>
        op.config \in DOMAIN context

(* What is pending to be deleted has no password any more.                  *)
DeletedHasNoPassword ==
    "SecItemDelete" \notin faults =>
        \A c \in DOMAIN disk \ DOMAIN context : keychain[c] = NoPassword

(* deletePassword runs for a delete or under savePassword, no other way.    *)
AddIsNoDelete == op.at = "SecItemAdd" => op.kind # "delete"

IInv ==
    /\ TypeOK /\ SuccessSettles
    /\ PasswordGiven /\ SavedBeforePassword /\ AddedPresent
    /\ DeletedHasNoPassword /\ AddIsNoDelete

----------------------------------------------------------------------------
(* The context and the disk as functions.                                   *)

LEMMA ConfigsIntro ==
    ASSUME NEW S \in SUBSET Config, NEW f \in [S -> Content]
    PROVE  f \in Configs
BY DEF Configs

LEMMA ConfigsElim ==
    ASSUME NEW f \in Configs
    PROVE  DOMAIN f \subseteq Config /\ f \in [DOMAIN f -> Content]
<1>1. PICK S \in SUBSET Config : f \in [S -> Content]
  BY DEF Configs
<1> QED
  BY <1>1

LEMMA WithTyped ==
    ASSUME NEW f \in Configs, NEW c \in Config, NEW content \in Content
    PROVE  With(f, c, content) \in Configs /\ DOMAIN With(f, c, content) = DOMAIN f \cup {c}
<1>1. DOMAIN f \subseteq Config /\ f \in [DOMAIN f -> Content]
  BY ConfigsElim
<1>2. With(f, c, content) \in [DOMAIN f \cup {c} -> Content]
  BY <1>1 DEF With
<1> QED
  BY <1>1, <1>2, ConfigsIntro

LEMMA WithoutTyped ==
    ASSUME NEW f \in Configs, NEW c
    PROVE  Without(f, c) \in Configs /\ DOMAIN Without(f, c) = DOMAIN f \ {c}
<1>1. DOMAIN f \subseteq Config /\ f \in [DOMAIN f -> Content]
  BY ConfigsElim
<1>2. Without(f, c) \in [DOMAIN f \ {c} -> Content]
  BY <1>1 DEF Without
<1> QED
  BY <1>1, <1>2, ConfigsIntro

(* Editing an object keeps the context typed and its configurations.        *)
EditedTyped(new) == new \in Configs /\ DOMAIN new = DOMAIN context

LEMMA EditKeeps ==
    ASSUME context \in Configs, NEW c, NEW field \in {"fields", "credentialKeyRef"}, NEW value,
           field = "fields" => value \in {0, 1},
           field = "credentialKeyRef" => value \in BOOLEAN
    PROVE  EditedTyped(Edited(c, field, value))
<1>1. DOMAIN context \subseteq Config /\ context \in [DOMAIN context -> Content]
  BY ConfigsElim
<1>2. CASE c \in DOMAIN context
  <2>1. context[c] \in Content
    BY <1>1, <1>2
  <2>2. [context[c] EXCEPT ![field] = value] \in Content
    BY <2>1 DEF Content
  <2>3. Edited(c, field, value) = [context EXCEPT ![c][field] = value]
    BY <1>2 DEF Edited
  <2>4. [context EXCEPT ![c][field] = value] \in [DOMAIN context -> Content]
    BY <1>1, <1>2, <2>2
  <2> QED
    BY <1>1, <2>3, <2>4, ConfigsIntro DEF EditedTyped
<1>3. CASE c \notin DOMAIN context
  BY <1>3 DEF Edited, EditedTyped
<1> QED
  BY <1>2, <1>3

----------------------------------------------------------------------------
(* The operation.                                                           *)

Operations ==
    [kind : {"none", "add", "update", "delete", "mark", "load"},
     config : Config \cup {NoConfig}, password : Secret,
     at : Place]

NextOperation(kind, c, password, at) ==
    /\ op' \in Operations
    /\ op'.kind = kind /\ op'.config = c /\ op'.password = password /\ op'.at = at

LEMMA OperationGoesOn ==
    ASSUME op \in Operations, NEW at \in Place, GoesOn(at)
    PROVE  NextOperation(op.kind, op.config, op.password, at)
BY DEF GoesOn, Operations, NextOperation

LEMMA OperationBegins ==
    ASSUME NEW kind \in {"none", "add", "update", "delete", "mark", "load"},
           NEW c \in Config \cup {NoConfig}, NEW password \in Secret,
           NEW at \in Place, Begin(kind, c, password, at)
    PROVE  NextOperation(kind, c, password, at)
BY DEF Begin, Operations, NextOperation

----------------------------------------------------------------------------
(* The invariant holds at first and every step keeps it.                    *)

LEMMA InitHolds == Init => IInv
<1> SUFFICES ASSUME Init PROVE IInv
  OBVIOUS
<1>1. op.kind = "none" /\ op.at = "idle" /\ op.password = NoPassword /\ op.config = NoConfig
  BY DEF Init, NoOperation
<1>2. op \in Operations
  BY DEF Init, NoOperation, Operations, Place, Secret
<1>3. << >> \in Configs
  <2>1. << >> \in [{} -> Content]
    OBVIOUS
  <2> QED
    BY <2>1, ConfigsIntro
<1>4. DOMAIN context = {} /\ DOMAIN disk = {}
  BY DEF Init
<1>5. TypeOK
  BY <1>1, <1>2, <1>3 DEF Init, TypeOK, Listed, Operations, Secret
<1> QED
  BY <1>1, <1>4, <1>5 DEF IInv, SuccessSettles, PasswordGiven, SavedBeforePassword,
     AddedPresent, DeletedHasNoPassword, AddIsNoDelete

LEMMA AddConnectionKeeps ==
    ASSUME IInv, NEW c \in Config, NEW password \in Secret, AddConnection(c, password)
    PROVE  IInv'
<1>1. NextOperation("add", c, password, "save")
  BY OperationBegins DEF AddConnection, Place, Call
<1>2. context' \in Configs /\ DOMAIN context' = DOMAIN context \cup {c}
  <2>1. [fields |-> 0, credentialKeyRef |-> FALSE] \in Content
    BY DEF Content
  <2> QED
    BY <2>1, WithTyped DEF AddConnection, IInv, TypeOK
<1>3. UNCHANGED <<faults, disk, keychain, connections, recentConnections, searchResults>>
  BY DEF AddConnection, stored, lists
<1>4. TypeOK'
  BY <1>1, <1>2, <1>3 DEF IInv, TypeOK, Listed, NextOperation, Operations
<1>5. DeletedHasNoPassword'
  BY <1>2, <1>3 DEF IInv, DeletedHasNoPassword
<1> QED
  BY <1>1, <1>2, <1>4, <1>5 DEF IInv, NextOperation, SuccessSettles, PasswordGiven,
     SavedBeforePassword, AddedPresent, AddIsNoDelete

LEMMA UpdateConnectionKeeps ==
    ASSUME IInv, NEW c \in Config, NEW password \in Secret, UpdateConnection(c, password)
    PROVE  IInv'
<1>1. NextOperation("update", c, password, "save")
  BY OperationBegins DEF UpdateConnection, Place, Call
<1>2. EditedTyped(context')
  <2>1. PICK fields \in {0, 1} : context' = Edited(c, "fields", fields)
    BY DEF UpdateConnection
  <2> QED
    BY <2>1, EditKeeps DEF IInv, TypeOK
<1>3. UNCHANGED <<faults, disk, keychain, connections, recentConnections, searchResults>>
  BY DEF UpdateConnection, stored, lists
<1>4. TypeOK'
  BY <1>1, <1>2, <1>3 DEF IInv, TypeOK, Listed, NextOperation, Operations, EditedTyped
<1>5. DeletedHasNoPassword'
  BY <1>2, <1>3 DEF IInv, DeletedHasNoPassword, EditedTyped
<1> QED
  BY <1>1, <1>4, <1>5 DEF IInv, NextOperation, SuccessSettles, PasswordGiven,
     SavedBeforePassword, AddedPresent, AddIsNoDelete

LEMMA DeleteConnectionKeeps ==
    ASSUME IInv, NEW c \in Config, DeleteConnection(c)
    PROVE  IInv'
<1>1. NextOperation("delete", c, NoPassword, "SecItemDelete")
  BY OperationBegins DEF DeleteConnection, Place, Call, Secret
<1>2. UNCHANGED <<faults, context, disk, keychain, connections, recentConnections, searchResults>>
  BY DEF DeleteConnection, stored, lists
<1>3. TypeOK'
  BY <1>1, <1>2 DEF IInv, TypeOK, Listed, NextOperation, Operations
<1>4. DeletedHasNoPassword'
  BY <1>2 DEF IInv, DeletedHasNoPassword
<1> QED
  BY <1>1, <1>3, <1>4 DEF IInv, NextOperation, SuccessSettles, PasswordGiven,
     SavedBeforePassword, AddedPresent, AddIsNoDelete

LEMMA MarkAsConnectedKeeps ==
    ASSUME IInv, MarkAsConnected
    PROVE  IInv'
<1>1. NextOperation("mark", NoConfig, NoPassword, "save")
  BY OperationBegins DEF MarkAsConnected, Place, Call, Secret
<1>2. EditedTyped(context')
  <2>1. CASE \E c \in Listed, fields \in {0, 1} : context' = Edited(c, "fields", fields)
    <3>1. PICK c \in Listed, fields \in {0, 1} : context' = Edited(c, "fields", fields)
      BY <2>1
    <3> QED
      BY <3>1, EditKeeps DEF IInv, TypeOK
  <2>2. CASE context' = context
    BY <2>2 DEF EditedTyped, IInv, TypeOK
  <2> QED
    BY <2>1, <2>2 DEF MarkAsConnected
<1>3. UNCHANGED <<faults, disk, keychain, connections, recentConnections, searchResults>>
  BY DEF MarkAsConnected, stored, lists
<1>4. TypeOK'
  BY <1>1, <1>2, <1>3 DEF IInv, TypeOK, Listed, NextOperation, Operations, EditedTyped
<1>5. DeletedHasNoPassword'
  BY <1>2, <1>3 DEF IInv, DeletedHasNoPassword, EditedTyped
<1> QED
  BY <1>1, <1>4, <1>5 DEF IInv, NextOperation, SuccessSettles, PasswordGiven,
     SavedBeforePassword, AddedPresent, AddIsNoDelete

LEMMA ListAppearsKeeps ==
    ASSUME IInv, ListAppears
    PROVE  IInv'
<1>1. NextOperation("load", NoConfig, NoPassword, "fetch")
  BY OperationBegins DEF ListAppears, Place, Call, Secret
<1>2. UNCHANGED <<faults, context, disk, keychain, connections, recentConnections, searchResults>>
  BY DEF ListAppears, stored, lists
<1>3. TypeOK'
  BY <1>1, <1>2 DEF IInv, TypeOK, Listed, NextOperation, Operations
<1>4. DeletedHasNoPassword'
  BY <1>2 DEF IInv, DeletedHasNoPassword
<1> QED
  BY <1>1, <1>3, <1>4 DEF IInv, NextOperation, SuccessSettles, PasswordGiven,
     SavedBeforePassword, AddedPresent, AddIsNoDelete

LEMMA PerformSearchKeeps ==
    ASSUME IInv, PerformSearch
    PROVE  IInv'
<1>1. searchResults' \subseteq Config
  BY ConfigsElim DEF PerformSearch, IInv, TypeOK
<1>2. UNCHANGED <<faults, context, disk, keychain, connections, recentConnections, op>>
  BY DEF PerformSearch, stored
<1> QED
  BY <1>1, <1>2 DEF IInv, TypeOK, Listed, SuccessSettles, PasswordGiven,
     SavedBeforePassword, AddedPresent, AddIsNoDelete, DeletedHasNoPassword

LEMMA ClearAllPasswordsKeeps ==
    ASSUME IInv, ClearAllPasswords
    PROVE  IInv'
<1>1. UNCHANGED <<faults, context, disk, connections, recentConnections, searchResults, op>>
  BY DEF ClearAllPasswords, lists
<1>2. keychain' \in [Config -> Secret]
  BY DEF ClearAllPasswords, IInv, TypeOK, Secret
<1>3. DeletedHasNoPassword'
  <2> SUFFICES ASSUME "SecItemDelete" \notin faults, NEW c \in DOMAIN disk \ DOMAIN context
               PROVE  keychain'[c] = NoPassword
    BY <1>1 DEF DeletedHasNoPassword
  <2>1. c \in Config
    BY ConfigsElim DEF IInv, TypeOK
  <2> QED
    BY <2>1 DEF ClearAllPasswords
<1> QED
  BY <1>1, <1>2, <1>3 DEF IInv, TypeOK, Listed, SuccessSettles, PasswordGiven,
     SavedBeforePassword, AddedPresent, AddIsNoDelete

(* What fails, leaves everything but the operation as it is.                *)
LEMMA OnlyOperationChanges ==
    ASSUME IInv, UNCHANGED <<faults, context, disk, keychain, lists>>,
           NextOperation(op.kind, op.config, op.password, "failed")
    PROVE  IInv'
<1>1. TypeOK'
  BY DEF IInv, TypeOK, Listed, lists, NextOperation, Operations
<1> QED
  BY <1>1 DEF IInv, lists, NextOperation, SuccessSettles, PasswordGiven,
     SavedBeforePassword, AddedPresent, AddIsNoDelete, DeletedHasNoPassword

LEMMA FailsKeeps ==
    ASSUME IInv, NEW call \in Call, Fails(call)
    PROVE  IInv'
<1>1. NextOperation(op.kind, op.config, op.password, "failed")
  BY OperationGoesOn DEF Fails, IInv, TypeOK, Operations, Place
<1> QED
  BY <1>1, OnlyOperationChanges DEF Fails, stored, lists

LEMMA PasswordIsDuplicateKeeps ==
    ASSUME IInv, PasswordIsDuplicate
    PROVE  IInv'
<1>1. NextOperation(op.kind, op.config, op.password, "failed")
  BY OperationGoesOn DEF PasswordIsDuplicate, IInv, TypeOK, Operations, Place
<1> QED
  BY <1>1, OnlyOperationChanges DEF PasswordIsDuplicate, stored, lists

LEMMA SaveKeeps ==
    ASSUME IInv, Save
    PROVE  IInv'
<1> DEFINE next == IF op.password # NoPassword THEN "SecItemDelete" ELSE "fetch"
<1>1. NextOperation(op.kind, op.config, op.password, next)
  <2>1. next \in Place /\ GoesOn(next) /\ op \in Operations
    BY DEF Save, Place, Call, IInv, TypeOK, Operations
  <2> QED
    BY <2>1, OperationGoesOn
<1>2. /\ UNCHANGED <<faults, context, keychain, connections, recentConnections, searchResults>>
      /\ disk' = context
  BY DEF Save, lists
<1>3. op.password # NoPassword => op.password \in Password /\ op.config \in Config
  BY DEF IInv, TypeOK, PasswordGiven, Secret
<1>4. TypeOK'
  BY <1>1, <1>2, <1>3 DEF IInv, TypeOK, Listed, NextOperation, Operations
<1>5. DeletedHasNoPassword'
  BY <1>2 DEF DeletedHasNoPassword
<1>6. PasswordGiven'
  BY <1>1, <1>3 DEF IInv, PasswordGiven, NextOperation
<1>7. AddedPresent' /\ AddIsNoDelete'
  BY <1>1, <1>2 DEF IInv, Save, AddedPresent, AddIsNoDelete, NextOperation
<1>8. SuccessSettles' /\ SavedBeforePassword'
  BY <1>1, <1>2 DEF SuccessSettles, SavedBeforePassword, NextOperation
<1> QED
  BY <1>4, <1>5, <1>6, <1>7, <1>8 DEF IInv

LEMMA DeletePasswordKeeps ==
    ASSUME IInv, DeletePassword
    PROVE  IInv'
<1>1. UNCHANGED <<faults, disk, connections, recentConnections, searchResults>>
  BY DEF DeletePassword, lists
<1>2. op.config \in Config /\ op \in Operations /\ op.at = "SecItemDelete"
  BY DEF DeletePassword, IInv, TypeOK, Operations
<1>3. keychain' \in [Config -> Secret]
  BY <1>2 DEF DeletePassword, IInv, TypeOK, Secret
<1>4. "SecItemDelete" \notin faults =>
         /\ keychain'[op.config] = NoPassword
         /\ \A c \in Config : keychain[c] = NoPassword => keychain'[c] = NoPassword
  BY <1>2 DEF DeletePassword, IInv, TypeOK
<1>5. DOMAIN disk \subseteq Config
  BY ConfigsElim DEF IInv, TypeOK
<1>6. CASE op.kind = "delete"
  <2>1. NextOperation(op.kind, op.config, op.password, "save")
    BY <1>2, <1>6, OperationGoesOn DEF DeletePassword, Place, Call
  <2>2. context' \in Configs /\ DOMAIN context' = DOMAIN context \ {op.config}
    BY <1>6, WithoutTyped DEF DeletePassword, IInv, TypeOK
  <2>3. DeletedHasNoPassword'
    BY <1>1, <1>4, <1>5, <2>2 DEF IInv, DeletedHasNoPassword
  <2>4. TypeOK'
    BY <1>1, <1>3, <2>1, <2>2 DEF IInv, TypeOK, Listed, NextOperation, Operations
  <2> QED
    BY <1>6, <2>1, <2>3, <2>4 DEF IInv, NextOperation, SuccessSettles, PasswordGiven,
       SavedBeforePassword, AddedPresent, AddIsNoDelete
<1>7. CASE op.kind # "delete"
  <2>1. NextOperation(op.kind, op.config, op.password, "SecItemAdd")
    BY <1>2, <1>7, OperationGoesOn DEF DeletePassword, Place, Call
  <2>2. context' = context
    BY <1>7 DEF DeletePassword
  <2>3. op.password \in Password
    BY <1>2, <1>7 DEF IInv, PasswordGiven
  <2>4. DeletedHasNoPassword'
    BY <1>1, <1>4, <1>5, <2>2 DEF IInv, DeletedHasNoPassword
  <2>5. TypeOK'
    BY <1>1, <1>2, <1>3, <2>1, <2>2, <2>3 DEF IInv, TypeOK, Listed, NextOperation, Operations
  <2> QED
    BY <1>1, <1>2, <1>7, <2>1, <2>2, <2>3, <2>4, <2>5 DEF IInv, NextOperation,
       SuccessSettles, PasswordGiven, SavedBeforePassword, AddedPresent, AddIsNoDelete
<1> QED
  BY <1>6, <1>7

LEMMA AddPasswordKeeps ==
    ASSUME IInv, AddPassword
    PROVE  IInv'
<1>1. UNCHANGED <<faults, disk, connections, recentConnections, searchResults>>
  BY DEF AddPassword, lists
<1>2. /\ op \in Operations /\ op.at = "SecItemAdd" /\ op.kind # "delete"
      /\ op.config \in Config /\ op.password \in Password /\ disk = context
  BY DEF AddPassword, IInv, TypeOK, Operations, AddIsNoDelete, SavedBeforePassword
<1>3. NextOperation(op.kind, op.config, NoPassword, "save")
  BY <1>2 DEF AddPassword, NextOperation, Operations, Place, Call, Secret
<1>4. EditedTyped(context')
  <2>1. context \in Configs /\ context' = Edited(op.config, "credentialKeyRef", TRUE)
    BY DEF AddPassword, IInv, TypeOK
  <2>2. EditedTyped(Edited(op.config, "credentialKeyRef", TRUE))
    BY <2>1, EditKeeps
  <2> QED
    BY <2>1, <2>2
<1>5. keychain' \in [Config -> Secret]
  BY <1>2 DEF AddPassword, IInv, TypeOK, Secret
<1>6. DeletedHasNoPassword'
  BY <1>1, <1>2, <1>4 DEF DeletedHasNoPassword, EditedTyped
<1>7. TypeOK'
  BY <1>1, <1>3, <1>4, <1>5 DEF IInv, TypeOK, Listed, NextOperation, Operations, EditedTyped
<1>8. AddedPresent'
  BY <1>2, <1>3, <1>4 DEF IInv, AddedPresent, NextOperation, EditedTyped
<1> QED
  BY <1>3, <1>6, <1>7, <1>8 DEF IInv, NextOperation, SuccessSettles, PasswordGiven,
     SavedBeforePassword, AddIsNoDelete

LEMMA LoadConnectionsKeeps ==
    ASSUME IInv, LoadConnections
    PROVE  IInv'
<1>1. /\ UNCHANGED <<faults, context, disk, keychain, recentConnections, searchResults>>
      /\ connections' = DOMAIN context
  BY DEF LoadConnections, stored
<1>2. NextOperation(op.kind, op.config, op.password, "fetchRecent") /\ op.at = "fetch"
  BY OperationGoesOn DEF LoadConnections, IInv, TypeOK, Operations, Place
<1>3. TypeOK'
  BY <1>1, <1>2, ConfigsElim DEF IInv, TypeOK, Listed, NextOperation, Operations
<1>4. SavedBeforePassword'
  BY <1>1, <1>2 DEF IInv, SavedBeforePassword, NextOperation
<1> QED
  BY <1>1, <1>2, <1>3, <1>4 DEF IInv, NextOperation, SuccessSettles, PasswordGiven,
     AddedPresent, AddIsNoDelete, DeletedHasNoPassword

LEMMA LoadRecentKeeps ==
    ASSUME IInv, LoadRecent
    PROVE  IInv'
<1>1. /\ UNCHANGED <<faults, context, disk, keychain, connections, searchResults>>
      /\ recentConnections' \subseteq DOMAIN context
  BY DEF LoadRecent, stored
<1>2. NextOperation(op.kind, op.config, op.password, "done") /\ op.at = "fetchRecent"
  BY OperationGoesOn DEF LoadRecent, IInv, TypeOK, Operations, Place
<1>3. TypeOK'
  BY <1>1, <1>2, ConfigsElim DEF IInv, TypeOK, Listed, NextOperation, Operations
<1>4. SuccessSettles'
  BY <1>1, <1>2 DEF IInv, SavedBeforePassword, SuccessSettles, NextOperation
<1> QED
  BY <1>1, <1>2, <1>3, <1>4 DEF IInv, NextOperation, PasswordGiven,
     SavedBeforePassword, AddedPresent, AddIsNoDelete, DeletedHasNoPassword

LEMMA LoadRecentFailsKeeps ==
    ASSUME IInv, LoadRecentFails
    PROVE  IInv'
<1>1. NextOperation(op.kind, op.config, op.password, "failed")
  BY OperationGoesOn DEF LoadRecentFails, IInv, TypeOK, Operations, Place
<1> QED
  BY <1>1, OnlyOperationChanges DEF LoadRecentFails, stored, lists

LEMMA AutosaveKeeps ==
    ASSUME IInv, Autosave
    PROVE  IInv'
<1>1. /\ UNCHANGED <<faults, context, keychain, connections, recentConnections, searchResults, op>>
      /\ disk' = context /\ Idle
  BY DEF Autosave, lists
<1>2. SuccessSettles'
  BY <1>1 DEF IInv, SuccessSettles
<1> QED
  BY <1>1, <1>2 DEF IInv, Idle, TypeOK, Listed, PasswordGiven, SavedBeforePassword,
     AddedPresent, AddIsNoDelete, DeletedHasNoPassword

LEMMA RestartKeeps ==
    ASSUME IInv, Restart
    PROVE  IInv'
<1>1. UNCHANGED <<faults, disk, keychain>> /\ context' = disk
  BY DEF Restart, stored
<1>2. NextOperation("none", NoConfig, NoPassword, "idle")
  BY DEF Restart, NoOperation, NextOperation, Operations, Place, Secret
<1>3. TypeOK'
  BY <1>1, <1>2 DEF Restart, IInv, TypeOK, Listed, NextOperation, Operations
<1> QED
  BY <1>1, <1>2, <1>3 DEF IInv, NextOperation, SuccessSettles, PasswordGiven,
     SavedBeforePassword, AddedPresent, AddIsNoDelete, DeletedHasNoPassword

LEMMA NextKeeps == IInv /\ [Next]_vars => IInv'
<1> SUFFICES ASSUME IInv, [Next]_vars PROVE IInv'
  OBVIOUS
<1>1. ASSUME NEW c \in Config, NEW password \in Secret, AddConnection(c, password)
      PROVE  IInv'
  BY <1>1, AddConnectionKeeps
<1>2. ASSUME NEW c \in Config, NEW password \in Secret, UpdateConnection(c, password)
      PROVE  IInv'
  BY <1>2, UpdateConnectionKeeps
<1>3. ASSUME NEW c \in Config, DeleteConnection(c) PROVE IInv'
  BY <1>3, DeleteConnectionKeeps
<1>4. CASE MarkAsConnected
  BY <1>4, MarkAsConnectedKeeps
<1>5. CASE ListAppears
  BY <1>5, ListAppearsKeeps
<1>6. CASE PerformSearch
  BY <1>6, PerformSearchKeeps
<1>7. CASE ClearAllPasswords
  BY <1>7, ClearAllPasswordsKeeps
<1>8. CASE Operation
  <2>1. ASSUME NEW call \in {"save", "fetch", "SecItemAdd"}, Fails(call) PROVE IInv'
    <3>1. call \in Call
      BY DEF Call
    <3> QED
      BY <2>1, <3>1, FailsKeeps
  <2> QED
    BY <1>8, <2>1, SaveKeeps, DeletePasswordKeeps, AddPasswordKeeps,
       PasswordIsDuplicateKeeps, LoadConnectionsKeeps, LoadRecentKeeps, LoadRecentFailsKeeps
       DEF Operation
<1>9. CASE Autosave
  BY <1>9, AutosaveKeeps
<1>10. CASE Restart
  BY <1>10, RestartKeeps
<1>11. CASE UNCHANGED vars
  BY <1>11 DEF vars, stored, lists, IInv, TypeOK, Listed, SuccessSettles, PasswordGiven,
     SavedBeforePassword, AddedPresent, DeletedHasNoPassword, AddIsNoDelete
<1> QED
  BY <1>1, <1>2, <1>3, <1>4, <1>5, <1>6, <1>7, <1>8, <1>9, <1>10, <1>11 DEF Next

(* The conjunction the other results are read from: nothing is pending      *)
(* between an operation's save and its end, and what is pending to be       *)
(* deleted has lost its password (addConnection to deleteConnection of      *)
(* ConnectionManagerViewModel.swift).                                       *)
THEOREM Invariance == Spec => []IInv
<1> QED
  BY InitHolds, NextKeeps, PTL DEF Spec

(* Every variable has the values the code can give it, for any number of    *)
(* configurations and passwords.                                            *)
THEOREM TypeCorrectness == Spec => []TypeOK
<1>1. IInv => TypeOK
  BY DEF IInv
<1> QED
  BY <1>1, Invariance, PTL

(* After an operation that saves and reports no error the list, the context *)
(* and the disk agree (ConnectionManagerViewModel.swift:91-136).            *)
THEOREM Settles == Spec => []SuccessSettles
<1>1. IInv => SuccessSettles
  BY DEF IInv
<1> QED
  BY <1>1, Invariance, PTL

(* How a password and a configuration come and go, step by step.            *)
LEMMA PasswordsComeFromAdd ==
    ASSUME IInv, [Next]_vars, NEW c \in Config, keychain[c] = NoPassword,
           keychain'[c] # NoPassword
    PROVE  AddPassword /\ op.config = c
<1>1. keychain \in [Config -> Secret]
  BY DEF IInv, TypeOK
<1>2. keychain' # keychain
  OBVIOUS
<1>3. ~ClearAllPasswords
  BY DEF ClearAllPasswords
<1>4. ~DeletePassword
  BY <1>1 DEF DeletePassword
<1>5. AddPassword
  BY <1>2, <1>3, <1>4 DEF Next, vars, stored, lists, Operation, AddConnection, UpdateConnection,
     DeleteConnection, MarkAsConnected, ListAppears, PerformSearch, Fails, Save,
     PasswordIsDuplicate, LoadConnections, LoadRecent, LoadRecentFails, Autosave, Restart
<1> QED
  BY <1>1, <1>5 DEF AddPassword

LEMMA DiskFollowsContext ==
    ASSUME [Next]_vars
    PROVE  disk' = disk \/ (disk' = context /\ keychain' = keychain)
BY DEF Next, vars, stored, lists, Operation, AddConnection, UpdateConnection,
     DeleteConnection, MarkAsConnected, ListAppears, PerformSearch, ClearAllPasswords, Fails,
     Save, DeletePassword, AddPassword, PasswordIsDuplicate, LoadConnections, LoadRecent,
     LoadRecentFails, Autosave, Restart

(* With a keychain that deletes what it is told to, a password is left      *)
(* without its configuration by the edit of a deleted configuration and by  *)
(* nothing else: no failure, no autosave and no restart in the middle of an *)
(* operation does it (ConnectionStorageService.swift:52-62,                 *)
(* ConnectionManagerViewModel.swift:91-122).                                *)
THEOREM OrphansComeFromEdits == Spec => OrphanedByEditOnly
<1> DEFINE Edit(c) == /\ op.kind = "update" /\ op.config = c /\ op.at = "SecItemAdd"
                      /\ c \notin DOMAIN context
<1>1. ASSUME IInv, [Next]_vars, NEW c \in Config, ~Orphaned(c), Orphaned(c)',
             "SecItemDelete" \notin faults
      PROVE  Edit(c)
  <2>1. CASE keychain[c] = NoPassword
    <3>1. AddPassword /\ op.config = c
      BY <1>1, <2>1, PasswordsComeFromAdd DEF Orphaned
    <3>2. op.at = "SecItemAdd" /\ disk' = disk /\ op.password # NoPassword
      BY <1>1, <3>1, ConstantAssumption DEF AddPassword, IInv, TypeOK
    <3>3. disk = context /\ op.kind \in {"add", "update"}
      BY <1>1, <3>2 DEF IInv, SavedBeforePassword, PasswordGiven
    <3>4. c \notin DOMAIN context
      BY <1>1, <3>2, <3>3 DEF Orphaned
    <3> QED
      BY <1>1, <3>1, <3>2, <3>3, <3>4 DEF IInv, AddedPresent
  <2>2. CASE keychain[c] # NoPassword
    <3>1. c \in DOMAIN disk /\ c \notin DOMAIN disk' /\ keychain'[c] # NoPassword
      BY <1>1, <2>2 DEF Orphaned
    <3>2. disk' = context /\ keychain' = keychain
      BY <1>1, <3>1, DiskFollowsContext
    <3>3. c \in DOMAIN disk \ DOMAIN context
      BY <3>1, <3>2
    <3> QED
      BY <1>1, <2>2, <3>3 DEF IInv, DeletedHasNoPassword
  <2> QED
    BY <2>1, <2>2
<1>2. IInv /\ [Next]_vars =>
         [\A c \in Config : ~Orphaned(c) /\ Orphaned(c)' /\ "SecItemDelete" \notin faults =>
             Edit(c)]_vars
  BY <1>1
<1> QED
  BY <1>2, Invariance, PTL DEF Spec, OrphanedByEditOnly

=============================================================================
