---------------------------- MODULE AccountSwitch ----------------------------
(***************************************************************************)
(* Switching the editor to another account: the requests that users and    *)
(* the monitor make, the flows of cloud and local accounts under the       *)
(* switch guard, the profile they apply, the login they write into the     *)
(* editor, and the rows and settings that say which account is active.     *)
(* A step of a flow is what the code does between two awaits.  Tokens are  *)
(* left out: of a refresh only its failure matters here.                   *)
(***************************************************************************)
EXTENDS SwitchGuard, IdentityProfile

CONSTANTS
  CredStore,  \* the targets whose login is kept in the credential store
  InitActive, \* the accounts that may be the active one at first
  StepFaults, \* the other operations that may fail, once they are called
  MaxAsks,    \* bound: switches that users ask for
  MaxFaults,  \* bound: failing operations in a behaviour
  MaxDeletes, \* bound: accounts that are deleted
  MaxApplies  \* bound: profiles applied outside the guard

\* Of the flows, and of the monitor: a quota, a status, the list of the accounts
\* and a setting.
StepFaultKinds ==
  {"prepare", "refreshCache", "backup", "inject", "record", "restore", "launch",
   "fetch", "status", "list", "setting"}

FlowStages == {"start", "setup", "prepare", "refreshCache", "close", "apply", "backup", "launch"}

ASSUME SwitchAssumption ==
  /\ Stages = FlowStages
  /\ CredStore \subseteq {"classic"}
  /\ InitActive \subseteq Accounts \cup {NoAccount}
  /\ StepFaults \subseteq StepFaultKinds
  /\ {MaxAsks, MaxFaults, MaxDeletes, MaxApplies} \subseteq Nat
  /\ Tasks \subseteq Nat

VARIABLES
  task,      \* what each task was asked for, and what became of it
  rows,      \* the accounts table: status and quota of each cloud account
  exists,    \* the accounts of the table and of the local index
  archives,  \* the backup files of the local accounts
  bound,     \* the cloud accounts with a device profile
  active,    \* the cloud account whose row has is_active
  recorded,  \* the setting with the active account of each target
  cred,      \* the login in the credential store
  strayed,   \* history: targets whose login was last changed by a local account
             \* or by an operation that failed
  faults, ipcApplies

storeVars == <<rows, exists, archives, bound, active, recorded, cred, strayed>>
counts == <<faults, ipcApplies>>
switchVars == <<guardVars, profileVars, task, storeVars, counts>>

Statuses == {"active", "rate_limited", "expired"}
Quotas == {"none", "low", "ok"}
Row(status, quota) == [status |-> status, quota |-> quota]

\* by: who asked; applies: applyFingerprint; index: the local accounts that the
\* flow read; ok: the promise was fulfilled.
NoTask ==
  [by |-> "no one", account |-> NoAccount, target |-> "none", applies |-> FALSE,
   index |-> {}, ok |-> FALSE]

SwitchInit ==
  /\ GuardInit /\ ProfileInit
  /\ task = [t \in Tasks |-> NoTask]
  /\ rows = [a \in Accounts |-> Row("active", "none")]
  /\ exists = Accounts \cup Locals
  /\ archives = Locals
  /\ bound = {}
  /\ active \in InitActive
  /\ recorded = [g \in Targets |-> NoAccount]
  /\ cred = NoAccount
  /\ strayed = {}
  /\ faults = 0 /\ ipcApplies = 0

Login(g) == IF g \in CredStore THEN cred ELSE files[g].db.login

\* After spent faults, one more operation fails, or works.
Works(spent) == faults' = spent /\ ipcApplies' = ipcApplies
FaultAfter(spent, kind) == kind \in StepFaults /\ spent < MaxFaults /\ Works(spent + 1)
Fault(kind) == FaultAfter(faults, kind)

\* The operations that may fail in an apply to the files f within the bound.
ApplyChoices(f) == {F \in FaultSets : Cardinality(F) <= MaxFaults - faults /\ Called(f, F)}

\* The promise of task t is fulfilled or rejected.
Done(t, ok) == Settle(t) /\ task' = [task EXCEPT ![t].ok = ok]

----------------------------------------------------------------------------
\* switchCloudAccount and switchAccount are called, by a user or the monitor.
Ask(t, who, a, g) ==
  /\ \A u \in Tasks : u < t => pc[u] # "none"
  /\ RunWithSwitchGuard(t)
  /\ task' = [task EXCEPT ![t] = [NoTask EXCEPT !.by = who, !.account = a, !.target = g]]

UserAsks ==
  /\ Cardinality({t \in Tasks : task[t].by = "user"}) < MaxAsks
  /\ \E t \in Tasks, a \in exists, g \in Targets : Ask(t, "user", a, g)
  /\ UNCHANGED <<profileVars, storeVars, counts>>

\* The start of the action: getAccount for a cloud account; a local one waits
\* for the process cache.
Start(t) ==
  /\ pc[t] = "start"
  /\ IF task[t].account \in Accounts \ exists
     THEN Done(t, FALSE)
     ELSE GoOn(t, "setup") /\ UNCHANGED task
  /\ UNCHANGED <<profileVars, storeVars, counts>>

\* A cloud account without a device profile gets one, if its row is still
\* there; then its token is refreshed.
SetupCloud(t) ==
  /\ pc[t] = "setup" /\ task[t].account \in Accounts
  /\ LET a == task[t].account IN
     \/ /\ a \in bound \cup exists
        /\ bound' = bound \cup {a}
        /\ GoOn(t, "prepare")
        /\ UNCHANGED task
     \/ /\ a \notin bound \cup exists
        /\ Done(t, FALSE)
        /\ UNCHANGED bound
  /\ UNCHANGED <<profileVars, rows, exists, archives, active, recorded, cred, strayed, counts>>

\* A local account must be in the index and have a backup file.  Whether the
\* profile will be applied is decided here, before the editor is closed.
SetupLocal(t) ==
  /\ pc[t] = "setup" /\ task[t].account \in Locals
  /\ IF task[t].account \in exists \cap archives
     THEN /\ GoOn(t, "refreshCache")
          /\ task' = [task EXCEPT ![t].applies = ~safe, ![t].index = exists \cap Locals]
     ELSE Done(t, FALSE)
  /\ UNCHANGED <<profileVars, storeVars, counts>>

\* The token is refreshed and the enterprise project looked up.  A failed refresh
\* may be classified and kept as the status of the account.
Prepare(t) ==
  /\ pc[t] = "prepare"
  /\ LET a == task[t].account IN
     \/ /\ Works(faults)
        /\ GoOn(t, "close")
        /\ task' = [task EXCEPT ![t].applies = ~safe]
        /\ UNCHANGED rows
     \/ /\ Fault("prepare")
        /\ Done(t, FALSE)
        /\ \E s \in {rows[a].status, "rate_limited", "expired"} :
             rows' = IF a \in exists THEN [rows EXCEPT ![a].status = s] ELSE rows
  /\ UNCHANGED <<profileVars, exists, archives, bound, active, recorded, cred, strayed>>

\* executeSwitchFlow: the process cache is refreshed for a local account.
RefreshCache(t) ==
  /\ pc[t] = "refreshCache"
  /\ \/ Works(faults) /\ GoOn(t, "close") /\ UNCHANGED task
     \/ Fault("refreshCache") /\ Done(t, FALSE)
  /\ UNCHANGED <<profileVars, storeVars>>

\* closeAntigravity never fails, and a process that does not exit in time is
\* tolerated.
Close(t) ==
  /\ pc[t] = "close"
  /\ GoOn(t, "apply")
  /\ UNCHANGED <<profileVars, task, storeVars, counts>>

\* setActive: no row is active, then the row of the account, if there is one.
SetActive(a) == active' = IF a \in exists THEN a ELSE NoAccount

\* The login of account a is written to target g with the files f.
Inject(g, f, a) ==
  IF g \in CredStore
  THEN cred' = a /\ files' = [files EXCEPT ![g] = f]
  ELSE cred' = cred /\ files' = [files EXCEPT ![g] = [f EXCEPT !.db.login = a]]

\* Mutant: the account is recorded before its login is written.
RecordedBefore(g, a) == recorded' = [recorded EXCEPT ![g] = a]

\* What the injection leaves recorded when it fails.
NotRecorded(g, a) == UNCHANGED recorded

\* performSwitch of a cloud account on a target with the files f: the login is
\* written, then the account is recorded as the active one and its status reset;
\* the first statement of these that fails ends it.
PerformCloud(t, f, spent) ==
  LET a == task[t].account
      g == task[t].target
  IN
  /\ \/ /\ FaultAfter(spent, "inject") \/ (g \notin CredStore /\ f.db = Missing /\ Works(spent))
        /\ files' = [files EXCEPT ![g] = f]
        /\ Done(t, FALSE)
        /\ NotRecorded(g, a)
        /\ UNCHANGED <<rows, active, cred, strayed>>
     \/ /\ g \in CredStore \/ f.db # Missing
        /\ FaultAfter(spent, "record")
        /\ Inject(g, f, a)
        /\ \/ /\ SetActive(a) \/ UNCHANGED active
              /\ strayed' = strayed \cup {g}
              /\ UNCHANGED recorded
           \/ /\ SetActive(a)
              /\ recorded' = [recorded EXCEPT ![g] = a]
              /\ strayed' = strayed \ {g}
        /\ Done(t, FALSE)
        /\ UNCHANGED rows
     \/ /\ g \in CredStore \/ f.db # Missing
        /\ Works(spent)
        /\ Inject(g, f, a)
        /\ SetActive(a)
        /\ recorded' = [recorded EXCEPT ![g] = a]
        /\ rows' = IF a \in exists THEN [rows EXCEPT ![a].status = "active"] ELSE rows
        /\ strayed' = strayed \ {g}
        /\ GoOn(t, "launch") /\ UNCHANGED task
  /\ UNCHANGED <<exists, archives, bound>>

\* performSwitch of a local account: the saved login is restored, into an older
\* state.vscdb.backup too, and the index read before the flow is saved.  One
\* database that was restored is enough.
PerformLocal(t, f, spent) ==
  LET a == task[t].account
      g == task[t].target
      there == {file \in {"db", "backup"} : f[file] # Missing}
      possible == a \in archives /\ (g \in CredStore \/ there # {})
      restored(part) ==
        [f EXCEPT !.db.login = IF "db" \in part THEN a ELSE @,
                  !.backup.login = IF "backup" \in part THEN a ELSE @]
  IN
  /\ \/ /\ FaultAfter(spent, "restore") \/ (~possible /\ Works(spent))
        /\ files' = [files EXCEPT ![g] = f]
        /\ Done(t, FALSE)
        /\ UNCHANGED <<exists, cred, strayed>>
     \/ /\ possible
        /\ \/ /\ g \in CredStore /\ Works(spent)
              /\ cred' = a /\ files' = [files EXCEPT ![g] = f]
           \/ /\ g \notin CredStore /\ cred' = cred
              /\ \E part \in SUBSET there \ {{}} :
                   /\ IF part = there THEN Works(spent) ELSE FaultAfter(spent, "restore")
                   /\ files' = [files EXCEPT ![g] = restored(part)]
        /\ exists' = (exists \ Locals) \cup task[t].index
        /\ strayed' = strayed \cup {g}
        /\ GoOn(t, "launch") /\ UNCHANGED task
  /\ UNCHANGED <<rows, archives, bound, active, recorded>>

\* A failed apply that did not put back what it found may have changed the login
\* of target g, unless that is kept elsewhere.
StrayedBy(g, outcome) ==
  IF g \in CredStore \/ outcome \in {"applied", "restored"} THEN strayed ELSE strayed \cup {g}

\* The profile is applied, unless that is switched off.  A failure ends the
\* flow; else performSwitch follows at once, but for the copy of the database
\* that a cloud account waits for.
ApplyStep(t) ==
  /\ pc[t] = "apply"
  /\ LET a == task[t].account
         g == task[t].target
     IN \E F \in IF task[t].applies THEN ApplyChoices(files[g]) ELSE {{}} :
          LET f == IF task[t].applies THEN ApplyEnd(g, a, F).files ELSE files[g]
              spent == faults + Cardinality(F)
          IN
          /\ IF task[t].applies THEN ApplyMarks(g, a, F)
             ELSE UNCHANGED <<good, failures, safe, torn, unread>>
          /\ \/ /\ ~Applied(F)
                /\ Done(t, FALSE)
                /\ files' = [files EXCEPT ![g] = f]
                /\ strayed' = StrayedBy(g, ApplyEnd(g, a, F).outcome)
                /\ Works(spent)
                /\ UNCHANGED <<rows, exists, archives, bound, active, recorded, cred>>
             \/ /\ Applied(F) /\ a \in Accounts /\ g \notin CredStore
                /\ GoOn(t, "backup")
                /\ files' = [files EXCEPT ![g] = f]
                /\ Works(spent)
                /\ UNCHANGED <<task, storeVars>>
             \/ Applied(F) /\ a \in Accounts /\ g \in CredStore /\ PerformCloud(t, f, spent)
             \/ Applied(F) /\ a \in Locals /\ PerformLocal(t, f, spent)

\* The database has been copied to state.vscdb.backup, or the copy failed, which
\* is only logged; the copy stays there.
Backup(t) ==
  /\ pc[t] = "backup"
  /\ LET f == files[task[t].target] IN
     \/ PerformCloud(t, [f EXCEPT !.backup = IF f.db = Missing THEN @ ELSE f.db], faults)
     \/ /\ "backup" \in StepFaults /\ faults < MaxFaults
        /\ PerformCloud(t, f, faults + 1)
  /\ UNCHANGED <<good, failures, safe, torn, unread>>

Launch(t) ==
  /\ pc[t] = "launch"
  /\ \/ Works(faults) /\ Done(t, TRUE)
     \/ Fault("launch") /\ Done(t, FALSE)
  /\ UNCHANGED <<profileVars, storeVars>>

\* The guard is released and the next flow starts.
ReleaseStep(t) == Release(t) /\ UNCHANGED <<profileVars, task, storeVars, counts>>

FlowStep(t) ==
  \/ Start(t) \/ SetupCloud(t) \/ SetupLocal(t) \/ Prepare(t) \/ RefreshCache(t)
  \/ Close(t) \/ ApplyStep(t) \/ Backup(t) \/ Launch(t) \/ ReleaseStep(t)

----------------------------------------------------------------------------
(* What runs beside the guard *)

\* deleteCloudAccount and deleteAccount: a setting that names it is kept.
DeleteAccount ==
  /\ Cardinality((Accounts \cup Locals) \ exists) < MaxDeletes
  /\ \E a \in exists :
       /\ exists' = exists \ {a}
       /\ archives' = archives \ {a}
       /\ active' = IF active = a THEN NoAccount ELSE active
  /\ UNCHANGED <<guardVars, profileVars, task, rows, bound, recorded, cred, strayed, counts>>

\* bindIdentityProfile, applyBoundIdentityProfile and restoreIdentityProfileRevision
\* of a local account: its profile, or the original one, is applied to the classic
\* editor at once, outside the guard and in safe mode too.
ApplyProfileOfLocal ==
  /\ ipcApplies < MaxApplies /\ ipcApplies' = ipcApplies + 1
  /\ \E a \in Locals \cap exists, F \in ApplyChoices(files["classic"]) :
     \E p \in {a, "original"} :
       /\ files' = [files EXCEPT !["classic"] = ApplyEnd("classic", p, F).files]
       /\ ApplyMarks("classic", p, F)
       /\ faults' = faults + Cardinality(F)
       /\ strayed' = StrayedBy("classic", ApplyEnd("classic", p, F).outcome)
  /\ UNCHANGED <<guardVars, task, rows, exists, archives, bound, active, recorded, cred>>

Beside ==
  \/ DeleteAccount \/ ApplyProfileOfLocal
  \/ SafeModeEnds /\ UNCHANGED <<guardVars, task, storeVars, counts>>

----------------------------------------------------------------------------
TaskType ==
  [by : {"no one", "user", "monitor"}, account : Accounts \cup Locals \cup {NoAccount},
   target : Targets \cup {"none"}, applies : BOOLEAN, index : SUBSET Locals, ok : BOOLEAN]

RowType == [status : Statuses, quota : Quotas]

\* The types, and what is_active and the profiles refer to.
SwitchTypeOK ==
  /\ \A i \in DOMAIN pendingQueue : pendingQueue[i] \in Tasks
  /\ processing \in BOOLEAN
  /\ pc \in [Tasks -> Stages \cup {"none", "queued", "settled", "done"}]
  /\ files \in [Targets -> FilesType]
  /\ good \in SnapshotType
  /\ failures \in 0..SafeThreshold /\ safe \in BOOLEAN
  /\ torn \subseteq Targets /\ unread \subseteq Targets
  /\ task \in [Tasks -> TaskType]
  /\ rows \in [Accounts -> RowType]
  /\ exists \subseteq Accounts \cup Locals /\ archives \subseteq Locals
  /\ bound \subseteq Accounts
  /\ active \in (Accounts \cap exists) \cup {NoAccount}
  /\ recorded \in [Targets -> Accounts \cup {NoAccount}]
  /\ cred \in Accounts \cup Locals \cup {NoAccount}
  /\ strayed \subseteq Targets /\ faults \in 0..MaxFaults

\* applyDeviceProfile: whichever operations of FaultKinds fail, in an apply, its
\* rollback or an earlier snapshot, the profile of a target and the machine id in
\* its database agree, unless the last apply reported that its rollback failed, or
\* it could not read the id that it checked after restoring an older copy or files
\* that did not agree before.  (An id that the editor chose itself is other.)
MachineIdsAgree ==
  \A g \in Targets \ (torn \cup unread) :
    files[g].db.machine # "other" => Agree(files[g].storage, files[g].db.machine, FALSE)

\* The account recorded as active for a target is the one its editor is logged
\* in with, unless since then a local account was put there, the statement that
\* records it failed, or a failed apply put back something older.
RecordedIsLoggedIn ==
  \A g \in Targets \ strayed : recorded[g] \in {NoAccount, Login(g)}
=============================================================================
