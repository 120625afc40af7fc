------------------------- MODULE AccountSwitchProofs -------------------------
(***************************************************************************)
(* What the steps of AccountSwitch keep, for every number of accounts and  *)
(* tasks and any file operations that fail: the types, the agreement of    *)
(* the two machine ids, and the agreement of the recorded account with the *)
(* login.  CloudMonitorProofs puts the steps together.                     *)
(***************************************************************************)
EXTENDS AccountSwitch, SwitchGuardProofs, FiniteSetTheorems

----------------------------------------------------------------------------
(* applyDeviceProfile *)

LEMMA MissingType == Missing \in Dbs
  BY DEF Missing, Dbs, Db

\* The files before a rollback and after it.
LEMMA BackTyped ==
  ASSUME NEW f \in FilesType, NEW p \in Profiles, NEW F
  PROVE  Touched(f, p, F) \in FilesType /\ FromBackup(f, Touched(f, p, F), F) \in FilesType
  <1>1. f.db \in Dbs /\ f.backup \in Dbs /\ f.storage \in Profiles
    BY DEF FilesType
  <1>2. Db(p, f.db.login) \in Dbs
    BY <1>1 DEF Db, Dbs
  <1>3. [f.db EXCEPT !.machine = IF @ = "missing" THEN "unset" ELSE @] \in Dbs
    BY <1>1 DEF Dbs
  <1>4. PICK now : now = Touched(f, p, F)
    OBVIOUS
  <1>5. now \in FilesType
    BY <1>1, <1>2, <1>3, <1>4 DEF Touched, FilesType
  <1>6. FromBackup(f, now, F) \in FilesType
    BY <1>1, <1>5, MissingType DEF FromBackup, FilesType
  <1> QED
    BY <1>4, <1>5, <1>6

\* A rollback whose copies succeed puts back the files as they were, unless it has
\* only an older backup of the database.
LEMMA RestoredSame ==
  ASSUME NEW f \in FilesType, NEW p, NEW F, F \cap {"restoreStorage", "restoreDb"} = {}, ~Older(f, F)
  PROVE  LET back == FromBackup(f, Touched(f, p, F), F)
         IN back.storage = f.storage /\ back.db = f.db
  <1>1. PICK now : now = Touched(f, p, F)
    OBVIOUS
  <1>2. /\ now = [storage |-> now.storage, db |-> now.db, backup |-> now.backup]
        /\ now.backup = IF f.db = Missing \/ ~BackedUp(F) THEN f.backup ELSE f.db
        /\ ~BackedUp(F) => now.db = f.db
    BY <1>1 DEF Touched, Opened, Written
  <1>3. FromBackup(f, now, F) =
          [now EXCEPT !.storage = f.storage,
             !.db = IF f.db = Missing THEN Missing ELSE IF now.backup # Missing THEN now.backup ELSE @]
    BY DEF FromBackup
  <1>4. (IF f.db = Missing THEN Missing ELSE IF now.backup # Missing THEN now.backup ELSE now.db) = f.db
    BY <1>2 DEF Older
  <1>5. FromBackup(f, now, F).storage = f.storage /\ FromBackup(f, now, F).db = f.db
    BY <1>2, <1>3, <1>4
  <1> QED
    BY <1>1, <1>5

\* The files that an apply may leave, and how it reports each.
LEMMA ApplyCases ==
  ASSUME NEW g, NEW p, NEW F, NEW now, now = Touched(files[g], p, F),
         NEW back, back = FromBackup(files[g], now, F)
  PROVE  \E end, outcome :
           /\ ApplyEnd(g, p, F) = [files |-> [end EXCEPT !.backup = Missing], outcome |-> outcome]
           /\ \/ Applied(F) /\ end = now /\ outcome = "applied"
              \/ /\ ~Applied(F) /\ RolledBack(back, F) /\ end = back
                 /\ outcome = IF Older(files[g], F) THEN "older" ELSE "restored"
              \/ /\ ~Applied(F) /\ ~RolledBack(back, F) /\ end = FromGood(back, F)
                 /\ outcome = IF GoodRestored(end, F) THEN "good" ELSE "lost"
  <1> DEFINE end == IF Applied(F) THEN now ELSE IF RolledBack(back, F) THEN back ELSE FromGood(back, F)
             outcome == IF Applied(F) THEN "applied"
                        ELSE IF RolledBack(back, F) THEN IF Older(files[g], F) THEN "older" ELSE "restored"
                        ELSE IF GoodRestored(end, F) THEN "good" ELSE "lost"
  <1>1. ApplyEnd(g, p, F) = [files |-> [end EXCEPT !.backup = Missing], outcome |-> outcome]
    BY DEF ApplyEnd
  <1>2. \/ Applied(F) /\ end = now /\ outcome = "applied"
        \/ /\ ~Applied(F) /\ RolledBack(back, F) /\ end = back
           /\ outcome = IF Older(files[g], F) THEN "older" ELSE "restored"
        \/ /\ ~Applied(F) /\ ~RolledBack(back, F) /\ end = FromGood(back, F)
           /\ outcome = IF GoodRestored(end, F) THEN "good" ELSE "lost"
    OBVIOUS
  <1> HIDE DEF end, outcome
  <1> QED
    BY <1>1, <1>2

LEMMA FromGoodTyped ==
  ASSUME good \in SnapshotType, NEW now \in FilesType, NEW F
  PROVE  FromGood(now, F) \in FilesType
  <1>1. CASE good = NoSnapshot \/ "lastGood" \in F
    BY <1>1 DEF FromGood
  <1>2. CASE ~(good = NoSnapshot \/ "lastGood" \in F)
    <2>1. good \in [storage : Profiles, db : Dbs]
      BY <1>2 DEF SnapshotType
    <2> QED
      BY <1>2, <2>1 DEF FromGood, FilesType
  <1> QED
    BY <1>1, <1>2

\* The files that an apply leaves are typed.
LEMMA ApplyTyped ==
  ASSUME files \in [Targets -> FilesType], good \in SnapshotType,
         NEW g \in Targets, NEW p \in Profiles, NEW F
  PROVE  ApplyEnd(g, p, F).files \in FilesType
  <1>1. PICK now, back : now = Touched(files[g], p, F) /\ back = FromBackup(files[g], now, F)
    OBVIOUS
  <1>2. PICK end, outcome :
          /\ ApplyEnd(g, p, F) = [files |-> [end EXCEPT !.backup = Missing], outcome |-> outcome]
          /\ end \in {now, back, FromGood(back, F)}
    BY <1>1, ApplyCases
  <1>3. now \in FilesType /\ back \in FilesType
    BY <1>1, BackTyped
  <1>4. end \in FilesType
    BY <1>2, <1>3, FromGoodTyped
  <1>5. [end EXCEPT !.backup = Missing] \in FilesType
    BY <1>4, MissingType DEF FilesType
  <1> QED
    BY <1>2, <1>5

\* An id that is read agrees or is not there; a check that finds none that way
\* only passes where none will do.
LEMMA SeenAgrees ==
  ASSUME NEW storage \in Profiles, NEW db, NEW failed \in BOOLEAN, NEW strict \in BOOLEAN,
         Agree(storage, Seen(db, failed), strict), strict \/ ~failed
  PROVE  Agree(storage, db.machine, FALSE)
  <1>1. storage # "unset"
    BY ProfileAssumption DEF Profiles
  <1> QED
    BY <1>1 DEF Agree, Seen

\* An apply leaves ids that agree if they agreed before, unless it reports that its
\* rollback failed or passed its check unread.
LEMMA ApplyAgrees ==
  ASSUME files \in [Targets -> FilesType], good \in SnapshotType, MachineIdsAgree,
         NEW g \in Targets, NEW p \in Profiles, NEW F,
         ApplyEnd(g, p, F).outcome # "lost", ~Unread(g, ApplyEnd(g, p, F).outcome, F),
         ApplyEnd(g, p, F).files.db.machine # "other"
  PROVE  Agree(ApplyEnd(g, p, F).files.storage, ApplyEnd(g, p, F).files.db.machine, FALSE)
  <1>1. PICK now, back : now = Touched(files[g], p, F) /\ back = FromBackup(files[g], now, F)
    OBVIOUS
  <1>2. PICK end, outcome :
          /\ ApplyEnd(g, p, F) = [files |-> [end EXCEPT !.backup = Missing], outcome |-> outcome]
          /\ \/ Applied(F) /\ end = now /\ outcome = "applied"
             \/ /\ ~Applied(F) /\ RolledBack(back, F) /\ end = back
                /\ outcome = IF Older(files[g], F) THEN "older" ELSE "restored"
             \/ /\ ~Applied(F) /\ ~RolledBack(back, F) /\ end = FromGood(back, F)
                /\ outcome = IF GoodRestored(end, F) THEN "good" ELSE "lost"
    BY <1>1, ApplyCases
  <1>3. files[g] \in FilesType /\ now \in FilesType /\ back \in FilesType
    BY <1>1, BackTyped
  <1>4. FromGood(back, F) \in FilesType
    BY <1>3, FromGoodTyped
  <1>5. end \in FilesType
    BY <1>2, <1>3, <1>4
  <1>6. /\ ApplyEnd(g, p, F).outcome = outcome
        /\ ApplyEnd(g, p, F).files.storage = end.storage /\ ApplyEnd(g, p, F).files.db = end.db
    BY <1>2, <1>5 DEF FilesType
  <1>7. SUFFICES Agree(end.storage, end.db.machine, FALSE)
    BY <1>6
  <1>8. end.storage \in Profiles
    BY <1>5 DEF FilesType
  <1>9. CASE Applied(F) /\ end = now
    <2>1. Opened(F) /\ Written(F) /\ "sync" \notin F
      BY <1>9 DEF Applied, StopKinds, Opened, Written, BackedUp
    <2>2. now.storage = p /\ now.db = Db(p, files[g].db.login)
      BY <1>1, <2>1 DEF Touched
    <2> QED
      BY <1>9, <2>2 DEF Agree, Db
  <1>10. CASE RolledBack(back, F) /\ end = back /\ "readBack" \notin F
    <2>1. Agree(end.storage, Seen(end.db, FALSE), FALSE)
      BY <1>10 DEF RolledBack, Seen
    <2> QED
      BY <1>8, <2>1, SeenAgrees
  <1>11. CASE /\ ~Applied(F) /\ RolledBack(back, F) /\ end = back /\ "readBack" \in F
              /\ outcome = IF Older(files[g], F) THEN "older" ELSE "restored"
    <2>1. ~Older(files[g], F) /\ g \notin torn \cup unread
      BY <1>6, <1>11 DEF Unread
    <2>2. back.storage = files[g].storage /\ back.db = files[g].db
      BY <1>1, <1>3, <1>11, <2>1, RestoredSame DEF RolledBack
    <2>3. files[g].db.machine # "other"
      BY <1>6, <1>11, <2>2
    <2> QED
      BY <1>11, <2>1, <2>2, <2>3 DEF MachineIdsAgree
  <1>12. CASE GoodRestored(end, F)
    <2>1. Agree(end.storage, Seen(end.db, "readGood" \in F), TRUE)
      BY <1>12 DEF GoodRestored
    <2>2. ("readGood" \in F) \in BOOLEAN
      OBVIOUS
    <2>3. PICK failed \in BOOLEAN : failed = ("readGood" \in F)
      BY <2>2
    <2> QED
      BY <1>8, <2>1, <2>3, SeenAgrees
  <1>13. outcome # "lost"
    BY <1>6
  <1> QED
    BY <1>2, <1>9, <1>10, <1>11, <1>12, <1>13

\* An apply that succeeds, or puts back what it found, keeps the login.
LEMMA ApplyKeepsLogin ==
  ASSUME files \in [Targets -> FilesType], good \in SnapshotType,
         NEW g \in Targets, NEW p \in Profiles, NEW F,
         Applied(F) \/ ApplyEnd(g, p, F).outcome \in {"applied", "restored"}
  PROVE  ApplyEnd(g, p, F).files.db.login = files[g].db.login
  <1>1. PICK now, back : now = Touched(files[g], p, F) /\ back = FromBackup(files[g], now, F)
    OBVIOUS
  <1>2. PICK end, outcome :
          /\ ApplyEnd(g, p, F) = [files |-> [end EXCEPT !.backup = Missing], outcome |-> outcome]
          /\ \/ Applied(F) /\ end = now /\ outcome = "applied"
             \/ /\ ~Applied(F) /\ RolledBack(back, F) /\ end = back
                /\ outcome = IF Older(files[g], F) THEN "older" ELSE "restored"
             \/ /\ ~Applied(F) /\ ~RolledBack(back, F) /\ end = FromGood(back, F)
                /\ outcome = IF GoodRestored(end, F) THEN "good" ELSE "lost"
    BY <1>1, ApplyCases
  <1>3. now \in FilesType /\ back \in FilesType
    BY <1>1, BackTyped
  <1>4. ASSUME end \in {now, back}
        PROVE  ApplyEnd(g, p, F).files.db = end.db
    BY <1>2, <1>3, <1>4 DEF FilesType
  <1>5. CASE Applied(F)
    <2>1. now.db = Db(p, files[g].db.login)
      BY <1>1, <1>5 DEF Touched, Applied, StopKinds, Opened, Written, BackedUp
    <2> QED
      BY <1>2, <1>4, <1>5, <2>1 DEF Db
  <1>6. CASE ~Applied(F)
    <2>1. ApplyEnd(g, p, F).outcome = outcome
      BY <1>2
    <2>2. RolledBack(back, F) /\ end = back /\ ~Older(files[g], F)
      BY <1>2, <1>6, <2>1
    <2>3. back.db = files[g].db
      BY <1>1, <2>2, RestoredSame DEF RolledBack
    <2> QED
      BY <1>4, <2>2, <2>3
  <1> QED
    BY <1>5, <1>6

\* The targets whose ids may not agree.
Suspect == torn \cup unread

\* The marks and the snapshot keep their types.
LEMMA MarksTyped ==
  ASSUME files \in [Targets -> FilesType], good \in SnapshotType,
         failures \in 0..SafeThreshold, safe \in BOOLEAN, torn \subseteq Targets, unread \subseteq Targets,
         NEW g \in Targets, NEW p \in Profiles, NEW F, ApplyMarks(g, p, F)
  PROVE  /\ good' \in SnapshotType
         /\ failures' \in 0..SafeThreshold /\ safe' \in BOOLEAN
         /\ torn' \subseteq Targets /\ unread' \subseteq Targets
         /\ \A h \in Targets : h # g => (h \in Suspect' <=> h \in Suspect)
         /\ g \notin Suspect' =>
              ApplyEnd(g, p, F).outcome # "lost" /\ ~Unread(g, ApplyEnd(g, p, F).outcome, F)
  <1> DEFINE end == ApplyEnd(g, p, F)
  <1>1. end.files \in FilesType
    BY ApplyTyped
  <1> HIDE DEF end
  <1>2. /\ torn' = IF end.outcome = "lost" THEN torn \cup {g} ELSE torn \ {g}
        /\ unread' = IF Unread(g, end.outcome, F) THEN unread \cup {g} ELSE unread \ {g}
        /\ IF Applied(F)
           THEN good' = NewGood(end.files, F) /\ failures' = 0 /\ safe' = FALSE
           ELSE good' = good /\ Mark(IF end.outcome = "lost" THEN 2 ELSE 1)
    BY DEF ApplyMarks, end
  <1>3. /\ torn' \subseteq Targets /\ unread' \subseteq Targets
        /\ \A h \in Targets : h # g => (h \in Suspect' <=> h \in Suspect)
        /\ g \notin Suspect' => end.outcome # "lost" /\ ~Unread(g, end.outcome, F)
    BY <1>2 DEF Suspect
  <1>4. SafeThreshold \in Nat
    BY ProfileAssumption
  <1>5. CASE Applied(F)
    <2>1. end.files.storage \in Profiles /\ end.files.db \in Dbs
      BY <1>1 DEF FilesType
    <2>2. NewGood(end.files, F) \in SnapshotType
      <3>1. CASE good = NoSnapshot
        BY <2>1, <3>1 DEF NewGood, SnapshotType
      <3>2. CASE good \in [storage : Profiles, db : Dbs]
        BY <2>1, <3>2 DEF NewGood, SnapshotType
      <3> QED
        BY <3>1, <3>2 DEF SnapshotType
    <2>3. good' \in SnapshotType /\ failures' = 0 /\ safe' = FALSE
      BY <1>2, <1>5, <2>2
    <2>4. failures' \in 0..SafeThreshold
      BY <1>4, <2>3
    <2> QED
      BY <1>3, <2>3, <2>4 DEF end
  <1>6. CASE ~Applied(F)
    <2>1. PICK n \in {1, 2} : Mark(n)
      BY <1>2, <1>6
    <2>2. failures' \in 0..SafeThreshold /\ safe' \in BOOLEAN
      BY <1>4, <2>1 DEF Mark, AtMost
    <2> QED
      BY <1>2, <1>3, <1>6, <2>2 DEF end
  <1> QED
    BY <1>5, <1>6

----------------------------------------------------------------------------
(* The invariant *)

\* A task that was asked for has an account and a target, and only one of a
\* cloud account prepares a token and makes a copy of the database.
TaskInv ==
  /\ task \in [Tasks -> TaskType]
  /\ \A t \in Tasks : pc[t] # "none" =>
       task[t].account \in Accounts \cup Locals /\ task[t].target \in Targets
  /\ \A t \in Tasks : pc[t] \in {"prepare", "backup"} => task[t].account \in Accounts

ProfileInv ==
  /\ files \in [Targets -> FilesType]
  /\ good \in SnapshotType
  /\ failures \in 0..SafeThreshold /\ safe \in BOOLEAN
  /\ torn \subseteq Targets /\ unread \subseteq Targets
  /\ MachineIdsAgree

StoreType ==
  /\ rows \in [Accounts -> RowType]
  /\ exists \subseteq Accounts \cup Locals /\ archives \subseteq Locals
  /\ bound \subseteq Accounts
  /\ active \in (Accounts \cap exists) \cup {NoAccount}
  /\ recorded \in [Targets -> Accounts \cup {NoAccount}]
  /\ cred \in Accounts \cup Locals \cup {NoAccount}
  /\ strayed \subseteq Targets /\ faults \in 0..MaxFaults

StoreInv == StoreType /\ RecordedIsLoggedIn

SwitchInv == GuardInv /\ TaskInv /\ ProfileInv /\ StoreInv

\* What a step has to keep besides GuardInv.
Kept == TaskInv' /\ ProfileInv' /\ StoreInv'

LEMMA SwitchInvTypes == SwitchInv => SwitchTypeOK
  <1> SUFFICES ASSUME SwitchInv PROVE SwitchTypeOK
    OBVIOUS
  <1>1. \A i \in DOMAIN pendingQueue : pendingQueue[i] \in Tasks
    BY DEF SwitchInv, GuardInv, GuardType
  <1> QED
    BY <1>1 DEF SwitchInv, SwitchTypeOK, GuardInv, GuardType, Idle, TaskInv, ProfileInv,
         StoreInv, StoreType

LEMMA SwitchInitInv == SwitchInit => SwitchInv
  <1> SUFFICES ASSUME SwitchInit PROVE SwitchInv
    OBVIOUS
  <1>1. GuardInv
    BY InitInv DEF SwitchInit
  <1>2. TaskInv
    <2>1. NoTask \in TaskType
      BY DEF NoTask, TaskType
    <2>2. \A t \in Tasks : pc[t] = "none"
      BY DEF SwitchInit, GuardInit
    <2> QED
      BY <2>1, <2>2 DEF SwitchInit, TaskInv
  <1>3. ProfileInv
    <2>1. files \in [Targets ->
            {[storage |-> "original", db |-> Db(m, NoAccount), backup |-> Missing] : m \in InitMachines}]
      BY DEF SwitchInit, ProfileInit
    <2>2. ASSUME NEW m \in InitMachines
          PROVE  [storage |-> "original", db |-> Db(m, NoAccount), backup |-> Missing] \in FilesType
      BY <2>2, ProfileAssumption, MissingType DEF FilesType, Db, Dbs, Profiles
    <2>3. files \in [Targets -> FilesType]
      BY <2>1, <2>2
    <2>4. MachineIdsAgree
      <3> SUFFICES ASSUME NEW g \in Targets, files[g].db.machine # "other"
                   PROVE  Agree(files[g].storage, files[g].db.machine, FALSE)
        BY DEF MachineIdsAgree
      <3>1. PICK m \in InitMachines : files[g].db = Db(m, NoAccount)
        BY <2>1
      <3>2. files[g].db.machine \in {"missing", "unset"}
        BY <3>1, ProfileAssumption DEF Db
      <3> QED
        BY <3>2 DEF Agree
    <2>5. SafeThreshold \in Nat
      BY ProfileAssumption
    <2>6. good \in SnapshotType /\ failures = 0 /\ safe = FALSE /\ torn = {} /\ unread = {}
      BY DEF SwitchInit, ProfileInit, SnapshotType
    <2>7. failures \in 0..SafeThreshold
      BY <2>5, <2>6
    <2> QED
      BY <2>3, <2>4, <2>6, <2>7 DEF ProfileInv
  <1>4. StoreInv
    <2>1. \A a \in Accounts : Row("active", "none") \in RowType
      BY DEF Row, RowType, Statuses, Quotas
    <2>2. rows \in [Accounts -> RowType]
      BY <2>1 DEF SwitchInit
    <2>3. active \in (Accounts \cap exists) \cup {NoAccount}
      BY SwitchAssumption DEF SwitchInit
    <2>4. faults \in 0..MaxFaults
      BY SwitchAssumption DEF SwitchInit
    <2> QED
      BY <2>2, <2>3, <2>4 DEF SwitchInit, StoreInv, StoreType, RecordedIsLoggedIn
  <1> QED
    BY <1>1, <1>2, <1>3, <1>4 DEF SwitchInv

----------------------------------------------------------------------------
(* What the common parts of the steps keep *)

LEMMA SameProfile ==
  ASSUME ProfileInv, UNCHANGED profileVars
  PROVE  ProfileInv'
  BY DEF ProfileInv, profileVars, MachineIdsAgree, Agree

LEMMA SameStore ==
  ASSUME StoreInv, UNCHANGED <<storeVars, files>>, faults' \in 0..MaxFaults
  PROVE  StoreInv'
  BY DEF StoreInv, StoreType, storeVars, RecordedIsLoggedIn, Login

LEMMA StageNames == FlowStages = Stages
  BY SwitchAssumption

\* The promise of a task settles.
LEMMA DoneKeeps ==
  ASSUME GuardInv, TaskInv, NEW t \in Tasks, pc[t] \in FlowStages, NEW ok \in BOOLEAN, Done(t, ok)
  PROVE  TaskInv' /\ Work(t)
  <1>1. pc' = [pc EXCEPT ![t] = "settled"] /\ task' = [task EXCEPT ![t].ok = ok]
    BY DEF Done, Settle
  <1>2. Work(t)
    BY StageNames DEF Work, Done
  <1>3. /\ \A u \in Tasks : u # t => pc'[u] = pc[u]
        /\ pc'[t] = "settled" /\ pc[t] # "none"
    BY <1>1 DEF GuardInv, GuardType, FlowStages
  <1>4. /\ task' \in [Tasks -> TaskType]
        /\ \A u \in Tasks : task'[u].account = task[u].account /\ task'[u].target = task[u].target
    <2> DEFINE new == [task[t] EXCEPT !.ok = ok]
    <2>1. task[t] \in TaskType
      BY DEF TaskInv
    <2>2. new \in TaskType /\ new.account = task[t].account /\ new.target = task[t].target
      BY <2>1 DEF TaskType
    <2>3. task' = [task EXCEPT ![t] = new]
      BY <1>1 DEF TaskInv
    <2> HIDE DEF new
    <2> QED
      BY <2>2, <2>3 DEF TaskInv
  <1> QED
    BY <1>2, <1>3, <1>4 DEF TaskInv

\* A task goes on to another stage.
LEMMA GoOnKeeps ==
  ASSUME GuardInv, TaskInv, NEW t \in Tasks, pc[t] \in FlowStages, NEW stage \in FlowStages,
         GoOn(t, stage), stage \in {"prepare", "backup"} => task[t].account \in Accounts,
         task' \in [Tasks -> TaskType],
         \A u \in Tasks : task'[u].account = task[u].account /\ task'[u].target = task[u].target
  PROVE  TaskInv' /\ Work(t)
  <1>1. pc' = [pc EXCEPT ![t] = stage]
    BY DEF GoOn
  <1>2. Work(t)
    BY StageNames DEF Work
  <1>3. /\ \A u \in Tasks : u # t => pc'[u] = pc[u]
        /\ pc'[t] = stage /\ pc[t] # "none"
    BY <1>1 DEF GuardInv, GuardType, FlowStages
  <1> QED
    BY <1>2, <1>3 DEF TaskInv

\* A task goes on and what it was asked for stays as it is.
LEMMA GoOnSame ==
  ASSUME GuardInv, TaskInv, NEW t \in Tasks, pc[t] \in FlowStages, NEW stage \in FlowStages,
         GoOn(t, stage), stage \in {"prepare", "backup"} => task[t].account \in Accounts,
         UNCHANGED task
  PROVE  TaskInv' /\ Work(t)
  <1>1. /\ task' \in [Tasks -> TaskType]
        /\ \A u \in Tasks : task'[u].account = task[u].account /\ task'[u].target = task[u].target
    BY DEF TaskInv
  <1> QED
    BY <1>1, GoOnKeeps

\* The account and the target of a task under way.
LEMMA TaskOfStage ==
  ASSUME TaskInv, NEW t \in Tasks, pc[t] \in FlowStages
  PROVE  task[t].account \in Accounts \cup Locals /\ task[t].target \in Targets /\ task[t] \in TaskType
  BY DEF TaskInv, FlowStages

\* The faults that a step may spend.
LEMMA SpentTyped ==
  ASSUME NEW spent \in 0..MaxFaults
  PROVE  /\ Works(spent) => faults' \in 0..MaxFaults
         /\ \A kind : FaultAfter(spent, kind) => faults' \in 0..MaxFaults
  <1>1. MaxFaults \in Nat
    BY SwitchAssumption
  <1> QED
    BY <1>1 DEF Works, FaultAfter

LEMMA ApplyCost ==
  ASSUME faults \in 0..MaxFaults, NEW f, NEW F \in ApplyChoices(f)
  PROVE  faults + Cardinality(F) \in 0..MaxFaults
  <1>1. IsFiniteSet(F)
    <2>1. F \subseteq ApplyFaults
      BY DEF ApplyChoices, FaultSets, AtMostOne
    <2> QED
      BY <2>1, ProfileAssumption, FS_Subset
  <1>2. Cardinality(F) \in Nat /\ Cardinality(F) <= MaxFaults - faults /\ MaxFaults \in Nat
    BY <1>1, FS_CardinalityType, SwitchAssumption DEF ApplyChoices
  <1> QED
    BY <1>2

\* The files of one target change: those of the others are as before.
LEMMA SetFiles ==
  ASSUME ProfileInv, NEW g \in Targets, NEW f \in FilesType, files' = [files EXCEPT ![g] = f],
         good' \in SnapshotType, failures' \in 0..SafeThreshold, safe' \in BOOLEAN,
         torn' \subseteq Targets, unread' \subseteq Targets,
         \A h \in Targets : h # g => (h \in Suspect' <=> h \in Suspect),
         g \notin Suspect' /\ f.db.machine # "other" => Agree(f.storage, f.db.machine, FALSE)
  PROVE  ProfileInv'
  <1>1. /\ files' \in [Targets -> FilesType] /\ files'[g] = f
        /\ \A h \in Targets : h # g => files'[h] = files[h]
    BY DEF ProfileInv
  <1>2. ASSUME NEW h \in Targets, h \notin Suspect', files'[h].db.machine # "other"
        PROVE  Agree(files'[h].storage, files'[h].db.machine, FALSE)
    <2>1. CASE h = g
      BY <1>1, <1>2, <2>1
    <2>2. CASE h # g
      <3>1. h \notin torn \cup unread /\ files'[h] = files[h]
        BY <1>1, <1>2, <2>2 DEF Suspect
      <3> QED
        BY <1>2, <3>1 DEF ProfileInv, MachineIdsAgree
    <2> QED
      BY <2>1, <2>2
  <1>3. MachineIdsAgree'
    BY <1>2 DEF MachineIdsAgree, Agree, Suspect
  <1> QED
    BY <1>1, <1>3 DEF ProfileInv

\* The login of the other target does not change with the files of one.
LEMMA OtherLogin ==
  ASSUME files \in [Targets -> FilesType], NEW g \in Targets, NEW f, files' = [files EXCEPT ![g] = f],
         g \notin CredStore => cred' = cred
  PROVE  \A h \in Targets : h # g => Login(h)' = Login(h)
  BY SwitchAssumption DEF Login

\* performSwitch of a cloud account.
LEMMA PerformCloudKeeps ==
  ASSUME SwitchInv, NEW t \in Tasks, pc[t] \in FlowStages,
         NEW a \in Accounts, a = task[t].account, NEW g \in Targets, g = task[t].target,
         NEW f \in FilesType, f.db.login = files[g].db.login,
         NEW spent \in 0..MaxFaults, PerformCloud(t, f, spent)
  PROVE  /\ TaskInv' /\ Work(t) /\ StoreInv'
         /\ \E e \in FilesType : /\ files' = [files EXCEPT ![g] = e]
                                 /\ e.storage = f.storage /\ e.db.machine = f.db.machine
  <1>1. a \in Accounts /\ g \in Targets
    OBVIOUS
  <1>2. files \in [Targets -> FilesType] /\ StoreType /\ RecordedIsLoggedIn
    BY DEF SwitchInv, ProfileInv, StoreInv
  <1>3. exists' = exists /\ archives' = archives /\ bound' = bound
    BY DEF PerformCloud
  <1>4. GuardInv /\ TaskInv
    BY DEF SwitchInv
  <1>5. "launch" \in FlowStages /\ "launch" \notin {"prepare", "backup"}
    BY DEF FlowStages
  <1> DEFINE injected == IF g \in CredStore THEN f ELSE [f EXCEPT !.db.login = a]
  <1>6. /\ injected \in FilesType /\ injected.storage = f.storage
        /\ injected.db.machine = f.db.machine
        /\ g \notin CredStore => injected.db.login = a
    BY <1>1 DEF FilesType, Dbs
  <1>7. ASSUME Inject(g, f, a)
        PROVE  /\ files' = [files EXCEPT ![g] = injected]
               /\ cred' \in Accounts \cup Locals \cup {NoAccount}
               /\ g \notin CredStore => cred' = cred
               /\ Login(g)' = a
    <2>1. files' = [files EXCEPT ![g] = injected]
      BY <1>7 DEF Inject
    <2>2. files'[g] = injected
      BY <1>1, <1>2, <2>1
    <2>3. cred' = IF g \in CredStore THEN a ELSE cred
      BY <1>7 DEF Inject
    <2> HIDE DEF injected
    <2> QED
      BY <1>1, <1>2, <1>6, <2>1, <2>2, <2>3 DEF Login, StoreType
  <1>8. SetActive(a) => active' \in (Accounts \cap exists) \cup {NoAccount}
    BY <1>1 DEF SetActive
  <1> HIDE DEF injected
  <1>9. ASSUME FaultAfter(spent, "inject") \/ Works(spent), files' = [files EXCEPT ![g] = f],
               Done(t, FALSE), UNCHANGED <<recorded, rows, active, cred, strayed>>
        PROVE  /\ TaskInv' /\ Work(t) /\ StoreInv'
               /\ files' = [files EXCEPT ![g] = f]
    <2>1. faults' \in 0..MaxFaults
      BY <1>9, SpentTyped
    <2>2. Login(g)' = Login(g)
      BY <1>1, <1>2, <1>9 DEF Login
    <2>3. RecordedIsLoggedIn'
      BY <1>1, <1>2, <1>9, <2>2, OtherLogin DEF RecordedIsLoggedIn
    <2>4. StoreInv'
      BY <1>2, <1>3, <1>9, <2>1, <2>3 DEF StoreInv, StoreType
    <2> QED
      BY <1>4, <1>9, <2>4, DoneKeeps
  <1>10. ASSUME FaultAfter(spent, "record"), Inject(g, f, a), SetActive(a) \/ UNCHANGED active,
                strayed' = strayed \cup {g}, Done(t, FALSE), UNCHANGED <<rows, recorded>>
         PROVE  TaskInv' /\ Work(t) /\ StoreInv' /\ files' = [files EXCEPT ![g] = injected]
    <2>1. faults' \in 0..MaxFaults
      BY <1>10, SpentTyped
    <2>2. \A h \in Targets : h # g => Login(h)' = Login(h)
      BY <1>1, <1>2, <1>7, <1>10, OtherLogin
    <2>3. RecordedIsLoggedIn'
      BY <1>2, <1>10, <2>2 DEF RecordedIsLoggedIn
    <2>4. active' \in (Accounts \cap exists) \cup {NoAccount}
      BY <1>2, <1>8, <1>10 DEF StoreType
    <2>5. strayed' \subseteq Targets
      BY <1>1, <1>2, <1>10 DEF StoreType
    <2>6. StoreInv'
      BY <1>2, <1>3, <1>7, <1>10, <2>1, <2>3, <2>4, <2>5 DEF StoreInv, StoreType
    <2> QED
      BY <1>4, <1>7, <1>10, <2>6, DoneKeeps
  <1>11. ASSUME FaultAfter(spent, "record") \/ Works(spent), Inject(g, f, a), SetActive(a),
                recorded' = [recorded EXCEPT ![g] = a], strayed' = strayed \ {g},
                \/ rows' = rows
                \/ rows' = IF a \in exists THEN [rows EXCEPT ![a].status = "active"] ELSE rows
         PROVE  StoreInv' /\ files' = [files EXCEPT ![g] = injected]
    <2>1. faults' \in 0..MaxFaults
      BY <1>11, SpentTyped
    <2>2. \A h \in Targets : h # g => Login(h)' = Login(h)
      BY <1>1, <1>2, <1>7, <1>11, OtherLogin
    <2>3. /\ recorded' \in [Targets -> Accounts \cup {NoAccount}] /\ recorded'[g] = a
          /\ \A h \in Targets : h # g => recorded'[h] = recorded[h]
      BY <1>1, <1>2, <1>11 DEF StoreType
    <2>4. RecordedIsLoggedIn'
      <3> SUFFICES ASSUME NEW h \in Targets \ strayed' PROVE recorded'[h] \in {NoAccount, Login(h)'}
        BY DEF RecordedIsLoggedIn
      <3>1. CASE h = g
        BY <1>7, <1>11, <2>3, <3>1
      <3>2. CASE h # g
        BY <1>2, <1>11, <2>2, <2>3, <3>2 DEF RecordedIsLoggedIn
      <3> QED
        BY <3>1, <3>2
    <2>5. rows' \in [Accounts -> RowType]
      <3>1. [rows EXCEPT ![a].status = "active"] \in [Accounts -> RowType]
        BY <1>2 DEF StoreType, RowType, Statuses
      <3> QED
        BY <1>2, <1>11, <3>1 DEF StoreType
    <2>6. strayed' \subseteq Targets
      BY <1>2, <1>11 DEF StoreType
    <2>7. StoreInv'
      BY <1>2, <1>3, <1>7, <1>8, <1>11, <2>1, <2>3, <2>4, <2>5, <2>6 DEF StoreInv, StoreType
    <2> QED
      BY <1>7, <1>11, <2>7
  <1>r. ASSUME FaultAfter(spent, "record"), Inject(g, f, a), SetActive(a), Done(t, FALSE),
               recorded' = [recorded EXCEPT ![g] = a], strayed' = strayed \ {g}, UNCHANGED rows
        PROVE  TaskInv' /\ Work(t) /\ StoreInv' /\ files' = [files EXCEPT ![g] = injected]
    BY <1>4, <1>11, <1>r, DoneKeeps
  <1>w. ASSUME Works(spent), Inject(g, f, a), SetActive(a), GoOn(t, "launch"), UNCHANGED task,
               recorded' = [recorded EXCEPT ![g] = a], strayed' = strayed \ {g},
               rows' = IF a \in exists THEN [rows EXCEPT ![a].status = "active"] ELSE rows
        PROVE  TaskInv' /\ Work(t) /\ StoreInv' /\ files' = [files EXCEPT ![g] = injected]
    BY <1>4, <1>5, <1>11, <1>w, GoOnSame
  <1>12. \/ TaskInv' /\ Work(t) /\ StoreInv' /\ files' = [files EXCEPT ![g] = f]
         \/ TaskInv' /\ Work(t) /\ StoreInv' /\ files' = [files EXCEPT ![g] = injected]
    BY <1>9, <1>10, <1>r, <1>w DEF PerformCloud, NotRecorded
  <1> QED
    BY <1>6, <1>12

\* performSwitch of a local account.
LEMMA PerformLocalKeeps ==
  ASSUME SwitchInv, NEW t \in Tasks, pc[t] \in FlowStages,
         NEW a \in Locals, a = task[t].account, NEW g \in Targets, g = task[t].target,
         NEW f \in FilesType, f.db.login = files[g].db.login,
         NEW spent \in 0..MaxFaults, PerformLocal(t, f, spent)
  PROVE  /\ TaskInv' /\ Work(t) /\ StoreInv'
         /\ \E e \in FilesType : /\ files' = [files EXCEPT ![g] = e]
                                 /\ e.storage = f.storage /\ e.db.machine = f.db.machine
  <1> DEFINE there == {file \in {"db", "backup"} : f[file] # Missing}
             possible == a \in archives /\ (g \in CredStore \/ there # {})
             restored(part) ==
               [f EXCEPT !.db.login = IF "db" \in part THEN a ELSE @,
                         !.backup.login = IF "backup" \in part THEN a ELSE @]
  <1>1. GuardInv /\ TaskInv
    BY DEF SwitchInv
  <1>2. files \in [Targets -> FilesType] /\ StoreType /\ RecordedIsLoggedIn
    BY DEF SwitchInv, ProfileInv, StoreInv
  <1>3. UNCHANGED <<rows, archives, bound, active, recorded>>
    BY DEF PerformLocal
  <1>6. ASSUME NEW part
        PROVE  /\ restored(part) \in FilesType /\ restored(part).storage = f.storage
               /\ restored(part).db.machine = f.db.machine
    BY DEF FilesType, Dbs
  <1>7. task[t].index \subseteq Locals
    BY <1>1 DEF TaskInv, TaskType
  <1>8. "launch" \in FlowStages /\ "launch" \notin {"prepare", "backup"}
    BY DEF FlowStages
  <1>9. CASE /\ FaultAfter(spent, "restore") \/ (~possible /\ Works(spent))
             /\ files' = [files EXCEPT ![g] = f]
             /\ Done(t, FALSE)
             /\ UNCHANGED <<exists, cred, strayed>>
    <2>1. faults' \in 0..MaxFaults
      BY <1>9, SpentTyped
    <2>2. Login(g)' = Login(g)
      BY <1>2, <1>9 DEF Login
    <2>3. RecordedIsLoggedIn'
      BY <1>2, <1>3, <1>9, <2>2, OtherLogin DEF RecordedIsLoggedIn
    <2>4. StoreInv'
      BY <1>2, <1>3, <1>9, <2>1, <2>3 DEF StoreInv, StoreType
    <2> QED
      BY <1>1, <1>9, <2>4, DoneKeeps
  <1>10. CASE /\ \/ /\ g \in CredStore /\ Works(spent)
                    /\ cred' = a /\ files' = [files EXCEPT ![g] = f]
                 \/ /\ g \notin CredStore /\ cred' = cred
                    /\ \E part \in SUBSET there \ {{}} :
                         /\ IF part = there THEN Works(spent) ELSE FaultAfter(spent, "restore")
                         /\ files' = [files EXCEPT ![g] = restored(part)]
              /\ exists' = (exists \ Locals) \cup task[t].index
              /\ strayed' = strayed \cup {g}
              /\ GoOn(t, "launch") /\ UNCHANGED task
    <2> HIDE DEF restored, possible, there
    <2>1. faults' \in 0..MaxFaults
      BY <1>10, SpentTyped
    <2>2. PICK e \in FilesType : /\ files' = [files EXCEPT ![g] = e]
                                 /\ e.storage = f.storage /\ e.db.machine = f.db.machine
      BY <1>6, <1>10
    <2>3. \A h \in Targets : h # g => Login(h)' = Login(h)
      BY <1>2, <1>10, <2>2, OtherLogin
    <2>4. RecordedIsLoggedIn'
      BY <1>2, <1>3, <1>10, <2>3 DEF RecordedIsLoggedIn
    <2>5. exists' \subseteq Accounts \cup Locals /\ Accounts \cap exists' = Accounts \cap exists
      BY <1>2, <1>7, <1>10, ProfileAssumption DEF StoreType
    <2>6. cred' \in Accounts \cup Locals \cup {NoAccount} /\ strayed' \subseteq Targets
      BY <1>2, <1>10 DEF StoreType
    <2>7. StoreInv'
      BY <1>2, <1>3, <2>1, <2>4, <2>5, <2>6 DEF StoreInv, StoreType
    <2>8. TaskInv' /\ Work(t)
      BY <1>1, <1>8, <1>10, GoOnSame
    <2> QED
      BY <2>2, <2>7, <2>8
  <1> QED
    BY <1>9, <1>10 DEF PerformLocal

\* A target whose login an apply may have changed is noted.
LEMMA StrayedKeeps ==
  ASSUME StoreType, RecordedIsLoggedIn, files \in [Targets -> FilesType],
         NEW g \in Targets, NEW f, files' = [files EXCEPT ![g] = f],
         cred' = cred, recorded' = recorded, NEW outcome, strayed' = StrayedBy(g, outcome),
         outcome \in {"applied", "restored"} => f.db.login = files[g].db.login
  PROVE  RecordedIsLoggedIn' /\ strayed' \subseteq Targets
  <1>1. strayed' \subseteq Targets /\ strayed \subseteq strayed'
    BY DEF StrayedBy, StoreType
  <1>2. \A h \in Targets : h # g => Login(h)' = Login(h)
    BY OtherLogin
  <1>3. g \notin strayed' => Login(g)' = Login(g)
    <2>1. files'[g] = f
      OBVIOUS
    <2> QED
      BY <2>1 DEF Login, StrayedBy
  <1>4. RecordedIsLoggedIn'
    BY <1>1, <1>2, <1>3 DEF RecordedIsLoggedIn
  <1> QED
    BY <1>1, <1>4

----------------------------------------------------------------------------
(* The steps of a flow *)

LEMMA StartKeeps ==
  ASSUME SwitchInv, NEW t \in Tasks, Start(t)
  PROVE  Kept /\ Work(t)
  <1>1. ProfileInv' /\ StoreInv'
    <2>1. UNCHANGED profileVars /\ UNCHANGED <<storeVars, files>> /\ faults' = faults
      BY DEF Start, profileVars, counts
    <2> QED
      BY <2>1, SameProfile, SameStore DEF SwitchInv, StoreInv, StoreType
  <1>2. "setup" \in FlowStages /\ pc[t] \in FlowStages
    BY DEF FlowStages, Start
  <1>3. TaskInv' /\ Work(t)
    BY <1>2, DoneKeeps, GoOnSame DEF Start, SwitchInv
  <1> QED
    BY <1>1, <1>3 DEF Kept

LEMMA SetupCloudKeeps ==
  ASSUME SwitchInv, NEW t \in Tasks, SetupCloud(t)
  PROVE  Kept /\ Work(t)
  <1>1. /\ UNCHANGED profileVars /\ UNCHANGED <<rows, exists, archives, active, recorded, cred, strayed>>
        /\ faults' = faults /\ files' = files
        /\ task[t].account \in Accounts
    BY DEF SetupCloud, profileVars, counts
  <1>2. ProfileInv'
    BY <1>1, SameProfile DEF SwitchInv
  <1>3. bound' \subseteq Accounts
    BY <1>1 DEF SetupCloud, SwitchInv, StoreInv, StoreType
  <1>4. StoreInv'
    BY <1>1, <1>3 DEF SwitchInv, StoreInv, StoreType, RecordedIsLoggedIn, Login
  <1>5. "prepare" \in FlowStages /\ pc[t] \in FlowStages
    BY DEF FlowStages, SetupCloud
  <1>6. TaskInv' /\ Work(t)
    BY <1>1, <1>5, DoneKeeps, GoOnSame DEF SetupCloud, SwitchInv
  <1> QED
    BY <1>2, <1>4, <1>6 DEF Kept

LEMMA SetupLocalKeeps ==
  ASSUME SwitchInv, NEW t \in Tasks, SetupLocal(t)
  PROVE  Kept /\ Work(t)
  <1>1. ProfileInv' /\ StoreInv'
    <2>1. UNCHANGED profileVars /\ UNCHANGED <<storeVars, files>> /\ faults' = faults
      BY DEF SetupLocal, profileVars, counts
    <2> QED
      BY <2>1, SameProfile, SameStore DEF SwitchInv, StoreInv, StoreType
  <1>2. "refreshCache" \in FlowStages /\ pc[t] \in FlowStages
    BY DEF FlowStages, SetupLocal
  <1>3. GuardInv /\ TaskInv /\ safe \in BOOLEAN
    BY DEF SwitchInv, ProfileInv
  <1>4. CASE Done(t, FALSE)
    BY <1>1, <1>2, <1>3, <1>4, DoneKeeps DEF Kept
  <1>5. CASE /\ GoOn(t, "refreshCache")
             /\ task' = [task EXCEPT ![t].applies = ~safe, ![t].index = exists \cap Locals]
    <2> DEFINE new == [task[t] EXCEPT !.applies = ~safe, !.index = exists \cap Locals]
    <2>a. task[t] \in TaskType /\ exists \cap Locals \in SUBSET Locals /\ (~safe) \in BOOLEAN
      BY <1>3 DEF TaskInv
    <2>b. new \in TaskType /\ new.account = task[t].account /\ new.target = task[t].target
      BY <2>a DEF TaskType
    <2>c. task' = [task EXCEPT ![t] = new]
      BY <1>3, <1>5 DEF TaskInv
    <2> HIDE DEF new
    <2>1. /\ task' \in [Tasks -> TaskType]
          /\ \A u \in Tasks : task'[u].account = task[u].account /\ task'[u].target = task[u].target
      BY <1>3, <2>b, <2>c DEF TaskInv
    <2>2. TaskInv' /\ Work(t)
      BY <1>2, <1>3, <1>5, <2>1, GoOnKeeps
    <2> QED
      BY <1>1, <2>2 DEF Kept
  <1> QED
    BY <1>4, <1>5 DEF SetupLocal

LEMMA PrepareKeeps ==
  ASSUME SwitchInv, NEW t \in Tasks, Prepare(t)
  PROVE  Kept /\ Work(t)
  <1> DEFINE a == task[t].account
  <1>1. /\ UNCHANGED profileVars /\ files' = files /\ pc[t] = "prepare"
        /\ UNCHANGED <<exists, archives, bound, active, recorded, cred, strayed>>
    BY DEF Prepare, profileVars
  <1>2. ProfileInv'
    BY <1>1, SameProfile DEF SwitchInv
  <1>3. a \in Accounts
    BY <1>1 DEF SwitchInv, TaskInv
  <1>4. GuardInv /\ TaskInv /\ safe \in BOOLEAN /\ StoreType
    BY DEF SwitchInv, ProfileInv, StoreInv
  <1>5. "close" \in FlowStages /\ pc[t] \in FlowStages
    BY <1>1 DEF FlowStages
  <1>6. ASSUME rows' \in [Accounts -> RowType], faults' \in 0..MaxFaults PROVE StoreInv'
    BY <1>1, <1>6 DEF SwitchInv, StoreInv, StoreType, RecordedIsLoggedIn, Login
  <1>7. CASE /\ Works(faults) /\ GoOn(t, "close")
             /\ task' = [task EXCEPT ![t].applies = ~safe]
             /\ UNCHANGED rows
    <2> DEFINE new == [task[t] EXCEPT !.applies = ~safe]
    <2>a. task[t] \in TaskType /\ (~safe) \in BOOLEAN
      BY <1>4 DEF TaskInv
    <2>b. new \in TaskType /\ new.account = task[t].account /\ new.target = task[t].target
      BY <2>a DEF TaskType
    <2>c. task' = [task EXCEPT ![t] = new]
      BY <1>4, <1>7 DEF TaskInv
    <2> HIDE DEF new
    <2>1. /\ task' \in [Tasks -> TaskType]
          /\ \A u \in Tasks : task'[u].account = task[u].account /\ task'[u].target = task[u].target
      BY <1>4, <2>b, <2>c DEF TaskInv
    <2>2. TaskInv' /\ Work(t)
      BY <1>4, <1>5, <1>7, <2>1, GoOnKeeps
    <2>3. faults' \in 0..MaxFaults
      BY <1>4, <1>7, SpentTyped DEF StoreType
    <2>4. StoreInv'
      BY <1>4, <1>6, <1>7, <2>3 DEF StoreType
    <2> QED
      BY <1>2, <2>2, <2>4 DEF Kept
  <1>8. CASE /\ Fault("prepare") /\ Done(t, FALSE)
             /\ \E s \in {rows[a].status, "rate_limited", "expired"} :
                  rows' = IF a \in exists THEN [rows EXCEPT ![a].status = s] ELSE rows
    <2>1. TaskInv' /\ Work(t)
      BY <1>4, <1>5, <1>8, DoneKeeps
    <2>2. faults' \in 0..MaxFaults
      BY <1>4, <1>8, SpentTyped DEF StoreType, Fault
    <2>3. rows' \in [Accounts -> RowType]
      BY <1>3, <1>4, <1>8 DEF StoreType, RowType, Statuses
    <2> QED
      BY <1>2, <1>6, <2>1, <2>2, <2>3 DEF Kept
  <1> QED
    BY <1>7, <1>8 DEF Prepare

LEMMA RefreshCacheKeeps ==
  ASSUME SwitchInv, NEW t \in Tasks, RefreshCache(t)
  PROVE  Kept /\ Work(t)
  <1>1. UNCHANGED profileVars /\ UNCHANGED <<storeVars, files>>
    BY DEF RefreshCache, profileVars
  <1>2. faults' \in 0..MaxFaults
    BY SpentTyped DEF RefreshCache, SwitchInv, StoreInv, StoreType, Fault
  <1>3. ProfileInv' /\ StoreInv'
    BY <1>1, <1>2, SameProfile, SameStore DEF SwitchInv
  <1>4. "close" \in FlowStages /\ pc[t] \in FlowStages
    BY DEF FlowStages, RefreshCache
  <1>5. TaskInv' /\ Work(t)
    BY <1>4, DoneKeeps, GoOnSame DEF RefreshCache, SwitchInv
  <1> QED
    BY <1>3, <1>5 DEF Kept

LEMMA CloseKeeps ==
  ASSUME SwitchInv, NEW t \in Tasks, Close(t)
  PROVE  Kept /\ Work(t)
  <1>1. UNCHANGED profileVars /\ UNCHANGED <<storeVars, files>> /\ faults' = faults
    BY DEF Close, profileVars, counts
  <1>2. ProfileInv' /\ StoreInv'
    BY <1>1, SameProfile, SameStore DEF SwitchInv, StoreInv, StoreType
  <1>3. "apply" \in FlowStages /\ pc[t] \in FlowStages
    BY DEF FlowStages, Close
  <1>4. TaskInv' /\ Work(t)
    BY <1>3, GoOnSame DEF Close, SwitchInv
  <1> QED
    BY <1>2, <1>4 DEF Kept

LEMMA LaunchKeeps ==
  ASSUME SwitchInv, NEW t \in Tasks, Launch(t)
  PROVE  Kept /\ Work(t)
  <1>1. UNCHANGED profileVars /\ UNCHANGED <<storeVars, files>>
    BY DEF Launch, profileVars
  <1>2. faults' \in 0..MaxFaults
    BY SpentTyped DEF Launch, SwitchInv, StoreInv, StoreType, Fault
  <1>3. ProfileInv' /\ StoreInv'
    BY <1>1, <1>2, SameProfile, SameStore DEF SwitchInv
  <1>4. pc[t] \in FlowStages
    BY DEF FlowStages, Launch
  <1>5. TaskInv' /\ Work(t)
    BY <1>4, DoneKeeps DEF Launch, SwitchInv
  <1> QED
    BY <1>3, <1>5 DEF Kept

LEMMA ApplyStepKeeps ==
  ASSUME SwitchInv, NEW t \in Tasks, ApplyStep(t)
  PROVE  Kept /\ Work(t)
  <1>1. PICK a, g : a = task[t].account /\ g = task[t].target
    OBVIOUS
  <1>2. /\ GuardInv /\ TaskInv /\ ProfileInv /\ StoreInv
        /\ files \in [Targets -> FilesType] /\ good \in SnapshotType
        /\ failures \in 0..SafeThreshold /\ safe \in BOOLEAN
        /\ torn \subseteq Targets /\ unread \subseteq Targets
        /\ StoreType /\ RecordedIsLoggedIn /\ faults \in 0..MaxFaults
    BY DEF SwitchInv, ProfileInv, StoreInv, StoreType
  <1>3. pc[t] \in FlowStages /\ "backup" \in FlowStages
    BY DEF ApplyStep, FlowStages
  <1>4. a \in Accounts \cup Locals /\ g \in Targets /\ a \in Profiles
    BY <1>1, <1>2, <1>3, TaskOfStage DEF Profiles
  <1> DEFINE f0(F) == IF task[t].applies THEN ApplyEnd(g, a, F).files ELSE files[g]
             spent0(F) == faults + Cardinality(F)
  <1>5. PICK F \in IF task[t].applies THEN ApplyChoices(files[g]) ELSE {{}} :
          /\ IF task[t].applies THEN ApplyMarks(g, a, F)
             ELSE UNCHANGED <<good, failures, safe, torn, unread>>
          /\ \/ /\ ~Applied(F)
                /\ Done(t, FALSE)
                /\ files' = [files EXCEPT ![g] = f0(F)]
                /\ strayed' = StrayedBy(g, ApplyEnd(g, a, F).outcome)
                /\ Works(spent0(F))
                /\ UNCHANGED <<rows, exists, archives, bound, active, recorded, cred>>
             \/ /\ Applied(F) /\ a \in Accounts /\ g \notin CredStore
                /\ GoOn(t, "backup")
                /\ files' = [files EXCEPT ![g] = f0(F)]
                /\ Works(spent0(F))
                /\ UNCHANGED <<task, storeVars>>
             \/ Applied(F) /\ a \in Accounts /\ g \in CredStore /\ PerformCloud(t, f0(F), spent0(F))
             \/ Applied(F) /\ a \in Locals /\ PerformLocal(t, f0(F), spent0(F))
    BY <1>1 DEF ApplyStep
  <1>6. PICK f, spent : f = f0(F) /\ spent = spent0(F)
    OBVIOUS
  <1>7. spent \in 0..MaxFaults
    <2>1. CASE task[t].applies
      BY <1>2, <1>5, <1>6, <2>1, ApplyCost
    <2>2. CASE ~task[t].applies
      <3>1. Cardinality(F) = 0
        BY <1>5, <2>2, FS_EmptySet
      <3> QED
        BY <1>2, <1>6, <3>1, SwitchAssumption
    <2> QED
      BY <2>1, <2>2
  <1>8. f \in FilesType
    BY <1>2, <1>4, <1>6, ApplyTyped
  <1>9. Applied(F) => f.db.login = files[g].db.login
    BY <1>2, <1>4, <1>6, ApplyKeepsLogin
  \* The marks, the snapshot, and whether the ids of the files f agree.
  <1>10. /\ good' \in SnapshotType
         /\ failures' \in 0..SafeThreshold /\ safe' \in BOOLEAN
         /\ torn' \subseteq Targets /\ unread' \subseteq Targets
         /\ \A h \in Targets : h # g => (h \in Suspect' <=> h \in Suspect)
         /\ g \notin Suspect' /\ f.db.machine # "other" => Agree(f.storage, f.db.machine, FALSE)
    <2>1. CASE task[t].applies
      <3>1. /\ good' \in SnapshotType /\ failures' \in 0..SafeThreshold /\ safe' \in BOOLEAN
            /\ torn' \subseteq Targets /\ unread' \subseteq Targets
            /\ \A h \in Targets : h # g => (h \in Suspect' <=> h \in Suspect)
            /\ g \notin Suspect' =>
                 ApplyEnd(g, a, F).outcome # "lost" /\ ~Unread(g, ApplyEnd(g, a, F).outcome, F)
        BY <1>2, <1>4, <1>5, <2>1, MarksTyped
      <3>2. f = ApplyEnd(g, a, F).files /\ MachineIdsAgree
        BY <1>2, <1>6, <2>1 DEF ProfileInv
      <3> QED
        BY <1>2, <1>4, <3>1, <3>2, ApplyAgrees
    <2>2. CASE ~task[t].applies
      <3>1. UNCHANGED <<good, failures, safe, torn, unread>> /\ f = files[g]
        BY <1>5, <1>6, <2>2
      <3> QED
        BY <1>2, <1>4, <3>1 DEF ProfileInv, MachineIdsAgree, Suspect
    <2> QED
      BY <2>1, <2>2
  <1>11. ASSUME NEW e \in FilesType, files' = [files EXCEPT ![g] = e],
                e.storage = f.storage, e.db.machine = f.db.machine
         PROVE  ProfileInv'
    <2>1. g \notin Suspect' /\ e.db.machine # "other" => Agree(e.storage, e.db.machine, FALSE)
      BY <1>10, <1>11
    <2> QED
      BY <1>2, <1>4, <1>10, <1>11, <2>1, SetFiles
  <1>12. CASE /\ ~Applied(F) /\ Done(t, FALSE)
              /\ files' = [files EXCEPT ![g] = f]
              /\ strayed' = StrayedBy(g, ApplyEnd(g, a, F).outcome)
              /\ Works(spent)
              /\ UNCHANGED <<rows, exists, archives, bound, active, recorded, cred>>
    <2>1. faults' \in 0..MaxFaults
      BY <1>7, <1>12, SpentTyped
    <2>2. ApplyEnd(g, a, F).outcome \in {"applied", "restored"} => f.db.login = files[g].db.login
      BY <1>2, <1>4, <1>6, ApplyKeepsLogin
    <2>3. RecordedIsLoggedIn' /\ strayed' \subseteq Targets
      BY <1>2, <1>4, <1>12, <2>2, StrayedKeeps
    <2>4. StoreInv'
      BY <1>2, <1>12, <2>1, <2>3 DEF StoreInv, StoreType
    <2> QED
      BY <1>2, <1>3, <1>8, <1>11, <1>12, <2>4, DoneKeeps DEF Kept
  <1>13. CASE /\ Applied(F) /\ a \in Accounts
              /\ GoOn(t, "backup")
              /\ files' = [files EXCEPT ![g] = f]
              /\ Works(spent)
              /\ UNCHANGED <<task, storeVars>>
    <2>1. faults' \in 0..MaxFaults
      BY <1>7, <1>13, SpentTyped
    <2>2. Login(g)' = Login(g) /\ \A h \in Targets : h # g => Login(h)' = Login(h)
      <3>1. cred' = cred
        BY <1>13 DEF storeVars
      <3>2. files'[g] = f
        BY <1>2, <1>4, <1>13
      <3> QED
        BY <1>2, <1>4, <1>9, <1>13, <3>1, <3>2, OtherLogin DEF Login
    <2>3. RecordedIsLoggedIn'
      BY <1>2, <1>13, <2>2 DEF RecordedIsLoggedIn, storeVars
    <2>4. StoreInv'
      BY <1>2, <1>13, <2>1, <2>3 DEF StoreInv, StoreType, storeVars
    <2>5. TaskInv' /\ Work(t)
      BY <1>1, <1>2, <1>3, <1>13, GoOnSame
    <2> QED
      BY <1>8, <1>11, <1>13, <2>4, <2>5 DEF Kept
  <1>14. CASE Applied(F) /\ a \in Accounts /\ PerformCloud(t, f, spent)
    BY <1>1, <1>3, <1>4, <1>7, <1>8, <1>9, <1>11, <1>14, PerformCloudKeeps DEF Kept
  <1>15. CASE Applied(F) /\ a \in Locals /\ PerformLocal(t, f, spent)
    BY <1>1, <1>3, <1>4, <1>7, <1>8, <1>9, <1>11, <1>15, PerformLocalKeeps DEF Kept
  <1> HIDE DEF f0, spent0
  <1> QED
    BY <1>5, <1>6, <1>12, <1>13, <1>14, <1>15

LEMMA BackupKeeps ==
  ASSUME SwitchInv, NEW t \in Tasks, Backup(t)
  PROVE  Kept /\ Work(t)
  <1>1. PICK a, g : a = task[t].account /\ g = task[t].target
    OBVIOUS
  <1>2. /\ ProfileInv /\ files \in [Targets -> FilesType] /\ faults \in 0..MaxFaults
        /\ UNCHANGED <<good, failures, safe, torn, unread>>
    BY DEF SwitchInv, ProfileInv, StoreInv, StoreType, Backup
  <1>3. pc[t] \in FlowStages /\ a \in Accounts
    BY <1>1 DEF Backup, FlowStages, SwitchInv, TaskInv
  <1>4. g \in Targets
    BY <1>1, <1>3, TaskOfStage DEF SwitchInv
  <1> DEFINE f0 == files[g]
             f1 == [f0 EXCEPT !.backup = IF f0.db = Missing THEN @ ELSE f0.db]
  <1>5. /\ f0 \in FilesType /\ f1 \in FilesType /\ f1.storage = f0.storage /\ f1.db = f0.db
    BY <1>2, <1>4 DEF FilesType
  <1>6. PICK f \in {f0, f1}, spent \in 0..MaxFaults : PerformCloud(t, f, spent)
    <2>1. faults < MaxFaults => faults + 1 \in 0..MaxFaults
      BY <1>2, SwitchAssumption
    <2> QED
      BY <1>1, <1>2, <2>1 DEF Backup
  <1>7. /\ f \in FilesType /\ f.storage = files[g].storage /\ f.db = files[g].db
    <2> HIDE DEF f1
    <2> QED
      BY <1>5, <1>6
  <1>8. /\ TaskInv' /\ Work(t) /\ StoreInv'
        /\ \E e \in FilesType : /\ files' = [files EXCEPT ![g] = e]
                                /\ e.storage = f.storage /\ e.db.machine = f.db.machine
    BY <1>1, <1>3, <1>4, <1>6, <1>7, PerformCloudKeeps
  <1>9. PICK e \in FilesType : /\ files' = [files EXCEPT ![g] = e]
                               /\ e.storage = f.storage /\ e.db.machine = f.db.machine
    BY <1>8
  <1>10. /\ g \notin Suspect' /\ e.db.machine # "other" => Agree(e.storage, e.db.machine, FALSE)
         /\ \A h \in Targets : h # g => (h \in Suspect' <=> h \in Suspect)
    BY <1>2, <1>4, <1>7, <1>9 DEF ProfileInv, MachineIdsAgree, Agree, Suspect
  <1>11. ProfileInv'
    BY <1>2, <1>4, <1>9, <1>10, SetFiles DEF ProfileInv
  <1> QED
    BY <1>8, <1>11 DEF Kept

LEMMA ReleaseStepKeeps ==
  ASSUME SwitchInv, NEW t \in Tasks, ReleaseStep(t)
  PROVE  Kept /\ Release(t)
  <1>1. /\ UNCHANGED profileVars /\ UNCHANGED <<storeVars, files>> /\ faults' = faults
        /\ task' = task /\ Release(t)
    BY DEF ReleaseStep, profileVars, counts
  <1>2. ProfileInv' /\ StoreInv'
    BY <1>1, SameProfile, SameStore DEF SwitchInv, StoreInv, StoreType
  <1>3. \A u \in Tasks : pc'[u] = pc[u] \/ (pc[u] # "none" /\ pc'[u] \in {"done", "start"})
    <2>1. pc \in [Tasks -> Stages \cup Idle] /\ pc[t] = "settled" /\ pendingQueue \in Seq(Tasks)
      BY <1>1 DEF SwitchInv, GuardInv, GuardType, Release
    <2>2. CASE pendingQueue = <<>>
      BY <1>1, <2>1, <2>2 DEF Release, ProcessQueue
    <2>3. CASE pendingQueue # <<>>
      <3>1. Head(pendingQueue) = pendingQueue[1] /\ 1 \in DOMAIN pendingQueue
        BY <2>1, <2>3, TailElements
      <3>2. pc[Head(pendingQueue)] = "queued"
        BY <3>1 DEF SwitchInv, GuardInv
      <3>3. pc' = [[pc EXCEPT ![t] = "done"] EXCEPT ![Head(pendingQueue)] = "start"]
        BY <1>1, <2>3 DEF Release, ProcessQueue
      <3> QED
        BY <2>1, <3>2, <3>3
    <2> QED
      BY <2>2, <2>3
  <1>4. TaskInv'
    BY <1>1, <1>3 DEF SwitchInv, TaskInv
  <1> QED
    BY <1>1, <1>2, <1>4 DEF Kept

\* Every step of a flow.
LEMMA FlowKeeps ==
  ASSUME SwitchInv, NEW t \in Tasks, FlowStep(t)
  PROVE  Kept /\ (Work(t) \/ Release(t))
  BY StartKeeps, SetupCloudKeeps, SetupLocalKeeps, PrepareKeeps, RefreshCacheKeeps, CloseKeeps,
     ApplyStepKeeps, BackupKeeps, LaunchKeeps, ReleaseStepKeeps DEF FlowStep

----------------------------------------------------------------------------
(* Requests, and what runs beside the guard *)

\* A request for an account and a target.
LEMMA AskKeeps ==
  ASSUME GuardInv, TaskInv, NEW t \in Tasks, NEW who \in {"user", "monitor"},
         NEW a \in Accounts \cup Locals, NEW g \in Targets, Ask(t, who, a, g)
  PROVE  /\ TaskInv' /\ RunWithSwitchGuard(t)
         /\ pc'[t] \in {"queued", "start"}
         /\ \A u \in Tasks : u # t => pc'[u] = pc[u] /\ task'[u] = task[u]
         /\ task'[t].by = who
  <1>1. RunWithSwitchGuard(t) /\ pc[t] = "none" /\ pc \in [Tasks -> Stages \cup Idle]
    BY DEF Ask, RunWithSwitchGuard, GuardInv, GuardType
  <1>2. pc'[t] \in {"queued", "start"} /\ \A u \in Tasks : u # t => pc'[u] = pc[u]
    <2>1. CASE processing
      BY <1>1, <2>1 DEF RunWithSwitchGuard
    <2>2. CASE ~processing
      <3>1. pendingQueue = <<>>
        BY <2>2 DEF GuardInv
      <3>2. pc' = [[pc EXCEPT ![t] = "queued"] EXCEPT ![t] = "start"]
        BY <1>1, <2>2, <3>1, SingletonQueue DEF RunWithSwitchGuard, ProcessQueue
      <3> QED
        BY <1>1, <3>2
    <2> QED
      BY <2>1, <2>2
  <1> DEFINE new == [NoTask EXCEPT !.by = who, !.account = a, !.target = g]
  <1>3. new \in TaskType /\ new.account = a /\ new.target = g /\ new.by = who
    BY DEF NoTask, TaskType
  <1>4. task' = [task EXCEPT ![t] = new]
    BY DEF Ask
  <1> HIDE DEF new
  <1>5. /\ task' \in [Tasks -> TaskType] /\ task'[t] = new
        /\ \A u \in Tasks : u # t => task'[u] = task[u]
    BY <1>3, <1>4 DEF TaskInv
  <1>6. TaskInv'
    BY <1>2, <1>3, <1>5 DEF TaskInv
  <1> QED
    BY <1>1, <1>2, <1>3, <1>5, <1>6

LEMMA UserAsksKeeps ==
  ASSUME SwitchInv, UserAsks
  PROVE  Kept /\ \E t \in Tasks : RunWithSwitchGuard(t)
  <1>1. PICK t \in Tasks, a \in exists, g \in Targets : Ask(t, "user", a, g)
    BY DEF UserAsks
  <1>2. a \in Accounts \cup Locals
    BY DEF SwitchInv, StoreInv, StoreType
  <1>3. TaskInv' /\ RunWithSwitchGuard(t)
    BY <1>1, <1>2, AskKeeps DEF SwitchInv
  <1>4. UNCHANGED profileVars /\ UNCHANGED <<storeVars, files>> /\ faults' = faults
    BY DEF UserAsks, profileVars, counts
  <1>5. ProfileInv' /\ StoreInv'
    BY <1>4, SameProfile, SameStore DEF SwitchInv, StoreInv, StoreType
  <1> QED
    BY <1>3, <1>5 DEF Kept

LEMMA BesideKeeps ==
  ASSUME SwitchInv, Beside
  PROVE  Kept /\ UNCHANGED <<guardVars, task>>
  <1>1. UNCHANGED <<guardVars, task>>
    BY DEF Beside, DeleteAccount, ApplyProfileOfLocal
  <1>2. TaskInv'
    BY <1>1 DEF SwitchInv, TaskInv, guardVars
  <1>3. CASE DeleteAccount
    <2>1. ProfileInv'
      BY <1>3, SameProfile DEF DeleteAccount, SwitchInv
    <2>2. /\ exists' \subseteq Accounts \cup Locals /\ archives' \subseteq Locals
          /\ active' \in (Accounts \cap exists') \cup {NoAccount}
      BY <1>3 DEF DeleteAccount, SwitchInv, StoreInv, StoreType
    <2>3. StoreInv'
      BY <1>3, <2>2 DEF DeleteAccount, SwitchInv, StoreInv, StoreType, RecordedIsLoggedIn, Login,
           profileVars, counts
    <2> QED
      BY <1>1, <1>2, <2>1, <2>3 DEF Kept
  <1>4. CASE ApplyProfileOfLocal
    <2>1. PICK F \in ApplyChoices(files["classic"]), p \in Profiles :
            /\ files' = [files EXCEPT !["classic"] = ApplyEnd("classic", p, F).files]
            /\ ApplyMarks("classic", p, F)
            /\ faults' = faults + Cardinality(F)
            /\ strayed' = StrayedBy("classic", ApplyEnd("classic", p, F).outcome)
      BY <1>4 DEF ApplyProfileOfLocal, Profiles
    <2>2. PICK f, outcome : /\ f = ApplyEnd("classic", p, F).files
                            /\ outcome = ApplyEnd("classic", p, F).outcome
      OBVIOUS
    <2>3. /\ "classic" \in Targets /\ ProfileInv /\ StoreType /\ RecordedIsLoggedIn
          /\ files \in [Targets -> FilesType] /\ good \in SnapshotType /\ MachineIdsAgree
          /\ failures \in 0..SafeThreshold /\ safe \in BOOLEAN
          /\ torn \subseteq Targets /\ unread \subseteq Targets /\ faults \in 0..MaxFaults
      BY DEF SwitchInv, ProfileInv, StoreInv, StoreType, Targets
    <2>4. f \in FilesType
      BY <2>2, <2>3, ApplyTyped
    <2>5. /\ good' \in SnapshotType /\ failures' \in 0..SafeThreshold /\ safe' \in BOOLEAN
          /\ torn' \subseteq Targets /\ unread' \subseteq Targets
          /\ \A h \in Targets : h # "classic" => (h \in Suspect' <=> h \in Suspect)
          /\ "classic" \notin Suspect' => outcome # "lost" /\ ~Unread("classic", outcome, F)
      BY <2>1, <2>2, <2>3, MarksTyped
    <2>6. "classic" \notin Suspect' /\ f.db.machine # "other" => Agree(f.storage, f.db.machine, FALSE)
      BY <2>2, <2>3, <2>5, ApplyAgrees
    <2>7. files' = [files EXCEPT !["classic"] = f]
      BY <2>1, <2>2
    <2>8. ProfileInv'
      BY <2>3, <2>4, <2>5, <2>6, <2>7, SetFiles
    <2>9. UNCHANGED <<rows, exists, archives, bound, active, recorded, cred>>
      BY <1>4 DEF ApplyProfileOfLocal
    <2>10. outcome \in {"applied", "restored"} => f.db.login = files["classic"].db.login
      BY <2>2, <2>3, ApplyKeepsLogin
    <2>11. strayed' = StrayedBy("classic", outcome)
      BY <2>1, <2>2
    <2>12. RecordedIsLoggedIn' /\ strayed' \subseteq Targets
      BY <2>3, <2>7, <2>9, <2>10, <2>11, StrayedKeeps
    <2>13. faults' \in 0..MaxFaults
      BY <2>1, <2>3, ApplyCost
    <2>14. StoreInv'
      BY <2>3, <2>9, <2>12, <2>13 DEF StoreInv, StoreType
    <2> QED
      BY <1>1, <1>2, <2>8, <2>14 DEF Kept
  <1>5. CASE SafeModeEnds /\ UNCHANGED <<guardVars, task, storeVars, counts>>
    <2>1. ProfileInv'
      BY <1>5 DEF SafeModeEnds, SwitchInv, ProfileInv, MachineIdsAgree, Agree
    <2>2. StoreInv'
      BY <1>5, SameStore DEF SafeModeEnds, SwitchInv, StoreInv, StoreType, counts
    <2> QED
      BY <1>1, <1>2, <2>1, <2>2 DEF Kept
  <1> QED
    BY <1>3, <1>4, <1>5 DEF Beside
=============================================================================
