--------------------------- MODULE IdentityProfile ---------------------------
(***************************************************************************)
(* Applying an identity profile to an installation of the editor: the      *)
(* profile in storage.json and the machine id in state.vscdb are changed   *)
(* together, with a backup, a rollback, a last known good snapshot that    *)
(* all installations share, and a safe mode after repeated failures.       *)
(*                                                                         *)
(* applyDeviceProfile does not await anything, so it is one step; what it  *)
(* leaves behind depends on the file operations that fail, the set F.  A   *)
(* copy or a removal that fails leaves its file as it was.                 *)
(***************************************************************************)
EXTENDS Naturals, FiniteSets

CONSTANTS
  Accounts,      \* the cloud accounts
  Locals,        \* the local accounts
  InitMachines,  \* what the databases may hold as a machine id at first
  ApplyFaults,   \* the file operations of applyDeviceProfile that may fail
  SafeThreshold  \* DEVICE_HARDENING_SAFE_MODE_THRESHOLD

\* What stops an apply: a copy to the backups, the write of storage.json, the
\* removal of its temporary file, the database that cannot be opened, the write
\* of its first or second key, the verification.
StopKinds ==
  {"copyStorage", "copyDb", "write", "unlink", "open", "sync", "syncLate", "verify"}

\* In the rollback: the copies back, the reads of storage.json and of the
\* machine id when they are checked.
RollbackKinds == {"restoreStorage", "restoreDb", "checkStorage", "readBack"}

\* In the restore of the snapshot: its marker or storage.json, its database, a
\* read in the check.  In the save of a snapshot: its two copies, its marker.
GoodKinds == {"lastGood", "lastGoodDb", "readGood"}
SnapshotKinds == {"snapshotStorage", "snapshotDb", "marker"}

FaultKinds == StopKinds \cup RollbackKinds \cup GoodKinds \cup SnapshotKinds

NoAccount == "no account"

ASSUME ProfileAssumption ==
  /\ Accounts \cap Locals = {}
  /\ (Accounts \cup Locals) \cap {NoAccount, "original", "other", "unset", "missing"} = {}
  /\ InitMachines \subseteq {"missing", "unset", "other"}
  /\ ApplyFaults \subseteq FaultKinds /\ IsFiniteSet(ApplyFaults)
  /\ SafeThreshold \in Nat \ {0}

VARIABLES
  files,     \* storage.json, state.vscdb and state.vscdb.backup of each target
  good,      \* the last known good snapshot
  failures,  \* consecutiveApplyFailures, up to the threshold
  safe,      \* safeModeUntil lies in the future
  torn,      \* history: the targets where the last apply reported rollback_failed
  unread     \* history: the targets where the last rollback could not read the
             \* machine id that it had to check

profileVars == <<files, good, failures, safe, torn, unread>>

Targets == {"classic", "ide"}

\* Every account has a profile of its own; "original" is what the editor came
\* with.  The machine id of a database may be another one or not be set.
Profiles == Accounts \cup Locals \cup {"original"}
Db(machine, login) == [machine |-> machine, login |-> login]
Missing == Db("missing", NoAccount)
Dbs == [machine : Profiles \cup {"other", "unset", "missing"}, login : Accounts \cup Locals \cup {NoAccount}]
FilesType == [storage : Profiles, db : Dbs, backup : Dbs]
NoSnapshot == [storage |-> "none", db |-> Missing]
SnapshotType == [storage : Profiles, db : Dbs] \cup {NoSnapshot}

ProfileInit ==
  /\ files \in [Targets ->
       {[storage |-> "original", db |-> Db(m, NoAccount), backup |-> Missing] : m \in InitMachines}]
  /\ good = NoSnapshot
  /\ failures = 0
  /\ safe = FALSE
  /\ torn = {} /\ unread = {}

\* At most one operation of a phase fails, for that ends the phase; the save of
\* a snapshot follows an apply that succeeded, the other phases one that was
\* stopped.
AtMostOne(kinds) == {{}} \cup {{k} : k \in kinds \cap ApplyFaults}
FaultSets ==
  AtMostOne(SnapshotKinds) \cup
  {{stop} \cup back \cup last :
     stop \in StopKinds \cap ApplyFaults, back \in AtMostOne(RollbackKinds),
     last \in AtMostOne(GoodKinds)}

\* readStateServiceMachineIdValue: a read that fails finds no id.
Seen(db, failed) == IF failed /\ db.machine # "missing" THEN "unset" ELSE db.machine

\* ensureStorageStateConsistency of the id it reads; strict: none will not do.
Agree(storage, machine, strict) ==
  machine \in {storage, "missing"} \/ (~strict /\ machine = "unset")

\* How far the apply of a profile gets.
BackedUp(F) == F \cap {"copyStorage", "copyDb"} = {}
Written(F) == BackedUp(F) /\ "write" \notin F
Opened(F) == Written(F) /\ F \cap {"unlink", "open"} = {}
Applied(F) == F \cap StopKinds = {}

\* The operations F are called by an apply to the files f: those on a database
\* or a backup that exists.
Called(f, F) ==
  /\ "copyDb" \in F => f.db # Missing
  /\ "restoreStorage" \in F => "copyStorage" \notin F
  /\ "restoreDb" \in F => IF f.db = Missing THEN Opened(F) ELSE BackedUp(F) \/ f.backup # Missing
  /\ "readBack" \in F => f.db # Missing

\* The files when the apply of p to the files f has succeeded or failed, before
\* any rollback.  Opening the database creates it; the first of the backups that
\* fails leaves an older state.vscdb.backup in place.
Touched(f, p, F) ==
  [storage |-> IF Written(F) THEN p ELSE f.storage,
   db |-> IF ~Opened(F) THEN f.db
          ELSE IF "sync" \in F THEN [f.db EXCEPT !.machine = IF @ = "missing" THEN "unset" ELSE @]
          ELSE Db(p, f.db.login),
   backup |-> IF f.db = Missing \/ ~BackedUp(F) THEN f.backup ELSE f.db]

\* The rollback from the backups: the files it leaves.
FromBackup(f, now, F) ==
  IF "restoreStorage" \in F THEN now
  ELSE [now EXCEPT !.storage = f.storage,
          !.db = IF "restoreDb" \in F THEN @
                 ELSE IF f.db = Missing THEN Missing
                 ELSE IF now.backup # Missing THEN now.backup ELSE @]

\* It reports success, although it checks an id that it may be unable to read.
RolledBack(back, F) ==
  /\ F \cap {"restoreStorage", "restoreDb", "checkStorage"} = {}
  /\ Agree(back.storage, Seen(back.db, "readBack" \in F), FALSE)

\* It restored a state.vscdb.backup from before this apply.
Older(f, F) == ~BackedUp(F) /\ f.db # Missing /\ f.backup # Missing

\* restoreLastKnownGoodSnapshot: the files it leaves, and whether it copied both.
CanUseGood(F) == good # NoSnapshot /\ F \cap {"lastGood", "lastGoodDb"} = {}
FromGood(now, F) ==
  IF good = NoSnapshot \/ "lastGood" \in F THEN now
  ELSE [now EXCEPT !.storage = good.storage,
          !.db = IF "lastGoodDb" \in F THEN @ ELSE good.db]

\* Mutant: what the snapshot held is not checked.
GoodRestoredUnchecked(end, F) == CanUseGood(F)

\* Whether it reports that it restored the files end.
GoodRestored(end, F) ==
  CanUseGood(F) /\ Agree(end.storage, Seen(end.db, "readGood" \in F), TRUE)

\* The snapshot after a success.  A failed copy of the database leaves the old
\* one beside the new storage.json; without a marker neither counts.
NewGood(f, F) ==
  CASE "snapshotStorage" \in F -> good
    [] F \cap {"snapshotDb", "marker"} # {} /\ good = NoSnapshot -> good
    [] "snapshotDb" \in F /\ good # NoSnapshot -> [good EXCEPT !.storage = f.storage]
    [] OTHER -> [storage |-> f.storage, db |-> f.db]

AtMost(n) == IF n > SafeThreshold THEN SafeThreshold ELSE n

\* markApplyFailure, once or twice.
Mark(n) ==
  /\ failures' = AtMost(failures + n)
  /\ safe' = (safe \/ failures + n >= SafeThreshold)

\* applyDeviceProfile of p to target g where the operations F fail: the files it
\* leaves, without the backups, which are removed in every case, and how it ended.
ApplyEnd(g, p, F) ==
  LET f == files[g]
      now == Touched(f, p, F)
      back == FromBackup(f, now, F)
      end == IF Applied(F) THEN now
             ELSE IF RolledBack(back, F) THEN back ELSE FromGood(back, F)
  IN [files |-> [end EXCEPT !.backup = Missing],
      outcome |-> IF Applied(F) THEN "applied"
                  ELSE IF RolledBack(back, F) THEN IF Older(f, F) THEN "older" ELSE "restored"
                  ELSE IF GoodRestored(end, F) THEN "good" ELSE "lost"]

\* The check of the rollback passed unread, where something may have been wrong:
\* it restored an older copy, or files that did not agree before.
Unread(g, outcome, F) ==
  /\ "readBack" \in F
  /\ outcome = "older" \/ (outcome = "restored" /\ g \in torn \cup unread)

\* What applyDeviceProfile does besides: the snapshot, markApplySuccess and
\* markApplyFailure.
ApplyMarks(g, p, F) ==
  LET end == ApplyEnd(g, p, F) IN
  /\ torn' = IF end.outcome = "lost" THEN torn \cup {g} ELSE torn \ {g}
  /\ unread' = IF Unread(g, end.outcome, F) THEN unread \cup {g} ELSE unread \ {g}
  /\ IF Applied(F)
     THEN good' = NewGood(end.files, F) /\ failures' = 0 /\ safe' = FALSE
     ELSE good' = good /\ Mark(IF end.outcome = "lost" THEN 2 ELSE 1)

\* Safe mode ends after its five minutes.
SafeModeEnds == safe /\ safe' = FALSE /\ UNCHANGED <<files, good, failures, torn, unread>>
=============================================================================
