\* Switches that users ask for, profiles applied beside them, every file operation
\* that may fail; no poll.
CONSTANTS
  Tasks = {1, 2, 3}
  Stages = {"start", "setup", "prepare", "refreshCache", "close", "apply", "backup", "launch"}
  Accounts = {"a"}
  Locals = {"l"}
  ApplyFaults = {"copyStorage", "copyDb", "write", "unlink", "open", "sync", "syncLate", "verify", "restoreStorage", "restoreDb", "checkStorage", "readBack", "lastGood", "lastGoodDb", "readGood", "snapshotStorage", "snapshotDb", "marker"}
  SafeThreshold = 3
  CredStore = {"classic"}
  InitActive = {"no account"}
  InitMachines = {"missing", "other"}
  StepFaults = {"prepare", "refreshCache", "backup", "inject", "record", "restore", "launch"}
  MaxDeletes = 0
  MaxApplies = 1
  MaxAsks = 3
  MaxFaults = 2
  Polls = {}
SPECIFICATION FairSpec
INVARIANTS MachineIdsAgree RecordedIsLoggedIn
PROPERTY ServedInTurn
CHECK_DEADLOCK FALSE
