\* Two polls of the monitor and a switch that a user asks for; an account may be
\* deleted, and any operation of a poll fail.
CONSTANTS
  Tasks = {1, 2, 3, 4, 5}
  Stages = {"start", "setup", "prepare", "refreshCache", "close", "apply", "backup", "launch"}
  Accounts = {"a", "b"}
  Locals = {}
  ApplyFaults = {}
  SafeThreshold = 3
  CredStore = {"classic"}
  InitActive = {"a"}
  InitMachines = {"unset"}
  StepFaults = {"fetch", "status", "list", "setting"}
  MaxDeletes = 1
  MaxApplies = 0
  MaxAsks = 1
  MaxFaults = 1
  Polls = {1, 2}
SPECIFICATION FairSpec
INVARIANTS OnePoll OneAutoSwitch
PROPERTY PollEnds
CHECK_DEADLOCK FALSE
