CONSTANTS
  Uniform = {"u1", "u2"}
  Flex = {"f1", "f2"}
  AvSet = {"a1", "a2"}
  Old = {"u1", "f1", "a1"}
  Plans <- MCPlans
  CacheFaults = {"list"}
  Ages = {"uniform", "flex", "a1"}
  ScaleSetVMs = {"v1"}
  OtherVMs = {"v2"}
  Disk = {"d1", "d2"}
  Lun = {1, 2}
  DiskFaults = {"lookup", "reject", "unsure", "wait", "noresult", "check"}
  MaxDiskFaults = 1
  MaxOutside = 1
  UHost = {"u1", "u2"}
  FHost = {"f1"}
  AHost = {"a1"}
  Pool = {"v4", "v6"}
  V6Pool = {"v6"}
  Foreign = {"u2", "a1"}
  OtherAvSet = {}
  NicMayFail = {"a1"}
  MayStop = {"u2"}
  MayBeLost = {"f1"}
  MaxPoolFaults = 1
SPECIFICATION CSpec
INVARIANTS
    DisksAsAnswered
    PoolsAsAnswered
PROPERTIES
    RunningNotDenied
    GoneIsNoticed
CHECK_DEADLOCK FALSE
