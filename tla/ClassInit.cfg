SPECIFICATION LiveSpec
CONSTANTS
  Classes <- MCClasses
  Interfaces = {"I", "J"}
  Threads = {t1, t2}
  NoClass = "none"
  NoThread = nobody
  Super <- MCSuper
  Direct <- MCDirect
  HasDefault = {"I"}
  Touches <- TouchTree
  MayThrow = {"A", "I"}
  MayReject = {"A"}
  MayMismatch = {"B", "C"}
  Precompiled = {"A"}
  Roots = {"A", "B", "J"}
  MaxCalls = 2
INVARIANTS ChecksHold OneInitializer NoLostWakeup SupersFirst
PROPERTIES EveryCallReturns ImplementsJls
