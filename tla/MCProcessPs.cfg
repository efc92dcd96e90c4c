SPECIFICATION Spec
CONSTANTS
  MaxPid = 3
  Quantum = 1
  TickMod = 1
  SleepTicks = {}
  Sigs = {}
  ShellTasks = {"iret"}
INVARIANTS
  PsListsEveryTask
