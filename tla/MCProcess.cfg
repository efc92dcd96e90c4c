SPECIFICATION Spec
CONSTANTS
  MaxPid = 4
  Quantum = 1
  TickMod = 2
  SleepTicks = {1}
  Sigs = {2, 9}
  ShellTasks = {"iret"}
INVARIANTS
  ReadyQueueSound NoTaskLost FamilyConsistent NoLostChildWakeup PidsMatchTasks
PROPERTIES
  ZombiesStayDead
