SPECIFICATION FairSpec
CONSTANTS
  MaxPid = 4
  Quantum = 1
  TickMod = 3
  SleepTicks = {1}
  Sigs = {9}
  ShellTasks = {"kern"}
PROPERTIES
  NoStarvation
  SleepersWake
