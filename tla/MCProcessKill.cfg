SPECIFICATION FairSpec
CONSTANTS
  MaxPid = 4
  Quantum = 1
  TickMod = 1
  SleepTicks = {1}
  Sigs = {2, 9}
  ShellTasks = {"iret"}
PROPERTY
  KillKills
