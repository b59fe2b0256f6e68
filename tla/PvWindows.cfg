SPECIFICATION FairSpec
CONSTANTS
  w1 = w1
  w2 = w2
  w3 = w3
  H = {w1, w2, w3}
  Shell = Shell
  NoWnd = NoWnd
  SlotW = 4
  ShellW = 2
  MaxSlots = 2
  SettlePolls = 2
  Junk <- MCJunk
  ShellHeight = 4
  Heights = {3, 4}
  PhoneScreen <- MCScreen
  Desktops <- MCDesktops
  Habits <- MCHabits
INVARIANTS
  TypeOK
  SlotHolds
  Placed
  
PROPERTY Converges
