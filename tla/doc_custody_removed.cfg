SPECIFICATION Spec
CONSTANTS
  None = None
  Accounts = {"a1", "a2", "a3", "custody", "spare"}
  AccountOwner <- MCAccountOwner
  Custody = "custody"
  Locks = {1, 2, 3}
  LockOwner <- MCLockOwner
  Cases <- MCCases
  MoveAmounts = {1}
  FinalityLag = 1
  MaxSlot = 3
CHECK_DEADLOCK FALSE
INVARIANT RemovedIsTheCustody
