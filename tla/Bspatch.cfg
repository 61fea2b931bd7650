CONSTANTS
  MaxInt = 7
  Patches <- MCPatches
  OldSize = 3
  MaxNewSize = 4
SPECIFICATION Spec
INVARIANTS TypeInv OutputIsThePatch AcceptsTheWellFormed
CHECK_DEADLOCK FALSE
