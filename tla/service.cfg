SPECIFICATION Spec
CONSTANTS
  Procs = {1, 2}
  Length <- Script
  MaxCrashes = 1
  Operators = {o1, o2}
  NoPid = NoPid
INVARIANTS RecordedIsWhole ServesWholeSchema ServerIsNamed
PROPERTIES MigrationsInOrder CommandsEnd
