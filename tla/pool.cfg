SPECIFICATION Spec
CONSTANTS
  Objects = {a, c}
  Careful = {a}
  Numbers = {3, 4}
  Application = Application
  Nobody = Nobody
SYMMETRY PoolSymmetry
INVARIANT TypeOK
INVARIANT CarelessClosesFirst
INVARIANT CarefulOwnsItsDescriptor
CHECK_DEADLOCK FALSE
