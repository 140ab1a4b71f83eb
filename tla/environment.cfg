SPECIFICATION Spec
CONSTANTS
  Names = {test}
  Values = {v1, v2}
  Blocks = {b1, b2, b3}
  Junk = Junk
  None = None
INVARIANT AssignedIsRead
CHECK_DEADLOCK FALSE
