SPECIFICATION Spec
CONSTANTS
  c1 = c1
  c2 = c2
  Client <- MCClient
  MaxID = 3
  Name = {"a"}
  Content = {1}
  EmptyFile = 0
  Attr = {1}
  DefaultAttr = 0
  MaxVersion = 3
  MaxTicket = 3
CHECK_DEADLOCK FALSE
INVARIANT LocksHonoured
