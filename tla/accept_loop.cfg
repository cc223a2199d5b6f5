\* A shutdown request while the HTTP loop is busy with a connection.
SPECIFICATION Spec
CONSTANTS
  x1 = x1
  x2 = x2
  x3 = x3
  r1 = r1
  r2 = r2
  r3 = r3
  i1 = i1
  i2 = i2
  c1 = c1
  c2 = c2
  c3 = c3
  k1 = k1
  k2 = k2
  f1 = f1
  f2 = f2
  f3 = f3
  f4 = f4
  f5 = f5
  Terminals = {x1, x2, x3}
  Workers = {1, 2}
  MaxTerminals = 1
  MaxHeld = 2
  MaxRead = 1
  MaxBytes <- MCMaxBytes
  Requests = {r1, r2, r3}
  IdOf <- MCIdOf
  MaxInflight = 1
  MaxConnections = 2
  MaxMarks = 1
  ToolCalls = {c1, c2, c3}
  KeyOf <- MCKeyOf
  Hooks = 1
  MaxEntries = 1
  FileCalls = {f1, f2, f3, f4, f5}
  ToolOf <- MCToolOf
INVARIANT AcceptLoopStops
CHECK_DEADLOCK FALSE
