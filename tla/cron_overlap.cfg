\* Two servers on one data directory.
SPECIFICATION Spec
CONSTANTS
  s1 = s1
  s2 = s2
  j1 = j1
  j2 = j2
  Servers = {s1, s2}
  Jobs = {j1}
  MaxTime = 2
  NextFire <- OneJobNextFire
INVARIANT NeverTwiceAtOnce
