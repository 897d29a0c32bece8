CONSTANTS
  Agent = {console, locator}
  console = console
  locator = locator
  LocatorAgent = locator
  Mac = {m1, m2}
  Text = {t}
  m1 = m1
  m2 = m2
  t = t
  AnyCode = AnyCode
  Unset = Unset
  MaxSets = 2
  MaxMisreads = 1
  IdleLimit = 1
  Hold = 2
  MaxRestarts = 1
SPECIFICATION Spec
INVARIANTS   SessionEnds
SYMMETRY MacSymmetry
