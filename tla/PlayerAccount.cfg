SPECIFICATION Spec
CONSTANTS
  None = None
  Unknown = Unknown
  n1 = n1
  n2 = n2
  bad = bad
  kr = kr
  zz = zz
  eu = eu
  h1 = h1
  h2 = h2
  a1 = a1
  a2 = a2
  v1 = v1
  v2 = v2
  Handle = {h1, h2}
  Id = {n1, n2}
  BadId = bad
  Common = {kr}
  Country = {kr, zz}
  Region = {eu}
  Admin = {a1, a2}
  View = {v1, v2}
  ResetTo = {1}
  MaxCommands = 4
  MaxPending = 2
INVARIANTS
  TypeOK
  DbCatchesUp
  AuditTells
  NewestIsTrue
  SetupIsWhole
SYMMETRY Alike
CHECK_DEADLOCK FALSE
