SPECIFICATION MCSpec
CONSTANTS
  p1 = p1
  p2 = p2
  s1 = s1
  s2 = s2
  s3 = s3
  a1 = a1
  a2 = a2
  b1 = b1
  c1 = c1
  x1 = x1
  y1 = y1
  r1 = r1
  r2 = r2
  r3 = r3
  k1 = k1
  k2 = k2
  NoRow = NoRow
  NoKey = NoKey
  NoProcess = NoProcess
  NoDeclaration = NoDeclaration
  Processes <- MCProcesses
  Registrations <- MCRegistrations
  Activations <- MCActivations
  ProcessOf <- MCProcessOf
  StoreOf <- MCStoreOf
  Principals <- MCPrincipals
  Ids <- MCIds
  Keys <- MCKeys
  Slots <- MCSlots
  Declarations <- MCDeclarations
  Amounts = {1, 2}
  MaxSafe = 4
  Batch = 1
  MaxEvents = 4
  MaxClaims = 5
SYMMETRY MCSymmetry
INVARIANTS
  TypeOK
  ServedUnderLock
  CreditsFit
  NoOverlap
  RetryWindow
  LossExact
CHECK_DEADLOCK FALSE
