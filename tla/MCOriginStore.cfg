SPECIFICATION Spec
CONSTANTS
  q1 = q1
  q2 = q2
  q3 = q3
  q4 = q4
  k1 = k1
  k2 = k2
  k3 = k3
  NoRequest = NoRequest
  Requests <- StoreRequests
  Keys <- StoreKeys
  Sizes <- StoreSizes
  MaxWaiters = 1
  MaxEntries = 2
  StoreBytes = 3
  Protected = TRUE
SYMMETRY StoreSymmetry
INVARIANTS
  TypeOK
  StoreExact
  SharesStorable
  StaleOnce
CHECK_DEADLOCK FALSE
