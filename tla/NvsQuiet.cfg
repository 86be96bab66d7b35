CONSTANTS
  Ssids <- TwoSsids
  Passwords <- TwoPasswords
  Nets <- ThreeNets
  Blank = Blank
  Absent = Absent
  Unknown = Unknown
  Env = {"restart"}
SPECIFICATION NvsSpec
INVARIANT LockFreeAtRest
PROPERTY StoreSpec
