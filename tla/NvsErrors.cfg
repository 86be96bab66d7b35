CONSTANTS
  Ssids <- TwoSsids
  Passwords <- TwoPasswords
  Nets <- ThreeNets
  Blank = Blank
  Absent = Absent
  Unknown = Unknown
  Env = {"powercut", "ioerror"}
SPECIFICATION NvsSpec
PROPERTY RestoreIsFaithful
PROPERTY SaveIsComplete
