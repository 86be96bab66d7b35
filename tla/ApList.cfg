CONSTANTS
  Ssids = {"home"}
  Hidden = ""
  Auths = {"open", "wpa2"}
  Rssis <- Strengths
  MaxAps = 4
SPECIFICATION Spec
PROPERTY ServedIsTrue
