CONSTANTS
  Nets = {n1}
  NoNet = NoNet
  MaxCalls = 1
  MaxPolls = 1
  Env = {"reject", "invalid"}
SPECIFICATION FairPageSpec
INVARIANT PollingResumes
PROPERTY VerdictConverges
PROPERTY PanelFollowsDevice
