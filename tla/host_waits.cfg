SPECIFICATION FairSpec
CONSTANTS
  status = status hook = hook caps_tool = caps_tool search = search export = export
  memory = memory packet = packet typo = typo gum = gum java = java
  Core <- MCCore
  Expert <- MCExpert
  Groups <- MCGroups
  group <- Mcgroup
  Caps <- MCCaps
  requires <- MCrequires
  SummaryTool = caps_tool
  MountArgs <- MCMountArgs
  Grants <- MCGrants
  Calls = {c1}
  Specs <- MCSpecs
  DevicePorts = {60500, 99999}
  FreePorts = {49152}
  MaxSessions = 3
  MaxUnplugs = 1
  None = None
PROPERTIES WaitingHelps
CHECK_DEADLOCK FALSE
