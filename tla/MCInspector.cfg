SPECIFICATION ElectedSpec
CONSTANTS
  Node = {1, 2}
  Misconfigured = {2}
  Stoppable = {1}
  NodeSetting = 2
  ToolSetting = 0
  DefaultPeriod = 2
  Timely = {TRUE, FALSE}
  Delay = 0
  MaxTerm = 2
  MaxFlight = 2
INVARIANT InspectorTypeOK
INVARIANT NewestIsShown
INVARIANT ShownLeaderLed
INVARIANT CurrentLeaderIsShown
PROPERTY StaysListed
