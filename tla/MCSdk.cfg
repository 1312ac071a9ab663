SPECIFICATION MCSpec
CONSTANTS
  c1 = c1
  c2 = c2
  w1 = w1
  Clients = {c1}
  Workers = {w1}
  Dds = dds
  Nobody = nobody
  Options <- MCOptions
  Configurations <- MCConfigurations
  CallbackAtStart = TRUE
  Calls = {"Initialize", "DiscoverRobot", "Connect", "StartCommunication",
           "StopCommunication", "Disconnect", "Shutdown"}
  MotorFaults = {}
  MaxAge = 3
INVARIANTS
  AdaptersAreSound
PROPERTIES
  WrapperIsSound
