SPECIFICATION MCSpec
CONSTANTS
  Parts = {"sdk", "resources", "readers", "cancellation", "telemetry", "jobs", "missions"}
  Clients = {c1}
  Workers = {w1}
  TelemetryClients = {k1, k2}
  Dds = dds
  Nobody = nobody
  Options <- MCOptions
  Configurations <- MCConfigurations
  CallbackAtStart = FALSE
  Calls = {"Initialize", "StartCommunication", "StopCommunication", "EmergencyStop",
           "Shutdown"}
  MotorFaults = {}
  MaxAge = 3
PROPERTIES
  EveryStopTakesEffect
  EveryChangeIsNoticed
