SPECIFICATION FairSpec
CONSTANTS
  Streams = {"timely", "late", "cut"}
  Ports <- MCPorts
  Aarq <- MCAarq
  Gets <- MCGets
  Aares <- MCAares
  Responses <- MCResponses
  MeterPorts <- MCMeterPorts
  Cuts <- MCCuts
  MaxFrames = 3
INVARIANTS
  TypeOK
  WrittenComplete
  AcceptedWhole
  GetAlwaysThrows
PROPERTIES
  KeepsDiscipline
  CallReturns
