SPECIFICATION Spec
CONSTANTS
  energy = energy
  serialNumber = serialNumber
  Attributes <- MCAttributes
  Limits <- MCLimits
  ProposedTx = 128
  ProposedRx = 256
  MaxFrames = 6
  Faults = {"loss", "noise", "restart"}
INVARIANTS
  TypeOK
  WindowOne
  GetReturnsAttribute
  DisconnectMeansDisconnected
PROPERTY
  ImplementsExchange
