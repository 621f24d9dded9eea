SPECIFICATION Spec
CONSTANTS
  energy = energy
  serialNumber = serialNumber
  Attributes <- MCAttributes
  Limits <- MCLimits
  ProposedTx = 128
  ProposedRx = 256
  MaxFrames = 5
  Faults = {"late"}
INVARIANT
  GetReturnsAttribute
