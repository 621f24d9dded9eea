SPECIFICATION OpticalFairSpec
CONSTANTS
  energy = energy
  Attributes <- MCAttributes
  Limits <- MCLimits
  ProposedTx = 128
  ProposedRx = 256
  MaxFrames = 8
  Faults = {"loss", "noise", "restart"}
INVARIANTS
  OpticalTypeOK
  ChangedOver
  ConnectedUnlessRestarted
PROPERTIES
  ImplementsExchange
  ReadsEnd
