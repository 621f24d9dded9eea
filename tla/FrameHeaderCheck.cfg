SPECIFICATION Spec
CONSTANTS
  Commands <- MCCommands
  Answers <- MCAnswersAwkward
  AddressLengths = {4}
  Flips <- MCFlips
INVARIANTS
  ValidFramesAccepted
