SPECIFICATION Spec
CONSTANTS
  Commands <- MCCommands
  Answers <- MCAnswers
  AddressLengths = {2}
  Flips <- MCFlips
INVARIANTS
  AddressDecoded
