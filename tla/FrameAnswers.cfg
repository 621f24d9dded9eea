SPECIFICATION Spec
CONSTANTS
  Commands <- MCCommands
  Answers <- MCAnswers
  AddressLengths = {2, 4}
  Flips <- MCFlips
INVARIANTS
  TypeOK
  SpoiltRefused
  EchoRefused
  AnswerDecoded
  CommandsWellFormed
  ReadsInside
