SPECIFICATION Spec
CONSTANTS
  Titles <- MCTitles
  Secrets <- MCSecrets
  ChallengerSizes <- MCChallengerSizes
  RandomBytes <- MCRandomBytes
  Requests <- MCRequests
  Answers <- MCAnswers
  Memory <- MCMemory
  Sizes <- MCSizes
INVARIANTS
  TypeOK
  LengthsFit
  FieldsInOrder
  AuthenticationAnnounced
  RequestUnderstood
  PackedReadable
  SizeReadable
  SuccessIsData
  OverrunMeansMisstated
  NumberShown
