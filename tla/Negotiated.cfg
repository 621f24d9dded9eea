SPECIFICATION FairSpec
CONSTANTS
  Proposals <- MCProposals
  Payloads <- MCPayloads
  Headers <- MCHeaders
  Contexts <- MCContexts
INVARIANTS
  TypeOK
  OffsetInside
  WithinProposals
  NothingStale
  ProposalsReadable
PROPERTIES
  RefusalKeepsContext
  Returns
CHECK_DEADLOCK FALSE
