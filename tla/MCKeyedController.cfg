SPECIFICATION FairSpec
CONSTANTS
  None = None
  Keys = {k1, k2}
  Workers = {w1, w2}
  Producers = {p1, p2}
  Payloads <- MCPayloads
  Merge <- MCMerge
  Rewrites <- MCRewrites
INVARIANTS
  TypeOK
  OneWorkerPerKey
  NoStrandedPayload
PROPERTIES
  ImplementsMailbox
  EventuallyTaken
