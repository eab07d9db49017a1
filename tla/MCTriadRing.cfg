CONSTANTS
  HASHMAX = 31
  FTLEN = 6
  First = 11
  Node <- MCNode
SPECIFICATION Spec
INVARIANTS TypeOK RingCorrect LookupsDuringJoin FingersCorrect StaleFingersPastStart RequestsReachReadyNodes DoubleSuccOneStale
PROPERTIES OnlyLinkSuccRelinks JoinsComplete RefinesMembership
