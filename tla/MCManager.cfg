CONSTANTS
  alpha = alpha
  bravo = bravo
  charlie = charlie
  ghost = ghost
  beta = beta
  gamma = gamma
  delta = delta
  NoClient = NoClient
  First = alpha
  Quits = 1
  Client <- MCClient
  Word <- MCWord
  Configs <- MCConfigs
SPECIFICATION ManagerSpec
INVARIANTS ManagerTypeOK JobsInOrder OneJobAtATime RightSocketClosed
PROPERTIES AllJobsDone NobodyStaysBehind
CHECK_DEADLOCK FALSE
