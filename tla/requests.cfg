SPECIFICATION FairSpec
CONSTANTS
  Callers = {1, 2}
  MaxRetries = 1
  Threshold = 2
  ResetAfter = 1
  MaxTime = 1
  Domains <- MCDomains
  Allowed = {"criminal", "sco", "judicial", "sigef"}
  Alias <- MCAlias
  AgentAlias <- MCAgentAlias
  HardAcl <- MCHardAcl
  SystemAlias <- MCSystemAlias
  Scopes <- MCScopes
  Chunks <- MCChunks
  FanOut = 3
  MaxBudget = 4
  NoDomain = "none"
  Loads <- MCLoads
  Answers <- MCAnswers
  MaxTurns = 1
INVARIANTS TypeOK PolicyKept OpenIsEarned FallbackTried RequestStaysLocal EvidenceInScope BudgetKept GapsAreTold DropIsFlagged
PROPERTIES NoReplay RequestEnds
CHECK_DEADLOCK FALSE
