SPECIFICATION FairSpec
CONSTANTS
  Pipelines <- Jobs
  Pids = {11, 12, 13}
  Codes = {0, 1, 2}
  MaxForkFails = 1
INVARIANTS IInv ChildHasOwner NoLostChild EndsOpenWhileStageRuns ExecOnAsDocumented JobRetcode
PROPERTY JobFinishes
