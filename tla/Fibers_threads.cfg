CONSTANTS
  Values = {r1, r2}
  Zero = Zero
SPECIFICATION FairSpec
INVARIANTS Inv CurrentBlockIsMine DisplayOK
PROPERTIES RegistersComeBack DisplayRunsAgain ReadyWorkerRuns
