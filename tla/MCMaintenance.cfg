SPECIFICATION MCSpec
CONSTANTS
  absent = absent
  v1 = v1
  v2 = v2
  r1 = r1
  r2 = r2
  Values = {absent, v1, v2}
  Absent = absent
  Ids = {r1, r2}
  Faults = TRUE
  Apps = {a1, a2}
  Warning = warning
  Cap = 1
  Interval = 1
  Window = 60
  LastDay = 3
  MaxRuns = 3
  MaxEdits = 1
  MaxFaults = 1
  MaxAttempts = 3
  Offers <- MCOffers
  RawPlans <- MCPlans
  Outputs <- MCOutputs
  Packages = {"vlc", "vlc.install"}
  Versions <- MCVersions
  Base <- MCBase
  Kin <- MCKin
  Machines <- MCMachines
  Managers <- MCManagers
  AiCap = 1
  MaxChecks = 2
  Actions <- MCActions
  Attempts <- MCAttempts
  BaseOf <- MCBaseOf
  Histories <- MCHistories
  Quorum = 2
  PenaltyCap = 15
  MaxEvidence = 1
  MaxCycles = 1
  MaxOps = 1
  MaxCalls = 2
INVARIANTS TypeOK WayBackRecorded OnceOnly ButtonsWork
           ScheduleTrue EvidenceSurvives AttemptsSound CheckSound LearningSound
PROPERTIES HealingSound
CHECK_DEADLOCK FALSE
SYMMETRY Symmetry
