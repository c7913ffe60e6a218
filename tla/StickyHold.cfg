SPECIFICATION Spec
CONSTANTS
  NTickers = 2
  Anchors = {2}
  Strategies = {"mom60_raw", "post_crash_anchor", "inactive_participate", "runner_reversal", "mom60_hold", "impulse_crash", "split_fill_lock"}
  MinHold = 3
  MinGap = 1
  Horizon = 2
  StopNum = 1
  StopDen = 4
  TopScore = 1
  TopAdv = 2
  RequiredAdv = 1
  FullAdv = 2
  Families <- MCFamilies
  Plus2 = {1, 2}
  Synthetic = {}
  InitialCapital = 3
  MaxCapital = 4
  MaxSession = 5
INVARIANTS
  MinHoldKept
  RunnerConfirmed
  StopIsFinal
  AgreesUntilContested
CHECK_DEADLOCK FALSE
