\* Whoever corrects, audits or decides may fail or die once.
SPECIFICATION Spec
CONSTANTS
  base = base  rollup = rollup  c1 = c1  c2 = c2  passed = passed  failed = failed
  corrector = corrector  auditor = auditor  second = second  decider = decider
  Checkpoint <- MCCheckpoint
  Correction <- MCCorrection
  Certificate <- MCCertificate
  Mentions <- MCMentions
  Blocking <- MCCorrection
  Actionable <- MCCorrection
  About <- MCAbout
  Created <- MCCreated
  Granting <- MCGranting
  None = None
  Thread <- MCThread
  CallsOf <- MCCallsOf
  Fallible <- MCFallible
  MaxFaults = 1
INVARIANTS TypeOK AckedCorrectionsBlock ReplayHonoursAcked LatestControls
