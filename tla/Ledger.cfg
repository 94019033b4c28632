\* Two callers at a time on three learnings, of which two may be kept, and one attempt.
\* The versions are bounded, so the ledger comes to rest.
SPECIFICATION Spec
CONSTANTS
  Callers <- TwoCallers
  Learnings = {"claim_a", "claim_b", "claim_c"}
  Attempts = {"attempt_a"}
  NoCaller = NoCaller
  ReviewAfter <- Due
  Threshold = 2
  MaxLearnings = 2
  MaxVersion = 5
INVARIANTS
  TypeOK
  ThresholdQuarantines
  VerifiedByAnother
  SentIsReceipted
PROPERTIES
  DispatchedWasVerified
CHECK_DEADLOCK FALSE
