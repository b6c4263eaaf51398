\* One review: two attempts per job, and two troubles with a third conversation to go on with.
SPECIFICATION FairSpec
CONSTANTS
  Convs = {c1, c2, c3}
  Structured = {"changes_requested"}
  Fragments = {}
  None = none
  NoPatch = nopatch
  Evidence <- MCEvidence
  Budget = 2
  MaxTroubles = 2
INVARIANTS OneReminderPerConversation OutcomeIsGated VerdictAppliedOnce
PROPERTIES OnlyTrustworthyIsReviewed OnlyFinalizeGivesUp ReviewSettles
CHECK_DEADLOCK FALSE
