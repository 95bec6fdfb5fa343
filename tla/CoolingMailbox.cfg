CONSTANTS
  None = None
  Requests = {r1, r2}
SPECIFICATION Spec
CHECK_DEADLOCK FALSE
INVARIANTS
  MailboxInv
  CommitMatchesOutcome
PROPERTIES
  OnlyDueWrites
  MailboxLive
  ImplementsContract
