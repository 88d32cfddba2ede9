CONSTANTS
  Sessions = {s1}
  Lease = 1
  Extensions <- MCExtensions
  BusyExtension = 1
  Cap = 2
  Settings <- MCSettings
  EmailExtension = 1
  Visible = 1
  Grace = 2
  Skew = 1
  Lag = 1
  LastEvent = 5
  MaxNow = 22
SPECIFICATION FairSpec
INVARIANTS TypeOK NotifiedIsExpired GraceIsKept RescueWins
PROPERTIES MailedOnce AbandonedCloses
