CONSTANTS
  Person = {p1, p2}
  Browser = {b1}
  Email = {admin, other}
  AdminEmail = admin
  Client = {p1}
  MaxUsers = 2
  MaxRequests = 1
  MaxFaults = 1
SPECIFICATION MCSpec
CHECK_DEADLOCK FALSE
INVARIANT AccountsTypeOK
INVARIANT SessionsKnowTheirUser
INVARIANT PendingAreAnnounced
INVARIANT SubmitterIsWhoAsked
