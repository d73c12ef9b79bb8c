\* Two users, two requests, two tokens.
CONSTANTS
  Users = {u1, u2}
  Requests = {r1, r2}
  Pins = {p1, p2}
  TTL <- MCTTL
  MaxTokens = 2
SPECIFICATION Spec
SYMMETRY Symmetry
INVARIANTS
  TypeOK
  RecentMailWorks
  AppliedTokenIsOnItsWayOut
PROPERTIES
  TokensAreTheUsersOwn
