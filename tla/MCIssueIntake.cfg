SPECIFICATION MCSpec
CONSTANTS
  Issues <- MCIssues
  Numbers <- MCNumbers
  LegacyRoots <- MCLegacyRoots
  Floor = 3
  Policy <- MCPolicy
  Permissions <- MCPermissions
  Trusted <- MCTrusted
  HighContention = {"b"}
  StaleAge = 5
  Me = "me"
INVARIANTS
  NothingOverlooked
  ClaimsAreJustified
  VerdictStands
PROPERTIES
  ClosesAreOwned
  RunsEnd
