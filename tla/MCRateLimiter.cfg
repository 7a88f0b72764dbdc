\* Two requests of one client share the primary with another process: outages,
\* cooldown and recovery, with limits that are soon reached.
SPECIFICATION Spec
CONSTANTS
  Requests = {r1, r2}
  DefaultLimit = 2
  RouteLimit = 1
  Limit <- MCLimit
  Period = 1
  Recovery = 2
INVARIANTS
  GrantsWithinLimit
PROPERTIES
  CooldownHonoured
  Answered
  PrimaryRegained
