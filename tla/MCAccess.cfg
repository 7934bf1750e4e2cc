CONSTANTS
  ana = ana  bob = bob  org1 = org1
  Profile = {ana}
  Others = {bob}
  Anonymous = Anonymous
  Org = {org1}
  Roles <- MCRoles
  Memberships <- MCMemberships
  ProblemForms <- MCProblemForms
  ContestForms <- MCContestForms
  PageForms <- MCPageForms
SPECIFICATION Spec
INVARIANTS RulesAgree PagesAgree
PROPERTIES ContestDoorIsChecked
