SPECIFICATION FairSpec
CONSTANTS
  ann = ann
  bob = bob
  ra = ra
  rb = rb
  wa = wa
  Users = {ann, bob}
  Askers = {ann}
  Approvers = {bob}
  Findable = {bob}
  Overridden = {}
  GroupMembers = {ann}
  TeamMembers = {bob}
  Nobody = Nobody
  Receivers = {ra, rb}
  Workers = {wa}
  MaxHappenings = 2
CHECK_DEADLOCK FALSE
INVARIANT AuthorizationInv
INVARIANT RefusedForCause
PROPERTY MembersDecide
PROPERTY MembersConverge
