CONSTANT
  Scopes <- MCScopes
SPECIFICATION Spec
CHECK_DEADLOCK FALSE
INVARIANTS
  TreesAreMeant
  
  StampsFollowTheText
  MembersFollowTheirSection
