SPECIFICATION Spec
CONSTANTS
  None = None
  north = north
  south = south
  town = town
  o1 = o1
  o2 = o2
  manager = manager
  clerk = clerk
  author = author
  friend = friend
  Nodes = {north, south, town}
  Orders = {o1, o2}
  Users = {manager, clerk, author, friend}
  Roles <- MCRoles
  Permissions <- MCPermissions
  Owner <- MCOwner
  Level <- MCLevel
  Rules <- MCRules
  Rights <- MCRights
  Cases <- MCCases
  MaxChanges = 2
PROPERTY
  TerritoriesStay
CHECK_DEADLOCK FALSE
