CONSTANTS
  fixed = fixed
  template = template
  c1 = c1
  c2 = c2
  value = value
  USER = USER
  NONE = NONE
  Endpoints <- MCEndpoints
  Templated = {template}
  Controllers <- MCControllers
  NotClasses = {value}
  Decorated <- MCDecorated
  Specs <- MCSpecs
  Requests = {r1}
  MaxChanges = 4
SPECIFICATION Spec
INVARIANTS UpToDate Undisturbed
PROPERTY Quiesces
CHECK_DEADLOCK FALSE
