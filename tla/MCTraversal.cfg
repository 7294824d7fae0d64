\* Two classes, a method and a function; a behaviour is one query.
SPECIFICATION Spec
CONSTANTS
  Nodes = {1, 2, 3, 4}
  Rows <- MCRows
  Containers = {1, 3}
  CallerCap = 3
INVARIANT HierarchyHasDescendants
CHECK_DEADLOCK FALSE
