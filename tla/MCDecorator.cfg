SPECIFICATION Spec
CONSTANTS
  base = base  left = left  right = right
  get = get  list = list  leftGet = leftGet  find = find
  Class = {base, left, right}
  Method = {get, list, leftGet, find}
  Name <- MCName
  Owner <- MCOwner
  Lineage <- MCLineage
INVARIANTS DecoratorTypeOK MarkedHandlersArePartial ExplicitOptionWins OnlySharedMethodsChange
CHECK_DEADLOCK FALSE
