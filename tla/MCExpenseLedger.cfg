SPECIFICATION Spec
CONSTANTS
  Importers = {i1, i2}
  Resources = {r}
  Dates = {d1, d2}
  Costs = {1, 2}
  NoCost = NoCost
  MaxImports = 3
SYMMETRY Symmetry
CHECK_DEADLOCK FALSE
INVARIANTS
  TypeOK
  
  CollapsedIsLast
  ResourceTotalsExact

  
