SPECIFICATION Spec
CONSTANTS
  Base = 4
  Id = {81, 69}
  Raw = {0, 1023}
  Celsius = {20}
  Junk = {21, 130}
  Limit = 128
  MaxTime = 1
  MaxSent = 4
INVARIANTS
  TypeOK
  RowsAreMeasured
  DashboardRight
PROPERTIES
  StoredStays
