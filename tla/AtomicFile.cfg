CONSTANTS
  v1 = v1
  v2 = v2
  Value <- MCValue
  Initial = v1
  Absent = Absent
  Torn = Torn
  MaxCommits = 4
SPECIFICATION Spec
INVARIANTS NeverTorn MtimeNeverFlatters
PROPERTY ImplementsDurableValue
