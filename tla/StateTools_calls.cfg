SPECIFICATION Spec
CONSTANTS
  Call = {c1, c2}
  Key = {k1, k2}
  Text = {v1}
  Blank = Blank
  Absent = Absent
  MaxItems = 2
SYMMETRY Callers
INVARIANTS TypeOK ReadsWereTrue WrittenAsAsked
PROPERTY ImplementsStore
