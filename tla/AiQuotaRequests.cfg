\* The user waits for every answer, or two of his requests overlap; two months.
CONSTANTS
  Requests = {r1, r2}
  Limit = 2
  LastMonth = 2
  MaxServed = 8
  MaxFaults = 1
  Absent = Absent
SPECIFICATION Spec
INVARIANTS WithinLimit NeverOvercharged OverrunByOne EveryRunRecorded
SYMMETRY Interchangeable
