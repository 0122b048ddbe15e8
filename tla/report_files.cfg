SPECIFICATION Spec
CONSTANTS
  k1 = k1  k2 = k2  n1 = n1
  Files = {f1, f2, f3}
  Tasks = {k1, k2}
  Names = {n1}
  NameOf <- OneName
  Mailing = {k1}
  Api = {a1, a2}
  Null = Null
  MaxDay = 1
  MaxCrashes = 1
  MaxDeaths = 1
SYMMETRY Symmetry
INVARIANTS FileHasRecord RecordHasFile MailsOwnReport
CHECK_DEADLOCK FALSE
