SPECIFICATION Spec
CONSTANTS
  t1 = t1
  k1 = k1
  k2 = k2
  j1 = j1
  j2 = j2
  ann = ann
  Tabs = {t1}
  Lines = {k1, k2}
  Jobs = {j1, j2}
  UserOf <- MCUserOf
  TitleOf <- MCTitleOf
INVARIANTS
  OneLineEach
  RegisteredIsServed
PROPERTIES
  PushShowsIt
  CatchesUp
