CONSTANTS
  t1 = t1
  t2 = t2
  t3 = t3
  t4 = t4
  f1 = f1
  f2 = f2
  r1 = r1
  r2 = r2
  Tasks = {t1, t2, t3, t4}
  Files = {f1, f2}
  Remotes = {r1, r2}
  Numbered = {t1, t2, t3}
  RemoteFiles <- SomeRemotes
  LocalFiles <- SomeLocals
SPECIFICATION Spec
PROPERTIES NumberedAnswered ImplementsCommands
CHECK_DEADLOCK FALSE
