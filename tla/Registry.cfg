SPECIFICATION Spec
CONSTANTS
  t1 = t1
  t2 = t2
  k1 = k1
  k2 = k2
  k3 = k3
  Null = Null
  NoThread = NoThread
  Threads = {t1, t2}
  Keys = {k1, k2, k3}
  MaxStreams = 2
  Cap = 4
  Hash <- Colliding
INVARIANTS
  TypeOK
  OnPath
  RegisteredIsFound
  HitIsOwn
  OneStatePerStream
PROPERTIES
  StateIsKept
