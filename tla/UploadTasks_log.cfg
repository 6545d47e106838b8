SPECIFICATION Spec
CONSTANTS
  t1 = t1  t2 = t2  s1 = s1  s2 = s2
  Tasks = {t1}
  Streams = {s1}
  Kinds = {"upload"}
  MaxEvents = 3
  MaxFaults = 0
INVARIANT LogDelivered
CHECK_DEADLOCK FALSE
