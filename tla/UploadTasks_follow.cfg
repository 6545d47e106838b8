SPECIFICATION FairSpec
CONSTANTS
  t1 = t1  t2 = t2  s1 = s1  s2 = s2
  Tasks = {t1}
  Streams = {s1, s2}
  Kinds = {"upload", "rebuild"}
  MaxEvents = 3
  MaxFaults = 2
INVARIANT TypeOK
INVARIANT UploadOutcomeTold
INVARIANT EventsInOrder
PROPERTY ResultsKept
PROPERTY StreamsEnd
CHECK_DEADLOCK FALSE
