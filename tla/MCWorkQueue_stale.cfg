\* Two overlapping ticks of one configured worker id.
CONSTANTS
  i1 = i1  i2 = i2  t1 = t1  t2 = t2  w1 = w1
  Item = {i1, i2}
  Tick = {t1, t2}
  Worker = {w1}
  NoWorker = NoWorker
  NoItem = NoItem
  WorkerOf <- SharedWorkerId
  MaxAttempts <- TwoAttempts
  Priority <- TwoPriorities
  MaxItems = 2
  MaxFaults = 1
  MaxExpiries = 2
SPECIFICATION Spec
PROPERTY LostLeaseNeverCompletes
CHECK_DEADLOCK FALSE
