\* Four writes over two keys, every interleaving of answers and microtasks.
SPECIFICATION FairSpec
CONSTANTS
  Key = {k1, k2}
  MaxTasks = 4
PROPERTIES
  EveryWriteIsServed
  ImplementsFifoServer
CHECK_DEADLOCK FALSE
