SPECIFICATION Spec
CONSTANTS
  Threads = {t1, t2}
  PoolSize = 2
INVARIANT FailsOnlyWhenExhausted
