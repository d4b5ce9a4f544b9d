SPECIFICATION MCSpec
CONSTANTS
  NRet = 2
  Insns <- MCInsns
  CounterOf <- MCCounterOf
  None = None
  scratch = scratch
  event = event
  counter = counter
  add = add
  fff = fff
  a = a
INVARIANTS OwnArguments AllAskedFor
CHECK_DEADLOCK FALSE
