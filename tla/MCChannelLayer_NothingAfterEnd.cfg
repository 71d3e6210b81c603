CONSTANTS
  Opener = Opener
  Acceptor = Acceptor
  OpenerSends = 2
  AcceptorSends = 0
  Window = 2
  RetryLimit = 1
  Stoppable = {Opener, Acceptor}
  LineFails = FALSE
SPECIFICATION Spec
INVARIANT NothingAfterEnd
CHECK_DEADLOCK FALSE
