CONSTANTS
  Opener = Opener
  Acceptor = Acceptor
  OpenerSends = 1
  AcceptorSends = 0
  Window = 1
  RetryLimit = 1
  Stoppable = {}
  LineFails = FALSE
SPECIFICATION FairSpec
PROPERTY EndReachesPeer
CHECK_DEADLOCK FALSE
