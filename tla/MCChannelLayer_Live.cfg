CONSTANTS
  Opener = Opener
  Acceptor = Acceptor
  OpenerSends = 1
  AcceptorSends = 0
  Window = 2
  RetryLimit = 0
  Stoppable = {}
  LineFails = FALSE
SPECIFICATION FairSpec
PROPERTY DataReachesPeer
CHECK_DEADLOCK FALSE
