CONSTANTS
  Opener = Opener
  Acceptor = Acceptor
  OpenerSends = 1
  AcceptorSends = 0
  Window = 2
  RetryLimit = 1
  Stoppable = {}
  LineFails = FALSE
SPECIFICATION Spec
INVARIANT OpeningPacketKept
CHECK_DEADLOCK FALSE
