CONSTANTS
  Opener = Opener
  Acceptor = Acceptor
  OpenerSends = 1
  AcceptorSends = 0
  Window = 2
  RetryLimit = 1
  Stoppable = {Opener, Acceptor}
  LineFails = TRUE
SPECIFICATION Spec
INVARIANTS TypeOK AckSound

CHECK_DEADLOCK FALSE
