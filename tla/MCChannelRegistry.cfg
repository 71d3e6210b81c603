CONSTANTS
  LocalIds = {a1, a2}
  RemoteIds = {r1, r2}
SPECIFICATION Spec
INVARIANTS TypeOK OneChannelPerId NoOrphanOpenChannel
PROPERTY ShutdownClosesRegistered
