CONSTANTS
  LocalIds = {a1}
  RemoteIds = {r1}
SPECIFICATION Spec
INVARIANT NoMapRace
