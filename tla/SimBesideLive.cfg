SPECIFICATION Spec
CONSTANTS
  Sockets = {w1, w2, w3}
  NoSocket = NoSocket
  EffectRuns = {1, 2}
INVARIANTS SimOnlyWhenUnreachable
