SPECIFICATION Spec
CONSTANTS
  A = A  B = B  C = C  F = F  nil = nil  ctx = ctx  c1 = c1  c2 = c2  c3 = c3
  Replica = {A, B, C}
  Front = {F}
  Client = {c1, c2}
  Pref <- MCPref
  ClockIDs <- MCClockIDs
  Value <- MCValue
  Delivered <- MCDelivered
  NoValue = nil
  NoContext = ctx
  MaxIncarnation = 0
  W = 2
  R = 2
  Scenarios <- Reuse
INVARIANTS AckedOnQuorum
CHECK_DEADLOCK FALSE
