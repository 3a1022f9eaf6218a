SPECIFICATION Spec
CONSTANTS
  Relays = {r1, r2}
  Streams = {a, b}
  Known = {a}
  NoStream = NoStream
  SeqMod = 5
  Window = 3
  Silence = 1
  MaxLag = 1
  First <- MCFirst
  Sent <- MCSent
  Short <- MCShort
  MaxTime = 2
  a = a
  b = b
SYMMETRY Symm
INVARIANT LockDecodes
CHECK_DEADLOCK FALSE
