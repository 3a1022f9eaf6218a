SPECIFICATION StreamSpec
CONSTANTS
  SymBits = 2
  CodeBits = 6
  Storage = 5
  Cdfs <- MCCdfs
  Foreign <- MCForeign
  MaxSent = 4
INVARIANTS Exact DecoderInRange ReadsBack
CHECK_DEADLOCK FALSE
