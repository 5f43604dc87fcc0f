\* More processors than bits in the int, masks as wide as the machine, any
\* read may fail.
CONSTANTS
  Processors = 4
  IntBits = 3
  MaskBits = 4
  MsrFaulty = TRUE
SPECIFICATION MsrSpec
INVARIANTS MsrTypeOK ReadingIsOfCore AffinityRestored EveryCoreTried
