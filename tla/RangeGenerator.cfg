CONSTANTS
  MaxLedger = 24
  Strategies = {"uniform", "logarithmic"}
  Inputs <- MCInputs
SPECIFICATION GenSpec
INVARIANTS GenTypeOK UniformCoversRange LogarithmicGapIsLastChunk
