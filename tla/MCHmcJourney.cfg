SPECIFICATION Spec
CONSTANTS
  Cubes = {0, 1, 2}
  HostAt <- MCHostAt
  Wire <- MCWire
  Ext <- MCExt
  Rqsts <- MCRqsts
  Addresses <- MCAddresses
  Cells <- MCCells
  JtagWrites <- MCJtagWrites
  Blocksizes <- MCBlocksizes
  MaxWrites = 2
CHECK_DEADLOCK FALSE
INVARIANTS
  TypeOK
  DecodingFresh
  FieldsKept
  DecodesByTable
  LinkExists
  OneDecoding
  ArrivesAsEncoded
  RankExists
  AnswerFits
PROPERTIES
  HopsNearer
  Returns
