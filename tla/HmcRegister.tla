----------------------------- MODULE HmcRegister -----------------------------
(***************************************************************************)
(* The registers of a cube (hmc_register) and how they are written over    *)
(* JTAG.  A register is the set of its one bits.  The decoding is a copy   *)
(* of what two fields say, made when one of them is written.               *)
(***************************************************************************)
EXTENDS HmcDecode, HmcFold

F(name, start, size, type, reset) ==
  [name |-> name, start |-> start, size |-> size, type |-> type, reset |-> BitsOf(reset)]

\* The fields of every kind of register (hmcsim_decode_fields), the revisions
\* as the build names them.
Fields == [
  EDR |-> <<
    F("REGISTER_REQUEST_CMD", 0, 8, "RW", 0), F("TYPE", 8, 8, "RW", 0),
    F("TARGET_LOCATION", 16, 6, "RW", 0), F("SIZE", 22, 4, "RW", 0),
    F("EXTERNAL_REQUEST_STATUS", 26, 5, "RO", 0), F("START", 31, 1, "RW", 0)>>,
  GC |-> <<
    F("STOP_ON_FATAL_ERROR", 4, 1, "RW", 0), F("CLEAR_ERROR", 5, 1, "RWS", 0),
    F("WARM_RESET", 6, 1, "RWS", 0)>>,
  LC |-> <<
    F("LINK_MODE", 0, 2, "RW", 1), F("LINK_RESPONSE_OPEN_LOOP_MODE", 2, 1, "RW", 0),
    F("LINK_PACKET_SEQUENCE_DETECTION", 3, 1, "RW", 1), F("LINK_CRC_DETECTION", 4, 1, "RW", 1),
    F("LINK_DUPLICATE_LENGTH_DETECTION", 5, 1, "RW", 1), F("PACKET_INPUT_ENABLE", 6, 1, "RW", 1),
    F("PACKET_OUTPUT_ENABLE", 7, 1, "RW", 0), F("INHIBIT_LINK_DOWN_MODE", 8, 1, "RW", 0),
    F("LINK_DESCRAMBLE_ENABLE", 9, 1, "RW", 1), F("LINK_SCRAMBLE_ENABLE", 10, 1, "RW", 1),
    F("ERROR_RESPONSE_PACKET", 11, 1, "RW", 1)>>,
  LRLL |-> <<F("TRANSMIT_RUN_LENGTH_LIMIT", 16, 8, "RW", 0)>>,
  LR |-> <<
    F("RETRY_STATUS", 0, 1, "RW", 0), F("RETRY_LIMIT", 1, 3, "RW", 3),
    F("RETRY_TIMEOUT_PERIOD", 4, 3, "RW", 5), F("INIT_RETRY_PACKET_TRANSMIT_NUMBER", 8, 6, "RW", 8),
    F("INIT_RETRY_PACKET_RECEIVE_NUMBER", 16, 6, "RW", 16)>>,
  IBTC |-> <<F("LINK_INPUT_BUFFER_MAX", 0, 8, "RW", 100)>>,
  AC |-> <<
    F("ADDRESS_MAPPING_MODE", 0, 4, "RW", 2), F("USER_DEFINED_VAULT", 4, 5, "RW", 0),
    F("USER_DEFINED_BANK", 9, 5, "RW", 0)>>,
  VCR |-> <<
    F("DRAM_INITIALIZATION_MODE", 0, 2, "RW", 0), F("HARD_SBE_DETECT", 2, 1, "RW", 0),
    F("DEMAND_SCRUBBING", 3, 1, "RW", 1), F("PATROL_SCRUBBING", 4, 1, "RW", 1),
    F("PACKET_CRC_DETECTION", 5, 1, "RW", 1), F("COMMAND_ADDRESS_RETRY_COUNT", 6, 3, "RW", 1),
    F("DATA_ECC_CORRECTION", 9, 1, "RW", 1), F("HARD_SBE_REPAIR", 11, 1, "RW", 1),
    F("ENABLE_SBE_REPORT", 12, 1, "RW", 1)>>,
  FEAT |-> <<
    F("CUBE_SIZE", 0, 4, "RO", 0), F("NUMBER_OF_VAULTS", 4, 4, "RO", 0),
    F("NUMBER_OF_BANKS_PER_VAULT", 8, 4, "RO", 0), F("PHY", 12, 4, "RO", 0)>>,
  RVID |-> <<
    F("VENDOR_ID", 0, 8, "RO", 15), F("PRODUCT_REVISION", 8, 8, "RO", 3),
    F("PROTOCOL_REVISION", 16, 8, "RO", 2), F("PHY_REVISION", 24, 8, "RO", 2)>>]

\* Where the registers of a kind are in regs, one per link for most
\* (hmcsim_decode).  ERR, of index 4, is in no row of the table.
Indices == [EDR |-> 0..3, GC |-> {5}, LC |-> 6..9, LRLL |-> 10..13, LR |-> 14..17,
            IBTC |-> 18..21, AC |-> {22}, VCR |-> {23}, FEAT |-> {24}, RVID |-> {25}]

AC == 22
FEAT == 24

Registers == 0..25

Mode == Fields.AC[1]
CubeSize == Fields.FEAT[1]
BanksPerVault == Fields.FEAT[3]

-----------------------------------------------------------------------------
(* A field of a register (hmcsim_reg_value_set_internal, _get). *)

Get(reg, f) == Down(reg, f.start) \intersect Ones(f.size)

\* Mutant: the value is not shifted to the field.
PutUnshifted(reg, f, value) ==
  (reg \ Up(Ones(f.size), f.start)) \union (value \intersect Ones(f.size))

Put(reg, f, value) ==
  (reg \ Up(Ones(f.size), f.start)) \union Up(value \intersect Ones(f.size), f.start)

\* hmcsim_util_decode_bsize; 0 for the modes of the vendor.
DecodeBsize(mode) == IF mode % 8 <= 3 THEN 2^(5 + (mode % 8)) ELSE 0

GetBsize(regs) == DecodeBsize(ValueOf(Get(regs[AC], Mode)))

GetNumBanksPerVault(regs) == 2^(ValueOf(Get(regs[FEAT], BanksPerVault)) + 3)

-----------------------------------------------------------------------------
PutReset(fields) ==
  [z \in (SUBSET (0..31)) \X Range(fields) |-> Put(z[1], z[2], z[2].reset)]

\* A register after its fields were reset one after the other.
Reset(i) ==
  IF \E k \in DOMAIN Indices : i \in Indices[k]
  THEN LET fields == Fields[CHOOSE k \in DOMAIN Indices : i \in Indices[k]]
       IN  Fold(PutReset(fields), {}, fields)
  ELSE {}

NumBanks(capacity) == 2 * capacity

\* The registers and the decoding made by the constructor.  The decoding
\* that the reset of the mode makes on the way is replaced by the last one.
Constructed(capacity) ==
  LET size  == BitsOf(Log2(capacity) - 1)
      banks == BitsOf(Log2(NumBanks(capacity)) - 3)
      regs  == [i \in Registers |->
                  IF i = FEAT THEN Put(Put(Reset(i), CubeSize, size), BanksPerVault, banks)
                  ELSE Reset(i)]
  IN  [regs |-> regs, decoding |-> SetDecoding(GetBsize(regs), NumBanks(capacity))]

\* Mutant: the decoding is made before the register is written.
SetFullDecodedFirst(cube, i, value) ==
  [regs     |-> [cube.regs EXCEPT ![i] = value \intersect 0..31],
   decoding |-> IF i = AC THEN SetDecoding(GetBsize(cube.regs), GetNumBanksPerVault(cube.regs))
                ELSE cube.decoding]

\* Mutant: a number of banks written to FEAT takes effect at once.
SetFullWithBanks(cube, i, value) ==
  LET regs == [cube.regs EXCEPT ![i] = value \intersect 0..31] IN
  [regs     |-> regs,
   decoding |-> IF i \in {AC, FEAT} THEN SetDecoding(GetBsize(regs), GetNumBanksPerVault(regs))
                ELSE cube.decoding]

\* hmcsim_reg_value_set_full.  It replaces the whole register, read-only
\* fields too; a new mode takes effect with the banks that FEAT names then.
SetFull(cube, i, value) ==
  LET regs == [cube.regs EXCEPT ![i] = value \intersect 0..31] IN
  [regs     |-> regs,
   decoding |-> IF i = AC THEN SetDecoding(GetBsize(regs), GetNumBanksPerVault(regs))
                ELSE cube.decoding]

\* hmcsim_util_set_max_blocksize: reads AC and writes it back with the mode.
SetMaxBlocksize(cube, bsize) ==
  SetFull(cube, AC, (cube.regs[AC] \ 0..3) \union BitsOf(Log2(bsize) - 5))
=============================================================================
