------------------------------ MODULE HmcDecode ------------------------------
(***************************************************************************)
(* The address mapping of a cube (hmc_decode): which bits of an address    *)
(* select the vault, the quad, the bank and the cell of the DRAM.          *)
(*                                                                         *)
(* Addresses, masks and decoded fields are sets of the numbers of their    *)
(* one bits.  Shifts of 32 bit values count modulo 32, as on the machines  *)
(* the program is built for.                                               *)
(***************************************************************************)
EXTENDS Integers, FiniteSetsExt

HMC_NUM_QUADS == 4
VAULTS_PER_QUAD == 8      \* HMC_NUM_VAULTS / HMC_NUM_QUADS
ROW_BITS == 14            \* log2(HMC_NUM_ROWS_PER_BANK)
COL_BITS == 6             \* log2(HMC_NUM_COLS_PER_BANK) without the four lowest
BANK_BITS_PER_RANK == 1   \* log2(HMC_NUM_BANKS_PER_RANK)

\* (1 << width) - 1
Ones(width) == 0..((width % 32) - 1)

Up(bits, n) == {b + n : b \in bits}

Down(bits, n) == {b - n : b \in {x \in bits : x >= n}}

BitsOf(n) == {b \in 0..30 : (n \div 2^b) % 2 = 1}

ValueOf(bits) == MapThenSumSet(LAMBDA b : 2^b, bits)

\* (unsigned)log2(n).  The logarithm of 0 is converted to 0.
Log2(n) == IF n = 0 THEN 0 ELSE CHOOSE k \in 0..29 : 2^k <= n /\ n < 2^(k + 1)

Field(shift, mask) == [shift |-> shift, mask |-> mask]

\* Mutant: the bank comes before the quad.
SetDecodingBankFirst(bsize, banks) ==
  LET start == Log2(bsize)
      lo    == start - 4
      bank  == start + Log2(VAULTS_PER_QUAD)
      quad  == bank + Log2(banks)
  IN  [start   |-> start,
       vault   |-> Field(start, Ones(Log2(VAULTS_PER_QUAD))),
       quad    |-> Field(quad, Ones(Log2(HMC_NUM_QUADS))),
       bank    |-> Field(bank, Ones(Log2(banks))),
       dram_lo |-> Field(4, Ones(lo)),
       dram_hi |-> Field(quad + Log2(HMC_NUM_QUADS) - (lo - 1),
                         Up(Ones(20 - lo), lo % 32) \intersect 0..31)]

\* set_decoding, for a block size and a number of banks per vault.
SetDecoding(bsize, banks) ==
  LET start == Log2(bsize)
      lo    == start - 4
      quad  == start + Log2(VAULTS_PER_QUAD)
      bank  == quad + Log2(HMC_NUM_QUADS)
  IN  [start   |-> start,
       vault   |-> Field(start, Ones(Log2(VAULTS_PER_QUAD))),
       quad    |-> Field(quad, Ones(Log2(HMC_NUM_QUADS))),
       bank    |-> Field(bank, Ones(Log2(banks))),
       dram_lo |-> Field(4, Ones(lo)),
       dram_hi |-> Field(bank + Log2(banks) - (lo - 1),
                         Up(Ones(20 - lo), lo % 32) \intersect 0..31)]

-----------------------------------------------------------------------------
(* From an address (HMCSIM_UTIL_DECODE_QUAD, _VAULT and _BANK, and            *)
(* HMC_UTIL_DECODE_DRAM). *)

Decoded(addr, f) == Down(addr, f.shift) \intersect f.mask

Quad(addr, d) == ValueOf(Decoded(addr, d.quad))
Vault(addr, d) == ValueOf(Decoded(addr, d.vault))

Dram(addr, d) == Decoded(addr, d.dram_hi) \union Decoded(addr, d.dram_lo)

\* HMC_UTIL_DECODE_COL_AND_ROW.
Row(addr, d) == Dram(addr, d) \intersect Ones(ROW_BITS)
Col(addr, d) == Down(Dram(addr, d), ROW_BITS) \intersect Ones(COL_BITS)

\* The transaction that the bridge makes for the DRAM simulator.
Cell(addr, d) ==
  [bank |-> Decoded(addr, d.bank) \intersect Ones(BANK_BITS_PER_RANK),
   rank |-> ValueOf(Down(Decoded(addr, d.bank), BANK_BITS_PER_RANK)),
   row  |-> Row(addr, d),
   col  |-> Col(addr, d)]

-----------------------------------------------------------------------------
(* To an address (HMCSIM_UTIL_ENCODE_..., HMC_UTIL_ENCODE_DRAM_...). *)

Encoded(value, f) == Up(value \intersect f.mask, f.shift)

\* Mutant: the low part is not masked.
EncodedDramUnmasked(dram, d) ==
  Encoded(Down(dram, (d.start - 4) % 32), d.dram_hi) \union Up(dram, d.dram_lo.shift)

EncodedDram(dram, d) ==
  Encoded(Down(dram, (d.start - 4) % 32), d.dram_hi) \union Encoded(dram, d.dram_lo)

Address(quad, vault, bank, dram, d) ==
  Encoded(quad, d.quad) \union Encoded(vault, d.vault) \union Encoded(bank, d.bank)
    \union EncodedDram(dram, d)
=============================================================================
