------------------------------ MODULE HmcCommand ------------------------------
(***************************************************************************)
(* The commands of a packet and what the simulator's tables say of each:   *)
(* the length of the request (hmc_sim), whether it is answered, by what    *)
(* and how long (hmc_vault), and what the DRAM simulator does for it       *)
(* (hmc_bobsim).                                                           *)
(***************************************************************************)
EXTENDS Integers, SequencesExt

Sizes == <<16, 32, 48, 64, 80, 96, 112, 128, 256>>

Read == <<"RD16", "RD32", "RD48", "RD64", "RD80", "RD96", "RD112", "RD128", "RD256">>

Write == <<"WR16", "WR32", "WR48", "WR64", "WR80", "WR96", "WR112", "WR128", "WR256">>

PostedWrite ==
  <<"P_WR16", "P_WR32", "P_WR48", "P_WR64", "P_WR80", "P_WR96", "P_WR112", "P_WR128", "P_WR256">>

Reads == ToSet(Read)
Writes == ToSet(Write)
PostedWrites == ToSet(PostedWrite)

\* How many bytes a sized command reads or writes.
Bytes == [c \in Reads \union Writes \union PostedWrites |->
            Sizes[CHOOSE i \in DOMAIN Sizes : c \in {Read[i], Write[i], PostedWrite[i]}]]

Flow == {"FLOW_NULL", "PRET", "TRET", "IRTRY"}

\* Atomics with operands for 16 bytes of response data, and those whose entry
\* in the vault's table says that there is no response.
Swapping == {"TWOADDS8R", "ADDS16R", "SWAP16"}
Silent == {"XOR16", "OR16", "NOR16", "AND16", "NAND16", "CASGT8", "CASGT16", "CASLT8",
           "CASLT16", "CASEQ8", "CASZERO16"}
Adding == {"TWOADD8", "ADD16"}
Comparing == {"EQ8", "EQ16"}
PostedAdding == {"P_2ADD8", "P_ADD16"}
BitWrites == {"BWR", "P_BWR", "BWR8R"}

Commands ==
  Reads \union Writes \union PostedWrites \union Flow \union Swapping \union Silent
    \union Adding \union Comparing \union PostedAdding \union BitWrites
    \union {"MD_RD", "MD_WR", "INC8", "P_INC8"}

-----------------------------------------------------------------------------
(* The length of a request in flits, header and tail together one of them    *)
(* (the switch of both hmc_encode_pkt).                                      *)

RqstFlits(c) ==
  CASE c \in Reads \union Flow \union {"MD_RD", "INC8", "P_INC8"} -> 1
    [] c \in Writes \union PostedWrites -> 1 + Bytes[c] \div 16
    [] OTHER -> 2

-----------------------------------------------------------------------------
(* The vault's table (jtli) and what is looked up in it. *)

\* The length of the response.
RspLen(c) ==
  CASE c \in Reads -> 1 + Bytes[c] \div 16
    [] c \in Writes \union Comparing \union {"MD_WR", "BWR", "INC8"} -> 1
    [] c \in Swapping \union Silent \union {"MD_RD", "BWR8R"} -> 2
    [] OTHER -> 0

HasResponse(c) ==
  c \in Reads \union Writes \union Swapping \union Adding \union Comparing
         \union {"MD_RD", "MD_WR", "BWR", "BWR8R", "INC8"}

RspCmd(c) ==
  CASE c \in Reads \union Swapping \union Silent \union {"BWR8R"} -> "RD_RS"
    [] c \in Writes \union Adding \union Comparing \union {"BWR", "INC8"} -> "WR_RS"
    [] c = "MD_RD" -> "MD_RD_RS"
    [] c = "MD_WR" -> "MD_WR_RS"
    [] OTHER -> "RSP_ERROR"

\* Commands whose size is compared with the block size of the cube.
Checked == {c \in DOMAIN Bytes : Bytes[c] >= 48}

-----------------------------------------------------------------------------
(* What the DRAM simulator is asked to do (hmc_determineTransactionType). *)

TransactionType(c) ==
  CASE c \in Reads \union {"MD_RD"} -> "DATA_READ"
    [] c \in Writes \union PostedWrites \union BitWrites \union {"MD_WR"} -> "DATA_WRITE"
    [] OTHER -> "LOGIC_OPERATION"

\* The commands the DRAM simulator carries out.  It ends the program at
\* every logic operation, none of which has the contents it asks for.
Executable == {c \in Commands : TransactionType(c) # "LOGIC_OPERATION"}
=============================================================================
