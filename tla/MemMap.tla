------------------------------- MODULE MemMap -------------------------------
(***************************************************************************)
(* The memory the CPU is tested against: the address map of mem_map.h and  *)
(* the word-wide port the vcpu test bench puts in front of it              *)
(* (v_mem_read and v_mem_write of soc_main.cpp).                           *)
(*                                                                         *)
(* An address is a record of its word number, addr[31:2], and of the byte  *)
(* in the word, addr[1:0].  A word is a function from its four byte lanes  *)
(* to bytes, lane 0 the least significant.  Bytes carry no arithmetic in   *)
(* the memory system: all that is asked of one is whether its top bit is   *)
(* set, which NegByte says.                                                *)
(***************************************************************************)
EXTENDS Integers

CONSTANTS
  Byte,            \* the values of a byte
  NegByte,         \* those whose top bit is set
  ZERO, ONES,      \* 8'h00 and 8'hff
  NWords,          \* words of the address space; 2^30 in the code
  UartLo, UartHi,  \* first and last word of the UART, the flash and the RAM
  RamLo, RamHi,
  FlashLo, FlashHi

WordNo == 0 .. NWords - 1

\* Bytes and the address map.  The regions are apart, as they are in
\* mem_map.h: the word after a region belongs to none.
ASSUME ByteAssumption == NegByte \subseteq Byte /\ {ZERO, ONES} \subseteq Byte
ASSUME MapAssumption ==
  /\ NWords \in Nat \ {0}
  /\ {UartLo, UartHi, RamLo, RamHi, FlashLo, FlashHi} \subseteq WordNo
  /\ UartLo <= UartHi /\ RamLo <= RamHi /\ FlashLo <= FlashHi
  /\ UartHi + 1 < FlashLo /\ FlashHi + 1 < RamLo

Lane    == 0 .. 3
Word    == [Lane -> Byte]
Address == [word : WordNo, off : Lane]

UartWords  == UartLo .. UartHi
RamWords   == RamLo .. RamHi
FlashWords == FlashLo .. FlashHi
Stored     == RamWords \cup FlashWords
Memory     == [Stored -> Word]

\* addr >= START && addr < END-3: the last word of a region is reached only
\* by its first byte.
InRegion(a, lo, hi) ==
  /\ lo <= a.word
  /\ a.word < hi \/ (a.word = hi /\ a.off = 0)

InUart(a)  == InRegion(a, UartLo, UartHi)
InRam(a)   == InRegion(a, RamLo, RamHi)
InFlash(a) == InRegion(a, FlashLo, FlashHi)

\* The UART's transmit register: a byte written there is printed.
UartData == [word |-> UartLo, off |-> 0]

\* The word a bus read of address a can return: the stored word that holds
\* the address, whatever byte of it a names; a register of the UART on all
\* four lanes (which value it has is left open); zero off the map.
v_mem_read(m, a) ==
  IF InFlash(a) \/ InRam(a) THEN {m[a.word]}
  ELSE IF InUart(a) THEN {[l \in Lane |-> b] : b \in Byte}
  ELSE {[l \in Lane |-> ZERO]}

\* The memory after a bus write of the lanes in mask: only the RAM takes it.
v_mem_write(m, a, mask, wdata) ==
  IF InRam(a)
  THEN [m EXCEPT ![a.word] = [l \in Lane |-> IF l \in mask THEN wdata[l] ELSE @[l]]]
  ELSE m

\* A bus write to this address prints a character on the host's terminal.
Prints(a) == InUart(a) /\ a = UartData
=============================================================================
