------------------------------- MODULE Words -------------------------------
(***************************************************************************)
(* Machine words as both processors of the repository see them: the NPC    *)
(* core (npc/ysyx_25080202.v) and its reference model NEMU.  A word has    *)
(* four byte lanes; the size of a byte is a parameter (256 in the code, a  *)
(* small power of two in TLC's instances), so that every wrap-around of    *)
(* the 32-bit arithmetic is kept.                                          *)
(***************************************************************************)
EXTENDS Integers

CONSTANT ByteSize      \* number of values of a byte: 256 in the code

\* A byte holds whole bits, at least one of them.
ASSUME ByteAssumption == ByteSize \in Nat /\ ByteSize > 1 /\ ByteSize % 2 = 0

WordSize == ByteSize * ByteSize * ByteSize * ByteSize
Word     == 0 .. (WordSize - 1)
Byte     == 0 .. (ByteSize - 1)
Lane     == 0 .. 3

\* Addition of word_t / 32-bit wires wraps.
Plus(a, b) == (a + b) % WordSize

\* {w[31:1], 1'b0} in the core, w & ~1 in NEMU.
ClearBit0(w) == w - (w % 2)

\* The byte offset of an address in its word, addr[1:0].
Offset(addr) == addr % 4

\* A word as four byte lanes, lane 0 the least significant, and back.
ToLanes(w) == [i \in Lane |->
  CASE i = 0 -> w % ByteSize
    [] i = 1 -> (w \div ByteSize) % ByteSize
    [] i = 2 -> (w \div (ByteSize * ByteSize)) % ByteSize
    [] i = 3 -> (w \div (ByteSize * ByteSize * ByteSize)) % ByteSize]

FromLanes(b) ==
  b[0] + ByteSize * (b[1] + ByteSize * (b[2] + ByteSize * b[3]))

\* Shifts by whole bytes, w >> (8 * n) and w << (8 * n).
ShiftRight(b, n) == [i \in Lane |-> IF i + n \in Lane THEN b[i + n] ELSE 0]
ShiftLeft(b, n)  == [i \in Lane |-> IF i - n \in Lane THEN b[i - n] ELSE 0]
=============================================================================
