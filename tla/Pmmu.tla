-------------------------------- MODULE Pmmu --------------------------------
(***************************************************************************)
(* The memory unit between the core and its block RAM (modules/Pmmu.sv).   *)
(* The RAM holds words; bytes and half words are cut out of the word that  *)
(* the RAM's port last read, and merged into that word for a store.        *)
(***************************************************************************)
EXTENDS Words

CONSTANTS
  ByteWidth,   \* bits of a byte (8); a word is four of them
  MemBits      \* the address bits that select a word of the RAM (11..2)

ASSUME PmmuAssumption ==
  /\ ByteWidth \in Nat \ {0} /\ Bits = 0 .. (4 * ByteWidth - 1)
  /\ MemBits \subseteq Bits \ {0, 1}

is_byte_size(funct3)     == funct3 % 4 = 0
is_halfword_size(funct3) == funct3 % 4 = 1
signed_op(funct3)        == funct3 < 4

word_addr(byte_addr) == byte_addr \cap MemBits

Slice(w, first, length) == {b \in 0 .. (length - 1) : b + first \in w}

\* Broken variant: the part is not cut to its length.
Merge_Uncut(w, part, first, length) ==
  (w \ (first .. (first + length - 1))) \cup {b + first : b \in part}

Merge(w, part, first, length) ==
  (w \ (first .. (first + length - 1))) \cup {b + first : b \in Slice(part, 0, length)}

\* Where in its word the addressed byte and half word begin.
byte_position(byte_addr) ==
  ByteWidth * ((IF 0 \in byte_addr THEN 1 ELSE 0) + (IF 1 \in byte_addr THEN 2 ELSE 0))
halfword_position(byte_addr) == IF 1 \in byte_addr THEN 2 * ByteWidth ELSE 0

\* Copies of the top bit of a part that is length bits long, above it.
SignExtend(part, length) ==
  part \cup (IF length - 1 \in part THEN length .. (4 * ByteWidth - 1) ELSE {})

\* The output: the port's word as it is, unless a read of less is in progress.
rd_o(funct3, byte_addr, storage_data_out, reading) ==
  LET byte == Slice(storage_data_out, byte_position(byte_addr), ByteWidth)
      half == Slice(storage_data_out, halfword_position(byte_addr), 2 * ByteWidth)
  IN CASE reading /\ is_byte_size(funct3) ->
            IF signed_op(funct3) THEN SignExtend(byte, ByteWidth) ELSE byte
       [] reading /\ is_halfword_size(funct3) ->
            IF signed_op(funct3) THEN SignExtend(half, 2 * ByteWidth) ELSE half
       [] OTHER -> storage_data_out

\* The word to store: all of wd_i, or its low part merged into the port's word.
storage_data_in(funct3, byte_addr, wd_i, storage_data_out) ==
  CASE is_byte_size(funct3) ->
         Merge(storage_data_out, wd_i, byte_position(byte_addr), ByteWidth)
    [] is_halfword_size(funct3) ->
         Merge(storage_data_out, wd_i, halfword_position(byte_addr), 2 * ByteWidth)
    [] OTHER -> wd_i
=============================================================================
