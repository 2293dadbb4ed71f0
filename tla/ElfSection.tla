----------------------------- MODULE ElfSection -----------------------------
(***************************************************************************)
(* A section as elfio keeps it (elfio_section.hpp): its header in the byte *)
(* order of the file, and its data in a buffer of its own. With it go the  *)
(* conversion of byte orders (elfio_utils.hpp), the strings in a section   *)
(* (elfio_strings.hpp) and the inflating of compressed ones                *)
(* (wiiu_zlib.hpp).                                                        *)
(*                                                                         *)
(* A field of more than a byte is a pair of digits in base Base, whatever  *)
(* its width. Of the bytes of a file only the NULs are told apart: another *)
(* byte is known by its position.                                          *)
(***************************************************************************)
EXTENDS Integers, Sequences

CONSTANTS
    Base,       \* the values of a digit
    Host        \* the byte order of the processor: "LSB" or "MSB"

ASSUME BaseAssumption == Base \in Nat \ {0, 1}
ASSUME HostAssumption == Host \in {"LSB", "MSB"}

VARIABLE need_conversion    \* of the convertor that all sections share

Digit == 0..(Base - 1)
Number == 0..(Base * Base - 1)

(* Two digits that lie one behind the other, read as a number. *)
Joined(order, digits) ==
    IF order = "MSB" THEN digits[1] * Base + digits[2] ELSE digits[2] * Base + digits[1]

(* The digits change places. *)
Swapped(v) == (v % Base) * Base + v \div Base

Convert(need, v) == IF need THEN Swapped(v) ELSE v

convertor(v) == Convert(need_conversion, v)

HasFlag(v, bit) == (v \div bit) % 2 = 1

SHT_NULL   == 0
SHT_STRTAB == 3
SHT_NOBITS == 8
SHF_ALLOC  == 2
SHF_RPX_DEFLATE == 4

HeaderFields == {"name", "type", "flags", "addr", "offset", "size"}
NoHeader == [x \in HeaderFields |-> 0]

(* What memcpy finds where there is no file any more. *)
Stray == -1

-----------------------------------------------------------------------------
(* header: as in the file. data: the bytes written from the start of the buffer
   on, << >> without a buffer. room: the bytes allocated. data_size: what elfio
   takes for the room. *)
NewSection(index) ==
    [header |-> NoHeader, index |-> index, name |-> << >>, data |-> << >>, room |-> 0,
     data_size |-> 0]

Get(s, field) == convertor(s.header[field])

Set(s, field, v) == [s EXCEPT !.header[field] = convertor(v % (Base * Base))]

Size(s) == Get(s, "size")

Compressed(s) == HasFlag(Get(s, "flags"), SHF_RPX_DEFLATE)

(* n bytes of the file f, from the position at on. *)
Bytes(f, at, n) ==
    [k \in 1..n |-> CASE at + k > f.size         -> Stray
                      [] at + k - 1 \in f.zeros  -> 0
                      [] OTHER                   -> at + k]

(* Mutant: the offset is taken as it stands in the file. *)
LoadDataFrom(s, f) ==
    IF Get(s, "type") \in {SHT_NULL, SHT_NOBITS} \/ Size(s) >= f.size
       \/ (Size(s) > 0 /\ s.header.offset + Size(s) > f.size) THEN s
    ELSE [s EXCEPT !.data = Append(Bytes(f, s.header.offset, Size(s)), 0),
                   !.room = Size(s) + 1,
                   !.data_size = Size(s)]

(* Data that does not lie in the file is left out. A section of size 0 has a buffer
   of one byte that nobody writes, and is read as one with a NUL. *)
LoadData(s, f) ==
    IF Get(s, "type") \in {SHT_NULL, SHT_NOBITS} \/ Size(s) >= f.size
       \/ (Size(s) > 0 /\ Get(s, "offset") + Size(s) > f.size) THEN s
    ELSE [s EXCEPT !.data = Append(Bytes(f, Get(s, "offset"), Size(s)), 0),
                   !.room = Size(s) + 1,
                   !.data_size = Size(s)]

(* f.streams has the bytes that the sound zlib streams of the file stand for, by their
   position. What does not inflate stays as it is. The capacity stays that of the
   compressed data. *)
Inflate(s, f) ==
    IF Get(s, "offset") \notin DOMAIN f.streams THEN s
    ELSE LET bytes == f.streams[Get(s, "offset")]
         IN [Set(s, "size", Len(bytes)) EXCEPT !.data = Append(bytes, 0),
                                               !.room = Len(bytes) + 1]

(* The header, if it lies in the file. A section marked as compressed has data: with none
   the code inflates from a null pointer. *)
LoadSection(s, f, at, length) ==
    IF at + length > f.size THEN s
    ELSE LET read == [s EXCEPT !.header = [x \in HeaderFields |-> Joined(Host, f.shdrs[at][x])]]
             with == LoadData(read, f)
         IN IF Compressed(with) /\ with.data # << >> THEN Inflate(with, f) ELSE with

(* Mutant: the capacity stays. *)
SetBytesOnly(s, bytes) ==
    IF Get(s, "type") = SHT_NOBITS THEN Set(s, "size", s.data_size)
    ELSE [Set(s, "size", Len(bytes)) EXCEPT !.data = bytes, !.room = Len(bytes)]

SetBytes(s, bytes) ==
    IF Get(s, "type") = SHT_NOBITS THEN Set(s, "size", s.data_size)
    ELSE [Set(s, "size", Len(bytes)) EXCEPT !.data = bytes,
                                            !.room = Len(bytes),
                                            !.data_size = Len(bytes)]

(* What insert_data makes of the bytes d, of which size count. *)
Spliced(d, size, pos, bytes) ==
    SubSeq(d, 1, pos) \o bytes \o SubSeq(d, pos + 1, size)

(* Mutant: in place, the new bytes are written before the old ones move up. *)
InsertBeforeMove(s, pos, bytes) ==
    LET size == Size(s)
        n == Len(bytes)
        overwritten == [k \in (DOMAIN s.data) \cup 1..(pos + n) |->
                           IF k \in (pos + 1)..(pos + n) THEN bytes[k - pos] ELSE s.data[k]]
    IN IF Get(s, "type") = SHT_NOBITS THEN s
       ELSE IF size + n < s.data_size
       THEN [Set(s, "size", size + n) EXCEPT !.data =
                 SubSeq(overwritten, 1, pos + n) \o SubSeq(overwritten, pos + 1, size)
                    \o SubSeq(s.data, size + n + 1, Len(s.data))]
       ELSE [Set(s, "size", size + n) EXCEPT !.data = Spliced(s.data, size, pos, bytes),
                                             !.data_size = 2 * (s.data_size + n),
                                             !.room = 2 * (s.data_size + n)]

(* In place if elfio takes the room for large enough, else in a buffer of twice the
   capacity. *)
InsertBytes(s, pos, bytes) ==
    LET size == Size(s)
        n == Len(bytes)
        t == [Set(s, "size", size + n) EXCEPT !.data = Spliced(s.data, size, pos, bytes)]
    IN IF Get(s, "type") = SHT_NOBITS THEN s
       ELSE IF size + n < s.data_size
       THEN [t EXCEPT !.data = @ \o SubSeq(s.data, size + n + 1, Len(s.data))]
       ELSE [t EXCEPT !.data_size = 2 * (s.data_size + n), !.room = 2 * (s.data_size + n)]

AppendBytes(s, bytes) == InsertBytes(s, Size(s), bytes)

(* Without a buffer there are no bytes to copy from. *)
Editable(s) == s.data # << >> \/ Size(s) = 0

-----------------------------------------------------------------------------
(* The strings in a section *)

(* The places at which a string that starts at index may end. *)
Ends(s, index) ==
    {k \in index..(Size(s) - 1) : k + 1 \in DOMAIN s.data /\ s.data[k + 1] = 0}

HasString(s, index) == Ends(s, index) # {}

StringAt(s, index) ==
    LET end == CHOOSE k \in Ends(s, index) : \A l \in Ends(s, index) : k <= l
    IN SubSeq(s.data, index + 1, end)

(* Where add_string puts a string: behind the others, and never at 0. *)
StringPlace(s) == IF Size(s) = 0 THEN 1 ELSE Size(s)

(* Mutant: the first string takes the place of the empty one. *)
AddFirstString(s, str) == AppendBytes(s, Append(str, 0))

AddString(s, str) ==
    AppendBytes(IF Size(s) = 0 THEN AppendBytes(s, <<0>>) ELSE s, Append(str, 0))
=============================================================================
