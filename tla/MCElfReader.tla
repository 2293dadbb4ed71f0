---------------------------- MODULE MCElfReader -----------------------------
(* Files for checking ElfReader. *)
EXTENDS ElfReader

MCHeaderSize == [c \in {32, 64} |-> IF c = 32 THEN [file |-> 3, section |-> 2, segment |-> 1]
                                    ELSE [file |-> 4, section |-> 3, segment |-> 2]]

DigitsOf(order, v) == IF order = "MSB" THEN <<v \div Base, v % Base>> ELSE <<v % Base, v \div Base>>

Sec(name, type, flags, addr, offset, size) ==
    [name |-> name, type |-> type, flags |-> flags, addr |-> addr, offset |-> offset, size |-> size]
Seg(type, offset, vaddr, filesz, memsz) ==
    [type |-> type, offset |-> offset, vaddr |-> vaddr, filesz |-> filesz, memsz |-> memsz]

(* The string table lies at 4: an empty string, two bytes and one byte. The other data
   begins at 10, the section headers at 14, those of the segments behind them. *)
Strings == Sec(4, SHT_STRTAB, 0, 0, 4, 6)
FileOf(class, order, secs, segs, size) ==
    LET all == <<Sec(0, 0, 0, 0, 0, 0), Strings>> \o secs
        h == MCHeaderSize[class]
        NoFields(fields) == [x \in fields |-> <<0, 0>>]
        phoff == 14 + Len(all) * h.section
        Raw(x) == CASE x = "shoff" -> 14 [] x = "shnum" -> Len(all) [] x = "shentsize" -> h.section
                    [] x = "shstrndx" -> 1 [] x = "phoff" -> phoff [] x = "phnum" -> Len(segs)
                    [] x = "phentsize" -> h.segment
    IN [size |-> size, magic |-> TRUE, class |-> class, encoding |-> order,
        ehdr |-> [x \in FileFields |-> DigitsOf(order, Raw(x))],
        shdrs |-> [at \in 0..size |->
                      IF at \in {14 + k * h.section : k \in 0..(Len(all) - 1)}
                      THEN [x \in HeaderFields |->
                               DigitsOf(order, all[(at - 14) \div h.section + 1][x])]
                      ELSE NoFields(HeaderFields)],
        phdrs |-> [at \in 0..size |->
                      IF at \in {phoff + k * h.segment : k \in 0..(Len(segs) - 1)}
                      THEN [x \in SegmentFields |->
                               DigitsOf(order, segs[(at - phoff) \div h.segment + 1][x])]
                      ELSE NoFields(SegmentFields)],
        zeros |-> {4, 7, 9}, streams |-> 10 :> <<30, 0, 31, 32>>]

(* Section headers: code, data without bytes in the file, compressed and sound, compressed
   and damaged, at the end of the file and behind it, longer than the file, with a name
   that is not in the table, and empty: between two segments, behind the file, and with no
   data to come, so that no string table grows in it. *)
Code     == Sec(1, 1, 2, 10, 10, 2)
Bss      == Sec(1, 8, 2, 12, 12, 2)
Deflated == Sec(1, 1, 4, 0, 10, 3)
Damaged  == Sec(4, 1, 4, 0, 11, 3)
Behind   == Sec(1, 1, 0, 0, 28, 4)
Long     == Sec(1, 1, 0, 0, 10, 34)
Unnamed  == Sec(6, 1, 0, 0, 12, 1)
Empty    == Sec(2, 1, 2, 12, 12, 0)
Nowhere  == Sec(1, 1, 0, 0, 30, 0)
NoTable  == Sec(1, 8, 0, 0, 12, 0)

Segs == <<Seg(1, 10, 10, 2, 2), Seg(1, 12, 12, 2, 2)>>

Full == FileOf(32, "MSB", <<Code, Empty>>, Segs, 28)
MCFiles ==
    {FileOf(32, order, <<Code, Empty>>, Segs, 28) : order \in {"LSB", "MSB"}}
    \cup {FileOf(32, order, <<s>>, << >>, 28) : order \in {"LSB", "MSB"}, s \in {Bss, Deflated, Damaged, Behind, Long, Unnamed, Nowhere}}
    \cup {FileOf(64, "MSB", <<Deflated>>, <<Seg(1, 27, 0, 2, 2), Seg(PT_NULL, 10, 0, 2, 2)>>, 28)}
    \cup {FileOf(32, "MSB", <<Code, Bss>>, Segs, size) : size \in {1, 2, 19, 22, 23}}
    \cup {[Full EXCEPT !.magic = FALSE], [Full EXCEPT !.class = 0], [Full EXCEPT !.encoding = "none"],
          [Full EXCEPT !.ehdr.shentsize = <<0, 1>>], [Full EXCEPT !.ehdr.phentsize = <<0, 0>>],
          [Full EXCEPT !.ehdr.shstrndx = <<0, 0>>], [Full EXCEPT !.ehdr.shstrndx = <<0, 4>>],
          [FileOf(32, "MSB", <<Code, NoTable>>, << >>, 28) EXCEPT !.ehdr.shstrndx = <<0, 3>>]}

MCShStrTab == <<40, 41>>
MCNames == {<<42>>}
MCContents == {<<50>>, <<51, 52, 53>>}
=============================================================================
