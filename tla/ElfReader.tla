------------------------------ MODULE ElfReader -----------------------------
(***************************************************************************)
(* An object of class elfio (elfio.hpp, elfio_header.hpp,                  *)
(* elfio_segment.hpp): the loading of a file into it, header by header,    *)
(* also over an earlier file, and the edits that a caller can make.        *)
(*                                                                         *)
(* A file has its headers at their positions, with fields of two digits as *)
(* they lie there; ElfSection has the rest.                                *)
(***************************************************************************)
EXTENDS ElfSection, SequencesExt

CONSTANTS
    Files,      \* what load may be given; magic: it begins as an ELF file, zeros: where
                \* it has NULs, shdrs and phdrs: what a header at a position would have,
                \* streams: what the sound zlib streams stand for, by their position
    HeaderSize, \* HeaderSize[class][kind] of the three headers; class 32 and 64
    IdentSize,  \* the bytes that tell an ELF file
    ShStrTab,   \* the name ".shstrtab"
    Names,      \* of sections that are added
    Contents,   \* of sections, as set by the caller
    MaxCalls    \* bound: calls of load and of what edits

FileFields == {"phoff", "shoff", "phentsize", "phnum", "shentsize", "shnum", "shstrndx"}
SegmentFields == {"type", "offset", "vaddr", "filesz", "memsz"}

Classes == {32, 64}
PT_NULL == 0

Digits == Digit \X Digit

ASSUME HeaderSizeAssumption ==
    HeaderSize \in [Classes -> [{"file", "section", "segment"} -> Number \ {0}]]
ASSUME FilesAssumption ==
    \A file \in Files :
        /\ file.size \in Nat
        /\ file.ehdr \in [FileFields -> Digits]
        /\ file.shdrs \in [0..file.size -> [HeaderFields -> Digits]]
        /\ file.phdrs \in [0..file.size -> [SegmentFields -> Digits]]
        /\ \A at \in DOMAIN file.streams :
               file.streams[at] \in Seq(Int) /\ Len(file.streams[at]) \in Number
(* A name is a C string. *)
ASSUME BytesAssumption ==
    /\ Names \cup {ShStrTab} \subseteq Seq(Int \ {0})
    /\ Contents \subseteq Seq(Int)

VARIABLES
    header,     \* of the object; its class is 0 when there is none
    sections,
    segments,
    source,     \* where the sections are from: "none", "file", "created", or "edited"
    f,          \* the file of the last load
    pc,         \* "idle", or where load is: "sections", "names", "segments"
    result,     \* of the last call of load
    calls       \* so far

vars == <<need_conversion, header, sections, segments, source, f, pc, result, calls>>

NoFile == [class |-> 0, encoding |-> "none", fields |-> [x \in FileFields |-> 0]]

(* A new header says which string table names have, and how large headers are. *)
NewHeader(class, encoding) ==
    LET With(v) == Convert(encoding # Host, v)
    IN [class |-> class, encoding |-> encoding,
        fields |-> [x \in FileFields |->
            CASE x = "shstrndx"  -> With(1)
              [] x = "phentsize" -> With(HeaderSize[class].segment)
              [] x = "shentsize" -> With(HeaderSize[class].section)
              [] OTHER           -> 0]]

get(field) == convertor(header.fields[field])

(* The loader's constructor, with an object that inflates: it makes another object with
   elfio(), and this one is left without a header until it loads. *)
Init ==
    /\ need_conversion = FALSE
    /\ header = NoFile
    /\ sections = << >>
    /\ segments = << >>
    /\ source = "none"
    /\ f = CHOOSE file \in Files : TRUE
    /\ pc = "idle"
    /\ result = FALSE
    /\ calls = 0

-----------------------------------------------------------------------------
(* load *)

Start(file) ==
    /\ pc = "idle"
    /\ calls < MaxCalls
    /\ calls' = calls + 1
    /\ f' = file
    /\ segments' = << >>

IsElf(file) ==
    /\ IdentSize <= file.size
    /\ file.magic
    /\ file.class \in Classes
    /\ file.encoding \in {"LSB", "MSB"}

Fail == result' = FALSE /\ pc' = "idle"

(* The header of the last file stays, its sections do not. *)
RejectFile(file) ==
    /\ Start(file)
    /\ ~IsElf(file)
    /\ Fail
    /\ sections' = << >>
    /\ source' = "none"
    /\ UNCHANGED <<need_conversion, header>>

ShortFile(file) ==
    /\ Start(file)
    /\ IsElf(file)
    /\ file.size < HeaderSize[file.class].file
    /\ need_conversion' = (file.encoding # Host)
    /\ header' = NewHeader(file.class, file.encoding)
    /\ Fail
    /\ sections' = << >>
    /\ source' = "none"

(* Mutant: the sections of the last file are kept. *)
OpenOver(file) ==
    /\ Start(file)
    /\ IsElf(file)
    /\ file.size >= HeaderSize[file.class].file
    /\ need_conversion' = (file.encoding # Host)
    /\ header' = [class |-> file.class, encoding |-> file.encoding,
                  fields |-> [x \in FileFields |-> Joined(Host, file.ehdr[x])]]
    /\ source' = "file"
    /\ pc' = "sections"
    /\ UNCHANGED <<sections, result>>

OpenFile(file) ==
    /\ Start(file)
    /\ IsElf(file)
    /\ file.size >= HeaderSize[file.class].file
    /\ need_conversion' = (file.encoding # Host)
    /\ header' = [class |-> file.class, encoding |-> file.encoding,
                  fields |-> [x \in FileFields |-> Joined(Host, file.ehdr[x])]]
    /\ sections' = << >>
    /\ source' = "file"
    /\ pc' = "sections"
    /\ UNCHANGED result

Loading == UNCHANGED <<need_conversion, header, source, f, calls>>

(* Nobody looks at what load_sections returns. *)
SmallSectionHeaders ==
    /\ pc = "sections"
    /\ get("shnum") # 0
    /\ get("shentsize") < HeaderSize[header.class].section
    /\ pc' = "segments"
    /\ UNCHANGED <<sections, segments, result>>
    /\ Loading

(* Nor at what a section returns: it is there, with what could be read. *)
AddLoaded ==
    /\ pc = "sections"
    /\ get("shentsize") >= HeaderSize[header.class].section
    /\ Len(sections) < get("shnum")
    /\ sections' = Append(sections,
           LoadSection(NewSection(Len(sections)), f,
                       get("shoff") + Len(sections) * get("shentsize"),
                       HeaderSize[header.class].section))
    /\ UNCHANGED <<pc, segments, result>>
    /\ Loading

SectionsRead ==
    /\ pc = "sections"
    /\ Len(sections) = get("shnum")
    /\ pc' = "names"
    /\ UNCHANGED <<sections, segments, result>>
    /\ Loading

(* The name that the string table gives to a section; what has none there stays
   without. *)
Named(s, table) ==
    IF HasString(table, Get(s, "name"))
    THEN [s EXCEPT !.name = StringAt(table, Get(s, "name"))]
    ELSE s

NameSections ==
    /\ pc = "names"
    /\ get("shstrndx") \in 1..(Len(sections) - 1)
    /\ sections' = [k \in DOMAIN sections |->
                       Named(sections[k], sections[get("shstrndx") + 1])]
    /\ pc' = "segments"
    /\ UNCHANGED <<segments, result>>
    /\ Loading

NoNames ==
    /\ pc = "names"
    /\ get("shstrndx") \notin 1..(Len(sections) - 1)
    /\ pc' = "segments"
    /\ UNCHANGED <<sections, segments, result>>
    /\ Loading

(* Mutant: without the test for sections of size 0 at the end. *)
TouchesSeg(sect_begin, sect_size, seg_begin, seg_end) ==
    /\ seg_begin <= sect_begin
    /\ sect_begin + sect_size <= seg_end

is_sect_in_seg(sect_begin, sect_size, seg_begin, seg_end) ==
    /\ seg_begin <= sect_begin
    /\ sect_begin + sect_size <= seg_end
    /\ sect_begin < seg_end

(* By the address if the section is in memory, else by the place in the file. *)
InSegment(s, h) ==
    IF HasFlag(Get(s, "flags"), SHF_ALLOC)
    THEN is_sect_in_seg(Get(s, "addr"), Size(s), h.vaddr, h.vaddr + h.memsz)
    ELSE is_sect_in_seg(Get(s, "offset"), Size(s), h.offset, h.offset + h.filesz)

(* A segment, its fields converted. Its size is compared with that of the file, but its
   end is not. *)
Segment(at) ==
    LET h == [x \in SegmentFields |-> convertor(Joined(Host, f.phdrs[at][x]))]
        read == h.type # PT_NULL /\ h.filesz # 0 /\ h.filesz <= f.size
    IN [header |-> h,
        data |-> IF read THEN Bytes(f, h.offset, h.filesz) ELSE << >>,
        sections |-> {k \in 0..(Len(sections) - 1) : InSegment(sections[k + 1], h)}]

SegmentPlace == get("phoff") + Len(segments) * get("phentsize")

MoreSegments == pc = "segments" /\ Len(segments) < get("phnum")

Readable == /\ get("phentsize") >= HeaderSize[header.class].segment
            /\ SegmentPlace + HeaderSize[header.class].segment <= f.size

AddSegment ==
    /\ MoreSegments
    /\ Readable
    /\ segments' = Append(segments, Segment(SegmentPlace))
    /\ UNCHANGED <<pc, sections, result>>
    /\ Loading

SegmentFails ==
    /\ MoreSegments
    /\ ~Readable
    /\ Fail
    /\ UNCHANGED <<sections, segments>>
    /\ Loading

Loaded ==
    /\ pc = "segments"
    /\ ~MoreSegments
    /\ pc' = "idle"
    /\ result' = TRUE
    /\ UNCHANGED <<sections, segments>>
    /\ Loading

-----------------------------------------------------------------------------
(* Edits *)

Edit ==
    /\ pc = "idle"
    /\ calls < MaxCalls
    /\ calls' = calls + 1
    /\ UNCHANGED <<f, pc, result>>

(* A section at the end of all, and its name in the string table. *)
Added(all, name, str_index) ==
    LET list == Append(all, [NewSection(Len(all)) EXCEPT !.name = name])
        filled == [list EXCEPT ![str_index + 1] = AddString(@, name)]
    IN [filled EXCEPT ![Len(list)] = Set(@, "name", StringPlace(list[str_index + 1]))]

(* A section of type SHT_NULL, which is in no table, and the table, which names itself. *)
MandatorySections ==
    LET all == Added(<<NewSection(0)>>, ShStrTab, 1)
    IN [all EXCEPT ![2] = Set(@, "type", SHT_STRTAB)]

Create(class, encoding) ==
    /\ Edit
    /\ need_conversion' = (encoding # Host)
    /\ header' = NewHeader(class, encoding)
    /\ sections' = MandatorySections'
    /\ segments' = << >>
    /\ source' = "created"

(* Sections::add. There has to be a header, and the string table it names. *)
AddSection(name) ==
    /\ Edit
    /\ header.class \in Classes
    /\ get("shstrndx") <= Len(sections)
    /\ Editable(Append(sections, NewSection(Len(sections)))[get("shstrndx") + 1])
    /\ sections' = Added(sections, name, get("shstrndx"))
    /\ source' = "edited"
    /\ UNCHANGED <<need_conversion, header, segments>>

(* set_data and insert_data, of other sections than the names'. *)
SetData(k, bytes) ==
    /\ Edit
    /\ k # get("shstrndx") + 1
    /\ sections' = [sections EXCEPT ![k] = SetBytes(@, bytes)]
    /\ source' = "edited"
    /\ UNCHANGED <<need_conversion, header, segments>>

InsertData(k, pos, bytes) ==
    /\ Edit
    /\ k # get("shstrndx") + 1
    /\ Editable(sections[k])
    /\ sections' = [sections EXCEPT ![k] = InsertBytes(@, pos, bytes)]
    /\ source' = "edited"
    /\ UNCHANGED <<need_conversion, header, segments>>

LoadStep == SmallSectionHeaders \/ AddLoaded \/ SectionsRead \/ NameSections \/ NoNames
            \/ AddSegment \/ SegmentFails \/ Loaded

Inserts == \E k \in DOMAIN sections : \E pos \in 0..Size(sections[k]), bytes \in Contents :
               InsertData(k, pos, bytes)

Next ==
    \/ \E file \in Files : RejectFile(file) \/ ShortFile(file) \/ OpenFile(file)
    \/ LoadStep
    \/ \E class \in Classes, encoding \in {"LSB", "MSB"} : Create(class, encoding)
    \/ \E name \in Names : AddSection(name)
    \/ \E k \in DOMAIN sections, bytes \in Contents : SetData(k, bytes)
    \/ Inserts

Spec == Init /\ [][Next]_vars

-----------------------------------------------------------------------------
(* Numbers and bytes as the file means them, whatever reads them. *)
Filed(field) == Joined(f.encoding, f.ehdr[field])

FiledSections ==
    IF Filed("shentsize") < HeaderSize[f.class].section THEN 0 ELSE Filed("shnum")

HeaderAt(k) == Filed("shoff") + (k - 1) * Filed("shentsize")

FiledField(k, field) ==
    IF HeaderAt(k) + HeaderSize[f.class].section > f.size THEN 0
    ELSE Joined(f.encoding, f.shdrs[HeaderAt(k)][field])

InFile(k) ==
    LET F(field) == FiledField(k, field)
    IN F("type") \notin {SHT_NULL, SHT_NOBITS} /\ F("size") < f.size
       /\ (F("size") = 0 \/ F("offset") + F("size") <= f.size)

FiledBytes(k) ==
    LET F(field) == FiledField(k, field)
    IN IF HasFlag(F("flags"), SHF_RPX_DEFLATE) /\ F("offset") \in DOMAIN f.streams
       THEN f.streams[F("offset")]
       ELSE Bytes(f, F("offset"), F("size"))

(* The strings that the file's string table has at a place: one, or none. *)
FiledNames(place) ==
    LET table == Filed("shstrndx") + 1
        bytes == FiledBytes(table)
    IN IF table \in 2..FiledSections /\ InFile(table)
       THEN {SubSeq(bytes, place + 1, end) : end \in {j \in place..(Len(bytes) - 1) :
                  bytes[j + 1] = 0 /\ \A l \in (place + 1)..j : bytes[l] # 0}}
       ELSE {}

(* After load the object holds what this file says, in either byte order and whatever was
   loaded before: each section has its fields, its bytes with a NUL behind them, and its
   name; what does not lie in the file is left out and disturbs no other section; and
   so with the bytes of the segments that lie in the file. *)
AsFiled ==
    pc = "idle" /\ source = "file" =>
        /\ Len(sections) = FiledSections
        /\ \A k \in DOMAIN sections :
               LET s == sections[k]
               IN /\ s.index = k - 1
                  /\ \A x \in HeaderFields \ {"size"} : Get(s, x) = FiledField(k, x)
                  /\ s.data = IF InFile(k) THEN Append(FiledBytes(k), 0) ELSE << >>
                  /\ Size(s) = IF InFile(k) THEN Len(FiledBytes(k)) ELSE FiledField(k, "size")
                  /\ s.name \in FiledNames(FiledField(k, "name")) \cup {<< >>}
                  /\ FiledNames(FiledField(k, "name")) # {} =>
                         s.name \in FiledNames(FiledField(k, "name"))
        /\ result => Len(segments) = Filed("phnum")
        /\ \A g \in DOMAIN segments :
               LET h == segments[g].header
               IN h.type # PT_NULL /\ h.offset + h.filesz <= f.size =>
                      segments[g].data = Bytes(f, h.offset, h.filesz)

(* Every section that has a name has it in the string table, at the place its header
   says, however many sections were added behind those of a file or to a new object; unless
   the file calls its string table a section without data. *)
NamesInTable ==
    pc = "idle" =>
        \A s \in Range(sections) : s.name # << >> =>
            LET table == sections[get("shstrndx") + 1]
                place == Get(s, "name")
            IN \/ Get(table, "type") = SHT_NOBITS
               \/ HasString(table, place) /\ StringAt(table, place) = s.name

(* What edits write lies in the buffer, and the buffer has the bytes that the size
   counts. Not so for inflated data: its capacity stays that of the compressed data. *)
EditsInBuffer ==
    \A s \in Range(sections) : ~Compressed(s) =>
        /\ Len(s.data) <= s.room
        /\ s.data # << >> => Size(s) <= Len(s.data)

Content(s) == SubSeq(s.data, 1, Size(s))

(* insert_data puts the new bytes where the caller says and keeps the others in their
   order, whether it moves them in place or to another buffer; nothing else changes. *)
Inserted ==
    [][\A k \in DOMAIN sections : \A pos \in 0..Size(sections[k]), bytes \in Contents :
           InsertData(k, pos, bytes) =>
               LET old == sections[k]
                   new == sections'[k]
                   n == Len(bytes)
               IN /\ \A j \in DOMAIN sections \ {k} : sections'[j] = sections[j]
                  /\ Get(old, "type") # SHT_NOBITS =>
                         /\ SubSeq(Content(new), 1, pos) = SubSeq(Content(old), 1, pos)
                         /\ SubSeq(Content(new), pos + 1, pos + n) = bytes
                         /\ SubSeq(Content(new), pos + n + 1, Size(new))
                                = SubSeq(Content(old), pos + 1, Size(old))]_vars

Apart(begin, size, begin2, size2) == begin + size <= begin2 \/ begin2 + size2 <= begin

(* No section is in two segments that have no byte in common, neither in memory nor in
   the file; not even one of no bytes, at the end of one and the begin of the other. *)
SegmentsApart ==
    \A g, h \in DOMAIN segments :
        LET a == segments[g].header
            b == segments[h].header
        IN g # h /\ Apart(a.vaddr, a.memsz, b.vaddr, b.memsz)
                 /\ Apart(a.offset, a.filesz, b.offset, b.filesz)
               => segments[g].sections \cap segments[h].sections = {}
=============================================================================
