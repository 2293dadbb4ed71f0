---------------------------- MODULE ModuleLayout ----------------------------
(***************************************************************************)
(* How ModuleDataFactory::load lays a module out in one block of memory:   *)
(* the loop that adds up the sizes, the block, and the loop that places    *)
(* and copies the sections. A module is linked for fixed addresses, code   *)
(* from TextBase and data from DataBase; linkSection later turns the       *)
(* address of a symbol into one in the block (SymbolAddress).              *)
(*                                                                         *)
(* Addresses and sizes are uint32_t: every sum wraps, also those of the    *)
(* check that a section ends in the block.                                 *)
(***************************************************************************)
EXTENDS Integers, Sequences

CONSTANTS
    TextBase, DataBase, ImportBase,     \* 0x02000000, 0x10000000 and 0xC0000000
    Catalog,                            \* the sections a module file may have
    MaxSections,                        \* bound: at most this many of them
    Blocks,                             \* the addresses a block may be allocated at
    HeapEnd,                            \* the end of the loader's heap
    Word                                \* 2^32

(* kind: "bits" (PROGBITS or NOBITS with SHF_ALLOC), "bounds" (the same, named
   .wut_load_bounds), "import" (0x80000002) or "other". wums: the name starts with
   ".wums.". *)
Section == [kind : {"bits", "bounds", "import", "other"}, addr : 0..(Word - 1),
            size : 0..(Word - 1), wums : BOOLEAN]

ASSUME BasesAssumption ==
    /\ {TextBase, DataBase, ImportBase} \subseteq Nat
    /\ TextBase < DataBase
    /\ DataBase < ImportBase
ASSUME SectionsAssumption == Catalog \subseteq Section /\ MaxSections \in Nat

(* The heap is in the loader's region, from 0x00800000 to 0x01000000. So an offset from
   DataBase or TextBase and two sizes of what lies in the heap make no sum that wraps. *)
ASSUME HeapAssumption ==
    /\ Word \in Nat
    /\ HeapEnd \in Nat
    /\ Blocks \subseteq 0..HeapEnd
    /\ 2 * HeapEnd + (ImportBase - DataBase) <= Word
    /\ 2 * HeapEnd + (DataBase - TextBase) <= Word

VARIABLES
    sections,
    pc,             \* "size", "place", "done", "fatal"; nullopt: "skipped" or "short"
    i,              \* the position in the section list
    text_size,
    data_size,
    data,           \* the address of the block
    baseOffset,
    totalSize,
    destination     \* destination[j]: where section j was put, once it is

vars == <<sections, pc, i, text_size, data_size, data, baseOffset, totalSize, destination>>
sizes == <<text_size, data_size>>

Wrap(a) == a % Word

InText(a) == TextBase <= a /\ a < DataBase
InData(a) == DataBase <= a /\ a < ImportBase

(* Any list of at most MaxSections sections. *)
SectionsInit == \E n \in 0..MaxSections : sections \in [1..n -> Catalog]

Init ==
    /\ SectionsInit
    /\ pc = "size"
    /\ i = 1
    /\ text_size = 0
    /\ data_size = 0
    /\ data = 0
    /\ baseOffset = 0
    /\ totalSize = 0
    /\ destination = << >>

cur == sections[i]

-----------------------------------------------------------------------------
(* The first loop: what the sections need. Sections named .wums. count twice. *)

TextShare(s) == IF InText(s.addr) THEN s.size ELSE 0

DataShare(s) == (IF InData(s.addr) THEN s.size ELSE 0) + (IF s.wums THEN s.size ELSE 0)

CountSection ==
    /\ pc = "size"
    /\ i <= Len(sections)
    /\ IF cur.kind \in {"bits", "bounds"}
       THEN /\ text_size' = Wrap(text_size + TextShare(cur))
            /\ data_size' = Wrap(data_size + DataShare(cur))
       ELSE UNCHANGED sizes
    /\ i' = i + 1
    /\ UNCHANGED <<sections, pc, data, baseOffset, totalSize, destination>>

Allocated == Wrap(text_size + data_size)

AllocateBlock ==
    /\ pc = "size"
    /\ i > Len(sections)
    /\ data' \in Blocks
    /\ data' + Allocated <= HeapEnd
    /\ baseOffset' = data'
    /\ pc' = "place"
    /\ i' = 1
    /\ UNCHANGED <<sections, sizes, totalSize, destination>>

(* The allocator stops the console when the heap is full. *)
BlockFails ==
    /\ pc = "size"
    /\ i > Len(sections)
    /\ pc' = "fatal"
    /\ UNCHANGED <<sections, i, sizes, data, baseOffset, totalSize, destination>>

-----------------------------------------------------------------------------
(* The second loop: where the sections go. *)

Placing == pc = "place" /\ i <= Len(sections)

(* The section at i belongs at this address. *)
Target == Wrap(baseOffset + cur.addr - (IF InText(cur.addr) THEN TextBase ELSE DataBase))

EndOfBlock == Wrap(data + text_size + data_size)

SkipSection ==
    /\ Placing
    /\ cur.kind # "bits"
    /\ i' = i + 1
    /\ UNCHANGED <<sections, pc, sizes, data, baseOffset, totalSize, destination>>

Unsupported ==
    /\ Placing
    /\ cur.kind = "bits"
    /\ ~InText(cur.addr)
    /\ ~InData(cur.addr)
    /\ totalSize' = Wrap(totalSize + cur.size)
    /\ pc' = "skipped"
    /\ UNCHANGED <<sections, i, sizes, data, baseOffset, destination>>

(* "Tried to overflow buffer" *)
Overflow ==
    /\ Placing
    /\ cur.kind = "bits"
    /\ InText(cur.addr) \/ InData(cur.addr)
    /\ Wrap(Target + cur.size) > EndOfBlock
    /\ pc' = "fatal"
    /\ totalSize' = Wrap(totalSize + cur.size)
    /\ baseOffset' = Wrap(baseOffset + TextShare(cur))
    /\ UNCHANGED <<sections, i, sizes, data, destination>>

(* Mutant: no check of the end of the block. *)
PlaceUnchecked ==
    /\ Placing
    /\ cur.kind = "bits"
    /\ InText(cur.addr) \/ InData(cur.addr)
    /\ destination' = [j \in DOMAIN destination \cup {i} |->
                          IF j = i THEN Target ELSE destination[j]]
    /\ totalSize' = Wrap(totalSize + cur.size)
    /\ baseOffset' = Wrap(baseOffset + TextShare(cur))
    /\ i' = i + 1
    /\ UNCHANGED <<sections, pc, sizes, data>>

(* Mutant: data is placed from the start of the block. *)
PlaceAtStart ==
    /\ Placing
    /\ cur.kind = "bits"
    /\ InText(cur.addr) \/ InData(cur.addr)
    /\ Wrap(Target + cur.size) <= EndOfBlock
    /\ destination' = [j \in DOMAIN destination \cup {i} |->
                          IF j = i THEN Target ELSE destination[j]]
    /\ totalSize' = Wrap(totalSize + cur.size)
    /\ i' = i + 1
    /\ UNCHANGED <<sections, pc, sizes, data, baseOffset>>

(* Mutant: the code is not counted. *)
PlaceCountsData ==
    /\ Placing
    /\ cur.kind = "bits"
    /\ InText(cur.addr) \/ InData(cur.addr)
    /\ Wrap(Target + cur.size) <= EndOfBlock
    /\ destination' = [j \in DOMAIN destination \cup {i} |->
                          IF j = i THEN Target ELSE destination[j]]
    /\ totalSize' = IF InData(cur.addr) THEN Wrap(totalSize + cur.size) ELSE totalSize
    /\ baseOffset' = Wrap(baseOffset + TextShare(cur))
    /\ i' = i + 1
    /\ UNCHANGED <<sections, pc, sizes, data>>

PlaceBits ==
    /\ Placing
    /\ cur.kind = "bits"
    /\ InText(cur.addr) \/ InData(cur.addr)
    /\ Wrap(Target + cur.size) <= EndOfBlock
    /\ destination' = [j \in DOMAIN destination \cup {i} |->
                          IF j = i THEN Target ELSE destination[j]]
    /\ totalSize' = Wrap(totalSize + cur.size)
    /\ baseOffset' = Wrap(baseOffset + TextShare(cur))
    /\ i' = i + 1
    /\ UNCHANGED <<sections, pc, sizes, data>>

(* "We didn't allocate enough memory!!" *)
TooShort ==
    /\ pc = "place"
    /\ i > Len(sections)
    /\ totalSize > Allocated
    /\ pc' = "short"
    /\ UNCHANGED <<sections, i, sizes, data, baseOffset, totalSize, destination>>

Loaded ==
    /\ pc = "place"
    /\ i > Len(sections)
    /\ totalSize <= Allocated
    /\ pc' = "done"
    /\ UNCHANGED <<sections, i, sizes, data, baseOffset, totalSize, destination>>

Next ==
    \/ CountSection \/ AllocateBlock \/ BlockFails
    \/ SkipSection \/ Unsupported \/ Overflow \/ PlaceBits \/ TooShort \/ Loaded

Spec == Init /\ [][Next]_vars

-----------------------------------------------------------------------------
(* linkSection: where a symbol with this value is taken to be. *)
SymbolAddress(value) ==
    Wrap(IF InText(value) THEN value - TextBase + data ELSE value - DataBase + data + text_size)

(* What a section adds to the size of the block. *)
Counted(s) == IF s.kind \in {"bits", "bounds"} THEN TextShare(s) + DataShare(s) ELSE 0

(* NeededBy(list)[n]: what the first n sections add, as numbers that do not wrap. *)
NeededBy(list) ==
    LET sum[n \in 0..Len(list)] == IF n = 0 THEN 0 ELSE sum[n - 1] + Counted(list[n])
    IN sum

(* The sizes in the section headers come to less than 2^32. *)
SizesFit == NeededBy(sections)[Len(sections)] < Word

(* What the linker script of modules makes: one section of code, at TextBase and
   before all data, and sections that do not overlap. *)
Code(s) == s.kind \in {"bits", "bounds"} /\ InText(s.addr)

CodeFirst ==
    \A j \in DOMAIN sections :
        Code(sections[j]) =>
            /\ sections[j].kind = "bits"
            /\ sections[j].addr = TextBase
            /\ sections[j].addr + sections[j].size <= DataBase
            /\ \A l \in DOMAIN sections :
                  sections[l].kind = "bits" /\ l # j => j < l /\ InData(sections[l].addr)

Disjoint(a, m, b, n) == a + m <= b \/ b + n <= a

NoneOverlap ==
    \A j, l \in DOMAIN sections :
        sections[j].kind = "bits" /\ sections[l].kind = "bits" /\ j # l =>
            Disjoint(sections[j].addr, sections[j].size, sections[l].addr, sections[l].size)

(* Data without padding: each section follows another, or comes first. *)
Packed ==
    \A j \in DOMAIN sections :
        sections[j].kind = "bits" /\ InData(sections[j].addr) =>
            \/ sections[j].addr = DataBase
            \/ \E l \in DOMAIN sections \ {j} :
                  /\ sections[l].kind = "bits"
                  /\ InData(sections[l].addr)
                  /\ sections[l].addr < sections[j].addr
                  /\ sections[l].addr + sections[l].size = sections[j].addr

Placed == DOMAIN destination

(* The variables hold what the loops allow. *)
TypeOK ==
    /\ SectionsInit
    /\ pc \in {"size", "place", "done", "skipped", "short", "fatal"}
    /\ i \in Nat \ {0}
    /\ {text_size, data_size, data, baseOffset, totalSize} \subseteq 0..(Word - 1)
    /\ Placed \subseteq DOMAIN sections
    /\ \A j \in Placed : destination[j] \in 0..(Word - 1)

(* load writes no section outside the block it allocated, wherever the headers place it, if
   the sizes in the headers come to less than 2^32. If they do not, the size of the
   block wraps, and the check of its end may wrap, too, and let a section pass. *)
InsideBlock ==
    SizesFit =>
        \A j \in Placed :
            /\ data <= destination[j]
            /\ destination[j] + sections[j].size <= data + Allocated

(* A symbol is linked to the place its section was put, though the one is worked
   out from the start of the code and of the data, and the other from how much
   code has been placed so far. *)
SymbolsMeetSections ==
    SizesFit /\ CodeFirst =>
        \A j \in Placed : \A x \in 0..(sections[j].size - 1) :
            sections[j].addr + x < ImportBase =>
                SymbolAddress(sections[j].addr + x) = destination[j] + x

(* Sections that do not overlap in the file do not overlap in the block. *)
PartsApart ==
    SizesFit /\ CodeFirst /\ NoneOverlap =>
        \A j, l \in Placed :
            j # l => Disjoint(destination[j], sections[j].size,
                              destination[l], sections[l].size)

(* The size that was allocated is never less than what was placed, so that the check
   "We didn't allocate enough memory" is only a precaution; and the end that is published
   for a module, data + totalSize, is behind all its sections, if its data has no
   padding. Both if the sizes come to less than 2^32. *)
EndBehindAll ==
    SizesFit =>
        /\ pc # "short"
        /\ pc = "done" /\ CodeFirst /\ NoneOverlap /\ Packed =>
              \A j \in Placed : destination[j] + sections[j].size <= data + totalSize
=============================================================================
