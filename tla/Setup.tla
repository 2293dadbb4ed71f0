-------------------------------- MODULE Setup --------------------------------
(***************************************************************************)
(* The setup payload (source/main.cpp, kernel.cpp, ElfUtils.cpp): it       *)
(* leaves the path and the end of the memory region behind the place of    *)
(* the loader, copies the loader's ELF to that place, over the program     *)
(* that was there, makes main of every process jump to it, and calls it    *)
(* once with the magic number.                                             *)
(*                                                                         *)
(* Memory is a row of cells, from MEMORY_REGION_START on. A cell holds a   *)
(* byte of the ELF, known by its offset; one of the path, known by its     *)
(* place in it; zero; or what was there before.                            *)
(***************************************************************************)
EXTENDS Integers, Sequences

CONSTANTS
    RELOCATOR_SIZE,
    ENVIRONMENT_PATH_LENGTH,
    Images,         \* ELFs of the loader: entry, segments and sections
    PathLengths     \* of the path that is passed

ASSUME SizesAssumption == RELOCATOR_SIZE \in Nat /\ ENVIRONMENT_PATH_LENGTH \in Nat \ {0}
ASSUME PathLengthsAssumption == PathLengths \subseteq Nat

Segment == [type : STRING, paddr : Nat, offset : Nat, filesz : Nat, memsz : Nat]
Section == [addr : Nat, size : Nat, offset : Nat, nobits : BOOLEAN, bss : BOOLEAN]

(* The cells that a segment is copied to, and those of a section. *)
Target(seg) == seg.paddr..(seg.paddr + seg.filesz - 1)
Span(s) == s.addr..(s.addr + s.size - 1)

(* Mutant: a segment that is larger in memory than in the file is left out. *)
CopiedIfAllFiled(seg) == seg.type = "PT_LOAD" /\ seg.filesz = seg.memsz /\ seg.filesz > 0

Copied(seg) == seg.type = "PT_LOAD" /\ seg.filesz <= seg.memsz /\ seg.filesz > 0

(* The loader is an ELF that the linker wrote after link.ld: that asserts that the sections
   fit, and only .bss and .sbss are without data. Each segment that is copied is within the
   loader's place and apart from the others; the byte of a section is in one of them, and
   in no section that is cleared. *)
ASSUME ImagesAssumption ==
    \A image \in Images :
        LET loaded(seg) == seg.type = "PT_LOAD" /\ seg.filesz \in 1..seg.memsz
            copied == {j \in DOMAIN image.segments : loaded(image.segments[j])}
        IN /\ image.segments \in Seq(Segment) /\ image.segments # << >>
           /\ image.sections \in Seq(Section)
           /\ \A j \in copied : Target(image.segments[j]) \subseteq 0..(RELOCATOR_SIZE - 1)
           /\ \A j, l \in copied :
                 j # l => Target(image.segments[j]) \cap Target(image.segments[l]) = {}
           /\ \A j \in DOMAIN image.sections :
                 LET s == image.sections[j]
                 IN /\ Span(s) \subseteq 0..(RELOCATOR_SIZE - 1)
                    /\ s.nobits => s.bss
                    /\ ~s.nobits =>
                          /\ \A c \in Span(s) : \E l \in copied :
                                LET seg == image.segments[l]
                                IN c \in Target(seg) /\ seg.offset - seg.paddr = s.offset - s.addr
                          /\ \A l \in DOMAIN image.sections :
                                image.sections[l].bss => Span(s) \cap Span(image.sections[l]) = {}

VARIABLES
    step,           \* "main", "segments", "sections", "hook", "call", "called" or "fatal"
    cells,
    elf,            \* the image
    path_length,
    i,              \* the index of the loops of load_loader_elf
    hook            \* where main of a process jumps to; Old: nowhere

setupVars == <<step, cells, elf, path_length, i, hook>>

Old == -1
ElfByte(offset) == 1000 + offset
PathByte(k) == 1 + k

ENVIRONMENT_STRING == RELOCATOR_SIZE
REGION_END == ENVIRONMENT_STRING + ENVIRONMENT_PATH_LENGTH
RegionEnd == 500
Places == 0..REGION_END

SetupInit ==
    /\ step = "main"
    /\ cells = [c \in Places |-> Old]
    /\ elf \in Images
    /\ path_length \in PathLengths
    /\ i = 1
    /\ hook = Old

(* The arguments are not those of the EnvironmentLoader. *)
BadArguments ==
    /\ step = "main"
    /\ step' = "fatal"
    /\ UNCHANGED <<cells, elf, path_length, i, hook>>

(* strncpy fills up with zeros; it writes all bytes of the string but its last. *)
Main ==
    /\ step = "main"
    /\ cells' = [c \in Places |->
           CASE c = REGION_END -> RegionEnd
             [] c \in ENVIRONMENT_STRING..(REGION_END - 2) ->
                    IF c - ENVIRONMENT_STRING < path_length THEN PathByte(c - ENVIRONMENT_STRING)
                    ELSE 0
             [] OTHER -> cells[c]]
    /\ step' = IF elf.segments = << >> THEN "hook" ELSE "segments"
    /\ UNCHANGED <<elf, path_length, i, hook>>

CopySegment ==
    /\ step = "segments"
    /\ i <= Len(elf.segments)
    /\ LET seg == elf.segments[i]
       IN cells' = IF Copied(seg)
                    THEN [c \in Places |-> IF c \in Target(seg)
                                          THEN ElfByte(seg.offset + c - seg.paddr)
                                          ELSE cells[c]]
                    ELSE cells
    /\ i' = i + 1
    /\ UNCHANGED <<step, elf, path_length, hook>>

EndSegments ==
    /\ step = "segments"
    /\ i > Len(elf.segments)
    /\ step' = "sections"
    /\ i' = 1
    /\ UNCHANGED <<cells, elf, path_length, hook>>

(* A section is cleared if its name begins with .bss or .sbss. *)
ClearSection ==
    /\ step = "sections"
    /\ i <= Len(elf.sections)
    /\ LET s == elf.sections[i]
       IN cells' = [c \in Places |-> IF s.bss /\ c \in Span(s) THEN 0
                                     ELSE cells[c]]
    /\ i' = i + 1
    /\ UNCHANGED <<step, elf, path_length, hook>>

EndSections ==
    /\ step = "sections"
    /\ i > Len(elf.sections)
    /\ step' = "hook"
    /\ i' = 1
    /\ UNCHANGED <<cells, elf, path_length, hook>>

(* The kernel is made to write the jump. Without program headers the entry is taken to be
   0, and jumped to. *)
WriteHook ==
    /\ step = "hook"
    /\ hook' = IF elf.segments = << >> THEN 0 ELSE elf.entry
    /\ step' = "called"
    /\ UNCHANGED <<cells, elf, path_length, i>>

SetupNext ==
    Main \/ BadArguments \/ CopySegment \/ EndSegments \/ ClearSection \/ EndSections \/ WriteHook

SetupSpec == SetupInit /\ [][SetupNext]_setupVars

-----------------------------------------------------------------------------
(* Whenever the loader is called, its sections are in memory as they were linked, those
   without data in the file cleared of what was there; main jumps to its entry; and the
   path, if it is shorter than its place, and the end of the region are as main left them,
   not touched by the copy or the clearing. *)
StartsAsLinked ==
    step = "called" =>
        /\ hook = elf.entry
        /\ \A j \in DOMAIN elf.sections :
              LET s == elf.sections[j]
              IN \A c \in Span(s) :
                    cells[c] = IF s.nobits THEN 0 ELSE ElfByte(s.offset + c - s.addr)
        /\ cells[REGION_END] = RegionEnd
        /\ path_length < ENVIRONMENT_PATH_LENGTH - 1 =>
              /\ \A k \in 0..(path_length - 1) : cells[ENVIRONMENT_STRING + k] = PathByte(k)
              /\ cells[ENVIRONMENT_STRING + path_length] = 0
=============================================================================
