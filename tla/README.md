# TLA+ verification of WUMSLoader

WUMSLoader puts "modules" (`.wms` files: ELF objects that hook into the
system) into the memory of a Wii U before any application runs, and prepares
them again each time an application starts. This directory holds TLA+ models of
the loader, their TLC configurations, and TLAPS proofs. Paths below are
relative to the repository.

## 1. The system

### Parts

| part | source | state it keeps |
|---|---|---|
| setup payload | `source/main.cpp`, `source/kernel.cpp`, `source/ElfUtils.cpp` | none; copies the loader's ELF to its place, patches the jump to `main` of every process, calls the loader once with a magic number |
| entry and lifecycle | `wumsloader/src/entry.cpp`, `globals.cpp` | `ucSetupRequired`, `gInitCalled`, `gLoadedModules`, `gUsedRPLs`, `gAllocatedAddresses`, `gModuleInformation`, the custom RPL allocator |
| module ordering | `entry.cpp` 133-203, 263-331 | the order of `gLoadedModules` |
| relocation against RPLs | `utils/RelocationUtils.cpp` | `gUsedRPLs`, `gAllocatedAddresses`, the allocator set in `OSDynLoad` |
| hook dispatch | `utils/hooks.cpp` | the custom RPL allocator |
| module loading | `module/ModuleDataFactory.cpp`, `module/*.h` | one `ModuleData` per file: its block of memory, sections, exports, hooks, relocations, symbols |
| published module data | `module/ModuleDataPersistence.cpp` | arrays `gModuleInformation` points to, read by modules |
| linking one relocation | `utils/ElfUtils.cpp` | words of code |
| files and directories | `fs/FileUtils.cpp`, `fs/DirList.cpp` | buffers, the sorted list of files |
| heap | `utils/memory.cpp` | the loader's expanded heap `gHeapHandle` |
| helpers | `utils/StringTools.*`, `utils/logger.*`, `utils/wiiu_zlib.hpp`, `utils/utils.h`, `utils/dynamic.c`, `crt.c`, `link.ld` | none of interest |
| ELF reader | `wumsloader/src/elfio/` (vendored) | the header, sections and segments of a file; its accessors, counts and positions in a section |

### How they interact

The setup payload calls `_start` once with `argc` = the magic number; after that
the patched `main` jump calls `_start` in every process. The first call makes the
loader's heap. In the game and menu processes `doStart` runs. Its first call
scans `<environment>/modules`, loads each file (`ModuleDataFactory::load`),
publishes the result (`saveModuleData`), orders the modules, relocates them
against the RPLs that are already loaded, calls the INIT hooks of the "early"
modules (those that init before the relocations are done), asks the modules for
an RPL allocator, relocates again and now loads the RPLs that are missing, and
calls the other INIT hooks. A later call only relocates again, against the RPLs
of the new process. Each call ends with the list of acquired RPL handles in
`gModuleInformation`, where the base module (a module, not part of this
repository) finds and releases them when the application exits, and with the
hooks of an application's start.

Modules, the loader and `OSDynLoad` therefore share: the handles, the memory of
the RPLs, the allocator functions, and the words the relocations write.

### What is hard here

The setup payload leaves three things for the loader: its image, at a fixed place over
the program that was there before, and right behind that place the path of the
environment and the end of the memory region. `load` reads each file through an `elfio`
object of its own and keeps no reference to it.

There is one thread and no message passing. What goes wrong in such a program
is protocol and lifetime: things that hold for one process and are used in the
next; two lists that must agree (the blocks of the heap and `gAllocatedAddresses`,
references and `acquired_rpls`); a reordering by name; a loop whose end depends on
its progress; memory that comes from one heap and goes back to another; widths of
fields. `PROJECT.json` lists these under "hazards", at their lines.

### What makes each part correct

* Ordering: the passes end; every module comes after its imports; when they give
  up there really is no order; the two moves afterwards keep every module and
  put the base module, the early modules and the backend where the comments say.
* Setup: the loader is in memory as it was linked, with nothing left of what was there,
  and what it is told lies where it looks.
* Lifecycle: whenever a hook runs, what its module is linked to is there; INIT
  once; each start leaves the application's allocator as it was; references and
  memory balance over any number of applications; each start ends.
* Listing: exactly what is asked for, in the one order all else starts from.
* ELF reader: an object holds what the last file said, whatever it held before and
  however the file is cut off; an edit keeps what it does not replace, in a buffer that
  has the room; moved symbols keep their relocations; what was added is found again.
* Loading: a file that fails costs only itself; its buffer returns to the heap it
  came from; every relocation is done or kept; the fields say what the file says.
* Layout: nothing is written outside the block, if the sizes come to less than 2^32; the parts of a module do not
  overlap; symbols are where their sections are.
* Published data: describes the modules it was made from; all or nothing.
* Linking: the instruction computes the address meant, or linking fails.

## 2. The modules

| module | models | extends |
|---|---|---|
| `ModuleDeps` | what modules are, for their order: export names, imports, the early flag, hook types | |
| `LoadOrder` | abstract: an order that respects imports, or the reason why there is none | `ModuleDeps` |
| `ModuleOrder` | `doStart` 133-203: the passes and the moves | `ModuleDeps` |
| `DynLoad` | coreinit's dynamic loader and the memory of RPLs, as the loader uses them | |
| `Lifecycle` | `_start`, `doStart`, `ResolveRelocations`, `CallHook`, applications and their end | `ModuleDeps`, `DynLoad` |
| `ModuleLayout` | `ModuleDataFactory::load` 120-224, 334-344: sizes and places | |
| `ElfLink` | `elfLinkOne`, and both callers' order of calls | |
| `ModuleMeta` | `load` 63-112: the strings of `.wums.meta` | |
| `DirList` | `DirList.cpp`: what of a folder's tree is listed, and in which order | |
| `ModuleLoad` | the listing, the loop over the files, `LoadFileToMem`, the rest of `load` | `ModuleMeta`, `DirList` |
| `Persistence` | `ModuleDataPersistence` | |
| `Setup` | the setup payload: `main.cpp`, `kernel.cpp`, `ElfUtils.cpp` | |
| `ElfSection` | a section of elfio: header, data, edits, strings, inflating; the byte orders | |
| `ElfReader` | an elfio object: `load`, `create`, `Sections::add` | `ElfSection` |
| `ElfSymbols` | symbols, relocations, `arrange_local_symbols`, the two hash tables | |
| `ElfTables` | dynamic entries, notes, module information, versions | |

Each module `X` that is checked has `MCX`, which gives its constants values, and
the `.cfg` files. `MCModuleOrder` runs the search and the moves on catalogs of their own.
`MCLifecycle` runs `Setup` and then `Lifecycle`; `MCElfSymbols` has `ElfSymbols` and
`ElfTables`, which share no state, in behaviours of the one or of the other. The theorems are in
`ModuleOrderProofs` (the search and the moves), `LifecycleProofs` (also those about `Setup`),
`ModuleLayoutProofs`, `ElfLinkProofs`, `ModuleLoadProofs` (also those about `DirList`),
`PersistenceProofs`, `ElfReaderProofs` and `ElfSymbolsProofs` (also those about `ElfTables`). Definitions named in comments as mutants are the
code with a mistake in it; no specification uses them, they show that a property
would notice.

`PROJECT.json` gives for each definition the lines it stands for. In all modules
`pc` says where the one thread is, variables have the names they have in the code,
and `OSFatal`, which does not return, ends a behaviour (`pc = "fatal"`).

### ModuleOrder

A module is its number in the list that loading left; `desc` has what the order
depends on. `finalOrder`, `i`, `canBreak` and `weDidSomething` are the locals of
`OrderModulesByDependencies`; one action is one turn of its inner loop
(`SkipPlaced`, `RejectBackendImport`, `LeaveForLater`, `PlaceModule`) or the end of
a pass. The code notes the modules in line by their entry points. A module's entry
point lies in its own block, so it stands for the module. The imports of a module
are a `std::set`, sorted: the scan that looks for the backend ends at the first name
that is missing, so it matters which names come before the backend's
(`BeforeBackend`, `ReachesBackend`). Then come the moves; `MoveRegular` is one turn of
the last loop, with the removal by name as it is.

### DynLoad and Lifecycle

`rpl[r]` is what coreinit knows of an RPL: the number of the present load, its
references, and whose memory it is in. A function address taken from a load is good
as long as that load is there, so `link[m][r]`, the words that relocation wrote, holds
a load number. A number is used again once no handle, link or block has it: so the
state space is finite although there is no bound on the number of applications. `Ids`, the
numbers there are, is a bound (`Numbers` in the guards), which the `lifecycle` run never
reaches; the theorems hold for any set of numbers, an infinite one too.
`doStart` is a sequence of loops over `gLoadedModules` (`After` is their order, `k` the
position); in the two relocation loops `done` is the set of RPLs dealt with for a
module. `StartProcess` is a new process, first the one with the magic number;
`AppAcquire` and `AppRelease` are what the application does, in any order;
`BaseReleases` is what the base module does at its end with `acquired_rpls`.

Assumed, because it is outside this repository: `OSDynLoad` frees an RPL with the free
function it had when it allocated; an RPL is one block; when a process ends its RPLs
are gone; the base module releases what is in `acquired_rpls`. Assumed of the modules:
the hook that gives an allocator belongs to a module with a memory of its own, which
the clear hook empties. A process whose UPID is neither 2 nor 15 changes nothing but
at the very first call (the heap), so only the first start may be one.
`NamesAgree` (modules of one name agree on the early flag) is assumed in `Init`; the
order a start uses is any that `ModuleOrder` may produce (`Admissible`, which the theorem
`StartsRight` shows of `ModuleOrder`).

### ModuleLayout

A section has a kind (what `load` tells apart by type, flags and name), an address and
a size. One action is one turn of the sizing or the placing loop. What goes to the
block is the address range `destination[j]` and the section's size. Addresses, sizes and
sums are `uint32_t`, as in the code: each sum wraps (`Wrap`) at `Word`, which is 2^32, also
the size that is allocated (`Allocated`) and both sides of the comparison with the end of
the block (`Overflow`, `PlaceBits`). The block lies in the loader's heap, whose end is
`HeapEnd`; that the heap is far from 2^32 (`HeapAssumption`) is what `globals.h` says of its
region. `TooShort` is the check "We didn't allocate enough memory!!". The properties are about
modules whose sizes come to less than 2^32 (`SizesFit`): without that some of them do not
hold, see "Limits".

### ElfLink

Memory is half words, the width is a constant. An entry has a type, a target, an
addend and whether it refers to an import. A behaviour links the entries of the
module, then those for imports; `NextStart` begins the imports again with other
addresses of their symbols, over what is in memory. The loader passes no trampolines
today; `SlotAt` is then empty. The subtraction of signed numbers that may overflow is
taken to wrap, as the compiler builds it; the later tests of the upper bits are
implied by the test of reach and left out.

### ModuleMeta, DirList and ModuleLoad

The first step, `ListFiles`, lists the tree of the modules' folder as `entry.cpp` asks for
it. A tree gives each folder the entries in the order `readdir` has them, with "." and
"..". Of a path only its place among all paths counts (`strcasecmp`), and its extension.
Depth first order, the depth that goes down by one for each folder, flags and filter are
as in `InternalLoadPath`; `LoadFolder` is its loop. Sorting gives each entry the place that
`SortCallback` allows it (`SortList`). That is one place because a file system gives a tree
(`IsTree`): no two paths are the same, without regard to case as on a FAT card, and no folder is
in two others or in one below it. The loader asks for files
only, at depth 1, and without `CheckSubfolders`; `ListsWhatIsAsked` looks at what `LoadPath`
does for other flags too.

A file is what reading it gives: that it is missing, too large, read short, no ELF
file, not placeable, or a module with strings, relocations and a number of symbols. A
string of metadata is a sequence of parts, split at each '='; the code cuts off the key
in place, goes on behind it and finds the value as a string of its own, and so does
`ReadMeta`. A relocation has what the two passes over them tell apart: whether its
section is placed, and the kind of its symbol. In a file that has a `clash`, another
section than a relocation section has the `sh_info` of a section that is placed. Nothing is
read from its entries; symbol 0 is looked for in the section it links to, the string table of
a symbol table, which counts no symbols, and the load fails (`Clashes`).
`buffers` is what is taken of the default heap, which belongs to the application.

### Persistence

One action is one relocation (`UseRow`, `AddRow`) or one of the other tables of a module,
which are numbers as nothing refers into them. `make_unique_nothrow` never gives null,
because the redefined allocator calls `OSFatal` (memory.cpp 43-49): the code that would
undo a half saved module is never reached, and `OutOfMemory` stops.

### Setup

Memory is a row of cells from `MEMORY_REGION_START` to the region's end. Each holds a byte
of the ELF, of the path, zero or what was there before (`Old`), which is what makes a
section that was not cleared visible. One action is one turn of the two loops of
`load_loader_elf`. Only ELFs that the linker makes with `link.ld` are inputs
(`ImagesAssumption`): segments that are copied are apart, sections end within
`RELOCATOR_SIZE`, each section with data is in a segment, and only `.bss` and `.sbss` have
none. `link.ld` asserts that of the sum of the sizes, which
leaves out the alignment between sections.

### ElfSection and ElfReader

A header field has two digits of base `Base`, in place of 2, 4 or 8 bytes, and the
processor a byte order `Host`: so a conversion that is left out, or is done twice, shows. A
file has its headers by their position and, of its bytes, which are NUL; any other byte is
known by its position, so that it is seen where data comes from. Reading behind the file
gives `Stray`: elfio copies a segment without a look at the file's size. A section's `data`
are the bytes written, `room` the bytes allocated, `data_size` what elfio takes for that:
the three differ after `Inflate`. `load` is `OpenFile`, then one action per section header,
`NameSections`, one per segment; each way it fails or goes on without is an action or a
branch. `load` does not look at what `load_sections` gives back. The loader's constructor
makes an `elfio` with a compression interface: `elfio();` in it makes another object, so that
this one has no header before `load` (`Init`). Headers and data may lie anywhere; a section
marked as compressed that has no data is left out, since the code then reads from null, and
so are edits by hand of the table of names.

### ElfSymbols and ElfTables

A symbol has its name and whether it is local; a relocation the `info` that holds symbol and
type, cut to its width. `arrange_local_symbols` is `StartArrange`, one `SwapSymbols` for each
swap with its callback, and `EndArrange`. `WriteHash` puts a hash table there as a linker
would write it for the symbols of that moment (`SysvTable`, `GnuTable`); nothing of elfio
keeps it up to date, so a look-up may meet an older one. Nothing in this repository arranges
symbols, looks one up by its name or uses the accessors of `ElfTables`: the two modules are
about what the vendored library does when it is asked.

`ElfTables` has one accessor for each table, and what it keeps: the number of dynamic entries,
once counted; the positions of the notes; the attributes; the number of versions.
`NewAccessors` makes them again. Notes have positions in bytes, because of their padding; a
string is its place in the string table. `asked` is what a caller would expect: what the file
had and what was added. The parsers are functions on numbers: `ProcessNotes` goes from a note to
the next, `ProcessInfo` from place to place, and an attribute starts behind a NUL.

## 3. What is checked

| run | instance | shows |
|---|---|---|
| `order` | lists of up to 3 of 14 descriptors through all, and of up to 4 of 8 through the moves | the passes end (`Termination`), give up only when no order exists (`UnresolvedMeansNoOrder`), and refine `LoadOrder`; the moves keep every module, put the early, the base and the backend modules where they belong and keep the order otherwise (`MovesKeepPlaces`), give a start what it needs (`StartsInOrder`), and are refused for one reason only (`ImpossibleExplained`) |
| `lifecycle` | ELFs of 4 layouts, paths of 5 lengths; then lists of up to 3 of 4 modules, 2 RPLs, any number of applications | the loader starts as it was linked (`StartsAsLinked`); hooks run on live links (`HooksSeeLiveImports`, `LinksStayLive`), references and memory balance (`RefsBalanced`, `MemoryBalanced`) and memory returns (`MemoryReturns`), INIT once and in order (`InitOnceInOrder`), every start ends (`StartEnds`) |
| `layout` | lists of up to 4 of 16 sections, two of them of a size with which sums wrap | if the sizes come to less than the width, nothing is written outside the block and enough was allocated; for modules as the linker script makes them symbols meet their sections, sections do not overlap and, without padding, the published end is behind them |
| `elf_link` | 2 of 23 entries, 5 symbols at the edges of reach, 5-bit half words | loaded addresses are right in both forms, branches lead where they should at every start, fixed branches out of reach keep their slot, other bits of branches stay |
| `module_load` | one file with up to 3 of 15 strings, or 3 of 10 relocations; two of 31 files; trees of up to three folders | what is asked for is listed in order (`ListsWhatIsAsked`), the default heap is left clean, a bad file costs itself only, each relocation is linked or kept, fields are those of the file, loading ends |
| `persistence` | up to 2 modules with up to 3 relocations, 3 import sections | the counted rows suffice; what is published is right at any time |
| `elf_reader` | up to 4 calls with 30 files of both classes and byte orders | after a load the object is as the file says and as nothing else (`AsFiled`), names are in their table (`NamesInTable`), data in its buffer (`EditsInBuffer`), an empty section in one segment at most (`SegmentsApart`), and an insertion keeps the rest (`Inserted`) |
| `elf_symbols` | up to 4 symbols of 3 names, 1 relocation of either kind; or 4 calls on the tables of 7 files | relocations keep their symbols (`RelocationsKeepSymbols`), the local ones get in front (`Arranged`), names are found (`LookupFindsName`), tables read back (`TablesReadBack`) |

The catalogs are chosen by what the code tells
apart: in the order runs, early and regular modules, chains, a cycle, two modules of one
name, imports from the backend before and behind a missing name; in `layout`, sections
at both sides of each address limit, padding, sections that are counted twice, and sizes that
wrap the size of the block, the end of a section and the total (so that `TooShort` happens); in
`elf_link`, the last distance that is in reach and the first that is not, on both sides
of two targets, and carries between the half words. Three modules are enough for a
cycle through one and a bystander; the theorems lift the bound for what is proved. Two
RPLs are enough for one to be there and one not in each of the three roles (the
program's, the loader's, the application's). `Half = 4` in `module_load` is the width
of the symbol counter, with tables of up to one symbol more than it can count.

In `elf_reader` the files are one whole file in each class and order, and that file with each
part it can lack: cut in the header, in a section header, in data; section headers too
small; no table of names, or one that is too short; segments outside; a zlib stream that is
sound, and one that is not. Four calls are enough to load over another file, and to edit what
was inflated beyond its old capacity. In `elf_symbols` three names have the collisions that
matter: one bucket, one filter word, hashes that differ in the bit that is not compared; four
symbols give a swap that moves a symbol a second swap had moved. Notes in the tables have every
remainder of padding that changes a size. In `lifecycle` the last cell of the image is the
last of `RELOCATOR_SIZE`, and one path is as long as its place.

Deadlock checking is off where the loader ends or stops the console; that a behaviour
does not end early is what `Termination`, `StartEnds` and `LoadEnds` say. The layout,
link and persistence runs check no liveness: their loops count up a list.

Fairness: `WF(Next)` in the modules that are one thread running to its end. In
`Lifecycle` the thread that starts a process runs on (`WF(LoaderStep)`), and a process that
ends goes through its exit (`WF(ExitStep)`), both because nothing else holds them up;
hooks are taken to return. No application has to do or to end anything.

### Disagreements found

Runs that end in a violation; what each says is in `PROJECT.json`, "findings".

* `order_same_name`: `remove_first_if` by export name loses an early module if a regular
  one has its name, and lists the regular one twice (entry.cpp:194).
* `order_fini_wut`: the base module is not asked for if a module has
  `FINI_WUT_SOCKETS` only (entry.cpp:163, against the comment in line 160).
* `elf_link_bdz`: `R_PPC_REL14` clears a bit of the branch's condition
  (ElfUtils.cpp:68, against the mask in ElfUtils.h).
* `module_load_short`: a file read short leaves its buffer in the default heap
  (FileUtils.cpp:49, against the comment in ModuleDataFactory.cpp:49).

### Limits the properties name

These are conditions under which the code is right, and without which it is not:

* symbols meet sections only if the module has one section of code, at 0x02000000 and in
  front of the data (`CodeFirst`). Another section of code would be placed twice its
  predecessor's size too far for its symbols;
* the published end is right only if the data has no padding (`Packed`);
* a symbol that is missing from the symbol table, in the relocations of a section that is not
  placed, takes the imports behind it away, because the result of
  `getImportRelocationData` is not looked at (`EveryRelocationOnce`);
* a value in `.wums.meta` that holds an '=' is parsed again (`Plain`);
* loading ends only if no module has more than 65535 symbols (`LoadEnds`);
* a file with a section that clashes (see above) does not load (`LoadsTheGood`);
* nothing is written outside the block only if the sizes in the section headers come to less
  than 2^32 (`SizesFit`). If they do not, the size that is allocated wraps
  (ModuleDataFactory.cpp:132-145), and so may the end of a section in the check of line 192, which
  then lets a section pass that ends outside, as a NOBITS section of nearly 2^32 bytes behind
  other data does. The linker makes no such module;
* the path ends only if it is two bytes shorter than its place (`StartsAsLinked`);
* of a dynamic section, entries behind a DT_NULL are lost, and an accessor that has counted
  refuses what is added later; notes and attributes behind a note that is cut off, or behind
  information without its last NUL, are not read back (`TablesReadBack`);
* sizes that outgrow the size field wrap, and a table of names without data (NOBITS) takes no
  names (`NamesInTable`, `BuffersFit`);
* a section that was inflated has the capacity of its compressed data; `EditsInBuffer` leaves it
  out;
* an index of `get_note` has to be less than the number of notes: the code compares it with the
  size of the section (elfio_note.hpp:65).

## 4. What is proved

For all values of the constants, that is for any number and kind of modules, sections,
relocations, with TLAPS:

* `ModuleOrderProofs`, of the search: types; `PlacedInOrder`; what the flags of a pass mean; all modules
  are in the result; `UnresolvedMeansNoOrder`; the steps of the search are steps of
  `LoadOrder`. For the completeness, `PassFlags` says what
  `canBreak` and `weDidSomething` know of the modules the pass is past; at the end of a
  pass that placed nothing it gives `UnresolvedIsStuck`: each waiting module imports a
  name that no module in line exports. In an order of all modules take the
  first that is still waiting: all before it are in line, so its imports are satisfied by
  them, which is a contradiction.
* `ModuleOrderProofs`, of the moves: `MovesKeepPlaces`, `StartsInOrder`, `ImpossibleExplained`, for modules
  whose names agree on the early flag. A list is described by who comes before whom
  (`Precedes`), and each operation on lists by what it does to that. While the last loop runs,
  `Moving` says that those it has moved are behind all others and in order, and that those still
  waiting are in the list in the order they will have: of one name, the first that waits is
  the first in the list, so that the removal by name finds the module that is meant.
* `LifecycleProofs`: types, `RefsBalanced`, `MemoryBalanced`, `MemoryReturns`, `LinksStayLive`,
  `HooksSeeLiveImports` and `InitOnceInOrder`, over any number of applications. None of them is
  inductive. The invariant comes in parts that build on each other: `Control` says what is set up
  when; `References` what the references to an RPL stand for, which needs that the numbers of
  loads differ and that the map of handles is of this process from the clearing on; `Owned`
  whose memory each RPL is in, which depends on the allocator that is set; then the parts about
  links and about INIT. `MemoryBalanced` and `MemoryReturns` are proved for catalogs in which a
  module with the hook `GET_CUSTOM_RPL_ALLOCATOR` has `CLEAR_ALLOCATED_RPL_MEMORY` too
  (`AllocatorsClear`), as the run's have: the loader itself never frees that memory. That the order
  of a start is `Admissible` is in `Lifecycle`'s steps, and `StartsInOrder` its reason.
* `LifecycleProofs`, of `Setup`: `StartsAsLinked`, for the images of `ImagesAssumption`. `SetupInv` says which cells
  each turn of the two loops has settled, and that no later turn writes there.
* `ModuleLayoutProofs`: types for all headers; and if the sizes come to less than 2^32
  (`SizesFit`) `InsideBlock`, wherever the sections belong, `SymbolsMeetSections` and `PartsApart` for
  one section of code in front, and `EndBehindAll`. The arithmetic is that of 32 bits. `Summed` is why no
  sum wraps: what the first loop has counted are the partial sums of the sizes (`NeededBy`, a
  recursive function that `NeededIs` is about), the block has all of them, and what the second loop has
  placed is no more than the partial sum up to there; so a section begins behind the start of the
  block and ends before 2^32 (`PlaceExact`, by `HeapAssumption`), and the comparison of line 192 is that of
  the numbers. `CountingCode` and `PlacedCode` say that the sizes of code counted, and
  the code placed, are that of the one section or still 0; so each section is at
  `PlaceOf` it. For the published end `Fills` carries the number of addresses the data
  covers, and `NoGap` shows that data without padding leaves out none.
* `ElfLinkProofs`, at the widths of the console (`Widths`): the types of memory,
  `AddressesMeet`, `BranchesReach`, `FixedFarReach`, and the action property `KeepsOtherBits`. The
  invariant `KInv` says of each settled entry what is
  at its target; an entry is settled when it is linked and no other writes where it does. The
  arithmetic is in lemmas on half words (`Halves`, `Joined`, `Decode24`, `Decode14`). For the far
  branches `FarInv` adds `ViaSlot`: the slot such a branch leads to is FIXED and has its target;
  that no start takes a FIXED slot again is what keeps it so.
* `ModuleLoadProofs`, of the files: `HeapLeftClean`, `EveryRelocationOnce`, `FieldsAsWritten` and `LoadsTheGood`, for
  any files. `Heap` names the buffers that are there at each point of `LoadFileToMem` and `load`.
  `Relocs` says of each pass which relocations lie behind it and what became of them; the search
  may have stopped at a bad symbol, and then reached exactly those before it. For the metadata
  `VersionsLeft` and `FieldsLeft` say that what has been read and what is still to be read say
  together what the section says: a step takes the first line off and makes its value the
  default (`SaysNext`). `Kept` ties each module to its file.
* `ModuleLoadProofs`, of the listing: `ListsWhatIsAsked`, for any tree, order of `readdir`, filter, flags and
  depth (`LoadPathIs`); the theorems about the modules rest on it. What a recursion on a number gives is
  found by induction over sets of numbers (`AllNumbers`, `Iterates`). The search enters
  each folder `Within` reach once, since the folders below two folders of one folder have nothing in
  common; so no path is listed twice. Sorting is right since the numbers of entries that are
  in front of each are different and less than the length: so each place has one entry.
* `PersistenceProofs`: `RowsSuffice` and `ModulesDescribed`. `RowsSuffice` is not
  inductive. `TablesFit` adds that rows and names in the map are in one-to-one
  correspondence, and that the names are those of the relocations so far: so when a new name
  comes there are as many rows as names, which are a proper subset of those counted
  (`RoomForRow`).

* `ElfReaderProofs`, for files of both classes and byte orders, cut off anywhere: `AsFiled`, `EditsInBuffer`,
  `NamesInTable`, `SegmentsApart` and the action property `Inserted`. `ReaderInv` says that the size of a
  section with a buffer is at most its `data_size`, and that at most its room (`Sound`): a
  section may be set, inserted into and inflated in any order because each edit that finds
  too little room makes more. While `load` goes on, `SectionsFiled`, `NamesFiled` and
  `SegmentsFiled` say that what is read so far is as the file has it, and `SegmentsSee` that a segment
  has looked at every section by the offsets that the file gives. `NamesInTable` and
  `Inserted` are proved as long as no buffer outgrows the size field (`BuffersFit`): the code adds
  sizes without a look at their width, and a wrapped one loses what was there.
* `ElfSymbolsProofs`: `RelocationsKeepSymbols`, `LookupFindsName` and the safety half of `Arranged`
  (`ArrangedInOrder`), for any symbols and relocations. In `SymbolsInv`, `AllRefer` says that each
  relocation refers to a symbol that is there, by the arithmetic of `info`, and that a swap and
  its callback undo each other; `PassedLocal` that what `arrange_local_symbols` has passed is local.
  `HashListed` says which symbols a hash table was written for. A chain of the table goes down, so
  that the walk along it ends and reaches each symbol that is in it (`WalkExists`, `WalkReaches`); in the
  GNU table the symbols of a bucket are one behind the other.
* `ElfSymbolsProofs`, of the tables: `TablesReadBack`, for any files and additions (`TablesAreRead`). Most of it
  says that a parser undoes what wrote the section. `TablesInv` says so of the section
  itself: `Strung`, that the notes lie one behind the other up to its end, so that a walk from note
  to note meets each of them and no other place (`NotesFound`); `InfoHeld`, that the attributes end in a
  NUL, so that one more is read behind all others and changes none of them (`InfoAdded`);
  `DynamicHeld`, that the entries are those asked for. An entry more never makes the count smaller
  (`CountGrows`), so a count that was kept is at most the one that a new accessor finds.

Assumptions are those on the constants, named in the modules: catalogs have the types
the code reads, sets of names are finite, widths divide each other, images are as the linker
makes them, the loader's heap lies far enough below 2^32 (`HeapAssumption`), folders are a tree and their entries have files, `info` has room for every symbol and
type, the dynamic section of a file counts its versions right, and no field of an attribute
has an '=' in it. The three further ones are hypotheses of the theorems that need them: `Widths`,
`AllocatorsClear`, `BuffersFit`. `SizesFit` is a condition in the properties of the layout.

Only model-checked: the implementation of `LoadOrder` by a run of TLC besides the theorem on its
steps; and liveness (`Termination`, `StartEnds`, `LoadEnds`, and that `arrange_local_symbols`
ends, in `Arranged`), which is out of the prover's reach. Every invariant of a run is also a theorem.

## 5. What is not modelled

* `crt.c`, `dynamic.c`: run once, in a straight line.
* Of elfio: the dump to text (`elfio_dump.hpp`), most constants of `elf_types.hpp`, arrays of
  addresses, the relocation values it can calculate, the search of a symbol by its value, adding
  segments, moving an object. The loader uses none of them.
* zlib and the file system: what they give back is an input. Whether a section inflates is a
  matter of where its data lies in the file; a compressed section of less than the four bytes of
  its size (wiiu_zlib.hpp:47) is not among the files.
* The width of offset plus size in files of class 64 (elfio_section.hpp:245): the sum does not wrap.
* Blocks of the loader's heap, but for the blocks of RPLs; caches; logging.
* What hooks do, but for the allocator hooks and that INIT was called; an early INIT may
  acquire an RPL. That a hook without target hides those listed behind it (hooks.cpp:67).
* Two sections of one name in a module (ModuleData.h:91).
* In `Setup`: caches, and the system calls that make the kernel write.
* The order of bytes in versions: elfio_versym.hpp takes them as they lie in the file.

`PROJECT.json` lists under "hazards" where these leave something open.

## 6. Plan

Done: everything above. Next, most important first:

1. `HookList`: `CallHook` over a list with empty targets and several hooks of one type.
