------------------------------ MODULE ElfTables ------------------------------
(***************************************************************************)
(* The accessors of elfio to the smaller tables of an ELF file: dynamic    *)
(* section, notes, module information and symbol versions                  *)
(* (elfio_dynamic.hpp, elfio_note.hpp, elfio_modinfo.hpp,                  *)
(* elfio_versym.hpp). An accessor counts or parses its section once, and   *)
(* adds entries behind those that are there.                               *)
(***************************************************************************)
EXTENDS Integers, SequencesExt

CONSTANTS
    TableFiles,     \* what files hold: see OpenTables
    DynEntries,     \* entries with a number that are added to the dynamic section
    DynStrings,     \* strings that are added to it
    Notes,          \* notes that are added
    Attributes,     \* fields with values that are added to the module information
    Versions,       \* of symbols
    MaxCalls        \* bound on the calls

VARIABLES
    dynamic,        \* the entries of data; size, in entries; is the entry size set; entries_num
    strtab,         \* its strings, each at its place; at 0 is the empty one
    notes,          \* the notes by position; size; note_start_positions
    modinfo,        \* the words, "=" and NULs of data; content
    versym,         \* data and entries_num
    verneed,        \* the chain of its entries; entries_num
    asked,          \* the dynamic entries and notes of the file, then those that were added
    whole,          \* the file had all that its tables say
    calls

tableVars == <<dynamic, strtab, notes, modinfo, versym, verneed, asked, whole, calls>>

NUL == "NUL"
EQ  == "="

StringTags == {"NEEDED", "SONAME"}
BareTags   == {"NULL", "SYMBOLIC"}

DynamicEntry == [tag : STRING, value : Nat]
NoteHeader == [type : Nat, name : STRING, namesz : Nat, descsz : Nat]

(* The number of versions in the dynamic section of a file is that of its chain. *)
ASSUME TableFilesAssumption ==
    \A f \in TableFiles :
        /\ f.entries \in Seq(DynamicEntry) /\ {f.sized, f.filed} \subseteq BOOLEAN
        /\ \A k \in DOMAIN f.entries :
               f.entries[k].tag = "VERNEEDNUM" => f.entries[k].value = Len(f.chain)
        /\ f.strings \in Seq(STRING) /\ f.notes \in Seq(NoteHeader) /\ f.cut \in Nat
        /\ f.info \in Seq(STRING) /\ f.versions \in Seq(Nat) /\ f.chain \in Seq(STRING)

(* A field ends at the first "=", an attribute at its NUL. *)
ASSUME AdditionsAssumption ==
    /\ \A e \in DynEntries : e \in DynamicEntry /\ e.tag # "VERNEEDNUM"
    /\ DynStrings \subseteq STRING /\ Notes \subseteq NoteHeader /\ Versions \subseteq Nat
    /\ \A attribute \in Attributes :
           /\ attribute[1] \in Seq(STRING \ {EQ, NUL})
           /\ attribute[2] \in Seq(STRING \ {NUL})
    /\ MaxCalls \in Nat

-----------------------------------------------------------------------------
(* What is in the tables *)

Lowest(T) == CHOOSE k \in T : \A l \in T : k <= l

(* Such an entry has no value, whatever is stored. *)
Bare(e) == IF e.tag \in BareTags THEN [e EXCEPT !.value = 0] ELSE e

DynEntry(d, k) == IF k \in DOMAIN d.data THEN Bare(d.data[k]) ELSE [tag |-> "NULL", value |-> 0]

(* Mutant: the entries behind the first DT_NULL count. *)
DynCountAll(d) == IF d.sized THEN d.size ELSE 0

(* Up to the first DT_NULL, which counts. *)
DynCount(d) ==
    LET ends == {k \in 1..d.size : DynEntry(d, k).tag = "NULL"}
    IN IF ~d.sized THEN 0
       ELSE IF ends = {} THEN d.size ELSE Lowest(ends)

(* A number that was counted is kept, unless it is 0. *)
get_entries_num(d) == IF d.num # 0 THEN d.num ELSE DynCount(d)

NoString == "no string"

(* What get_entry says of the string of an entry; without one it fails. *)
DynString(strings, e) ==
    IF e.tag \notin StringTags \/ (e.value = 0 /\ strings # << >>) THEN ""
    ELSE IF e.value \in DOMAIN strings THEN strings[e.value] ELSE NoString

Pad(n) == ((n + 3) \div 4) * 4

NoteSize(note) == 12 + Pad(note.namesz) + Pad(note.descsz)

PutNote(n, note) ==
    [n EXCEPT !.at = [c \in DOMAIN n.at \cup {n.size} |-> IF c = n.size THEN note ELSE n.at[c]],
              !.size = @ + NoteSize(note)]

(* The notes of a file, one behind the other. *)
FiledNotes(list) ==
    LET put[j \in 0..Len(list)] ==
            IF j = 0 THEN [at |-> << >>, size |-> 0, starts |-> << >>]
            ELSE PutNote(put[j - 1], list[j])
    IN put[Len(list)]

(* Mutant: the descriptions are taken to need no padding. *)
ProcessUnpadded(n) ==
    LET from[c \in 0..n.size] ==
            IF c + 12 > n.size \/ c \notin DOMAIN n.at THEN << >>
            ELSE LET note == n.at[c]
                     next == c + 12 + Pad(note.namesz) + note.descsz
                 IN IF note.namesz < n.size /\ note.descsz < n.size /\ next <= n.size
                    THEN <<c>> \o from[next]
                    ELSE << >>
    IN from[0]

(* From one note to the next, up to the first that is not all there. (Behind one that was
   cut off, with others added to it, no header is found, but anything.) *)
ProcessNotes(n) ==
    LET from[c \in 0..n.size] ==
            IF c + 12 > n.size \/ c \notin DOMAIN n.at THEN << >>
            ELSE LET note == n.at[c]
                     next == c + NoteSize(note)
                 IN IF note.namesz < n.size /\ note.descsz < n.size /\ next <= n.size
                    THEN <<c>> \o from[next]
                    ELSE << >>
    IN from[0]

(* An empty name, without even its NUL, cannot be read. *)
NoteIsRead(n, c) ==
    /\ n.at[c].namesz >= 1
    /\ n.at[c].namesz + n.at[c].descsz <= n.size - c

(* Without a "=", the whole is both field and value. *)
Attribute(s) ==
    LET signs == {p \in DOMAIN s : s[p] = EQ}
        loc == Lowest(signs)
    IN IF signs = {} THEN <<s, s>> ELSE <<SubSeq(s, 1, loc - 1), SubSeq(s, loc + 1, Len(s))>>

(* The end of the string at a place: before its NUL, or that of all data. *)
EndsAt(data, i, end) ==
    /\ \A l \in i..end : data[l] # NUL
    /\ end = Len(data) \/ data[end + 1] = NUL

(* The attribute that starts at a place, behind a NUL or at the start, or none. *)
AttributeAt(data, i) ==
    IF data[i] # NUL /\ (i = 1 \/ data[i - 1] = NUL)
    THEN <<Attribute(SubSeq(data, i, CHOOSE end \in i..Len(data) : EndsAt(data, i, end)))>>
    ELSE << >>

ProcessInfo(data) ==
    LET content[i \in 0..Len(data)] ==
            IF i = 0 THEN << >> ELSE content[i - 1] \o AttributeAt(data, i)
    IN content[Len(data)]

(* The number of entries of the version chain is in the dynamic section. *)
NeedNum(d) ==
    LET found == {k \in 1..DynCount(d) : DynEntry(d, k).tag = "VERNEEDNUM"}
    IN IF found = {} THEN 0
       ELSE DynEntry(d, Lowest(found)).value

(* The entry to which that many steps lead: the last one leads to itself. *)
NeedEntry(no) == verneed.chain[IF no < Len(verneed.chain) THEN no + 1 ELSE Len(verneed.chain)]

-----------------------------------------------------------------------------
TablesInit ==
    /\ dynamic = [data |-> << >>, size |-> 0, sized |-> TRUE, num |-> 0]
    /\ strtab = << >>
    /\ notes = [at |-> << >>, size |-> 0, starts |-> << >>]
    /\ modinfo = [data |-> << >>, content |-> << >>]
    /\ versym = [data |-> << >>, num |-> 0]
    /\ verneed = [chain |-> << >>, num |-> 0]
    /\ asked = [entries |-> << >>, notes |-> << >>]
    /\ whole = TRUE
    /\ calls = 0

(* The accessors of a file that was just loaded. Its notes may end cut bytes too early, and
   its dynamic section may have a size but no data. *)
OpenTables(f) ==
    /\ calls = 0
    /\ strtab' = f.strings
    /\ dynamic' = [data |-> IF f.filed THEN f.entries ELSE << >>, size |-> Len(f.entries),
                   sized |-> f.sized, num |-> 0]
    /\ LET n == FiledNotes(f.notes)
           cut == [n EXCEPT !.size = @ - f.cut]
       IN notes' = [cut EXCEPT !.starts = ProcessNotes(cut)]
    /\ modinfo' = [data |-> f.info, content |-> ProcessInfo(f.info)]
    /\ versym' = [data |-> f.versions, num |-> Len(f.versions)]
    /\ verneed' = [chain |-> f.chain, num |-> NeedNum(dynamic')]
    /\ asked' = [entries |-> [k \in DOMAIN f.entries |->
                                 [entry |-> Bare(f.entries[k]),
                                  string |-> DynString(strtab', f.entries[k])]],
                 notes |-> f.notes]
    /\ whole' = (f.cut = 0 /\ f.filed /\ (f.info = << >> \/ Last(f.info) = NUL))
    /\ calls' = 1

Call == calls \in 1..(MaxCalls - 1) /\ calls' = calls + 1 /\ UNCHANGED whole

(* The accessor counts, for get_entries_num or for get_entry. *)
CountDynamic ==
    /\ Call
    /\ dynamic' = [dynamic EXCEPT !.num = get_entries_num(dynamic)]
    /\ UNCHANGED <<strtab, notes, modinfo, versym, verneed, asked>>

(* A section without data stays so. *)
DynamicWith(e) ==
    IF dynamic.size > Len(dynamic.data) THEN dynamic
    ELSE [dynamic EXCEPT !.data = Append(@, Bare(e)), !.size = @ + 1]

AddDynamic(e) ==
    /\ Call
    /\ dynamic' = DynamicWith(e)
    /\ asked' = [asked EXCEPT !.entries =
                    Append(@, [entry |-> Bare(e), string |-> DynString(strtab, e)])]
    /\ UNCHANGED <<strtab, notes, modinfo, versym, verneed>>

AddDynString(tag, str) ==
    /\ Call
    /\ strtab' = Append(strtab, str)
    /\ LET e == [tag |-> tag, value |-> Len(strtab')]
       IN /\ dynamic' = DynamicWith(e)
          /\ asked' = [asked EXCEPT !.entries = Append(@, [entry |-> e, string |-> str])]
    /\ UNCHANGED <<notes, modinfo, versym, verneed>>

AddNote(note) ==
    /\ Call
    /\ notes' = [PutNote(notes, note) EXCEPT !.starts = Append(@, notes.size)]
    /\ asked' = [asked EXCEPT !.notes = Append(@, note)]
    /\ UNCHANGED <<dynamic, strtab, modinfo, versym, verneed>>

AddAttribute(field, value) ==
    /\ Call
    /\ modinfo' = [data |-> modinfo.data \o (field \o <<EQ>> \o value) \o <<NUL>>,
                   content |-> Append(modinfo.content, <<field, value>>)]
    /\ UNCHANGED <<dynamic, strtab, notes, versym, verneed, asked>>

AddVersion(v) ==
    /\ Call
    /\ versym' = [data |-> Append(versym.data, v), num |-> versym.num + 1]
    /\ UNCHANGED <<dynamic, strtab, notes, modinfo, verneed, asked>>

ModifyVersion(no, v) ==
    /\ Call
    /\ versym' = IF no < versym.num THEN [versym EXCEPT !.data[no + 1] = v] ELSE versym
    /\ UNCHANGED <<dynamic, strtab, notes, modinfo, verneed, asked>>

(* Accessors of the same sections, made again. *)
NewAccessors ==
    /\ Call
    /\ dynamic' = [dynamic EXCEPT !.num = 0]
    /\ notes' = [notes EXCEPT !.starts = ProcessNotes(notes)]
    /\ modinfo' = [modinfo EXCEPT !.content = ProcessInfo(modinfo.data)]
    /\ versym' = [versym EXCEPT !.num = Len(versym.data)]
    /\ verneed' = [verneed EXCEPT !.num = NeedNum(dynamic)]
    /\ UNCHANGED <<strtab, asked>>

TablesNext ==
    \/ \E f \in TableFiles : OpenTables(f)
    \/ CountDynamic
    \/ \E e \in DynEntries : AddDynamic(e)
    \/ \E tag \in StringTags, str \in DynStrings : AddDynString(tag, str)
    \/ \E note \in Notes : AddNote(note)
    \/ \E attribute \in Attributes : AddAttribute(attribute[1], attribute[2])
    \/ \E v \in Versions : AddVersion(v) \/ \E no \in 0..MaxCalls : ModifyVersion(no, v)
    \/ NewAccessors

TablesSpec == TablesInit /\ [][TablesNext]_tableVars

-----------------------------------------------------------------------------
(* The entries before the first DT_NULL, and that one. *)
Listed ==
    LET ends == {k \in DOMAIN asked.entries : asked.entries[k].entry.tag = "NULL"}
    IN IF ends = {} THEN asked.entries
       ELSE SubSeq(asked.entries, 1, Lowest(ends))

(* An accessor that is made now reads, from tables that were all there when the file was
   loaded, what the file had and what was added since, each at its index and as it was given;
   only what is behind a DT_NULL is lost. (A reference of the file to no string may be one to
   a string that was added since.) An accessor that is older than its last entries accepts no
   index that a new one refuses, and the chain of versions has as many entries as it asks
   for. *)
TablesReadBack ==
    /\ dynamic.num <= DynCount(dynamic)
    /\ whole =>
          /\ dynamic.sized =>
                 /\ DynCount(dynamic) = Len(Listed)
                 /\ \A k \in DOMAIN Listed :
                        LET e == DynEntry(dynamic, k)
                        IN /\ Listed[k].entry = e
                           /\ Listed[k].string \in {NoString, DynString(strtab, e)}
          /\ notes.starts = ProcessNotes(notes)
          /\ [j \in DOMAIN notes.starts |-> notes.at[notes.starts[j]]] = asked.notes
          /\ \A c \in Range(notes.starts) : notes.at[c].namesz >= 1 => NoteIsRead(notes, c)
          /\ modinfo.content = ProcessInfo(modinfo.data)
          /\ versym.num = Len(versym.data)
          /\ {NeedEntry(no) : no \in 0..(verneed.num - 1)} \in {{}, Range(verneed.chain)}
=============================================================================
