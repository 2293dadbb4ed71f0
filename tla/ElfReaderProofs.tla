--------------------------- MODULE ElfReaderProofs --------------------------
(***************************************************************************)
(* Proofs about ElfReader and the operations of ElfSection, for any files, *)
(* any base of digits and either byte order of the processor, and any      *)
(* number of calls.                                                        *)
(***************************************************************************)
EXTENDS ElfReader, TLAPS, SequenceTheorems, WellFoundedInduction

SectionType ==
    [header : [HeaderFields -> Number], index : Nat, name : Seq(Int), data : Seq(Int),
     room : Nat, data_size : Nat]

SegmentType == [header : [SegmentFields -> Number], data : Seq(Int), sections : SUBSET Nat]

Types ==
    /\ need_conversion \in BOOLEAN
    /\ header.fields \in [FileFields -> Number]
    /\ sections \in Seq(SectionType)
    /\ segments \in Seq(SegmentType)
    /\ source \in {"none", "file", "created", "edited"}
    /\ pc \in {"idle", "sections", "names", "segments"}
    /\ pc # "idle" => source = "file"

(* A buffer has the bytes that the size counts, and the room that elfio takes it to have.
   Of the room of inflated data elfio knows nothing. *)
Sound(s) ==
    /\ s.data # << >> => Size(s) <= Len(s.data)
    /\ Get(s, "type") = SHT_NOBITS => s.data = << >>
    /\ ~Compressed(s) =>
          /\ Len(s.data) <= s.room /\ s.data_size <= s.room
          /\ s.data # << >> => Size(s) <= s.data_size

Buffers == \A k \in DOMAIN sections : Sound(sections[k])

(* The object is of the file that was loaded last. *)
OfFile ==
    source = "file" =>
        /\ f \in Files
        /\ f.class \in Classes
        /\ f.encoding \in {"LSB", "MSB"}
        /\ need_conversion = (f.encoding # Host)
        /\ header.class = f.class
        /\ header.fields = [x \in FileFields |-> Joined(Host, f.ehdr[x])]

SectionFiled(s, k) ==
    /\ s.index = k - 1
    /\ \A x \in HeaderFields \ {"size"} : Get(s, x) = FiledField(k, x)
    /\ s.data = IF InFile(k) THEN Append(FiledBytes(k), 0) ELSE << >>
    /\ Size(s) = IF InFile(k) THEN Len(FiledBytes(k)) ELSE FiledField(k, "size")

NameFiled(name, k) ==
    LET names == FiledNames(FiledField(k, "name"))
    IN name \in names \cup {<< >>} /\ (names # {} => name \in names)

SectionsFiled ==
    source = "file" =>
        /\ Len(sections) <= FiledSections
        /\ pc # "sections" => Len(sections) = FiledSections
        /\ \A k \in DOMAIN sections : SectionFiled(sections[k], k)

NamesFiled ==
    source = "file" =>
        IF pc \in {"sections", "names"} THEN \A k \in DOMAIN sections : sections[k].name = << >>
        ELSE \A k \in DOMAIN sections : NameFiled(sections[k].name, k)

SegmentFiled(segment) ==
    LET h == segment.header
    IN h.type # PT_NULL /\ h.offset + h.filesz <= f.size =>
           segment.data = Bytes(f, h.offset, h.filesz)

SegmentsFiled ==
    source = "file" =>
        /\ Len(segments) <= Filed("phnum")
        /\ pc \in {"sections", "names"} => segments = << >>
        /\ pc = "idle" /\ result => Len(segments) = Filed("phnum")
        /\ \A g \in DOMAIN segments : SegmentFiled(segments[g])

(* The string table has the name of a section. *)
NameInTable(table, s) ==
    \/ Get(table, "type") = SHT_NOBITS
    \/ /\ HasString(table, Get(s, "name"))
       /\ StringAt(table, Get(s, "name")) = s.name

NamesHeld ==
    pc \in {"segments", "idle"} =>
        \A k \in DOMAIN sections : sections[k].name # << >> =>
            /\ get("shstrndx") + 1 \in DOMAIN sections
            /\ NameInTable(sections[get("shstrndx") + 1], sections[k])

(* While segments are read, the sections in them are those that are there. *)
Sees(segment) ==
    segment.sections = {k \in 0..(Len(sections) - 1) : InSegment(sections[k + 1], segment.header)}

SegmentsSee == pc = "segments" => \A g \in DOMAIN segments : Sees(segments[g])

ReaderInv ==
    /\ Types /\ Buffers /\ OfFile /\ SectionsFiled /\ NamesFiled /\ SegmentsFiled
    /\ SegmentsSee /\ SegmentsApart

(* No buffer is larger than the size field can say. *)
BuffersFit == \A k \in DOMAIN sections : Len(sections[k].data) \in Number

-----------------------------------------------------------------------------
(* Numbers of two digits *)

LEMMA Division ==
    ASSUME NEW v \in Int, NEW b \in Int, b > 1
    PROVE  \E q \in Int, r \in 0..(b - 1) : q = v \div b /\ r = v % b /\ v = q * b + r
<1>1. PICK q \in Int : q = v \div b
    OBVIOUS
<1>2. PICK r \in 0..(b - 1) : r = v % b
    OBVIOUS
<1>3. v = q * b + r
    BY <1>1, <1>2
<1> QED
    BY <1>1, <1>2, <1>3, Zenon

LEMMA DigitsOfNumber ==
    ASSUME NEW v \in Number
    PROVE  \E c, d \in Digit : c = v \div Base /\ d = v % Base /\ v = c * Base + d
<1>1. Base \in Int /\ Base > 1 /\ v \in Int /\ 0 <= v /\ v < Base * Base
    BY BaseAssumption DEF Number
<1>2. PICK q \in Int, r \in 0..(Base - 1) :
          q = v \div Base /\ r = v % Base /\ v = q * Base + r
    BY <1>1, Division
<1>3. 0 <= q
    BY <1>1, <1>2
<1>4. q < Base
    BY <1>1, <1>2
<1>5. q \in Digit /\ r \in Digit
    BY <1>1, <1>3, <1>4 DEF Digit
<1> QED
    BY <1>2, <1>5, Zenon

LEMMA NumberOfDigits ==
    ASSUME NEW c \in Digit, NEW d \in Digit
    PROVE  /\ c * Base + d \in Number
           /\ (c * Base + d) \div Base = c
           /\ (c * Base + d) % Base = d
<1>1. Base \in Int /\ Base > 1 /\ c \in 0..(Base - 1) /\ d \in 0..(Base - 1)
    BY BaseAssumption DEF Digit
<1>2. (c * Base + d) \div Base = c /\ (c * Base + d) % Base = d
    BY <1>1
<1>3. 0 <= c * Base /\ c * Base \in Int
    BY <1>1
<1>4. c * Base <= (Base - 1) * Base
    BY <1>1
<1>5. (Base - 1) * Base = Base * Base - Base
    BY <1>1
<1> QED
    BY <1>1, <1>2, <1>3, <1>4, <1>5 DEF Number

(* Two changes of the byte order are none. *)
LEMMA SwapBack ==
    ASSUME NEW v \in Number
    PROVE  Swapped(v) \in Number /\ Swapped(Swapped(v)) = v
<1>1. PICK c, d \in Digit : c = v \div Base /\ d = v % Base /\ v = c * Base + d
    BY DigitsOfNumber
<1>2. Swapped(v) = d * Base + c
    BY <1>1 DEF Swapped
<1>3. Swapped(v) \in Number /\ Swapped(v) \div Base = d /\ Swapped(v) % Base = c
    BY <1>2, NumberOfDigits
<1> QED
    BY <1>1, <1>3 DEF Swapped

LEMMA ConvertBack ==
    ASSUME NEW need \in BOOLEAN, NEW v \in Number
    PROVE  Convert(need, v) \in Number /\ Convert(need, Convert(need, v)) = v
BY SwapBack DEF Convert

(* What is read in the order of the processor and converted is what the file means. *)
LEMMA ConvertJoined ==
    ASSUME NEW order \in {"LSB", "MSB"}, NEW digits \in Digits
    PROVE  /\ Joined(order, digits) \in Number
           /\ Convert(order # Host, Joined(Host, digits)) = Joined(order, digits)
<1>1. PICK c \in Digit : c = digits[1]
    BY DEF Digits
<1>2. PICK d \in Digit : d = digits[2]
    BY DEF Digits
<1>3. Swapped(c * Base + d) = d * Base + c /\ Swapped(d * Base + c) = c * Base + d
    BY NumberOfDigits DEF Swapped
<1>4. c * Base + d \in Number /\ d * Base + c \in Number
    BY NumberOfDigits
<1>5. CASE order = Host
    BY <1>1, <1>2, <1>4, <1>5 DEF Joined, Convert
<1>6. CASE order = "MSB" /\ Host = "LSB"
    BY <1>1, <1>2, <1>3, <1>4, <1>6 DEF Joined, Convert
<1>7. CASE order = "LSB" /\ Host = "MSB"
    BY <1>1, <1>2, <1>3, <1>4, <1>7 DEF Joined, Convert
<1> QED
    BY <1>5, <1>6, <1>7, HostAssumption

(* What becomes of a number in a field. *)
LEMMA Wrapped ==
    ASSUME NEW v \in Nat
    PROVE  /\ v % (Base * Base) \in Number
           /\ v % (Base * Base) <= v
           /\ v \in Number => v % (Base * Base) = v
<1>1. PICK m \in Int : m = Base * Base /\ m > 1
  <2>1. Base \in Int /\ Base > 1
    BY BaseAssumption
  <2>2. Base * Base \in Int /\ Base * Base > 1
    BY <2>1
  <2> QED
    BY <2>2
<1>2. v % m \in 0..(m - 1) /\ v % m <= v /\ (v < m => v % m = v)
    BY <1>1
<1>3. Number = 0..(m - 1)
    BY <1>1 DEF Number
<1> HIDE DEF Number
<1> QED
    BY <1>1, <1>2, <1>3

-----------------------------------------------------------------------------
(* Fields and data of a section *)

LEMMA GetIsNumber ==
    ASSUME need_conversion \in BOOLEAN, NEW s \in SectionType, NEW x \in HeaderFields
    PROVE  Get(s, x) \in Number
<1>1. s.header[x] \in Number
    BY DEF SectionType
<1> QED
    BY <1>1, ConvertBack DEF Get, convertor

LEMMA NumbersAreNat == \A v \in Number : v \in Nat
BY BaseAssumption DEF Number

LEMMA SizeIsNat ==
    ASSUME need_conversion \in BOOLEAN, NEW s \in SectionType
    PROVE  Size(s) \in Number /\ Size(s) \in Nat
BY GetIsNumber, NumbersAreNat DEF Size, HeaderFields

LEMMA SetGet ==
    ASSUME need_conversion \in BOOLEAN, NEW s \in SectionType, NEW x \in HeaderFields,
           NEW v \in Nat
    PROVE  /\ Set(s, x, v) \in SectionType
           /\ Get(Set(s, x, v), x) = v % (Base * Base)
           /\ \A y \in HeaderFields \ {x} : Get(Set(s, x, v), y) = Get(s, y)
           /\ Set(s, x, v).index = s.index /\ Set(s, x, v).name = s.name
           /\ Set(s, x, v).data = s.data /\ Set(s, x, v).room = s.room
           /\ Set(s, x, v).data_size = s.data_size
<1>1. PICK w \in Number : w = v % (Base * Base)
    BY Wrapped
<1>2. PICK c \in Number : c = convertor(w) /\ convertor(c) = w
    BY ConvertBack DEF convertor
<1>3. Set(s, x, v) = [s EXCEPT !.header[x] = c]
    BY <1>1, <1>2 DEF Set
<1> HIDE DEF Number
<1>4. [s EXCEPT !.header[x] = c] \in SectionType
    BY DEF SectionType
<1>5. [s EXCEPT !.header[x] = c].header = [s.header EXCEPT ![x] = c]
    BY DEF SectionType
<1>6. /\ [s.header EXCEPT ![x] = c][x] = c
      /\ \A y \in HeaderFields \ {x} : [s.header EXCEPT ![x] = c][y] = s.header[y]
    BY DEF SectionType
<1>7. Get(Set(s, x, v), x) = w
    BY <1>2, <1>3, <1>5, <1>6 DEF Get
<1>8. \A y \in HeaderFields \ {x} : Get(Set(s, x, v), y) = Get(s, y)
    BY <1>3, <1>5, <1>6 DEF Get
<1>9. /\ [s EXCEPT !.header[x] = c].index = s.index /\ [s EXCEPT !.header[x] = c].name = s.name
      /\ [s EXCEPT !.header[x] = c].data = s.data /\ [s EXCEPT !.header[x] = c].room = s.room
      /\ [s EXCEPT !.header[x] = c].data_size = s.data_size
    BY DEF SectionType
<1> QED
    BY <1>1, <1>3, <1>4, <1>7, <1>8, <1>9

WithData(s, d, room, data_size) ==
    [s EXCEPT !.data = d, !.room = room, !.data_size = data_size]

Holding(t, s, d, room, data_size) ==
    /\ t \in SectionType
    /\ \A y \in HeaderFields : Get(t, y) = Get(s, y)
    /\ t.index = s.index /\ t.name = s.name
    /\ t.data = d /\ t.room = room /\ t.data_size = data_size

LEMMA DataGet ==
    ASSUME NEW s \in SectionType, NEW d \in Seq(Int), NEW r \in Nat, NEW n \in Nat
    PROVE  Holding(WithData(s, d, r, n), s, d, r, n)
BY DEF SectionType, Get, WithData, Holding

(* A section in which the size and what belongs to the data are changed. *)
Resized(t, s, size, d, room, data_size) ==
    /\ t \in SectionType
    /\ Size(t) = size % (Base * Base)
    /\ \A y \in HeaderFields \ {"size"} : Get(t, y) = Get(s, y)
    /\ t.index = s.index /\ t.name = s.name
    /\ t.data = d /\ t.room = room /\ t.data_size = data_size

LEMMA SetSize ==
    ASSUME need_conversion \in BOOLEAN, NEW s \in SectionType, NEW size \in Nat,
           NEW d \in Seq(Int), NEW room \in Nat, NEW data_size \in Nat
    PROVE  Resized(WithData(Set(s, "size", size), d, room, data_size),
                   s, size, d, room, data_size)
<1>1. "size" \in HeaderFields
    BY DEF HeaderFields
<1>2. PICK u \in SectionType : u = Set(s, "size", size)
    BY <1>1, SetGet
<1>3. /\ Get(u, "size") = size % (Base * Base)
      /\ \A y \in HeaderFields \ {"size"} : Get(u, y) = Get(s, y)
      /\ u.index = s.index /\ u.name = s.name
    BY <1>1, <1>2, SetGet
<1>4. Holding(WithData(u, d, room, data_size), u, d, room, data_size)
    BY <1>2, DataGet
<1>5. Resized(WithData(u, d, room, data_size), s, size, d, room, data_size)
    BY <1>1, <1>3, <1>4 DEF Resized, Holding, Size
<1> QED
    BY <1>2, <1>5

-----------------------------------------------------------------------------
(* Insertion *)

LEMMA SubSeqIs ==
    ASSUME NEW d \in Seq(Int), NEW m \in Nat \ {0}, NEW n \in Int, n <= Len(d)
    PROVE  /\ SubSeq(d, m, n) \in Seq(Int)
           /\ Len(SubSeq(d, m, n)) = IF m <= n THEN n - m + 1 ELSE 0
           /\ \A j \in 1..(n - m + 1) : SubSeq(d, m, n)[j] = d[m + j - 1]
OBVIOUS

LEMMA ConcatIs ==
    ASSUME NEW d \in Seq(Int), NEW e \in Seq(Int)
    PROVE  /\ d \o e \in Seq(Int)
           /\ Len(d \o e) = Len(d) + Len(e)
           /\ \A j \in 1..Len(d) : (d \o e)[j] = d[j]
           /\ \A j \in 1..Len(e) : (d \o e)[Len(d) + j] = e[j]
OBVIOUS

LEMMA SplicedIs ==
    ASSUME NEW d \in Seq(Int), NEW bytes \in Seq(Int), NEW size \in Nat, NEW pos \in 0..size,
           size <= Len(d)
    PROVE  LET e == Spliced(d, size, pos, bytes)
               n == Len(bytes)
           IN /\ e \in Seq(Int)
              /\ Len(e) = size + n
              /\ \A j \in 1..pos : e[j] = d[j]
              /\ \A j \in 1..n : e[pos + j] = bytes[j]
              /\ \A j \in (pos + 1)..size : e[n + j] = d[j]
<1> DEFINE front == SubSeq(d, 1, pos)
           back == SubSeq(d, pos + 1, size)
           most == front \o bytes
           e == most \o back
           n == Len(bytes)
<1>1. front \in Seq(Int) /\ Len(front) = pos /\ \A j \in 1..pos : front[j] = d[j]
    BY SubSeqIs
<1>2. /\ back \in Seq(Int) /\ Len(back) = size - pos
      /\ \A j \in 1..(size - pos) : back[j] = d[pos + j]
    BY SMTT(60)
<1>3. Spliced(d, size, pos, bytes) = e
    BY DEF Spliced
<1> HIDE DEF front, back
<1>4. n \in Nat
    OBVIOUS
<1>5. /\ most \in Seq(Int) /\ Len(most) = pos + n
      /\ \A j \in 1..pos : most[j] = front[j]
      /\ \A j \in 1..n : most[pos + j] = bytes[j]
    BY <1>1, ConcatIs
<1> HIDE DEF most
<1>6. /\ e \in Seq(Int) /\ Len(e) = pos + n + (size - pos)
      /\ \A j \in 1..(pos + n) : e[j] = most[j]
      /\ \A j \in 1..(size - pos) : e[pos + n + j] = back[j]
  <2>1. /\ e \in Seq(Int) /\ Len(e) = Len(most) + Len(back)
        /\ \A j \in 1..Len(most) : e[j] = most[j]
        /\ \A j \in 1..Len(back) : e[Len(most) + j] = back[j]
    BY <1>2, <1>5, ConcatIs
  <2> HIDE DEF e, n
  <2> QED
    BY <1>2, <1>5, <2>1
<1> HIDE DEF n, e
<1>7. Len(e) = size + n
    BY <1>4, <1>6
<1>8. ASSUME NEW j \in 1..pos
      PROVE  e[j] = d[j]
  <2>1. j \in 1..(pos + n)
    BY <1>4
  <2> QED
    BY <1>1, <1>5, <1>6, <2>1
<1>9. ASSUME NEW j \in 1..n
      PROVE  e[pos + j] = bytes[j]
  <2>1. pos + j \in 1..(pos + n)
    BY <1>4
  <2> QED
    BY <1>5, <1>6, <2>1
<1>10. ASSUME NEW j \in (pos + 1)..size
       PROVE  e[n + j] = d[j]
  <2>1. PICK l \in 1..(size - pos) : j = pos + l
    <3>1. j - pos \in 1..(size - pos) /\ j = pos + (j - pos)
        OBVIOUS
    <3> QED
        BY <3>1
  <2>2. pos + n + l = n + j
    BY <1>4, <2>1
  <2> QED
    BY <1>2, <1>6, <2>1, <2>2
<1> QED
    BY <1>3, <1>6, <1>7, <1>8, <1>9, <1>10 DEF n

(* The section with the bytes put in at pos. *)
Grown(t, s, pos, bytes) ==
    /\ t \in SectionType
    /\ Size(t) = (Size(s) + Len(bytes)) % (Base * Base)
    /\ \A y \in HeaderFields \ {"size"} : Get(t, y) = Get(s, y)
    /\ t.index = s.index /\ t.name = s.name
    /\ Size(s) + Len(bytes) <= Len(t.data)
    /\ \A j \in 1..pos : t.data[j] = s.data[j]
    /\ \A j \in 1..Len(bytes) : t.data[pos + j] = bytes[j]
    /\ \A j \in (pos + 1)..Size(s) : t.data[Len(bytes) + j] = s.data[j]

(* What insert_data does, in one of two ways. *)
LEMMA InsertIs ==
    ASSUME NEW s \in SectionType, Get(s, "type") # SHT_NOBITS, NEW pos, NEW bytes
    PROVE  LET size == Size(s)
               n == Len(bytes)
               u == Set(s, "size", size + n)
               d == Spliced(s.data, size, pos, bytes)
               more == 2 * (s.data_size + n)
           IN InsertBytes(s, pos, bytes) =
                IF size + n < s.data_size
                THEN WithData(u, d \o SubSeq(s.data, size + n + 1, Len(s.data)), u.room, u.data_size)
                ELSE WithData(u, d, more, more)
BY DEF InsertBytes, WithData, Set, SectionType

LEMMA InsertGrows ==
    ASSUME need_conversion \in BOOLEAN, NEW s \in SectionType, Sound(s), Editable(s),
           Get(s, "type") # SHT_NOBITS, NEW pos \in 0..Size(s), NEW bytes \in Seq(Int)
    PROVE  Grown(InsertBytes(s, pos, bytes), s, pos, bytes) /\ Sound(InsertBytes(s, pos, bytes))
<1>1. PICK size \in Nat : size = Size(s)
    BY SizeIsNat
<1>2. PICK n \in Nat : n = Len(bytes)
    OBVIOUS
<1>3. s.data \in Seq(Int) /\ Len(s.data) \in Nat /\ s.room \in Nat /\ s.data_size \in Nat
    BY DEF SectionType
<1>4. size <= Len(s.data) /\ pos \in 0..size
    BY <1>1, <1>3 DEF Sound, Editable
<1>5. PICK d \in Seq(Int) :
          /\ d = Spliced(s.data, size, pos, bytes) /\ Len(d) = size + n
          /\ \A j \in 1..pos : d[j] = s.data[j]
          /\ \A j \in 1..n : d[pos + j] = bytes[j]
          /\ \A j \in (pos + 1)..size : d[n + j] = s.data[j]
  <2>1. LET e == Spliced(s.data, size, pos, bytes)
        IN /\ e \in Seq(Int)
           /\ Len(e) = size + Len(bytes)
           /\ \A j \in 1..pos : e[j] = s.data[j]
           /\ \A j \in 1..Len(bytes) : e[pos + j] = bytes[j]
           /\ \A j \in (pos + 1)..size : e[Len(bytes) + j] = s.data[j]
    BY <1>3, <1>4, SplicedIs, ZenonT(60)
  <2> QED
    BY <1>2, <2>1
<1>6. PICK more \in Nat : more = 2 * (s.data_size + n)
    BY <1>3
<1> DEFINE u == Set(s, "size", size + n)
<1>7. u.room = s.room /\ u.data_size = s.data_size
  <2>1. "size" \in HeaderFields /\ size + n \in Nat
    BY DEF HeaderFields
  <2> QED
    BY <2>1, SetGet
<1>8. PICK w \in Nat : w = (size + n) % (Base * Base) /\ w <= size + n
    BY Wrapped, NumbersAreNat
<1>9. ASSUME NEW t, NEW e \in Seq(Int), NEW room \in Nat, NEW data_size \in Nat,
             t = WithData(u, e, room, data_size),
             size + n <= Len(e), \A j \in 1..(size + n) : e[j] = d[j],
             ~Compressed(s) => /\ Len(e) <= room /\ data_size <= room
                               /\ w <= data_size
      PROVE  Grown(t, s, pos, bytes) /\ Sound(t)
  <2>1. Resized(t, s, size + n, e, room, data_size)
    BY <1>9, SetSize, SMTT(60)
  <2>2. /\ t \in SectionType /\ Size(t) = w
        /\ \A y \in HeaderFields \ {"size"} : Get(t, y) = Get(s, y)
        /\ t.index = s.index /\ t.name = s.name
        /\ t.data = e /\ t.room = room /\ t.data_size = data_size
    BY <1>8, <2>1 DEF Resized
  <2>3. \A j \in 1..pos : e[j] = s.data[j]
    BY <1>4, <1>5, <1>9
  <2>4. \A j \in 1..n : e[pos + j] = bytes[j]
    BY <1>4, <1>5, <1>9
  <2>5. \A j \in (pos + 1)..size : e[n + j] = s.data[j]
    BY <1>4, <1>5, <1>9, SMTT(60)
  <2>6. Grown(t, s, pos, bytes)
    BY <1>1, <1>2, <1>8, <1>9, <2>2, <2>3, <2>4, <2>5 DEF Grown
  <2>7. Compressed(t) = Compressed(s) /\ Get(t, "type") # SHT_NOBITS
    BY <2>2 DEF Compressed, HeaderFields
  <2>8. Size(t) <= Len(t.data)
    BY <1>8, <1>9, <2>2
  <2>9. Sound(t)
    BY <1>9, <2>2, <2>7, <2>8 DEF Sound
  <2> QED
    BY <2>6, <2>9
<1>10. CASE size + n < s.data_size
  <2> DEFINE rest == SubSeq(s.data, size + n + 1, Len(s.data))
             e == d \o rest
  <2>1. /\ rest \in Seq(Int)
        /\ Len(rest) = IF size + n + 1 <= Len(s.data) THEN Len(s.data) - (size + n) ELSE 0
    BY <1>3, SubSeqIs
  <2>2. InsertBytes(s, pos, bytes) = WithData(u, e, s.room, s.data_size)
    BY <1>1, <1>2, <1>5, <1>7, <1>10, InsertIs
  <2> HIDE DEF rest
  <2>3. /\ e \in Seq(Int) /\ Len(e) = size + n + Len(rest)
        /\ \A j \in 1..(size + n) : e[j] = d[j]
    BY <1>5, <2>1, ConcatIs
  <2> HIDE DEF e
  <2>4. ~Compressed(s) => Len(s.data) <= s.room /\ s.data_size <= s.room
    BY DEF Sound
  <2>5. Len(e) = size + n \/ Len(e) = Len(s.data)
    <3>1. PICK l \in Nat : l = Len(s.data)
        BY <1>3
    <3>2. Len(rest) = 0 \/ Len(rest) = l - (size + n)
        BY <2>1, <3>1
    <3> QED
        BY <2>3, <3>1, <3>2, SMTT(60)
  <2>6. ~Compressed(s) => Len(e) <= s.room /\ w <= s.data_size
    BY <1>3, <1>8, <1>10, <2>4, <2>5
  <2>7. size + n <= Len(e)
    <3>1. Len(rest) \in Nat
        BY <2>1
    <3> QED
        BY <2>3, <3>1
  <2> HIDE DEF u
  <2> QED
    BY <1>3, <1>9, <2>2, <2>3, <2>4, <2>6, <2>7
<1>11. CASE ~(size + n < s.data_size)
  <2>1. InsertBytes(s, pos, bytes) = WithData(u, d, more, more)
    BY <1>1, <1>2, <1>5, <1>6, <1>11, InsertIs
  <2>2. ~Compressed(s) => size <= s.data_size
    BY <1>1, <1>3, <1>4 DEF Sound
  <2>3. ~Compressed(s) => Len(d) <= more /\ more <= more /\ w <= more
    BY <1>3, <1>5, <1>6, <1>8, <2>2, SMTT(60)
  <2>4. size + n <= Len(d) /\ \A j \in 1..(size + n) : d[j] = d[j]
    BY <1>5
  <2> HIDE DEF u
  <2>5. Grown(WithData(u, d, more, more), s, pos, bytes) /\ Sound(WithData(u, d, more, more))
    BY <1>9, <2>3, <2>4, Zenon
  <2> QED
    BY <2>1, <2>5
<1> QED
    BY <1>10, <1>11

-----------------------------------------------------------------------------
(* Other changes of a section *)

(* A section of which only the size and the data may have changed. *)
Alike(t, s) ==
    /\ t \in SectionType /\ Sound(t)
    /\ \A y \in HeaderFields \ {"size"} : Get(t, y) = Get(s, y)
    /\ t.index = s.index /\ t.name = s.name

LEMMA InsertAlike ==
    ASSUME need_conversion \in BOOLEAN, NEW s \in SectionType, Sound(s), Editable(s),
           NEW pos \in 0..Size(s), NEW bytes \in Seq(Int)
    PROVE  Alike(InsertBytes(s, pos, bytes), s)
<1>1. CASE Get(s, "type") = SHT_NOBITS
  <2>1. InsertBytes(s, pos, bytes) = s
    BY <1>1 DEF InsertBytes
  <2> QED
    BY <2>1 DEF Alike
<1>2. CASE Get(s, "type") # SHT_NOBITS
    BY <1>2, InsertGrows DEF Alike, Grown
<1> QED
    BY <1>1, <1>2

LEMMA SetBytesAlike ==
    ASSUME need_conversion \in BOOLEAN, NEW s \in SectionType, Sound(s), NEW bytes \in Seq(Int)
    PROVE  Alike(SetBytes(s, bytes), s)
<1>1. "size" \in HeaderFields /\ "type" \in HeaderFields /\ "flags" \in HeaderFields
    BY DEF HeaderFields
<1>2. s.data_size \in Nat /\ s.room \in Nat /\ s.data \in Seq(Int)
    BY DEF SectionType
<1>3. PICK n \in Nat : n = Len(bytes)
    OBVIOUS
<1>4. CASE Get(s, "type") = SHT_NOBITS
  <2>1. PICK t \in SectionType : t = SetBytes(s, bytes)
    BY <1>1, <1>2, <1>4, SetGet DEF SetBytes
  <2>2. t = Set(s, "size", s.data_size)
    BY <1>4, <2>1 DEF SetBytes
  <2>3. /\ \A y \in HeaderFields \ {"size"} : Get(t, y) = Get(s, y)
        /\ t.index = s.index /\ t.name = s.name
        /\ t.data = s.data /\ t.room = s.room /\ t.data_size = s.data_size
    BY <1>1, <1>2, <2>2, SetGet, ZenonT(60)
  <2>4. s.data = << >>
    BY <1>4 DEF Sound
  <2>5. Compressed(t) = Compressed(s)
    BY <1>1, <2>3 DEF Compressed
  <2>6. Sound(t)
    BY <2>3, <2>4, <2>5 DEF Sound
  <2> QED
    BY <2>1, <2>3, <2>6 DEF Alike
<1>5. CASE Get(s, "type") # SHT_NOBITS
  <2>1. SetBytes(s, bytes) = WithData(Set(s, "size", n), bytes, n, n)
    BY <1>3, <1>5 DEF SetBytes, WithData
  <2>2. PICK t : t = SetBytes(s, bytes)
    OBVIOUS
  <2>3. Resized(t, s, n, bytes, n, n)
    BY <1>3, <2>1, <2>2, SetSize
  <2>4. n % (Base * Base) <= n
    BY Wrapped
  <2>5. Get(t, "type") # SHT_NOBITS /\ Compressed(t) = Compressed(s)
    BY <1>1, <1>5, <2>3 DEF Resized, Compressed
  <2>6. PICK w : w = n % (Base * Base)
    OBVIOUS
  <2>7. Sound(t)
    BY <1>3, <2>3, <2>4, <2>5, <2>6 DEF Sound, Resized
  <2> QED
    BY <2>2, <2>3, <2>7 DEF Alike, Resized
<1> QED
    BY <1>4, <1>5

Renamed(s, name) == [s EXCEPT !.name = name]

LEMMA RenamedIs ==
    ASSUME NEW s \in SectionType, NEW name \in Seq(Int)
    PROVE  /\ Renamed(s, name) \in SectionType
           /\ \A y \in HeaderFields : Get(Renamed(s, name), y) = Get(s, y)
           /\ Renamed(s, name).index = s.index /\ Renamed(s, name).name = name
           /\ Renamed(s, name).data = s.data /\ Renamed(s, name).room = s.room
           /\ Renamed(s, name).data_size = s.data_size
BY DEF SectionType, Get, Renamed

LEMMA RenamedSound ==
    ASSUME NEW s \in SectionType, NEW name \in Seq(Int), Sound(s)
    PROVE  Sound(Renamed(s, name))
<1>1. PICK t : t = Renamed(s, name)
    OBVIOUS
<1>2. /\ \A y \in HeaderFields : Get(t, y) = Get(s, y)
      /\ t.data = s.data /\ t.room = s.room /\ t.data_size = s.data_size
    BY <1>1, RenamedIs
<1>3. Size(t) = Size(s) /\ Compressed(t) = Compressed(s) /\ Get(t, "type") = Get(s, "type")
    BY <1>2 DEF Size, Compressed, HeaderFields
<1> QED
    BY <1>1, <1>2, <1>3 DEF Sound

(* Another field of the header, that says nothing about the data. *)
LEMMA SetSound ==
    ASSUME need_conversion \in BOOLEAN, NEW s \in SectionType, NEW x \in {"name", "type"},
           NEW v \in Nat, x = "type" => v = SHT_STRTAB, Sound(s)
    PROVE  Sound(Set(s, x, v))
<1>1. x \in HeaderFields /\ {"size", "type", "flags"} \subseteq HeaderFields
    BY DEF HeaderFields
<1>2. PICK t : t = Set(s, x, v)
    OBVIOUS
<1>3. /\ \A y \in HeaderFields \ {x} : Get(t, y) = Get(s, y)
      /\ Get(t, x) = v % (Base * Base)
      /\ t.data = s.data /\ t.room = s.room /\ t.data_size = s.data_size
    BY <1>1, <1>2, SetGet
<1>4. Size(t) = Size(s) /\ Compressed(t) = Compressed(s)
    BY <1>1, <1>3 DEF Size, Compressed
<1>5. v % (Base * Base) <= v
    BY Wrapped
<1>6. x = "type" => Get(t, "type") # SHT_NOBITS
  <2>1. PICK w \in Number : w = v % (Base * Base)
    BY Wrapped
  <2>2. w \in Nat
    BY <2>1, NumbersAreNat
  <2> QED
    BY <1>3, <1>5, <2>1, <2>2 DEF SHT_STRTAB, SHT_NOBITS
<1>7. x = "name" => Get(t, "type") = Get(s, "type")
    BY <1>1, <1>3
<1> QED
    BY <1>2, <1>3, <1>4, <1>6, <1>7 DEF Sound

-----------------------------------------------------------------------------
(* Strings *)

LEMMA FirstEnd ==
    ASSUME NEW s \in SectionType, NEW at \in Nat, HasString(s, at)
    PROVE  \E e \in Ends(s, at) : \A l \in Ends(s, at) : e <= l
<1> DEFINE R == {ss \in Nat \X Nat : ss[1] < ss[2]}
           T == Ends(s, at)
<1>1. T \subseteq Nat /\ T # {}
    BY DEF Ends, HasString
<1>2. IsWellFoundedOn(R, Nat)
    BY NatLessThanWellFounded DEF OpToRel
<1>3. PICK e \in T : \A b \in T : ~(<<b, e>> \in R)
    <2> HIDE DEF R, T
    <2> QED
        BY <1>1, <1>2, WFMin
<1>4. \A b \in T : ~(b < e)
    BY <1>1, <1>3
<1> HIDE DEF T
<1>5. \A b \in T : e <= b
    BY <1>1, <1>4
<1> QED
    BY <1>3, <1>5 DEF T

(* A string ends at its first NUL. *)
LEMMA EndsAt ==
    ASSUME need_conversion \in BOOLEAN, NEW s \in SectionType, NEW at \in Nat,
           NEW e \in Nat, at <= e, e < Size(s), e < Len(s.data), s.data[e + 1] = 0,
           \A j \in (at + 1)..e : s.data[j] # 0
    PROVE  HasString(s, at) /\ StringAt(s, at) = SubSeq(s.data, at + 1, e)
<1>1. PICK size \in Nat : size = Size(s)
    BY SizeIsNat
<1>2. PICK len \in Nat : len = Len(s.data) /\ DOMAIN s.data = 1..len
    BY DEF SectionType
<1>3. e \in at..(size - 1) /\ e + 1 \in DOMAIN s.data
    BY <1>1, <1>2
<1>4. e \in Ends(s, at)
    BY <1>1, <1>3 DEF Ends
<1>5. ASSUME NEW l \in Ends(s, at)
      PROVE  l \in Nat /\ e <= l
  <2>1. l \in at..(size - 1) /\ s.data[l + 1] = 0
    BY <1>1 DEF Ends
  <2>2. l \in Nat
    BY <1>1, <2>1
  <2>3. ~(l + 1 \in (at + 1)..e)
    BY <2>1
  <2> QED
    BY <2>1, <2>2, <2>3
<1>6. e = CHOOSE k \in Ends(s, at) : \A l \in Ends(s, at) : k <= l
  <2>1. \A k \in Ends(s, at) : (\A l \in Ends(s, at) : k <= l) => k = e
    BY <1>4, <1>5
  <2>2. \A l \in Ends(s, at) : e <= l
    BY <1>5
  <2> QED
    BY <1>4, <2>1, <2>2
<1> QED
    BY <1>4, <1>6 DEF HasString, StringAt

LEMMA StringIs ==
    ASSUME need_conversion \in BOOLEAN, NEW s \in SectionType, NEW at \in Nat, HasString(s, at)
    PROVE  \E e \in Nat :
              /\ at <= e /\ e < Size(s) /\ e < Len(s.data) /\ s.data[e + 1] = 0
              /\ \A j \in (at + 1)..e : s.data[j] # 0
              /\ StringAt(s, at) = SubSeq(s.data, at + 1, e)
              /\ StringAt(s, at) \in Seq(Int)
<1>1. PICK e \in Ends(s, at) : \A l \in Ends(s, at) : e <= l
    BY FirstEnd
<1>2. PICK size \in Nat : size = Size(s)
    BY SizeIsNat
<1>3. PICK len \in Nat : len = Len(s.data) /\ DOMAIN s.data = 1..len
    BY DEF SectionType
<1>4. e \in at..(size - 1) /\ e + 1 \in 1..len /\ s.data[e + 1] = 0
    BY <1>2, <1>3 DEF Ends
<1>5. e \in Nat /\ at <= e /\ e < size /\ e < len
    BY <1>4
<1>6. ASSUME NEW j \in (at + 1)..e
      PROVE  s.data[j] # 0
  <2>1. PICK l \in Nat : l + 1 = j /\ at <= l /\ l < e
    <3>1. j - 1 \in Nat /\ (j - 1) + 1 = j /\ at <= j - 1 /\ j - 1 < e
        BY <1>5
    <3> QED
        BY <3>1
  <2>2. l \in at..(size - 1) /\ l + 1 \in 1..len
    BY <1>5, <2>1
  <2>3. CASE s.data[j] = 0
    <3>1. l \in Ends(s, at)
        BY <1>2, <1>3, <2>1, <2>2, <2>3 DEF Ends
    <3>2. e <= l
        BY <1>1, <3>1
    <3> QED
        BY <1>5, <2>1, <3>2
  <2> QED
    BY <2>3
<1>7. StringAt(s, at) = SubSeq(s.data, at + 1, e)
    BY <1>2, <1>3, <1>4, <1>5, <1>6, EndsAt
<1>8. SubSeq(s.data, at + 1, e) \in Seq(Int)
  <2>1. s.data \in Seq(Int) /\ at + 1 \in Nat \ {0} /\ e \in Int /\ e <= Len(s.data)
    BY <1>3, <1>5 DEF SectionType
  <2> QED
    BY <2>1, SubSeqIs
<1> QED
    BY <1>2, <1>3, <1>4, <1>5, <1>6, <1>7, <1>8

LEMMA SameElements ==
    ASSUME NEW d \in Seq(Int), NEW b \in Seq(Int), NEW n, Len(d) = n, Len(b) = n,
           \A j \in 1..n : d[j] = b[j]
    PROVE  d = b
OBVIOUS

LEMMA Slice ==
    ASSUME NEW d \in Seq(Int), NEW at \in Nat, NEW n \in Nat, NEW e, e = at + n, e <= Len(d)
    PROVE  /\ SubSeq(d, at + 1, e) \in Seq(Int) /\ Len(SubSeq(d, at + 1, e)) = n
           /\ \A j \in 1..n : SubSeq(d, at + 1, e)[j] = d[at + j]
<1>1. PICK m \in Nat \ {0} : m = at + 1
    OBVIOUS
<1>2. e \in Int /\ e <= Len(d) /\ e - m + 1 = n /\ (m <= e \/ n = 0)
    BY <1>1
<1> DEFINE x == SubSeq(d, m, e)
<1>3. x \in Seq(Int) /\ Len(x) = IF m <= e THEN e - m + 1 ELSE 0
    BY <1>2, SubSeqIs
<1>4. \A j \in 1..(e - m + 1) : x[j] = d[m + j - 1]
    BY <1>2, SubSeqIs
<1> HIDE DEF x
<1>5. Len(x) = n
    BY <1>2, <1>3
<1>6. \A j \in 1..n : x[j] = d[at + j]
  <2>1. \A j \in 1..n : m + j - 1 = at + j
    BY <1>1
  <2> QED
    BY <1>2, <1>4, <2>1
<1> QED
    BY <1>1, <1>3, <1>5, <1>6 DEF x

BeginsAs(d, e, n) == \A j \in 1..n : d[j] = e[j]

LEMMA SameSubSeq ==
    ASSUME NEW d \in Seq(Int), NEW b \in Seq(Int), NEW at \in Nat, NEW e \in Nat,
           at <= e, e <= Len(b), e <= Len(d), BeginsAs(b, d, e)
    PROVE  SubSeq(b, at + 1, e) = SubSeq(d, at + 1, e)
<1>1. PICK n \in Nat : e = at + n
  <2>1. e - at \in Nat /\ e = at + (e - at)
    OBVIOUS
  <2> QED
    BY <2>1
<1> DEFINE x == SubSeq(b, at + 1, e)
           y == SubSeq(d, at + 1, e)
<1>2. x \in Seq(Int) /\ Len(x) = n /\ \A j \in 1..n : x[j] = b[at + j]
    BY <1>1, Slice
<1>3. y \in Seq(Int) /\ Len(y) = n /\ \A j \in 1..n : y[j] = d[at + j]
    BY <1>1, Slice
<1> HIDE DEF x, y
<1>4. ASSUME NEW i \in 1..n
      PROVE  x[i] = y[i]
  <2>1. at + i \in 1..e
    BY <1>1
  <2>2. b[at + i] = d[at + i]
    BY <2>1 DEF BeginsAs
  <2> QED
    BY <1>2, <1>3, <2>2
<1>5. x = y
  <2>1. \A j \in 1..n : x[j] = y[j]
    BY <1>4
  <2> QED
    BY <1>2, <1>3, <2>1
<1> QED
    BY <1>5 DEF x, y

(* What begins alike has the same strings. *)
LEMMA SameString ==
    ASSUME need_conversion \in BOOLEAN, NEW s \in SectionType, NEW t \in SectionType,
           NEW at \in Nat, HasString(s, at), Size(s) <= Size(t), Size(s) <= Len(t.data),
           BeginsAs(t.data, s.data, Size(s))
    PROVE  HasString(t, at) /\ StringAt(t, at) = StringAt(s, at)
<1>1. PICK e \in Nat :
          /\ at <= e /\ e < Size(s) /\ e < Len(s.data) /\ s.data[e + 1] = 0
          /\ \A j \in (at + 1)..e : s.data[j] # 0
          /\ StringAt(s, at) = SubSeq(s.data, at + 1, e)
    BY StringIs
<1>2. PICK size \in Nat, tsize \in Nat : size = Size(s) /\ tsize = Size(t)
    BY SizeIsNat
<1>3. PICK d \in Seq(Int), b \in Seq(Int) : d = s.data /\ b = t.data
    BY DEF SectionType
<1>4. size <= tsize /\ size <= Len(b) /\ e < size /\ e < Len(d)
    BY <1>1, <1>2, <1>3
<1>5. \A j \in 1..size : b[j] = d[j]
    BY <1>2, <1>3 DEF BeginsAs
<1>6. e < tsize /\ e < Len(b) /\ b[e + 1] = d[e + 1]
    BY <1>4, <1>5
<1>7. \A j \in (at + 1)..e : b[j] = d[j]
    BY <1>4, <1>5
<1>8. b[e + 1] = 0 /\ \A j \in (at + 1)..e : b[j] # 0
    BY <1>1, <1>3, <1>6, <1>7
<1>9. HasString(t, at) /\ StringAt(t, at) = SubSeq(b, at + 1, e)
    BY <1>1, <1>2, <1>3, <1>6, <1>8, EndsAt
<1>10. e <= Len(b) /\ e <= Len(d)
    BY <1>4, <1>6
<1>12. BeginsAs(b, d, e)
    BY <1>4, <1>5, SMTT(60) DEF BeginsAs
<1>11. SubSeq(b, at + 1, e) = SubSeq(d, at + 1, e)
    BY <1>1, <1>10, <1>12, SameSubSeq, Zenon
<1> QED
    BY <1>1, <1>3, <1>9, <1>11

(* The section with bytes behind those it had. *)
Appended(t, s, bytes) ==
    /\ Alike(t, s)
    /\ Size(s) + Len(bytes) <= Len(t.data)
    /\ BeginsAs(t.data, s.data, Size(s))
    /\ \A j \in 1..Len(bytes) : t.data[Size(s) + j] = bytes[j]
    /\ Size(t) = (Size(s) + Len(bytes)) % (Base * Base)

LEMMA AppendIs ==
    ASSUME need_conversion \in BOOLEAN, NEW s \in SectionType, Sound(s), Editable(s),
           Get(s, "type") # SHT_NOBITS, NEW bytes \in Seq(Int)
    PROVE  Appended(AppendBytes(s, bytes), s, bytes)
<1>1. PICK size \in Nat : size = Size(s)
    BY SizeIsNat
<1>2. size \in 0..size
    OBVIOUS
<1>3. PICK t : t = InsertBytes(s, size, bytes)
    OBVIOUS
<1>4. Grown(t, s, size, bytes) /\ Sound(t)
    BY <1>1, <1>2, <1>3, InsertGrows
<1>5. BeginsAs(t.data, s.data, size) /\ \A j \in 1..Len(bytes) : t.data[size + j] = bytes[j]
    BY <1>4 DEF Grown, BeginsAs
<1>6. Alike(t, s)
    BY <1>4 DEF Grown, Alike
<1>7. Appended(t, s, bytes)
    BY <1>1, <1>4, <1>5, <1>6 DEF Grown, Appended
<1> QED
    BY <1>1, <1>3, <1>7 DEF AppendBytes

(* Without a wrap of the size. *)
LEMMA NoWrap ==
    ASSUME NEW n \in Nat, NEW len \in Number, n <= len
    PROVE  n % (Base * Base) = n
<1>1. PICK m \in Int : m = Base * Base
    BY BaseAssumption
<1>2. Number = 0..(m - 1)
    BY <1>1 DEF Number
<1>3. n \in Number
    BY <1>2
<1> QED
    BY <1>3, Wrapped

(* The table with a string behind the others. *)
StringAdded(t, s, str) ==
    /\ Alike(t, s)
    /\ Get(s, "type") # SHT_NOBITS /\ Len(t.data) \in Number =>
          /\ BeginsAs(t.data, s.data, Size(s))
          /\ Size(s) <= Size(t) /\ Size(t) <= Len(t.data)
          /\ StringPlace(s) <= Size(t)
          /\ HasString(t, StringPlace(s)) /\ StringAt(t, StringPlace(s)) = str

LEMMA StringAppended ==
    ASSUME need_conversion \in BOOLEAN, NEW s \in SectionType, Sound(s), Editable(s),
           Get(s, "type") # SHT_NOBITS, Size(s) # 0, NEW str \in Seq(Int \ {0})
    PROVE  StringAdded(AppendBytes(s, Append(str, 0)), s, str)
<1>0. str \in Seq(Int)
    OBVIOUS
<1>1. PICK bytes \in Seq(Int) : bytes = Append(str, 0)
  <2>1. Append(str, 0) \in Seq(Int)
    BY <1>0
  <2> QED
    BY <2>1
<1>2. PICK n \in Nat : n = Len(str)
    OBVIOUS
<1>3. /\ Len(bytes) = n + 1 /\ bytes[n + 1] = 0
      /\ \A j \in 1..n : bytes[j] = str[j] /\ bytes[j] # 0
    BY <1>1, <1>2
<1>4. PICK size \in Nat : size = Size(s)
    BY SizeIsNat
<1>5. PICK t : t = AppendBytes(s, bytes)
    OBVIOUS
<1>6. Appended(t, s, bytes)
    BY <1>5, AppendIs
<1>7. Alike(t, s) /\ t \in SectionType
    BY <1>6 DEF Appended, Alike
<1>8. PICK d \in Seq(Int) : d = t.data
    BY <1>7 DEF SectionType
<1>9. /\ size + (n + 1) <= Len(d) /\ BeginsAs(d, s.data, size)
      /\ \A j \in 1..(n + 1) : d[size + j] = bytes[j]
      /\ Size(t) = (size + (n + 1)) % (Base * Base)
    BY <1>3, <1>4, <1>6, <1>8 DEF Appended
<1>10. ASSUME Len(d) \in Number
       PROVE  Size(t) = size + n + 1
    BY <1>9, <1>10, NoWrap
<1>11. PICK e \in Nat : e = size + n
    OBVIOUS
<1>12. size <= e /\ e < Len(d)
    BY <1>9, <1>11
<1>13. d[e + 1] = 0
  <2>1. n + 1 \in 1..(n + 1) /\ size + (n + 1) = e + 1
    BY <1>11
  <2> QED
    BY <1>3, <1>9, <2>1
<1>14. ASSUME NEW i \in 1..n
       PROVE  d[size + i] = str[i]
  <2>1. i \in 1..(n + 1)
    OBVIOUS
  <2>2. d[size + i] = bytes[i]
    BY <1>9, <2>1
  <2> QED
    BY <1>3, <2>2
<1>15. ASSUME NEW i \in (size + 1)..e
       PROVE  d[i] # 0
  <2>1. PICK l \in 1..n : i = size + l
    <3>1. i - size \in 1..n /\ i = size + (i - size)
        BY <1>11
    <3> QED
        BY <3>1
  <2> QED
    BY <1>3, <1>14, <2>1
<1>16. SubSeq(d, size + 1, e) = str
  <2> DEFINE x == SubSeq(d, size + 1, e)
  <2>1. x \in Seq(Int) /\ Len(x) = n /\ \A j \in 1..n : x[j] = d[size + j]
    BY <1>11, <1>12, Slice, SMTT(60)
  <2> HIDE DEF x
  <2>2. \A j \in 1..n : x[j] = str[j]
    BY <1>14, <2>1
  <2>3. x = str
    BY <1>0, <1>2, <2>1, <2>2, SameElements
  <2> QED
    BY <2>3 DEF x
<1>17. ASSUME Len(d) \in Number
       PROVE  HasString(t, size) /\ StringAt(t, size) = str
  <2>1. e < Size(t)
    BY <1>10, <1>11, <1>17
  <2> QED
    BY <1>7, <1>8, <1>12, <1>13, <1>15, <1>16, <2>1, EndsAt
<1>18. StringPlace(s) = size
    BY <1>4 DEF StringPlace
<1>19. ASSUME Len(d) \in Number
       PROVE  size <= Size(t) /\ Size(t) <= Len(d)
    BY <1>9, <1>10, <1>19
<1> QED
    BY <1>1, <1>4, <1>5, <1>7, <1>8, <1>9, <1>17, <1>18, <1>19 DEF StringAdded

LEMMA AddStringIs ==
    ASSUME need_conversion \in BOOLEAN, NEW s \in SectionType, Sound(s), Editable(s),
           NEW str \in Seq(Int \ {0})
    PROVE  StringAdded(AddString(s, str), s, str)
<1>1. CASE Get(s, "type") = SHT_NOBITS
  <2>1. \A bytes : AppendBytes(s, bytes) = s
    BY <1>1 DEF AppendBytes, InsertBytes
  <2>2. AddString(s, str) = s
    BY <2>1 DEF AddString
  <2> QED
    BY <1>1, <2>2 DEF StringAdded, Alike
<1>2. CASE Get(s, "type") # SHT_NOBITS /\ Size(s) # 0
  <2>1. AddString(s, str) = AppendBytes(s, Append(str, 0))
    BY <1>2 DEF AddString
  <2> QED
    BY <1>2, <2>1, StringAppended
<1>3. CASE Get(s, "type") # SHT_NOBITS /\ Size(s) = 0
  <2>1. PICK zero \in Seq(Int) : zero = <<0>> /\ Len(zero) = 1
    <3>1. <<0>> \in Seq(Int) /\ Len(<<0>>) = 1
        OBVIOUS
    <3> QED
        BY <3>1
  <2>2. PICK u : u = AppendBytes(s, zero)
    OBVIOUS
  <2>3. Appended(u, s, zero)
    BY <1>3, <2>2, AppendIs
  <2>4. /\ u \in SectionType /\ Sound(u) /\ u.index = s.index /\ u.name = s.name
        /\ \A y \in HeaderFields \ {"size"} : Get(u, y) = Get(s, y)
    BY <2>3 DEF Appended, Alike
  <2>5. Size(u) = 1
    <3>1. PICK m \in Int : m = Base * Base /\ m > 1
      <4>1. Base \in Int /\ Base > 1
        BY BaseAssumption
      <4>2. Base * Base \in Int /\ Base * Base > 1
        BY <4>1
      <4> QED
        BY <4>2
    <3>2. Size(u) = (0 + 1) % (Base * Base)
        BY <1>3, <2>1, <2>3 DEF Appended
    <3>3. 1 \in Number /\ 0 + 1 = 1
        BY <3>1 DEF Number
    <3>4. 1 % (Base * Base) = 1
        BY <3>3, Wrapped
    <3> QED
        BY <3>2, <3>3, <3>4
  <2>6. Editable(u)
    <3>1. u.data \in Seq(Int) /\ 0 + 1 <= Len(u.data)
        BY <1>3, <2>1, <2>3, <2>4 DEF Appended, SectionType
    <3>2. u.data # << >>
        BY <3>1
    <3> QED
        BY <3>2 DEF Editable
  <2>7. Get(u, "type") # SHT_NOBITS
    BY <1>3, <2>4 DEF HeaderFields
  <2>8. PICK t : t = AppendBytes(u, Append(str, 0))
    OBVIOUS
  <2>9. StringAdded(t, u, str)
    BY <2>4, <2>5, <2>6, <2>7, <2>8, StringAppended, SMTT(60)
  <2>10. AddString(s, str) = t
    BY <1>3, <2>1, <2>2, <2>8 DEF AddString
  <2>11. Alike(t, s)
    BY <2>4, <2>9 DEF StringAdded, Alike
  <2>12. StringPlace(u) = 1 /\ StringPlace(s) = 1
    BY <1>3, <2>5 DEF StringPlace
  <2>13. BeginsAs(t.data, s.data, Size(s))
    BY <1>3 DEF BeginsAs
  <2>14. Size(t) \in Nat
    BY <2>11, SizeIsNat DEF Alike
  <2>15. StringAdded(t, s, str)
    BY <1>3, <2>5, <2>7, <2>9, <2>11, <2>12, <2>13, <2>14 DEF StringAdded
  <2> QED
    BY <2>10, <2>15
<1> QED
    BY <1>1, <1>2, <1>3

-----------------------------------------------------------------------------
(* Sections with names *)

LEMMA ZeroIsNumber == 0 \in Number /\ \A need \in BOOLEAN : Convert(need, 0) = 0
<1>1. 0 \in Digit
    BY BaseAssumption DEF Digit
<1>2. 0 * Base + 0 = 0
    BY BaseAssumption
<1>3. 0 \in Number /\ 0 \div Base = 0 /\ 0 % Base = 0
    BY <1>1, <1>2, NumberOfDigits
<1> QED
    BY <1>2, <1>3 DEF Convert, Swapped

LEMMA NewSectionIs ==
    ASSUME need_conversion \in BOOLEAN, NEW n \in Nat
    PROVE  /\ NewSection(n) \in SectionType /\ Sound(NewSection(n))
           /\ \A x \in HeaderFields : Get(NewSection(n), x) = 0
           /\ NewSection(n).name = << >> /\ NewSection(n).index = n
           /\ NewSection(n).data = << >> /\ Editable(NewSection(n))
<1>1. NewSection(n) \in SectionType
    BY ZeroIsNumber DEF NewSection, SectionType, NoHeader
<1>2. \A x \in HeaderFields : NewSection(n).header[x] = 0
    BY DEF NewSection, NoHeader
<1>3. \A x \in HeaderFields : Get(NewSection(n), x) = 0
    BY <1>2, ZeroIsNumber DEF Get, convertor
<1>4. /\ NewSection(n).name = << >> /\ NewSection(n).index = n
      /\ NewSection(n).data = << >> /\ NewSection(n).room = 0 /\ NewSection(n).data_size = 0
    BY DEF NewSection
<1>5. Size(NewSection(n)) = 0
    BY <1>3 DEF Size, HeaderFields
<1>6. Sound(NewSection(n)) /\ Editable(NewSection(n))
    BY <1>4, <1>5 DEF Sound, Editable
<1> QED
    BY <1>1, <1>3, <1>4, <1>6

(* Only the size and the data of a table say which strings it has. *)
LEMMA TableStrings ==
    ASSUME NEW s, NEW t, t.data = s.data, Size(t) = Size(s), NEW at
    PROVE  HasString(t, at) = HasString(s, at) /\ StringAt(t, at) = StringAt(s, at)
<1>1. Ends(t, at) = Ends(s, at)
    BY DEF Ends
<1> QED
    BY <1>1 DEF HasString, StringAt

(* Names stay in a table that gets a string. *)
LEMMA NameStays ==
    ASSUME need_conversion \in BOOLEAN, NEW s \in SectionType, NEW t, NEW str,
           NEW u \in SectionType, StringAdded(t, s, str), Len(t.data) \in Number,
           NameInTable(s, u)
    PROVE  NameInTable(t, u)
<1>1. t \in SectionType /\ Get(t, "type") = Get(s, "type")
    BY DEF StringAdded, Alike, HeaderFields
<1>2. CASE Get(s, "type") = SHT_NOBITS
    BY <1>1, <1>2 DEF NameInTable
<1>3. CASE Get(s, "type") # SHT_NOBITS
  <2>1. PICK at \in Nat : at = Get(u, "name")
    BY GetIsNumber, NumbersAreNat DEF HeaderFields
  <2>2. HasString(s, at) /\ StringAt(s, at) = u.name
    BY <1>3, <2>1 DEF NameInTable
  <2>3. BeginsAs(t.data, s.data, Size(s)) /\ Size(s) <= Size(t) /\ Size(t) <= Len(t.data)
    BY <1>3 DEF StringAdded
  <2>4. Size(s) <= Len(t.data)
    <3>1. Size(s) \in Nat /\ Size(t) \in Nat /\ Len(t.data) \in Nat
        BY <1>1, SizeIsNat, NumbersAreNat
    <3> QED
        BY <2>3, <3>1
  <2>5. HasString(t, at) /\ StringAt(t, at) = u.name
    BY <1>1, <2>2, <2>3, <2>4, SameString
  <2> QED
    BY <2>1, <2>5 DEF NameInTable
<1> QED
    BY <1>2, <1>3

LEMMA SameNamed ==
    ASSUME NEW s, NEW t, NEW u, NEW v, u.name = v.name, Get(u, "name") = Get(v, "name"),
           t.data = s.data, Size(t) = Size(s), Get(t, "type") = Get(s, "type")
    PROVE  NameInTable(t, u) = NameInTable(s, v)
BY TableStrings, Zenon DEF NameInTable

(* The sections with another at the end, whose name is put in a table. *)
Lengthened(some, all, p) ==
    /\ some \in Seq(SectionType) /\ Len(some) = Len(all) + 1
    /\ \A k \in DOMAIN some : Sound(some[k])
    /\ \A k \in DOMAIN all : k # p => some[k] = all[k]
    /\ \A k \in DOMAIN all :
           some[k].name = all[k].name /\ Get(some[k], "name") = Get(all[k], "name")
    /\ p = Len(all) + 1 => Get(some[p], "type") = SHT_NULL
    /\ Len(some[p].data) \in Number =>
           /\ NameInTable(some[p], some[Len(all) + 1])
           /\ p \in DOMAIN all => \A k \in DOMAIN all :
                  NameInTable(all[p], all[k]) => NameInTable(some[p], some[k])

LEMMA AddedForm ==
    ASSUME NEW all, NEW name, NEW index
    PROVE  LET list == Append(all, Renamed(NewSection(Len(all)), name))
               mid == [list EXCEPT ![index + 1] = AddString(list[index + 1], name)]
           IN Added(all, name, index)
                  = [mid EXCEPT ![Len(list)] =
                        Set(mid[Len(list)], "name", StringPlace(list[index + 1]))]
BY DEF Added, Renamed

LEMMA Replaced ==
    ASSUME NEW S, NEW list \in Seq(S), NEW k \in DOMAIN list, NEW x \in S
    PROVE  /\ [list EXCEPT ![k] = x] \in Seq(S)
           /\ Len([list EXCEPT ![k] = x]) = Len(list)
           /\ [list EXCEPT ![k] = x][k] = x
           /\ \A j \in DOMAIN list \ {k} : [list EXCEPT ![k] = x][j] = list[j]
OBVIOUS

LEMMA AddedIs ==
    ASSUME need_conversion \in BOOLEAN, NEW all \in Seq(SectionType),
           \A k \in DOMAIN all : Sound(all[k]), NEW name \in Seq(Int \ {0}),
           NEW index \in 0..Len(all), Editable(Append(all, NewSection(Len(all)))[index + 1])
    PROVE  Lengthened(Added(all, name, index), all, index + 1)
<1>1. PICK len \in Nat : len = Len(all) /\ DOMAIN all = 1..len
    OBVIOUS
<1>2. PICK p \in 1..(len + 1) : p = index + 1
    BY <1>1
<1>3. name \in Seq(Int)
    OBVIOUS
<1>4. PICK first : first = NewSection(len)
    OBVIOUS
<1>5. first \in SectionType /\ Sound(first) /\ Editable(first)
    BY <1>4, NewSectionIs
<1>6. PICK new \in SectionType : new = Renamed(first, name)
    BY <1>3, <1>5, RenamedIs
<1>7. /\ Sound(new) /\ new.name = name /\ new.data = first.data
      /\ \A y \in HeaderFields : Get(new, y) = Get(first, y)
    BY <1>3, <1>5, <1>6, RenamedIs, RenamedSound
<1>8. Editable(new)
    BY <1>5, <1>7 DEF Editable, Size, HeaderFields
<1>9. PICK list \in Seq(SectionType) :
          /\ list = Append(all, new) /\ Len(list) = len + 1 /\ list[len + 1] = new
          /\ \A k \in 1..len : list[k] = all[k]
  <2>1. /\ Append(all, new) \in Seq(SectionType) /\ Len(Append(all, new)) = len + 1
        /\ Append(all, new)[len + 1] = new
        /\ \A k \in 1..len : Append(all, new)[k] = all[k]
    BY <1>1
  <2> QED
    BY <2>1
<1>10. PICK table \in SectionType : table = list[p]
    BY <1>9
<1>11. Sound(table) /\ Editable(table)
  <2>1. CASE p = len + 1
    BY <1>7, <1>8, <1>9, <1>10, <2>1
  <2>2. CASE p # len + 1
    <3>1. p \in 1..len
        BY <2>2
    <3>2. Append(all, NewSection(Len(all)))[index + 1] = all[p]
        BY <1>1, <1>2, <3>1
    <3> QED
        BY <1>1, <1>9, <1>10, <3>1, <3>2
  <2> QED
    BY <2>1, <2>2
<1>12. PICK t : t = AddString(table, name)
    OBVIOUS
<1>13. StringAdded(t, table, name)
    BY <1>11, <1>12, AddStringIs
<1>14. /\ t \in SectionType /\ Sound(t) /\ t.name = table.name
       /\ \A y \in HeaderFields \ {"size"} : Get(t, y) = Get(table, y)
    BY <1>13 DEF StringAdded, Alike
<1>15. PICK place \in Nat : place = StringPlace(table)
    BY SizeIsNat DEF StringPlace
<1>16. PICK last \in SectionType :
           /\ Sound(last) /\ last.name = name
           /\ last = IF p = len + 1 THEN t ELSE new
    BY <1>7, <1>9, <1>10, <1>14
<1>17. "name" \in HeaderFields /\ "type" \in HeaderFields
    BY DEF HeaderFields
<1>18. PICK named \in SectionType : named = Set(last, "name", place)
    BY <1>17, SetGet
<1>19. /\ Sound(named) /\ named.name = name /\ named.data = last.data
       /\ Get(named, "name") = place % (Base * Base)
       /\ \A y \in HeaderFields \ {"name"} : Get(named, y) = Get(last, y)
  <2>1. "name" \in {"name", "type"} /\ "name" # "type"
    OBVIOUS
  <2>2. Sound(named)
    BY <1>16, <1>18, <2>1, SetSound, Zenon
  <2>3. /\ named.name = last.name /\ named.data = last.data
        /\ Get(named, "name") = place % (Base * Base)
        /\ \A y \in HeaderFields \ {"name"} : Get(named, y) = Get(last, y)
    BY <1>17, <1>18, SetGet, ZenonT(60)
  <2> QED
    BY <1>16, <2>2, <2>3
<1>20. PICK some : some = Added(all, name, index)
    OBVIOUS
<1>21. /\ some \in Seq(SectionType) /\ Len(some) = len + 1
       /\ some[len + 1] = named
       /\ p # len + 1 => some[p] = t
       /\ \A k \in 1..len : k # p => some[k] = all[k]
  <2> DEFINE mid == [list EXCEPT ![p] = t]
             end == [mid EXCEPT ![len + 1] = Set(mid[len + 1], "name", place)]
  <2>1. /\ mid \in Seq(SectionType) /\ Len(mid) = len + 1 /\ mid[p] = t
        /\ \A k \in 1..(len + 1) : k # p => mid[k] = list[k]
    <3>1. DOMAIN list = 1..(len + 1) /\ p \in DOMAIN list
        BY <1>9
    <3>2. /\ mid \in Seq(SectionType) /\ Len(mid) = Len(list) /\ mid[p] = t
          /\ \A k \in DOMAIN list \ {p} : mid[k] = list[k]
        BY <1>14, <3>1, Replaced
    <3> HIDE DEF mid
    <3> QED
        BY <1>9, <3>1, <3>2
  <2>2. some = end
    BY <1>1, <1>2, <1>4, <1>6, <1>9, <1>10, <1>12, <1>15, <1>20, AddedForm
  <2> HIDE DEF mid
  <2>3. mid[len + 1] = last
    BY <1>9, <1>16, <2>1
  <2>4. end = [mid EXCEPT ![len + 1] = named]
    BY <1>18, <2>3
  <2> HIDE DEF end
  <2>5. /\ end \in Seq(SectionType) /\ Len(end) = len + 1 /\ end[len + 1] = named
        /\ \A k \in 1..len : end[k] = mid[k]
    BY <2>1, <2>4
  <2> QED
    BY <1>9, <2>1, <2>2, <2>5
<1>22. ASSUME NEW k \in 1..(len + 1)
       PROVE  Sound(some[k])
  <2>1. CASE k = len + 1
    BY <1>19, <1>21, <2>1
  <2>2. CASE k # len + 1 /\ k = p
    BY <1>14, <1>21, <2>2
  <2>3. CASE k # len + 1 /\ k # p
    <3>1. k \in 1..len
        BY <2>3
    <3> QED
        BY <1>1, <1>21, <2>3, <3>1
  <2> QED
    BY <2>1, <2>2, <2>3
<1>23. ASSUME NEW k \in 1..len
       PROVE  some[k].name = all[k].name /\ Get(some[k], "name") = Get(all[k], "name")
  <2>1. CASE k = p
    BY <1>9, <1>10, <1>14, <1>21, <2>1 DEF HeaderFields
  <2>2. CASE k # p
    BY <1>21, <2>2
  <2> QED
    BY <2>1, <2>2
<1>24. some[p].data = t.data /\ Size(some[p]) = Size(t) /\ Get(some[p], "type") = Get(t, "type")
  <2>1. CASE p = len + 1
    <3>1. some[p] = named /\ last = t
        BY <1>16, <1>21, <2>1
    <3> QED
        BY <1>19, <3>1 DEF Size, HeaderFields
  <2>2. CASE p # len + 1
    BY <1>21, <2>2
  <2> QED
    BY <2>1, <2>2
<1>25. ASSUME Len(t.data) \in Number
       PROVE  NameInTable(some[p], named)
  <2>1. CASE Get(table, "type") = SHT_NOBITS
    BY <1>14, <1>24, <2>1 DEF NameInTable, HeaderFields
  <2>2. CASE Get(table, "type") # SHT_NOBITS
    <3>1. /\ place <= Size(t) /\ Size(t) <= Len(t.data)
          /\ HasString(t, place) /\ StringAt(t, place) = name
        BY <1>13, <1>15, <1>25, <2>2 DEF StringAdded
    <3>2. Size(t) \in Nat /\ Len(t.data) \in Nat
        BY <1>14, <1>25, SizeIsNat, NumbersAreNat
    <3>3. place % (Base * Base) = place
        BY <1>25, <3>1, <3>2, NoWrap
    <3>4. NameInTable(t, named)
        BY <1>19, <3>1, <3>3 DEF NameInTable
    <3> QED
        BY <1>24, <3>4, SameNamed
  <2> QED
    BY <2>1, <2>2
<1>26. ASSUME Len(t.data) \in Number, p \in 1..len, NEW k \in 1..len, NameInTable(all[p], all[k])
       PROVE  NameInTable(some[p], some[k])
  <2>1. all[k] \in SectionType /\ all[p] = table
    BY <1>1, <1>9, <1>10, <1>26
  <2>2. NameInTable(t, all[k])
    BY <1>13, <1>26, <2>1, NameStays
  <2>3. some[k].name = all[k].name /\ Get(some[k], "name") = Get(all[k], "name")
    BY <1>23
  <2> QED
    BY <1>24, <2>2, <2>3, SameNamed, SMTT(60)
<1>27. ASSUME p = len + 1
       PROVE  Get(some[p], "type") = SHT_NULL
  <2>1. Get(first, "type") = 0
    BY <1>4, <1>17, NewSectionIs
  <2>2. table = new /\ Get(t, "type") = Get(table, "type")
    BY <1>9, <1>10, <1>14, <1>27 DEF HeaderFields
  <2> QED
    BY <1>7, <1>17, <1>24, <2>1, <2>2 DEF SHT_NULL
<1>28. Lengthened(some, all, p)
    BY <1>1, <1>21, <1>22, <1>23, <1>24, <1>25, <1>26, <1>27 DEF Lengthened
<1> QED
    BY <1>2, <1>20, <1>28

-----------------------------------------------------------------------------
(* Loading of a section *)

LEMMA BytesAre ==
    ASSUME NEW file \in Files, NEW at \in Nat, NEW n \in Nat
    PROVE  Bytes(file, at, n) \in Seq(Int) /\ Len(Bytes(file, at, n)) = n
<1>1. file.size \in Nat
    BY FilesAssumption
<1>2. Bytes(file, at, n) \in [1..n -> Int]
    BY <1>1 DEF Bytes, Stray
<1> HIDE DEF Bytes
<1> QED
    BY <1>2

(* The file that is being loaded. *)
FileOpen ==
    /\ f \in Files /\ f.class \in Classes /\ f.encoding \in {"LSB", "MSB"}
    /\ need_conversion = (f.encoding # Host)

LEMMA FiledIsNumber ==
    ASSUME FileOpen, NEW x \in FileFields
    PROVE  /\ Filed(x) \in Number /\ Joined(Host, f.ehdr[x]) \in Number
           /\ convertor(Joined(Host, f.ehdr[x])) = Filed(x)
<1>1. f.ehdr[x] \in Digits
    BY FilesAssumption DEF FileOpen
<1>2. Joined(Host, f.ehdr[x]) \in Number
    BY <1>1, ConvertJoined, HostAssumption
<1> QED
    BY <1>1, <1>2, ConvertJoined DEF Filed, FileOpen, convertor

LEMMA HeaderAtIsNat ==
    ASSUME FileOpen, NEW k \in Nat \ {0}
    PROVE  HeaderAt(k) \in Nat
<1>1. Filed("shoff") \in Nat /\ Filed("shentsize") \in Nat
    BY FiledIsNumber, NumbersAreNat DEF FileFields
<1>2. PICK a, b \in Nat : a = Filed("shoff") /\ b = Filed("shentsize")
    BY <1>1
<1>3. a + (k - 1) * b \in Nat
  <2>1. PICK j \in Nat : j = k - 1
    OBVIOUS
  <2>2. a + j * b \in Nat
    OBVIOUS
  <2> QED
    BY <2>1, <2>2
<1> QED
    BY <1>2, <1>3 DEF HeaderAt

(* The fields of a section, as the file means them. *)
LEMMA FiledFields ==
    ASSUME FileOpen, NEW k \in Nat \ {0}, NEW x \in HeaderFields
    PROVE  /\ FiledField(k, x) \in Number
           /\ HeaderAt(k) + HeaderSize[f.class].section <= f.size =>
                 /\ Joined(Host, f.shdrs[HeaderAt(k)][x]) \in Number
                 /\ convertor(Joined(Host, f.shdrs[HeaderAt(k)][x])) = FiledField(k, x)
<1>1. PICK at \in Nat : at = HeaderAt(k)
    BY HeaderAtIsNat
<1>2. PICK n \in Nat : n = HeaderSize[f.class].section
  <2>1. HeaderSize[f.class].section \in Number
    BY HeaderSizeAssumption DEF FileOpen
  <2> QED
    BY <2>1, NumbersAreNat
<1>3. f.size \in Nat
    BY FilesAssumption DEF FileOpen
<1>4. CASE at + n <= f.size
  <2>1. at \in 0..f.size
    BY <1>3, <1>4
  <2>2. f.shdrs[at][x] \in Digits
    BY <2>1, FilesAssumption DEF FileOpen
  <2>3. Joined(Host, f.shdrs[at][x]) \in Number /\ Joined(f.encoding, f.shdrs[at][x]) \in Number
    BY <2>2, ConvertJoined, HostAssumption DEF FileOpen
  <2>4. convertor(Joined(Host, f.shdrs[at][x])) = Joined(f.encoding, f.shdrs[at][x])
    BY <2>2, ConvertJoined DEF FileOpen, convertor
  <2>5. FiledField(k, x) = Joined(f.encoding, f.shdrs[at][x])
    BY <1>1, <1>2, <1>3, <1>4 DEF FiledField
  <2> QED
    BY <1>1, <2>3, <2>4, <2>5
<1>5. CASE ~(at + n <= f.size)
  <2>1. FiledField(k, x) = 0
    BY <1>1, <1>2, <1>3, <1>5 DEF FiledField
  <2> QED
    BY <1>1, <1>2, <1>5, <2>1, ZeroIsNumber
<1> QED
    BY <1>4, <1>5

(* The bytes of a section, as the file means them. *)
LEMMA FiledBytesAre ==
    ASSUME FileOpen, NEW k \in Nat \ {0}
    PROVE  FiledBytes(k) \in Seq(Int) /\ Len(FiledBytes(k)) \in Number
<1>1. PICK at \in Nat : at = FiledField(k, "offset")
    BY FiledFields, NumbersAreNat DEF HeaderFields
<1>2. PICK n \in Number : n = FiledField(k, "size")
    BY FiledFields DEF HeaderFields
<1>3. Bytes(f, at, n) \in Seq(Int) /\ Len(Bytes(f, at, n)) = n
    BY <1>2, BytesAre, NumbersAreNat DEF FileOpen
<1>4. at \in DOMAIN f.streams => f.streams[at] \in Seq(Int) /\ Len(f.streams[at]) \in Number
    BY FilesAssumption DEF FileOpen
<1> QED
    BY <1>1, <1>2, <1>3, <1>4 DEF FiledBytes

WithHeader(s, h) == [s EXCEPT !.header = h]

LEMMA HeaderGet ==
    ASSUME NEW s \in SectionType, NEW h \in [HeaderFields -> Number]
    PROVE  /\ WithHeader(s, h) \in SectionType
           /\ WithHeader(s, h).header = h
           /\ WithHeader(s, h).index = s.index /\ WithHeader(s, h).name = s.name
           /\ WithHeader(s, h).data = s.data /\ WithHeader(s, h).room = s.room
           /\ WithHeader(s, h).data_size = s.data_size
BY DEF SectionType, WithHeader

(* LoadSection, one step behind the other. *)
LEMMA LoadSectionForm ==
    ASSUME NEW s, NEW at, NEW n, NEW read, NEW with, ~(at + n > f.size),
           read = WithHeader(s, [x \in HeaderFields |-> Joined(Host, f.shdrs[at][x])]),
           with = LoadData(read, f)
    PROVE  LoadSection(s, f, at, n)
               = IF Compressed(with) /\ with.data # << >> THEN Inflate(with, f) ELSE with
BY DEF LoadSection, WithHeader

LEMMA LoadDataForm ==
    ASSUME NEW s,
           ~(Get(s, "type") \in {SHT_NULL, SHT_NOBITS} \/ Size(s) >= f.size
             \/ (Size(s) > 0 /\ Get(s, "offset") + Size(s) > f.size))
    PROVE  LoadData(s, f)
               = WithData(s, Append(Bytes(f, Get(s, "offset"), Size(s)), 0), Size(s) + 1, Size(s))
BY DEF LoadData, WithData

LEMMA WithNul ==
    ASSUME NEW d \in Seq(Int)
    PROVE  Append(d, 0) \in Seq(Int) /\ Len(Append(d, 0)) = Len(d) + 1 /\ Append(d, 0) # << >>
<1>1. Append(d, 0) \in Seq(Int) /\ Len(Append(d, 0)) = Len(d) + 1
    OBVIOUS
<1>2. Len(Append(d, 0)) # 0
    BY <1>1
<1>3. Len(<< >>) = 0
    OBVIOUS
<1> QED
    BY <1>1, <1>2, <1>3, Zenon

(* A section that was read: as the file has it, and its buffer sound. *)
Read(s, k) == s \in SectionType /\ Sound(s) /\ s.name = << >> /\ SectionFiled(s, k)

LEMMA ReadIs ==
    ASSUME FileOpen, NEW k \in Nat \ {0}, NEW i \in Nat, i = k - 1
    PROVE  Read(LoadSection(NewSection(i), f, HeaderAt(k), HeaderSize[f.class].section), k)
<1>1. PICK at \in Nat : at = HeaderAt(k)
    BY HeaderAtIsNat
<1>2. PICK n \in Nat : n = HeaderSize[f.class].section
  <2>1. HeaderSize[f.class].section \in Number
    BY HeaderSizeAssumption DEF FileOpen
  <2> QED
    BY <2>1, NumbersAreNat
<1>3. PICK size \in Nat : f.size = size
    BY FilesAssumption DEF FileOpen
<1>4. need_conversion \in BOOLEAN
    BY DEF FileOpen
<1>5. PICK s : s = NewSection(i)
    OBVIOUS
<1>6. /\ s \in SectionType /\ Sound(s) /\ s.name = << >> /\ s.index = i /\ s.data = << >>
      /\ s.room = 0 /\ s.data_size = 0 /\ \A x \in HeaderFields : Get(s, x) = 0
  <2>1. s.room = 0 /\ s.data_size = 0
    BY <1>5 DEF NewSection
  <2> QED
    BY <1>4, <1>5, <2>1, NewSectionIs
<1>7. HeaderFields = {"name", "type", "flags", "addr", "offset", "size"}
    BY DEF HeaderFields
<1>8. CASE at + n > size
  <2>1. LoadSection(s, f, at, n) = s
    BY <1>3, <1>8 DEF LoadSection
  <2>2. \A x : FiledField(k, x) = 0
    BY <1>1, <1>2, <1>3, <1>8 DEF FiledField
  <2>3. ~InFile(k)
    BY <2>2 DEF InFile, SHT_NULL
  <2>4. SectionFiled(s, k)
    BY <1>6, <1>7, <2>2, <2>3 DEF SectionFiled, Size
  <2> QED
    BY <1>1, <1>2, <1>5, <1>6, <2>1, <2>4 DEF Read
<1>9. CASE ~(at + n > size)
  <2>1. at + n <= size
    BY <1>9
  <2>2. \A x \in HeaderFields :
            /\ FiledField(k, x) \in Number /\ Joined(Host, f.shdrs[at][x]) \in Number
            /\ convertor(Joined(Host, f.shdrs[at][x])) = FiledField(k, x)
    BY <1>1, <1>2, <1>3, <2>1, FiledFields
  <2>3. PICK h \in [HeaderFields -> Number] :
            h = [x \in HeaderFields |-> Joined(Host, f.shdrs[at][x])]
    BY <2>2
  <2>4. PICK read \in SectionType : read = WithHeader(s, h)
    BY <1>6, <2>3, HeaderGet
  <2>5. /\ read.header = h /\ read.index = i /\ read.name = << >> /\ read.data = << >>
        /\ read.room = 0 /\ read.data_size = 0
    BY <1>6, <2>3, <2>4, HeaderGet
  <2>6. \A x \in HeaderFields : Get(read, x) = FiledField(k, x)
    BY <2>2, <2>3, <2>5 DEF Get
  <2>7. PICK off, len \in Nat : off = FiledField(k, "offset") /\ len = FiledField(k, "size")
    BY <1>7, <2>2, NumbersAreNat
  <2>8. Get(read, "offset") = off /\ Size(read) = len /\ Get(read, "type") = FiledField(k, "type")
    BY <1>7, <2>6, <2>7 DEF Size
  <2>9. InFile(k) <=> ~(\/ Get(read, "type") \in {SHT_NULL, SHT_NOBITS}
                        \/ len >= size \/ (len > 0 /\ off + len > size))
    BY <1>3, <2>7, <2>8 DEF InFile
  <2>10. PICK with : with = LoadData(read, f)
    OBVIOUS
  <2>11. PICK t : t = LoadSection(s, f, at, n)
    OBVIOUS
  <2>12. t = IF Compressed(with) /\ with.data # << >> THEN Inflate(with, f) ELSE with
    BY <1>3, <1>9, <2>3, <2>4, <2>10, <2>11, LoadSectionForm
  <2>13. CASE ~InFile(k)
    <3>1. with = read
        BY <1>3, <2>8, <2>9, <2>10, <2>13 DEF LoadData
    <3>2. t = read
        BY <2>5, <2>12, <3>1
    <3>3. Sound(read)
        BY <2>5 DEF Sound
    <3>4. SectionFiled(read, k)
        BY <2>5, <2>6, <2>7, <2>8, <2>13 DEF SectionFiled
    <3> QED
        BY <1>1, <1>2, <1>5, <2>4, <2>5, <2>11, <3>2, <3>3, <3>4 DEF Read
  <2>14. CASE InFile(k)
    <3>1. PICK b \in Seq(Int) : b = Bytes(f, off, len) /\ Len(b) = len
        BY <2>7, BytesAre DEF FileOpen
    <3>2. PICK d \in Seq(Int) : d = Append(b, 0) /\ Len(d) = len + 1 /\ d # << >>
      <4>1. Append(b, 0) \in Seq(Int) /\ Len(Append(b, 0)) = Len(b) + 1 /\ Append(b, 0) # << >>
        BY WithNul, Zenon
      <4> QED
        BY <3>1, <4>1
    <3>0. len + 1 \in Nat
        OBVIOUS
    <3>3. with = WithData(read, d, len + 1, len)
        BY <1>3, <2>8, <2>9, <2>10, <2>14, <3>1, <3>2, LoadDataForm
    <3>4. Holding(with, read, d, len + 1, len)
        BY <2>4, <2>7, <3>0, <3>2, <3>3, DataGet, Zenon
    <3>5. /\ with \in SectionType /\ \A x \in HeaderFields : Get(with, x) = FiledField(k, x)
          /\ with.index = i /\ with.name = << >>
          /\ with.data = d /\ with.room = len + 1 /\ with.data_size = len
        BY <2>5, <2>6, <3>4 DEF Holding
    <3>6. Compressed(with) = HasFlag(FiledField(k, "flags"), SHF_RPX_DEFLATE)
        BY <1>7, <3>5 DEF Compressed
    <3>7. Get(with, "offset") = off /\ Get(with, "type") # SHT_NOBITS /\ Size(with) = len
        BY <1>7, <2>7, <2>8, <2>9, <2>14, <3>5 DEF Size
    <3>8. CASE Compressed(with) /\ off \in DOMAIN f.streams
      <4>1. PICK bytes \in Seq(Int) : bytes = f.streams[off] /\ Len(bytes) \in Number
        BY <3>8, FilesAssumption DEF FileOpen
      <4>2. PICK m \in Nat : m = Len(bytes) /\ m % (Base * Base) = m
        BY <4>1, Wrapped
      <4>3. FiledBytes(k) = bytes
        BY <2>7, <3>6, <3>8, <4>1 DEF FiledBytes
      <4>4. PICK e \in Seq(Int) : e = Append(bytes, 0) /\ Len(e) = m + 1
        <5>1. Append(bytes, 0) \in Seq(Int) /\ Len(Append(bytes, 0)) = Len(bytes) + 1
            BY WithNul, Zenon
        <5> QED
            BY <4>2, <5>1
      <4>5. t = WithData(Set(with, "size", m), e, m + 1, len)
        <5>1. t = Inflate(with, f)
            BY <2>12, <3>2, <3>5, <3>8
        <5>2. PICK u \in SectionType : u = Set(with, "size", m) /\ u.data_size = len
          <6>1. "size" \in HeaderFields
            BY <1>7
          <6>2. Set(with, "size", m) \in SectionType /\ Set(with, "size", m).data_size = len
            BY <1>4, <3>5, <6>1, SetGet
          <6> QED
            BY <6>2
        <5>3. Inflate(with, f) = [u EXCEPT !.data = e, !.room = m + 1]
            BY <3>7, <3>8, <4>1, <4>2, <4>4, <5>2 DEF Inflate
        <5>4. [u EXCEPT !.data = e, !.room = m + 1] = WithData(u, e, m + 1, len)
            BY <5>2 DEF WithData, SectionType
        <5> QED
            BY <5>1, <5>2, <5>3, <5>4
      <4>6. Resized(t, with, m, e, m + 1, len)
        <5>1. m + 1 \in Nat
            BY <4>2
        <5> QED
            BY <1>4, <2>7, <3>5, <4>2, <4>4, <4>5, <5>1, SetSize, Zenon
      <4>7. /\ t \in SectionType /\ Size(t) = m
            /\ \A x \in HeaderFields \ {"size"} : Get(t, x) = FiledField(k, x)
            /\ t.index = i /\ t.name = << >> /\ t.data = e
        BY <3>5, <4>2, <4>6 DEF Resized
      <4>8. Compressed(t) /\ Get(t, "type") # SHT_NOBITS
        BY <1>7, <3>5, <3>7, <3>8, <4>7 DEF Compressed
      <4>9. Sound(t)
        BY <4>4, <4>7, <4>8 DEF Sound
      <4>10. SectionFiled(t, k)
        BY <2>14, <4>2, <4>3, <4>4, <4>7 DEF SectionFiled
      <4> QED
        BY <1>1, <1>2, <1>5, <2>11, <4>7, <4>9, <4>10 DEF Read
    <3>9. CASE ~(Compressed(with) /\ off \in DOMAIN f.streams)
      <4>1. t = with
        BY <2>12, <3>7, <3>9 DEF Inflate
      <4>2. FiledBytes(k) = b
        BY <2>7, <3>1, <3>6, <3>9 DEF FiledBytes
      <4>3. Sound(with)
        BY <3>2, <3>5, <3>7 DEF Sound
      <4>4. SectionFiled(with, k)
        BY <2>14, <3>1, <3>2, <3>5, <3>7, <4>2 DEF SectionFiled
      <4> QED
        BY <1>1, <1>2, <1>5, <2>11, <3>5, <4>1, <4>3, <4>4 DEF Read
    <3> QED
        BY <3>8, <3>9
  <2> QED
    BY <2>13, <2>14
<1> QED
    BY <1>8, <1>9

-----------------------------------------------------------------------------
(* Naming of a section *)

StringsOf(bytes, place) ==
    {SubSeq(bytes, place + 1, end) : end \in {j \in place..(Len(bytes) - 1) :
         bytes[j + 1] = 0 /\ \A l \in (place + 1)..j : bytes[l] # 0}}

LEMMA FiledNamesAre ==
    ASSUME NEW place, NEW k \in 2..FiledSections, k = Filed("shstrndx") + 1, InFile(k)
    PROVE  FiledNames(place) = StringsOf(FiledBytes(k), place)
BY DEF FiledNames, StringsOf

(* The strings of a table that was loaded are those of the file's. *)
LEMMA StringsFiled ==
    ASSUME FileOpen, NEW k \in 2..FiledSections, k = Filed("shstrndx") + 1, k \in Nat,
           NEW table \in SectionType, SectionFiled(table, k), NEW place \in Nat
    PROVE  /\ HasString(table, place) => StringAt(table, place) \in FiledNames(place)
           /\ FiledNames(place) # {} => HasString(table, place)
<1>1. need_conversion \in BOOLEAN
    BY DEF FileOpen
<1>2. k \in Nat \ {0}
    OBVIOUS
<1>3. CASE ~InFile(k)
  <2>1. table.data = << >> /\ FiledNames(place) = {}
    BY <1>3 DEF SectionFiled, FiledNames
  <2>2. ~HasString(table, place)
    BY <2>1 DEF HasString, Ends
  <2> QED
    BY <2>1, <2>2
<1>4. CASE InFile(k)
  <2>1. PICK bytes \in Seq(Int) : bytes = FiledBytes(k)
    BY <1>2, FiledBytesAre
  <2>2. PICK n \in Nat : n = Len(bytes)
    OBVIOUS
  <2>3. PICK d \in Seq(Int) : d = table.data
    BY DEF SectionType
  <2>4. d = Append(bytes, 0) /\ Size(table) = n
    BY <1>4, <2>1, <2>2, <2>3 DEF SectionFiled
  <2>5. Len(d) = n + 1 /\ \A j \in 1..n : d[j] = bytes[j]
    BY <2>2, <2>4
  <2>6. FiledNames(place) = StringsOf(bytes, place)
    BY <1>4, <2>1, FiledNamesAre
  <2>7. ASSUME HasString(table, place)
        PROVE  StringAt(table, place) \in FiledNames(place)
    <3>1. PICK e \in Nat :
              /\ place <= e /\ e < n /\ d[e + 1] = 0
              /\ \A j \in (place + 1)..e : d[j] # 0
              /\ StringAt(table, place) = SubSeq(d, place + 1, e)
        BY <1>1, <2>3, <2>4, <2>7, StringIs, ZenonT(60)
    <3>2. e <= Len(d) /\ e <= Len(bytes) /\ e \in place..(Len(bytes) - 1) /\ e + 1 \in 1..n
      <4>1. place <= e /\ e < n
        BY <3>1
      <4> QED
        BY <2>2, <2>5, <4>1, SMTT(60)
    <3>3. BeginsAs(d, bytes, e)
      <4>1. \A j \in 1..e : j \in 1..n
        BY <2>2, <3>2
      <4> QED
        BY <2>5, <4>1 DEF BeginsAs
    <3>4. SubSeq(d, place + 1, e) = SubSeq(bytes, place + 1, e)
        BY <3>1, <3>2, <3>3, SameSubSeq, ZenonT(60)
    <3>5. bytes[e + 1] = 0
        BY <2>5, <3>1, <3>2
    <3>6. ASSUME NEW i \in (place + 1)..e
          PROVE  bytes[i] # 0
      <4>1. i \in 1..n
        BY <3>1
      <4> QED
        BY <2>5, <3>1, <4>1
    <3>7. e \in {j \in place..(Len(bytes) - 1) :
                    bytes[j + 1] = 0 /\ \A l \in (place + 1)..j : bytes[l] # 0}
        BY <3>2, <3>5, <3>6
    <3> QED
        BY <2>6, <3>1, <3>4, <3>7, Zenon DEF StringsOf
  <2>8. ASSUME FiledNames(place) # {}
        PROVE  HasString(table, place)
    <3>1. PICK e \in place..(n - 1) : bytes[e + 1] = 0
        BY <2>2, <2>6, <2>8 DEF StringsOf
    <3>2. e + 1 \in 1..n /\ e + 1 \in 1..Len(d)
        BY <2>5, <3>1
    <3>3. d[e + 1] = 0 /\ e + 1 \in DOMAIN d
        BY <2>5, <3>1, <3>2
    <3>4. e \in Ends(table, place)
        BY <2>3, <2>4, <3>1, <3>3 DEF Ends
    <3> QED
        BY <3>4 DEF HasString
  <2> QED
    BY <2>7, <2>8
<1> QED
    BY <1>3, <1>4

(* A section that got its name. *)
NamedBy(t, s, table, k) ==
    /\ t \in SectionType /\ Sound(t) /\ SectionFiled(t, k) /\ NameFiled(t.name, k)
    /\ t.data = s.data /\ \A x \in HeaderFields : Get(t, x) = Get(s, x)
    /\ t.name # << >> => NameInTable(table, t)

LEMMA NamedIs ==
    ASSUME FileOpen, NEW n \in 2..FiledSections, n = Filed("shstrndx") + 1, n \in Nat,
           NEW table \in SectionType, SectionFiled(table, n),
           NEW k \in Nat \ {0}, NEW s \in SectionType, Sound(s), SectionFiled(s, k),
           s.name = << >>
    PROVE  NamedBy(Named(s, table), s, table, k)
<1>1. PICK place \in Nat : place = Get(s, "name") /\ place = FiledField(k, "name")
  <2>1. "name" \in HeaderFields \ {"size"} /\ "name" \in HeaderFields
    BY DEF HeaderFields
  <2>2. Get(s, "name") = FiledField(k, "name") /\ FiledField(k, "name") \in Number
    BY <2>1, FiledFields DEF SectionFiled
  <2> QED
    BY <2>2, NumbersAreNat
<1>2. /\ HasString(table, place) => StringAt(table, place) \in FiledNames(place)
      /\ FiledNames(place) # {} => HasString(table, place)
    BY StringsFiled
<1>3. CASE ~HasString(table, place)
  <2>1. Named(s, table) = s
    BY <1>1, <1>3 DEF Named
  <2>2. NameFiled(s.name, k)
    BY <1>1, <1>2, <1>3 DEF NameFiled
  <2> QED
    BY <2>1, <2>2 DEF NamedBy
<1>4. CASE HasString(table, place)
  <2>1. PICK name \in Seq(Int) : name = StringAt(table, place)
    BY <1>4, StringIs DEF FileOpen
  <2>2. PICK t : t = Renamed(s, name)
    OBVIOUS
  <2>3. Named(s, table) = t
    BY <1>1, <1>4, <2>1, <2>2 DEF Named, Renamed
  <2>4. /\ t \in SectionType /\ t.name = name /\ t.data = s.data /\ t.index = s.index
        /\ \A x \in HeaderFields : Get(t, x) = Get(s, x)
    BY <2>2, RenamedIs
  <2>5. Sound(t)
    BY <2>2, RenamedSound
  <2>6. Size(t) = Size(s) /\ Get(t, "name") = place
    BY <1>1, <2>4 DEF Size, HeaderFields
  <2>7. SectionFiled(t, k)
    BY <2>4, <2>6 DEF SectionFiled
  <2>8. NameFiled(t.name, k)
    BY <1>1, <1>2, <1>4, <2>1, <2>4 DEF NameFiled
  <2>9. NameInTable(table, t)
    BY <1>4, <2>1, <2>4, <2>6 DEF NameInTable
  <2>10. NamedBy(t, s, table, k)
    BY <2>4, <2>5, <2>7, <2>8, <2>9 DEF NamedBy
  <2> QED
    BY <2>3, <2>10
<1> QED
    BY <1>3, <1>4

-----------------------------------------------------------------------------
(* Segments *)

LEMMA SegmentIs ==
    ASSUME FileOpen, sections \in Seq(SectionType), NEW at \in 0..f.size
    PROVE  Segment(at) \in SegmentType /\ SegmentFiled(Segment(at)) /\ Sees(Segment(at))
<1>1. PICK h : h = [x \in SegmentFields |-> convertor(Joined(Host, f.phdrs[at][x]))]
    OBVIOUS
<1>2. h \in [SegmentFields -> Number]
  <2>1. ASSUME NEW x \in SegmentFields
        PROVE  convertor(Joined(Host, f.phdrs[at][x])) \in Number
    <3>1. f.phdrs[at][x] \in Digits
        BY FilesAssumption DEF FileOpen
    <3>2. Joined(Host, f.phdrs[at][x]) \in Number
        BY <3>1, ConvertJoined, HostAssumption
    <3> QED
        BY <3>2, ConvertBack DEF convertor, FileOpen
  <2> QED
    BY <1>1, <2>1
<1>3. PICK off, len \in Nat : off = h.offset /\ len = h.filesz
    BY <1>2, NumbersAreNat DEF SegmentFields
<1>4. PICK size \in Nat : size = f.size
    BY FilesAssumption DEF FileOpen
<1>5. Bytes(f, off, len) \in Seq(Int) /\ Len(Bytes(f, off, len)) = len
    BY BytesAre DEF FileOpen
<1> DEFINE read == h.type # PT_NULL /\ len # 0 /\ len <= size
<1>6. PICK d \in Seq(Int) : d = IF read THEN Bytes(f, off, len) ELSE << >>
  <2>1. << >> \in Seq(Int)
    OBVIOUS
  <2> HIDE DEF read
  <2> QED
    BY <1>5, <2>1, Zenon
<1>7. PICK in : in = {k \in 0..(Len(sections) - 1) : InSegment(sections[k + 1], h)}
    OBVIOUS
<1>8. PICK g : g = Segment(at)
    OBVIOUS
<1>9. g = [header |-> h, data |-> d, sections |-> in]
    BY <1>1, <1>3, <1>4, <1>6, <1>7, <1>8 DEF Segment
<1>10. g.header = h /\ g.data = d /\ g.sections = in
    BY <1>9
<1>11. in \in SUBSET Nat
    BY <1>7
<1>12. g \in SegmentType
    BY <1>2, <1>9, <1>11 DEF SegmentType
<1>13. Sees(g)
    BY <1>7, <1>10 DEF Sees
<1>14. ASSUME h.type # PT_NULL, off + len <= size
       PROVE  d = Bytes(f, off, len)
  <2>1. CASE len = 0
    <3>1. Bytes(f, off, len) = << >>
        BY <1>5, <2>1
    <3> QED
        BY <1>6, <2>1, <3>1
  <2>2. CASE len # 0
    BY <1>6, <1>14, <2>2
  <2> QED
    BY <2>1, <2>2
<1>15. SegmentFiled(g)
    BY <1>3, <1>4, <1>10, <1>14 DEF SegmentFiled
<1> QED
    BY <1>8, <1>12, <1>13, <1>15

(* A section in two segments is at a place that both have. *)
LEMMA InOne ==
    ASSUME need_conversion \in BOOLEAN, NEW s \in SectionType,
           NEW a \in [SegmentFields -> Number], NEW b \in [SegmentFields -> Number],
           Apart(a.vaddr, a.memsz, b.vaddr, b.memsz),
           Apart(a.offset, a.filesz, b.offset, b.filesz),
           InSegment(s, a), InSegment(s, b)
    PROVE  FALSE
<1>1. \A x \in SegmentFields : a[x] \in Nat /\ b[x] \in Nat
    BY NumbersAreNat
<1>2. PICK addr, off, size \in Nat : addr = Get(s, "addr") /\ off = Get(s, "offset") /\ size = Size(s)
    BY GetIsNumber, SizeIsNat, NumbersAreNat DEF HeaderFields
<1>3. CASE HasFlag(Get(s, "flags"), SHF_ALLOC)
  <2>1. PICK v, w, m, n \in Nat : v = a.vaddr /\ w = b.vaddr /\ m = a.memsz /\ n = b.memsz
    BY <1>1 DEF SegmentFields
  <2>2. is_sect_in_seg(addr, size, v, v + m) /\ is_sect_in_seg(addr, size, w, w + n)
    BY <1>2, <1>3, <2>1 DEF InSegment
  <2> QED
    BY <2>1, <2>2 DEF is_sect_in_seg, Apart
<1>4. CASE ~HasFlag(Get(s, "flags"), SHF_ALLOC)
  <2>1. PICK v, w, m, n \in Nat : v = a.offset /\ w = b.offset /\ m = a.filesz /\ n = b.filesz
    BY <1>1 DEF SegmentFields
  <2>2. is_sect_in_seg(off, size, v, v + m) /\ is_sect_in_seg(off, size, w, w + n)
    BY <1>2, <1>4, <2>1 DEF InSegment
  <2> QED
    BY <2>1, <2>2 DEF is_sect_in_seg, Apart
<1> QED
    BY <1>3, <1>4

(* Segments that see the same sections and have no byte in common have no section in
   common. *)
LEMMA SeenApart ==
    ASSUME need_conversion \in BOOLEAN, sections \in Seq(SectionType),
           NEW g \in SegmentType, NEW h \in SegmentType, Sees(g), Sees(h),
           Apart(g.header.vaddr, g.header.memsz, h.header.vaddr, h.header.memsz),
           Apart(g.header.offset, g.header.filesz, h.header.offset, h.header.filesz)
    PROVE  g.sections \cap h.sections = {}
<1>1. PICK a \in [SegmentFields -> Number], b \in [SegmentFields -> Number] :
          a = g.header /\ b = h.header
    BY DEF SegmentType
<1>2. ASSUME NEW k \in g.sections \cap h.sections
      PROVE  FALSE
  <2>1. k \in 0..(Len(sections) - 1) /\ InSegment(sections[k + 1], a) /\ InSegment(sections[k + 1], b)
    BY <1>1, <1>2 DEF Sees
  <2>2. k + 1 \in 1..Len(sections)
    BY <2>1
  <2>3. sections[k + 1] \in SectionType
    BY <2>2
  <2> QED
    BY <1>1, <2>1, <2>3, InOne
<1> QED
    BY <1>2

-----------------------------------------------------------------------------
(* The invariant *)

LEMMA InitReader == Init => ReaderInv
<1> SUFFICES ASSUME Init PROVE ReaderInv
    OBVIOUS
<1>1. sections = << >> /\ segments = << >> /\ source = "none" /\ pc = "idle"
    BY DEF Init
<1>2. header.fields \in [FileFields -> Number]
    BY ZeroIsNumber DEF Init, NoFile
<1>3. Types
  <2>1. << >> \in Seq(SectionType) /\ << >> \in Seq(SegmentType)
    OBVIOUS
  <2>2. need_conversion \in BOOLEAN
    BY DEF Init
  <2> QED
    BY <1>1, <1>2, <2>1, <2>2, Zenon DEF Types
<1>4. Buffers /\ OfFile /\ SectionsFiled /\ NamesFiled /\ SegmentsFiled /\ SegmentsSee
    BY <1>1 DEF Buffers, OfFile, SectionsFiled, NamesFiled, SegmentsFiled, SegmentsSee
<1>5. SegmentsApart
    BY <1>1 DEF SegmentsApart
<1> QED
    BY <1>3, <1>4, <1>5 DEF ReaderInv

LEMMA NewHeaderIs ==
    ASSUME NEW class \in Classes, NEW encoding
    PROVE  NewHeader(class, encoding).fields \in [FileFields -> Number]
<1>1. 1 \in Number
  <2>1. PICK m \in Int : m = Base * Base /\ m > 1
    <3>1. Base \in Int /\ Base > 1
        BY BaseAssumption
    <3>2. Base * Base \in Int /\ Base * Base > 1
        BY <3>1
    <3> QED
        BY <3>2
  <2> QED
    BY <2>1 DEF Number
<1>2. HeaderSize[class].segment \in Number /\ HeaderSize[class].section \in Number
    BY HeaderSizeAssumption
<1>3. PICK need \in BOOLEAN : need = (encoding # Host)
    OBVIOUS
<1>4. \A v \in Number : Convert(need, v) \in Number
    BY ConvertBack
<1>5. NewHeader(class, encoding).fields
          = [x \in FileFields |->
                CASE x = "shstrndx"  -> Convert(need, 1)
                  [] x = "phentsize" -> Convert(need, HeaderSize[class].segment)
                  [] x = "shentsize" -> Convert(need, HeaderSize[class].section)
                  [] OTHER           -> 0]
    BY <1>3 DEF NewHeader
<1>6. /\ Convert(need, 1) \in Number /\ Convert(need, HeaderSize[class].segment) \in Number
      /\ Convert(need, HeaderSize[class].section) \in Number
    BY <1>1, <1>2, <1>4
<1> HIDE DEF Number
<1> QED
    BY <1>5, <1>6, ZeroIsNumber

(* What a step says nothing of. *)
LEMMA SectionStill ==
    ASSUME need_conversion' = need_conversion, NEW s
    PROVE  Sound(s)' <=> Sound(s)
BY DEF Sound, Size, Compressed, Get, convertor

LEMMA FileStill ==
    ASSUME f' = f
    PROVE  /\ \A x : Filed(x)' = Filed(x)
           /\ FiledSections' = FiledSections
           /\ \A k : HeaderAt(k)' = HeaderAt(k)
BY DEF Filed, FiledSections, HeaderAt

LEMMA FiledStill ==
    ASSUME f' = f, NEW k
    PROVE  /\ \A x : FiledField(k, x)' = FiledField(k, x)
           /\ InFile(k)' <=> InFile(k)
           /\ FiledBytes(k)' = FiledBytes(k)
<1>1. HeaderAt(k)' = HeaderAt(k)
    BY FileStill
<1>2. \A x : FiledField(k, x)' = FiledField(k, x)
    BY <1>1 DEF FiledField
<1>3. InFile(k)' <=> InFile(k)
    BY <1>2 DEF InFile
<1>4. FiledBytes(k)' = FiledBytes(k)
    BY <1>2 DEF FiledBytes
<1> QED
    BY <1>2, <1>3, <1>4

LEMMA SectionFiledStill ==
    ASSUME need_conversion' = need_conversion, f' = f, NEW s, NEW k
    PROVE  SectionFiled(s, k)' <=> SectionFiled(s, k)
<1>1. \A x : Get(s, x)' = Get(s, x)
    BY DEF Get, convertor
<1>2. Size(s)' = Size(s)
    BY <1>1 DEF Size
<1> QED
    BY <1>1, <1>2, FiledStill DEF SectionFiled

LEMMA NameFiledStill ==
    ASSUME f' = f, NEW name, NEW k
    PROVE  NameFiled(name, k)' <=> NameFiled(name, k)
<1>1. FiledField(k, "name")' = FiledField(k, "name")
    BY FiledStill
<1>2. ASSUME NEW place
      PROVE  FiledNames(place)' = FiledNames(place)
  <2>1. PICK n : n = Filed("shstrndx") + 1
    OBVIOUS
  <2>2. /\ (Filed("shstrndx") + 1)' = n /\ FiledBytes(n)' = FiledBytes(n)
        /\ InFile(n)' <=> InFile(n)
        /\ FiledSections' = FiledSections
    BY <2>1, FileStill, FiledStill
  <2> QED
    BY <2>1, <2>2 DEF FiledNames
<1>3. PICK place : place = FiledField(k, "name")
    OBVIOUS
<1>4. place = FiledField(k, "name")'
    BY <1>1, <1>3
<1>5. FiledNames(place)' = FiledNames(place)
    BY <1>2
<1> QED
    BY <1>3, <1>4, <1>5 DEF NameFiled

LEMMA SegmentFiledStill ==
    ASSUME f' = f, NEW segment
    PROVE  SegmentFiled(segment)' <=> SegmentFiled(segment)
BY DEF SegmentFiled

LEMMA SeesStill ==
    ASSUME need_conversion' = need_conversion, sections' = sections, NEW segment
    PROVE  Sees(segment)' <=> Sees(segment)
BY DEF Sees, InSegment, Get, Size, convertor

LEMMA Reading ==
    ASSUME Types, OfFile, pc # "idle"
    PROVE  /\ FileOpen /\ source = "file" /\ header.class = f.class
           /\ \A x \in FileFields : get(x) = Filed(x) /\ Filed(x) \in Nat
<1>1. FileOpen /\ source = "file" /\ header.class = f.class
    BY DEF Types, OfFile, FileOpen
<1>2. \A x \in FileFields : header.fields[x] = Joined(Host, f.ehdr[x])
    BY <1>1 DEF OfFile
<1>3. ASSUME NEW x \in FileFields
      PROVE  get(x) = Filed(x) /\ Filed(x) \in Nat
  <2>1. header.fields[x] = Joined(Host, f.ehdr[x])
    BY <1>2
  <2>2. Filed(x) \in Number /\ convertor(Joined(Host, f.ehdr[x])) = Filed(x)
    BY <1>1, FiledIsNumber
  <2> QED
    BY <2>1, <2>2, NumbersAreNat DEF get
<1> QED
    BY <1>1, <1>3

LEMMA LoadingTypes ==
    ASSUME Types, OfFile, pc # "idle", Loading,
           pc' \in {"idle", "sections", "names", "segments"},
           sections' \in Seq(SectionType), segments' \in Seq(SegmentType)
    PROVE  Types' /\ OfFile'
<1>1. /\ need_conversion' = need_conversion /\ header' = header /\ source' = source /\ f' = f
      /\ source = "file"
    BY DEF Loading, Types
<1>2. Types'
    BY <1>1 DEF Types
<1>3. OfFile'
    BY <1>1 DEF OfFile
<1> QED
    BY <1>2, <1>3

(* A step of load that changes no section. *)
LEMMA SectionsStay ==
    ASSUME ReaderInv, Loading, sections' = sections
    PROVE  /\ Buffers'
           /\ source = "file" => \A k \in DOMAIN sections' : SectionFiled(sections[k], k)'
           /\ \A name, k : NameFiled(name, k)' <=> NameFiled(name, k)
<1>1. need_conversion' = need_conversion /\ f' = f
    BY DEF Loading
<1>2. ASSUME NEW k \in DOMAIN sections'
      PROVE  Sound(sections[k])'
  <2>1. PICK s : s = sections[k]
    OBVIOUS
  <2>2. Sound(s)
    BY <2>1 DEF ReaderInv, Buffers
  <2>3. Sound(s)'
    BY <1>1, <2>2, SectionStill
  <2> QED
    BY <2>1, <2>3
<1>3. ASSUME source = "file", NEW k \in DOMAIN sections'
      PROVE  SectionFiled(sections[k], k)'
  <2>1. PICK s : s = sections[k]
    OBVIOUS
  <2>2. SectionFiled(s, k)
    BY <1>3, <2>1 DEF ReaderInv, SectionsFiled
  <2>3. SectionFiled(s, k)'
    BY <1>1, <2>2, SectionFiledStill
  <2> QED
    BY <2>1, <2>3
<1>4. \A name, k : NameFiled(name, k)' <=> NameFiled(name, k)
    BY <1>1, NameFiledStill
<1> QED
    BY <1>2, <1>3, <1>4 DEF Buffers

(* A step of load that changes no section and no segment. *)
LEMMA SegmentsStay ==
    ASSUME ReaderInv, Loading, sections' = sections, segments' = segments
    PROVE  /\ SegmentsApart'
           /\ source = "file" => \A g \in DOMAIN segments' : SegmentFiled(segments[g])'
           /\ (\A g \in DOMAIN segments : Sees(segments[g])) =>
                  \A g \in DOMAIN segments' : Sees(segments[g])'
<1>1. need_conversion' = need_conversion /\ f' = f
    BY DEF Loading
<1>2. ASSUME source = "file", NEW g \in DOMAIN segments'
      PROVE  SegmentFiled(segments[g])'
  <2>1. PICK t : t = segments[g]
    OBVIOUS
  <2>2. SegmentFiled(t)
    BY <1>2, <2>1 DEF ReaderInv, SegmentsFiled
  <2>3. SegmentFiled(t)'
    BY <1>1, <2>2, SegmentFiledStill
  <2> QED
    BY <2>1, <2>3
<1>3. ASSUME \A g \in DOMAIN segments : Sees(segments[g]), NEW g \in DOMAIN segments'
      PROVE  Sees(segments[g])'
  <2>1. PICK t : t = segments[g]
    OBVIOUS
  <2>2. Sees(t)
    BY <1>3, <2>1
  <2>3. Sees(t)'
    BY <1>1, <2>2, SeesStill
  <2> QED
    BY <2>1, <2>3
<1>4. SegmentsApart'
    BY DEF ReaderInv, SegmentsApart
<1> QED
    BY <1>2, <1>3, <1>4

(* Without a section there is nothing to say of them. *)
LEMMA NoSections ==
    ASSUME sections = << >>
    PROVE  /\ Buffers
           /\ \A k \in DOMAIN sections : SectionFiled(sections[k], k)
           /\ NamesFiled
BY DEF Buffers, NamesFiled

LEMMA SmallSectionHeadersInv ==
    ASSUME ReaderInv, SmallSectionHeaders
    PROVE  ReaderInv'
<1>1. /\ pc = "sections" /\ pc' = "segments" /\ sections' = sections /\ segments' = segments
      /\ Loading
    BY DEF SmallSectionHeaders
<1>2. /\ FileOpen /\ source = "file" /\ header.class = f.class
      /\ \A x \in FileFields : get(x) = Filed(x) /\ Filed(x) \in Nat
    BY <1>1, Reading DEF ReaderInv
<1>3. Types' /\ OfFile'
    BY <1>1, LoadingTypes DEF ReaderInv, Types
<1>4. FiledSections = 0
  <2>1. get("shentsize") < HeaderSize[header.class].section
    BY DEF SmallSectionHeaders
  <2> QED
    BY <1>2, <2>1 DEF FiledSections, FileFields
<1>5. Len(sections) = 0 /\ DOMAIN sections = {}
  <2>1. Len(sections) <= 0 /\ sections \in Seq(SectionType)
    BY <1>2, <1>4 DEF ReaderInv, SectionsFiled, Types
  <2> QED
    BY <2>1
<1>6. segments = << >>
    BY <1>1, <1>2 DEF ReaderInv, SegmentsFiled
<1>7. f' = f /\ source' = source
    BY <1>1 DEF Loading
<1>8. Buffers'
    BY <1>1, SectionsStay
<1>9. SectionsFiled' /\ NamesFiled'
    BY <1>1, <1>4, <1>5, <1>7, FileStill DEF SectionsFiled, NamesFiled
<1>10. SegmentsFiled' /\ SegmentsSee'
  <2>1. DOMAIN segments' = {} /\ Len(segments') = 0
    BY <1>1, <1>6
  <2>2. Filed("phnum")' \in Nat
    BY <1>2, <1>7, FileStill DEF FileFields
  <2>3. Len(segments') <= Filed("phnum")'
    BY <2>1, <2>2
  <2> QED
    BY <1>1, <2>1, <2>3 DEF SegmentsFiled, SegmentsSee
<1>11. SegmentsApart'
    BY <1>1, SegmentsStay
<1> QED
    BY <1>3, <1>8, <1>9, <1>10, <1>11 DEF ReaderInv

LEMMA AddLoadedInv ==
    ASSUME ReaderInv, AddLoaded
    PROVE  ReaderInv'
<1>1. pc = "sections" /\ pc' = "sections" /\ segments' = segments /\ Loading
    BY DEF AddLoaded
<1>2. /\ FileOpen /\ source = "file" /\ header.class = f.class
      /\ \A x \in FileFields : get(x) = Filed(x) /\ Filed(x) \in Nat
    BY <1>1, Reading DEF ReaderInv
<1>3. need_conversion' = need_conversion /\ f' = f /\ source' = source
    BY <1>1 DEF Loading
<1>4. sections \in Seq(SectionType)
    BY DEF ReaderInv, Types
<1>5. PICK n \in Nat : n = Len(sections)
    BY <1>4
<1>6. PICK k \in Nat \ {0} : k = n + 1 /\ n = k - 1
    BY <1>5
<1>7. PICK s : s = LoadSection(NewSection(n), f, HeaderAt(k), HeaderSize[f.class].section)
    OBVIOUS
<1>8. Read(s, k)
    BY <1>2, <1>6, <1>7, ReadIs
<1>9. s \in SectionType /\ Sound(s) /\ s.name = << >> /\ SectionFiled(s, k)
    BY <1>8 DEF Read
<1>10. sections' = Append(sections, s)
  <2>1. get("shoff") + n * get("shentsize") = HeaderAt(k)
    BY <1>2, <1>6 DEF HeaderAt, FileFields
  <2> QED
    BY <1>2, <1>5, <1>7, <2>1 DEF AddLoaded
<1>11. /\ sections' \in Seq(SectionType) /\ Len(sections') = n + 1 /\ DOMAIN sections' = 1..(n + 1)
       /\ sections'[k] = s /\ \A j \in 1..n : sections'[j] = sections[j]
    BY <1>4, <1>5, <1>6, <1>9, <1>10
<1>12. Types' /\ OfFile'
  <2>1. segments' \in Seq(SegmentType)
    BY <1>1 DEF ReaderInv, Types
  <2> QED
    BY <1>1, <1>11, <2>1, LoadingTypes DEF ReaderInv
<1>13. ASSUME NEW j \in 1..(n + 1)
       PROVE  Sound(sections[j])' /\ SectionFiled(sections[j], j)' /\ sections'[j].name = << >>
  <2>1. PICK t : t = sections'[j]
    OBVIOUS
  <2>2. Sound(t) /\ SectionFiled(t, j) /\ t.name = << >>
    <3>1. CASE j = k
        BY <1>9, <1>11, <2>1, <3>1
    <3>2. CASE j # k
      <4>1. j \in 1..n /\ j \in DOMAIN sections /\ t = sections[j]
        BY <1>4, <1>5, <1>6, <1>11, <2>1, <3>2
      <4> QED
        BY <1>1, <1>2, <4>1 DEF ReaderInv, Buffers, SectionsFiled, NamesFiled
    <3> QED
        BY <3>1, <3>2
  <2>3. Sound(t)' /\ SectionFiled(t, j)'
    BY <1>3, <2>2, SectionStill, SectionFiledStill
  <2> QED
    BY <2>1, <2>2, <2>3
<1>14. Buffers'
    BY <1>11, <1>13 DEF Buffers
<1>15. NamesFiled'
    BY <1>1, <1>11, <1>13 DEF NamesFiled
<1>16. SectionsFiled'
  <2>1. n < get("shnum") /\ ~(get("shentsize") < HeaderSize[header.class].section)
    <3>1. get("shentsize") >= HeaderSize[header.class].section /\ Len(sections) < get("shnum")
        BY DEF AddLoaded
    <3>2. HeaderSize[f.class].section \in Nat
        BY <1>2, NumbersAreNat, HeaderSizeAssumption DEF FileOpen
    <3> QED
        BY <1>2, <1>5, <3>1, <3>2 DEF FileFields
  <2>2. FiledSections = Filed("shnum") /\ Filed("shnum") \in Nat /\ n < Filed("shnum")
    BY <1>2, <2>1 DEF FiledSections, FileFields
  <2>3. Len(sections') <= FiledSections'
    BY <1>3, <1>11, <2>2, FileStill
  <2> QED
    BY <1>1, <1>11, <1>13, <2>3 DEF SectionsFiled
<1>17. segments = << >>
    BY <1>1, <1>2 DEF ReaderInv, SegmentsFiled
<1>18. SegmentsFiled' /\ SegmentsSee' /\ SegmentsApart'
  <2>1. DOMAIN segments' = {} /\ Len(segments') = 0 /\ segments' = << >>
    BY <1>1, <1>17
  <2>2. Filed("phnum")' \in Nat
    BY <1>2, <1>3, FileStill DEF FileFields
  <2>3. Len(segments') <= Filed("phnum")'
    BY <2>1, <2>2
  <2> QED
    BY <1>1, <2>1, <2>3 DEF SegmentsFiled, SegmentsSee, SegmentsApart
<1> QED
    BY <1>12, <1>14, <1>15, <1>16, <1>18 DEF ReaderInv

LEMMA SectionsReadInv ==
    ASSUME ReaderInv, SectionsRead
    PROVE  ReaderInv'
<1>1. /\ pc = "sections" /\ pc' = "names" /\ sections' = sections /\ segments' = segments
      /\ Loading /\ Len(sections) = get("shnum")
    BY DEF SectionsRead
<1>2. /\ FileOpen /\ source = "file" /\ header.class = f.class
      /\ \A x \in FileFields : get(x) = Filed(x) /\ Filed(x) \in Nat
    BY <1>1, Reading DEF ReaderInv
<1>3. f' = f /\ source' = source
    BY <1>1 DEF Loading
<1>4. Types' /\ OfFile'
    BY <1>1, LoadingTypes DEF ReaderInv, Types
<1>5. /\ Buffers' /\ \A k \in DOMAIN sections' : SectionFiled(sections[k], k)'
      /\ SegmentsApart' /\ \A g \in DOMAIN segments' : SegmentFiled(segments[g])'
    BY <1>1, <1>2, SectionsStay, SegmentsStay
<1>6. Len(sections) = FiledSections
  <2>1. Len(sections) <= FiledSections /\ Len(sections) = Filed("shnum") /\ Filed("shnum") \in Nat
    BY <1>1, <1>2 DEF ReaderInv, SectionsFiled, FileFields
  <2> QED
    BY <2>1 DEF FiledSections
<1>7. SectionsFiled'
  <2>1. Len(sections') = FiledSections' /\ Len(sections') \in Nat
    BY <1>1, <1>2, <1>3, <1>6, FileStill DEF FileFields
  <2>2. Len(sections') <= FiledSections'
    BY <2>1
  <2> QED
    BY <1>5, <2>1, <2>2 DEF SectionsFiled
<1>8. NamesFiled'
    BY <1>1, <1>2 DEF ReaderInv, NamesFiled
<1>9. SegmentsFiled' /\ SegmentsSee'
  <2>1. segments = << >> /\ Len(segments) <= Filed("phnum")
    BY <1>1, <1>2 DEF ReaderInv, SegmentsFiled
  <2>2. Filed("phnum")' = Filed("phnum")
    BY <1>3, FileStill
  <2> QED
    BY <1>1, <1>5, <2>1, <2>2 DEF SegmentsFiled, SegmentsSee
<1> QED
    BY <1>4, <1>5, <1>7, <1>8, <1>9 DEF ReaderInv

(* Each section is named. *)
LEMMA SectionsNamed ==
    ASSUME ReaderInv, NameSections, NEW k \in DOMAIN sections
    PROVE  /\ get("shstrndx") + 1 \in DOMAIN sections
           /\ NamedBy(sections'[k], sections[k], sections[get("shstrndx") + 1], k)
<1>1. pc = "names" /\ Loading
    BY DEF NameSections
<1>2. /\ FileOpen /\ source = "file"
      /\ \A x \in FileFields : get(x) = Filed(x) /\ Filed(x) \in Nat
    BY <1>1, Reading DEF ReaderInv
<1>3. sections \in Seq(SectionType) /\ Len(sections) = FiledSections
    BY <1>1, <1>2 DEF ReaderInv, Types, SectionsFiled
<1>4. PICK n \in Nat : n = get("shstrndx") + 1 /\ n = Filed("shstrndx") + 1
    BY <1>2 DEF FileFields
<1>5. n \in 2..FiledSections /\ n \in DOMAIN sections
  <2>1. get("shstrndx") \in 1..(Len(sections) - 1) /\ get("shstrndx") \in Nat
    BY <1>2 DEF NameSections, FileFields
  <2>2. PICK len \in Nat : len = Len(sections)
    BY <1>3
  <2>3. n \in 2..len /\ n \in 1..len
    BY <1>4, <2>1, <2>2
  <2> QED
    BY <1>3, <2>2, <2>3
<1>6. PICK table \in SectionType : table = sections[n]
    BY <1>3, <1>5
<1>7. PICK s \in SectionType : s = sections[k]
    BY <1>3
<1>8. SectionFiled(table, n) /\ SectionFiled(s, k) /\ Sound(s) /\ s.name = << >>
    BY <1>1, <1>2, <1>5, <1>6, <1>7 DEF ReaderInv, Buffers, SectionsFiled, NamesFiled
<1>9. k \in Nat \ {0}
    BY <1>3
<1>10. NamedBy(Named(s, table), s, table, k)
    BY <1>2, <1>4, <1>5, <1>8, <1>9, NamedIs
<1>11. sections'[k] = Named(s, table)
    BY <1>4, <1>6, <1>7 DEF NameSections
<1> QED
    BY <1>4, <1>5, <1>6, <1>7, <1>10, <1>11

LEMMA NameSectionsInv ==
    ASSUME ReaderInv, NameSections
    PROVE  ReaderInv'
<1>1. pc = "names" /\ pc' = "segments" /\ segments' = segments /\ Loading
    BY DEF NameSections
<1>2. /\ FileOpen /\ source = "file"
      /\ \A x \in FileFields : get(x) = Filed(x) /\ Filed(x) \in Nat
    BY <1>1, Reading DEF ReaderInv
<1>3. need_conversion' = need_conversion /\ f' = f /\ source' = source
    BY <1>1 DEF Loading
<1>4. sections \in Seq(SectionType) /\ Len(sections) = FiledSections
    BY <1>1, <1>2 DEF ReaderInv, Types, SectionsFiled
<1>5. ASSUME NEW k \in DOMAIN sections
      PROVE  /\ sections'[k] \in SectionType
             /\ Sound(sections[k])' /\ SectionFiled(sections[k], k)'
             /\ NameFiled(sections[k].name, k)'
  <2>1. PICK t : t = sections'[k]
    OBVIOUS
  <2>2. t \in SectionType /\ Sound(t) /\ SectionFiled(t, k) /\ NameFiled(t.name, k)
    BY <2>1, SectionsNamed DEF NamedBy
  <2>3. PICK name : name = t.name
    OBVIOUS
  <2>4. Sound(t)' /\ SectionFiled(t, k)' /\ NameFiled(name, k)'
    BY <1>3, <2>2, <2>3, SectionStill, SectionFiledStill, NameFiledStill
  <2> QED
    BY <2>1, <2>2, <2>3, <2>4
<1>6. /\ sections' \in Seq(SectionType) /\ Len(sections') = Len(sections)
      /\ DOMAIN sections' = DOMAIN sections
  <2>1. PICK n \in Nat : n = Len(sections) /\ DOMAIN sections = 1..n
    BY <1>4
  <2>2. DOMAIN sections' = 1..n /\ sections' = [k \in 1..n |-> sections'[k]]
    BY <2>1 DEF NameSections
  <2>3. sections' \in [1..n -> SectionType]
    BY <1>5, <2>1, <2>2
  <2> QED
    BY <2>1, <2>3
<1>7. Types' /\ OfFile'
  <2>1. segments' \in Seq(SegmentType)
    BY <1>1 DEF ReaderInv, Types
  <2> QED
    BY <1>1, <1>6, <2>1, LoadingTypes DEF ReaderInv
<1>8. Buffers'
    BY <1>5, <1>6 DEF Buffers
<1>9. SectionsFiled'
  <2>1. Len(sections') = FiledSections' /\ Len(sections') <= FiledSections'
    BY <1>3, <1>4, <1>6, FileStill
  <2> QED
    BY <1>5, <1>6, <2>1 DEF SectionsFiled
<1>10. NamesFiled'
    BY <1>1, <1>5, <1>6 DEF NamesFiled
<1>11. segments = << >>
    BY <1>1, <1>2 DEF ReaderInv, SegmentsFiled
<1>12. SegmentsFiled' /\ SegmentsSee' /\ SegmentsApart'
  <2>1. DOMAIN segments' = {} /\ Len(segments') = 0 /\ segments' = << >>
    BY <1>1, <1>11
  <2>2. Filed("phnum")' \in Nat
    BY <1>2, <1>3, FileStill DEF FileFields
  <2>3. Len(segments') <= Filed("phnum")'
    BY <2>1, <2>2
  <2> QED
    BY <1>1, <2>1, <2>3 DEF SegmentsFiled, SegmentsSee, SegmentsApart
<1> QED
    BY <1>7, <1>8, <1>9, <1>10, <1>12 DEF ReaderInv

LEMMA NoNamesInv ==
    ASSUME ReaderInv, NoNames
    PROVE  ReaderInv'
<1>1. /\ pc = "names" /\ pc' = "segments" /\ sections' = sections /\ segments' = segments
      /\ Loading
    BY DEF NoNames
<1>2. /\ FileOpen /\ source = "file"
      /\ \A x \in FileFields : get(x) = Filed(x) /\ Filed(x) \in Nat
    BY <1>1, Reading DEF ReaderInv
<1>3. f' = f /\ source' = source
    BY <1>1 DEF Loading
<1>4. Types' /\ OfFile'
    BY <1>1, LoadingTypes DEF ReaderInv, Types
<1>5. /\ Buffers' /\ \A k \in DOMAIN sections' : SectionFiled(sections[k], k)'
      /\ SegmentsApart' /\ \A g \in DOMAIN segments' : SegmentFiled(segments[g])'
      /\ \A name, k : NameFiled(name, k)' <=> NameFiled(name, k)
    BY <1>1, <1>2, SectionsStay, SegmentsStay
<1>6. /\ sections \in Seq(SectionType) /\ Len(sections) = FiledSections
      /\ segments = << >> /\ Len(segments) <= Filed("phnum")
      /\ \A k \in DOMAIN sections : sections[k].name = << >>
    BY <1>1, <1>2 DEF ReaderInv, Types, SectionsFiled, SegmentsFiled, NamesFiled
<1>7. \A place : FiledNames(place) = {}
  <2>1. PICK n \in Nat : n = Filed("shstrndx") /\ n = get("shstrndx")
    BY <1>2 DEF FileFields
  <2>2. PICK len \in Nat : len = Len(sections)
    BY <1>6
  <2>3. n \notin 1..(len - 1)
    BY <2>1, <2>2 DEF NoNames
  <2>4. n + 1 \notin 2..len
    BY <2>3
  <2> QED
    BY <1>6, <2>1, <2>2, <2>4 DEF FiledNames
<1>8. ASSUME NEW k \in DOMAIN sections'
      PROVE  NameFiled(sections[k].name, k)'
  <2>1. PICK name : name = sections[k].name
    OBVIOUS
  <2>2. NameFiled(name, k)
    BY <1>1, <1>6, <1>7, <2>1 DEF NameFiled
  <2>3. NameFiled(name, k)'
    BY <1>5, <2>2
  <2> QED
    BY <1>1, <2>1, <2>3
<1>9. NamesFiled'
    BY <1>1, <1>8 DEF NamesFiled
<1>10. SectionsFiled'
  <2>1. Len(sections') = FiledSections' /\ Len(sections') <= FiledSections'
    BY <1>1, <1>3, <1>6, FileStill
  <2> QED
    BY <1>5, <2>1 DEF SectionsFiled
<1>11. SegmentsFiled' /\ SegmentsSee'
  <2>1. Filed("phnum")' = Filed("phnum")
    BY <1>3, FileStill
  <2> QED
    BY <1>1, <1>5, <1>6, <2>1 DEF SegmentsFiled, SegmentsSee
<1> QED
    BY <1>4, <1>5, <1>9, <1>10, <1>11 DEF ReaderInv

LEMMA AddSegmentInv ==
    ASSUME ReaderInv, AddSegment
    PROVE  ReaderInv'
<1>1. /\ pc = "segments" /\ pc' = "segments" /\ sections' = sections /\ Loading
      /\ Len(segments) < get("phnum") /\ Readable
    BY DEF AddSegment, MoreSegments
<1>2. /\ FileOpen /\ source = "file" /\ header.class = f.class
      /\ \A x \in FileFields : get(x) = Filed(x) /\ Filed(x) \in Nat
    BY <1>1, Reading DEF ReaderInv
<1>3. need_conversion' = need_conversion /\ f' = f /\ source' = source
    BY <1>1 DEF Loading
<1>4. sections \in Seq(SectionType) /\ segments \in Seq(SegmentType) /\ need_conversion \in BOOLEAN
    BY DEF ReaderInv, Types
<1>5. PICK n \in Nat : n = Len(segments)
    BY <1>4
<1>6. PICK at : at = SegmentPlace
    OBVIOUS
<1>7. at \in 0..f.size
  <2>1. PICK off, size \in Nat : off = get("phoff") /\ size = get("phentsize")
    BY <1>2 DEF FileFields
  <2>2. PICK need \in Nat : need = HeaderSize[header.class].segment
    <3>1. HeaderSize[f.class].segment \in Number
        BY <1>2, HeaderSizeAssumption DEF FileOpen
    <3> QED
        BY <1>2, <3>1, NumbersAreNat
  <2>3. PICK all \in Nat : all = f.size
    BY <1>2, FilesAssumption DEF FileOpen
  <2>4. PICK m \in Nat : m = n * size
    OBVIOUS
  <2>5. at = off + m /\ at + need <= all
    BY <1>1, <1>5, <1>6, <2>1, <2>2, <2>3, <2>4 DEF Readable, SegmentPlace
  <2> QED
    BY <2>3, <2>5
<1>8. PICK g : g = Segment(at)
    OBVIOUS
<1>9. g \in SegmentType /\ SegmentFiled(g) /\ Sees(g)
    BY <1>2, <1>4, <1>7, <1>8, SegmentIs
<1>10. /\ segments' = Append(segments, g) /\ segments' \in Seq(SegmentType)
       /\ Len(segments') = n + 1 /\ DOMAIN segments' = 1..(n + 1) /\ segments'[n + 1] = g
       /\ \A j \in 1..n : segments'[j] = segments[j]
  <2>1. segments' = Append(segments, g)
    BY <1>6, <1>8 DEF AddSegment
  <2> QED
    BY <1>4, <1>5, <1>9, <2>1
<1>11. Types' /\ OfFile'
    BY <1>1, <1>4, <1>10, LoadingTypes DEF ReaderInv
<1>12. /\ Buffers' /\ \A k \in DOMAIN sections' : SectionFiled(sections[k], k)'
       /\ \A name, k : NameFiled(name, k)' <=> NameFiled(name, k)
    BY <1>1, <1>2, SectionsStay
<1>13. SectionsFiled'
  <2>1. Len(sections') = FiledSections' /\ Len(sections') <= FiledSections'
    BY <1>1, <1>2, <1>3, FileStill DEF ReaderInv, SectionsFiled
  <2> QED
    BY <1>12, <2>1 DEF SectionsFiled
<1>14. NamesFiled'
  <2>1. ASSUME NEW k \in DOMAIN sections'
        PROVE  NameFiled(sections[k].name, k)'
    <3>1. PICK name : name = sections[k].name
        OBVIOUS
    <3>2. NameFiled(name, k)
        BY <1>1, <1>2, <3>1 DEF ReaderInv, NamesFiled
    <3>3. NameFiled(name, k)'
        BY <1>12, <3>2
    <3> QED
        BY <1>1, <3>1, <3>3
  <2> QED
    BY <1>1, <2>1 DEF NamesFiled
<1>15. ASSUME NEW j \in 1..(n + 1)
       PROVE  segments'[j] \in SegmentType /\ SegmentFiled(segments'[j]) /\ Sees(segments'[j])
  <2>1. CASE j = n + 1
    BY <1>9, <1>10, <2>1
  <2>2. CASE j # n + 1
    <3>1. j \in 1..n /\ j \in DOMAIN segments
        BY <1>4, <1>5, <2>2
    <3> QED
        BY <1>1, <1>2, <1>4, <1>10, <3>1 DEF ReaderInv, SegmentsFiled, SegmentsSee
  <2> QED
    BY <2>1, <2>2
<1>16. ASSUME NEW j \in 1..(n + 1)
       PROVE  SegmentFiled(segments[j])' /\ Sees(segments[j])'
  <2>1. PICK t : t = segments'[j]
    OBVIOUS
  <2>2. SegmentFiled(t)' /\ Sees(t)'
    BY <1>1, <1>3, <1>15, <2>1, SegmentFiledStill, SeesStill
  <2> QED
    BY <2>1, <2>2
<1>17. SegmentsSee'
    BY <1>10, <1>16 DEF SegmentsSee
<1>18. SegmentsFiled'
  <2>1. n + 1 <= Filed("phnum")' /\ Len(segments') <= Filed("phnum")'
    <3>1. PICK m \in Nat : m = get("phnum") /\ m = Filed("phnum")'
        BY <1>2, <1>3, FileStill DEF FileFields
    <3> QED
        BY <1>1, <1>5, <1>10, <3>1
  <2> QED
    BY <1>1, <1>10, <1>16, <2>1 DEF SegmentsFiled
<1>19. SegmentsApart'
  <2>1. ASSUME NEW i \in DOMAIN segments', NEW j \in DOMAIN segments',
               Apart(segments'[i].header.vaddr, segments'[i].header.memsz,
                     segments'[j].header.vaddr, segments'[j].header.memsz),
               Apart(segments'[i].header.offset, segments'[i].header.filesz,
                     segments'[j].header.offset, segments'[j].header.filesz)
        PROVE  segments'[i].sections \cap segments'[j].sections = {}
    <3>1. PICK a, b \in SegmentType : a = segments'[i] /\ b = segments'[j] /\ Sees(a) /\ Sees(b)
        BY <1>10, <1>15
    <3>2. a.sections \cap b.sections = {}
        BY <1>4, <2>1, <3>1, SeenApart
    <3> QED
        BY <3>1, <3>2
  <2> QED
    BY <2>1 DEF SegmentsApart, Apart
<1> QED
    BY <1>11, <1>12, <1>13, <1>14, <1>17, <1>18, <1>19 DEF ReaderInv

(* The end of load, with or without success. *)
LEMMA LoadEndsInv ==
    ASSUME ReaderInv, SegmentFails \/ Loaded
    PROVE  ReaderInv'
<1>1. /\ pc = "segments" /\ pc' = "idle" /\ sections' = sections /\ segments' = segments
      /\ Loading
    BY DEF SegmentFails, Loaded, MoreSegments, Fail
<1>2. /\ FileOpen /\ source = "file"
      /\ \A x \in FileFields : get(x) = Filed(x) /\ Filed(x) \in Nat
    BY <1>1, Reading DEF ReaderInv
<1>3. f' = f /\ source' = source
    BY <1>1 DEF Loading
<1>4. Types' /\ OfFile'
    BY <1>1, LoadingTypes DEF ReaderInv, Types
<1>5. /\ Buffers' /\ \A k \in DOMAIN sections' : SectionFiled(sections[k], k)'
      /\ SegmentsApart' /\ \A g \in DOMAIN segments' : SegmentFiled(segments[g])'
      /\ \A name, k : NameFiled(name, k)' <=> NameFiled(name, k)
    BY <1>1, <1>2, SectionsStay, SegmentsStay
<1>6. SectionsFiled'
  <2>1. Len(sections') = FiledSections' /\ Len(sections') <= FiledSections'
    BY <1>1, <1>2, <1>3, FileStill DEF ReaderInv, SectionsFiled
  <2> QED
    BY <1>5, <2>1 DEF SectionsFiled
<1>7. NamesFiled'
  <2>1. ASSUME NEW k \in DOMAIN sections'
        PROVE  NameFiled(sections[k].name, k)'
    <3>1. PICK name : name = sections[k].name
        OBVIOUS
    <3>2. NameFiled(name, k)
        BY <1>1, <1>2, <3>1 DEF ReaderInv, NamesFiled
    <3>3. NameFiled(name, k)'
        BY <1>5, <3>2
    <3> QED
        BY <1>1, <3>1, <3>3
  <2> QED
    BY <1>1, <2>1 DEF NamesFiled
<1>8. Len(segments) <= Filed("phnum") /\ Filed("phnum")' = Filed("phnum")
    BY <1>1, <1>2, <1>3, FileStill DEF ReaderInv, SegmentsFiled
<1>9. result' => Len(segments) = Filed("phnum")
  <2>1. CASE SegmentFails
    BY <2>1 DEF SegmentFails, Fail
  <2>2. CASE Loaded
    <3>1. ~(Len(segments) < get("phnum"))
        BY <1>1, <2>2 DEF Loaded, MoreSegments
    <3>2. get("phnum") = Filed("phnum") /\ Filed("phnum") \in Nat
        BY <1>2 DEF FileFields
    <3>3. Len(segments) \in Nat
        BY DEF ReaderInv, Types
    <3> QED
        BY <1>8, <3>1, <3>2, <3>3
  <2> QED
    BY <2>1, <2>2
<1>10. SegmentsFiled' /\ SegmentsSee'
    BY <1>1, <1>5, <1>8, <1>9 DEF SegmentsFiled, SegmentsSee
<1> QED
    BY <1>4, <1>5, <1>6, <1>7, <1>10 DEF ReaderInv

(* An object that holds no file. *)
LEMMA NotOfFile ==
    ASSUME Types', Buffers', SegmentsApart', source' # "file", pc' = "idle"
    PROVE  ReaderInv'
<1>1. OfFile' /\ SectionsFiled' /\ NamesFiled' /\ SegmentsFiled' /\ SegmentsSee'
    BY DEF OfFile, SectionsFiled, NamesFiled, SegmentsFiled, SegmentsSee
<1> QED
    BY <1>1 DEF ReaderInv

LEMMA Emptied ==
    ASSUME sections' = << >>, segments' = << >>
    PROVE  /\ sections' \in Seq(SectionType) /\ segments' \in Seq(SegmentType)
           /\ DOMAIN sections' = {} /\ Len(sections') = 0
           /\ DOMAIN segments' = {} /\ Len(segments') = 0
           /\ Buffers' /\ SegmentsApart'
<1>1. DOMAIN sections' = {} /\ Len(sections') = 0 /\ DOMAIN segments' = {} /\ Len(segments') = 0
    OBVIOUS
<1>2. sections' \in Seq(SectionType) /\ segments' \in Seq(SegmentType)
    OBVIOUS
<1>3. Buffers' /\ SegmentsApart'
    BY <1>1 DEF Buffers, SegmentsApart
<1> QED
    BY <1>1, <1>2, <1>3

LEMMA RejectFileInv ==
    ASSUME ReaderInv, NEW file \in Files, RejectFile(file)
    PROVE  ReaderInv'
<1>1. /\ sections' = << >> /\ segments' = << >> /\ source' = "none" /\ pc' = "idle"
      /\ need_conversion' = need_conversion /\ header' = header
    BY DEF RejectFile, Start, Fail
<1>2. Types'
    BY <1>1, Emptied DEF ReaderInv, Types
<1> QED
    BY <1>1, <1>2, Emptied, NotOfFile

LEMMA ShortFileInv ==
    ASSUME ReaderInv, NEW file \in Files, ShortFile(file)
    PROVE  ReaderInv'
<1>1. /\ sections' = << >> /\ segments' = << >> /\ source' = "none" /\ pc' = "idle"
      /\ need_conversion' = (file.encoding # Host)
      /\ header' = NewHeader(file.class, file.encoding) /\ file.class \in Classes
    BY DEF ShortFile, Start, Fail, IsElf
<1>2. header'.fields \in [FileFields -> Number]
    BY <1>1, NewHeaderIs
<1>3. Types'
    BY <1>1, <1>2, Emptied DEF Types
<1> QED
    BY <1>1, <1>3, Emptied, NotOfFile

LEMMA OpenFileInv ==
    ASSUME ReaderInv, NEW file \in Files, OpenFile(file)
    PROVE  ReaderInv'
<1>1. /\ sections' = << >> /\ segments' = << >> /\ source' = "file" /\ pc' = "sections"
      /\ need_conversion' = (file.encoding # Host) /\ f' = file
      /\ file.class \in Classes /\ file.encoding \in {"LSB", "MSB"}
    BY DEF OpenFile, Start, IsElf
<1>2. /\ header'.class = file.class
      /\ header'.fields = [x \in FileFields |-> Joined(Host, file.ehdr[x])]
    BY DEF OpenFile
<1>3. ASSUME NEW x \in FileFields
      PROVE  Joined(Host, file.ehdr[x]) \in Number /\ Filed(x)' \in Nat
  <2>1. file.ehdr[x] \in Digits
    BY FilesAssumption
  <2>2. Joined(Host, file.ehdr[x]) \in Number /\ Joined(file.encoding, file.ehdr[x]) \in Number
    BY <1>1, <2>1, ConvertJoined, HostAssumption
  <2> QED
    BY <1>1, <2>2, NumbersAreNat DEF Filed
<1>4. header'.fields \in [FileFields -> Number]
    BY <1>2, <1>3
<1>5. Types'
    BY <1>1, <1>4, Emptied DEF Types
<1>6. OfFile'
    BY <1>1, <1>2 DEF OfFile
<1>7. SectionsFiled'
  <2>1. FiledSections' \in Nat
    BY <1>3 DEF FiledSections, FileFields
  <2>2. Len(sections') <= FiledSections'
    BY <1>1, <2>1, Emptied
  <2> QED
    BY <1>1, <2>2, Emptied DEF SectionsFiled
<1>8. SegmentsFiled'
  <2>1. Filed("phnum")' \in Nat
    BY <1>3 DEF FileFields
  <2>2. Len(segments') <= Filed("phnum")'
    BY <1>1, <2>1, Emptied
  <2> QED
    BY <1>1, <2>2, Emptied DEF SegmentsFiled
<1>9. NamesFiled' /\ SegmentsSee' /\ Buffers' /\ SegmentsApart'
    BY <1>1, Emptied DEF NamesFiled, SegmentsSee
<1> QED
    BY <1>5, <1>6, <1>7, <1>8, <1>9 DEF ReaderInv

(* The sections of a new object. *)
LEMMA MandatoryAre ==
    ASSUME need_conversion \in BOOLEAN
    PROVE  /\ MandatorySections \in Seq(SectionType) /\ Len(MandatorySections) = 2
           /\ Sound(MandatorySections[1]) /\ Sound(MandatorySections[2])
           /\ MandatorySections[1].name = << >>
           /\ Len(MandatorySections[2].data) \in Number =>
                  NameInTable(MandatorySections[2], MandatorySections[2])
<1>1. PICK first \in SectionType :
          first = NewSection(0) /\ Sound(first) /\ first.name = << >>
    BY NewSectionIs
<1>2. PICK all \in Seq(SectionType) :
          all = <<NewSection(0)>> /\ Len(all) = 1 /\ DOMAIN all = 1..1 /\ all[1] = first
  <2>1. /\ <<first>> \in Seq(SectionType) /\ Len(<<first>>) = 1 /\ DOMAIN <<first>> = 1..1
        /\ <<first>>[1] = first
    OBVIOUS
  <2> QED
    BY <1>1, <2>1
<1>3. \A k \in DOMAIN all : Sound(all[k])
    BY <1>1, <1>2
<1>4. ShStrTab \in Seq(Int \ {0})
    BY BytesAssumption
<1>5. Editable(Append(all, NewSection(Len(all)))[1 + 1])
  <2>1. Append(all, NewSection(Len(all)))[1 + 1] = NewSection(1)
    BY <1>2
  <2> QED
    BY <2>1, NewSectionIs
<1>6. PICK some : some = Added(all, ShStrTab, 1)
    OBVIOUS
<1>7. Lengthened(some, all, 2)
  <2>1. 1 \in 0..Len(all) /\ 1 + 1 = 2
    BY <1>2
  <2> QED
    BY <1>3, <1>4, <1>5, <1>6, <2>1, AddedIs
<1>8. /\ some \in Seq(SectionType) /\ Len(some) = 2 /\ DOMAIN some = 1..2
      /\ Sound(some[1]) /\ Sound(some[2]) /\ some[1].name = << >>
      /\ Get(some[2], "type") = SHT_NULL
      /\ Len(some[2].data) \in Number => NameInTable(some[2], some[2])
  <2>1. some \in Seq(SectionType) /\ Len(some) = 2 /\ DOMAIN some = 1..2
    BY <1>2, <1>7 DEF Lengthened
  <2> QED
    BY <1>1, <1>2, <1>7, <2>1 DEF Lengthened
<1>9. PICK s \in SectionType : s = some[2]
    BY <1>8
<1>10. PICK t \in SectionType : t = Set(s, "type", SHT_STRTAB)
    BY SetGet DEF HeaderFields, SHT_STRTAB
<1>11. Sound(t)
  <2>1. SHT_STRTAB \in Nat /\ "type" \in {"name", "type"}
    BY DEF SHT_STRTAB
  <2>2. Sound(s)
    BY <1>8, <1>9
  <2> QED
    BY <1>10, <2>1, <2>2, SetSound, Zenon
<1>12. t.name = s.name /\ t.data = s.data /\ Size(t) = Size(s) /\ Get(t, "name") = Get(s, "name")
  <2>1. SHT_STRTAB \in Nat /\ "type" \in HeaderFields
    BY DEF SHT_STRTAB, HeaderFields
  <2>2. t.name = s.name /\ t.data = s.data /\ \A y \in HeaderFields \ {"type"} : Get(t, y) = Get(s, y)
    BY <1>10, <2>1, SetGet
  <2> QED
    BY <2>2 DEF HeaderFields, Size
<1>13. Len(t.data) \in Number => NameInTable(t, t)
    BY <1>8, <1>9, <1>12, TableStrings DEF NameInTable, SHT_NULL, SHT_NOBITS
<1>14. MandatorySections = [some EXCEPT ![2] = t]
    BY <1>2, <1>6, <1>9, <1>10 DEF MandatorySections
<1>15. PICK new : new = [some EXCEPT ![2] = t]
    OBVIOUS
<1>16. new \in Seq(SectionType) /\ Len(new) = 2 /\ new[2] = t /\ new[1] = some[1]
  <2>1. 2 \in DOMAIN some /\ 1 \in DOMAIN some \ {2}
    BY <1>8
  <2>2. /\ new \in Seq(SectionType) /\ Len(new) = Len(some) /\ new[2] = t
        /\ \A j \in DOMAIN some \ {2} : new[j] = some[j]
    <3>1. /\ [some EXCEPT ![2] = t] \in Seq(SectionType)
          /\ Len([some EXCEPT ![2] = t]) = Len(some)
          /\ [some EXCEPT ![2] = t][2] = t
          /\ \A j \in DOMAIN some \ {2} : [some EXCEPT ![2] = t][j] = some[j]
        BY <1>8, <2>1, Replaced
    <3> QED
        BY <1>15, <3>1, Zenon
  <2> QED
    BY <1>8, <2>1, <2>2
<1> QED
    BY <1>8, <1>11, <1>13, <1>14, <1>15, <1>16

(* A new object: its sections, and the string table that its header names. *)
LEMMA CreatedIs ==
    ASSUME NEW class \in Classes, NEW encoding
    PROVE  (/\ need_conversion = (encoding # Host) /\ sections = MandatorySections
            /\ header = NewHeader(class, encoding)
            => /\ need_conversion \in BOOLEAN /\ header.fields \in [FileFields -> Number]
               /\ sections \in Seq(SectionType) /\ Buffers /\ Len(sections) = 2
               /\ sections[1].name = << >> /\ get("shstrndx") + 1 = 2
               /\ Len(sections[2].data) \in Number => NameInTable(sections[2], sections[2]))'
<1> DEFINE New == /\ need_conversion = (encoding # Host) /\ sections = MandatorySections
                  /\ header = NewHeader(class, encoding)
           Right == /\ need_conversion \in BOOLEAN /\ header.fields \in [FileFields -> Number]
                    /\ sections \in Seq(SectionType) /\ Buffers /\ Len(sections) = 2
                    /\ sections[1].name = << >> /\ get("shstrndx") + 1 = 2
                    /\ Len(sections[2].data) \in Number => NameInTable(sections[2], sections[2])
<1>1. New => Right
  <2> SUFFICES ASSUME New PROVE Right
    OBVIOUS
  <2>1. need_conversion \in BOOLEAN
    OBVIOUS
  <2>2. header.fields \in [FileFields -> Number]
    BY NewHeaderIs
  <2>3. /\ sections \in Seq(SectionType) /\ Len(sections) = 2
        /\ Sound(sections[1]) /\ Sound(sections[2]) /\ sections[1].name = << >>
        /\ Len(sections[2].data) \in Number => NameInTable(sections[2], sections[2])
    BY <2>1, MandatoryAre
  <2>4. DOMAIN sections = {1, 2}
    BY <2>3
  <2>5. Buffers
    BY <2>3, <2>4 DEF Buffers
  <2>6. get("shstrndx") = 1
    <3>1. header.fields["shstrndx"] = Convert(need_conversion, 1)
        BY DEF NewHeader, FileFields
    <3>2. 1 \in Number
      <4>1. PICK m \in Int : m = Base * Base /\ m > 1
        <5>1. Base \in Int /\ Base > 1
            BY BaseAssumption
        <5>2. Base * Base \in Int /\ Base * Base > 1
            BY <5>1
        <5> QED
            BY <5>2
      <4> QED
        BY <4>1 DEF Number
    <3>3. Convert(need_conversion, Convert(need_conversion, 1)) = 1
        BY <2>1, <3>2, ConvertBack
    <3> QED
        BY <3>1, <3>3 DEF get, convertor
  <2>7. get("shstrndx") + 1 = 2
    BY <2>6
  <2> HIDE DEF New
  <2> QED
    BY <2>1, <2>2, <2>3, <2>5, <2>7
<1> HIDE DEF New, Right
<1>2. (New => Right)'
    BY <1>1, PTL
<1> QED
    BY <1>2 DEF New, Right

LEMMA CreateInv ==
    ASSUME ReaderInv, NEW class \in Classes, NEW encoding, Create(class, encoding)
    PROVE  ReaderInv'
<1>1. /\ need_conversion' = (encoding # Host) /\ sections' = MandatorySections'
      /\ header' = NewHeader(class, encoding)
      /\ segments' = << >> /\ source' = "created" /\ pc' = "idle"
    BY DEF Create, Edit
<1>2. /\ need_conversion' \in BOOLEAN /\ header'.fields \in [FileFields -> Number]
      /\ sections' \in Seq(SectionType) /\ Buffers'
    BY <1>1, CreatedIs
<1>3. segments' \in Seq(SegmentType) /\ SegmentsApart'
    BY <1>1 DEF SegmentsApart
<1>4. Types'
    BY <1>1, <1>2, <1>3 DEF Types
<1> QED
    BY <1>1, <1>2, <1>3, <1>4, NotOfFile

(* Edits that leave header and segments alone. *)
LEMMA EditedInv ==
    ASSUME ReaderInv, Edit, UNCHANGED <<need_conversion, header, segments>>,
           source' = "edited", sections' \in Seq(SectionType),
           \A k \in DOMAIN sections' : Sound(sections'[k])
    PROVE  ReaderInv'
<1>1. pc' = "idle" /\ need_conversion' = need_conversion
    BY DEF Edit
<1>2. Types'
    BY <1>1 DEF ReaderInv, Types
<1>3. ASSUME NEW k \in DOMAIN sections'
      PROVE  Sound(sections[k])'
  <2>1. PICK t : t = sections'[k] /\ Sound(t)
    OBVIOUS
  <2>2. Sound(t)'
    BY <1>1, <2>1, SectionStill
  <2> QED
    BY <2>1, <2>2
<1>4. Buffers' /\ SegmentsApart'
    BY <1>3 DEF Buffers, ReaderInv, SegmentsApart
<1> QED
    BY <1>1, <1>2, <1>4, NotOfFile

(* What AddSection makes of the sections. *)
LEMMA AddSectionIs ==
    ASSUME Types, Buffers, NEW name \in Names, AddSection(name)
    PROVE  get("shstrndx") + 1 \in Nat /\ Lengthened(sections', sections, get("shstrndx") + 1)
<1>1. sections \in Seq(SectionType) /\ need_conversion \in BOOLEAN
    BY DEF Types
<1>2. PICK index \in Nat : index = get("shstrndx")
  <2>1. header.fields["shstrndx"] \in Number
    BY DEF Types, FileFields
  <2> QED
    BY <1>1, <2>1, ConvertBack, NumbersAreNat DEF get, convertor
<1>3. index <= Len(sections) /\ index \in 0..Len(sections)
    BY <1>1, <1>2 DEF AddSection
<1>4. name \in Seq(Int \ {0})
    BY BytesAssumption
<1>5. Editable(Append(sections, NewSection(Len(sections)))[index + 1])
    BY <1>2 DEF AddSection
<1>6. sections' = Added(sections, name, index)
    BY <1>2 DEF AddSection
<1>7. Lengthened(Added(sections, name, index), sections, index + 1)
    BY <1>1, <1>3, <1>4, <1>5, AddedIs DEF Buffers
<1> QED
    BY <1>2, <1>6, <1>7

(* What SetData and InsertData make of them. *)
LEMMA EditDataIs ==
    ASSUME Types, Buffers, NEW k \in DOMAIN sections, NEW bytes \in Contents,
           \/ SetData(k, bytes)
           \/ \E pos \in 0..Size(sections[k]) : InsertData(k, pos, bytes)
    PROVE  /\ k # get("shstrndx") + 1 /\ sections' \in Seq(SectionType)
           /\ Len(sections') = Len(sections) /\ DOMAIN sections' = DOMAIN sections
           /\ \A j \in DOMAIN sections \ {k} : sections'[j] = sections[j]
           /\ Alike(sections'[k], sections[k])
<1>1. sections \in Seq(SectionType) /\ need_conversion \in BOOLEAN
    BY DEF Types
<1>2. PICK s \in SectionType : s = sections[k] /\ Sound(s)
    BY <1>1 DEF Buffers
<1>3. bytes \in Seq(Int)
    BY BytesAssumption
<1>4. ASSUME NEW t, Alike(t, s), sections' = [sections EXCEPT ![k] = t]
      PROVE  /\ sections' \in Seq(SectionType)
             /\ Len(sections') = Len(sections) /\ DOMAIN sections' = DOMAIN sections
             /\ \A j \in DOMAIN sections \ {k} : sections'[j] = sections[j]
             /\ Alike(sections'[k], sections[k])
  <2>1. t \in SectionType
    BY <1>4 DEF Alike
  <2>2. /\ sections' \in Seq(SectionType) /\ Len(sections') = Len(sections) /\ sections'[k] = t
        /\ \A j \in DOMAIN sections \ {k} : sections'[j] = sections[j]
    <3>1. /\ [sections EXCEPT ![k] = t] \in Seq(SectionType)
          /\ Len([sections EXCEPT ![k] = t]) = Len(sections)
          /\ [sections EXCEPT ![k] = t][k] = t
          /\ \A j \in DOMAIN sections \ {k} : [sections EXCEPT ![k] = t][j] = sections[j]
        BY <1>1, <2>1, Replaced
    <3> QED
        BY <1>4, <3>1, Zenon
  <2>3. DOMAIN sections' = DOMAIN sections
    BY <1>1, <2>2
  <2> QED
    BY <1>2, <1>4, <2>2, <2>3
<1>5. CASE SetData(k, bytes)
  <2>1. sections' = [sections EXCEPT ![k] = SetBytes(s, bytes)] /\ k # get("shstrndx") + 1
    BY <1>2, <1>5 DEF SetData
  <2>2. Alike(SetBytes(s, bytes), s)
    BY <1>1, <1>2, <1>3, SetBytesAlike
  <2> QED
    BY <1>4, <2>1, <2>2
<1>6. CASE \E pos \in 0..Size(sections[k]) : InsertData(k, pos, bytes)
  <2>1. PICK pos \in 0..Size(s) : InsertData(k, pos, bytes)
    BY <1>2, <1>6
  <2>2. /\ sections' = [sections EXCEPT ![k] = InsertBytes(s, pos, bytes)]
        /\ k # get("shstrndx") + 1 /\ Editable(s)
    BY <1>2, <2>1 DEF InsertData
  <2>3. Alike(InsertBytes(s, pos, bytes), s)
    BY <1>1, <1>2, <1>3, <2>2, InsertAlike
  <2> QED
    BY <1>4, <2>2, <2>3
<1> QED
    BY <1>5, <1>6

LEMMA AddSectionInv ==
    ASSUME ReaderInv, NEW name \in Names, AddSection(name)
    PROVE  ReaderInv'
<1>1. PICK p : Lengthened(sections', sections, p)
    BY AddSectionIs DEF ReaderInv
<1>2. sections' \in Seq(SectionType) /\ \A k \in DOMAIN sections' : Sound(sections'[k])
    BY <1>1 DEF Lengthened
<1>3. Edit /\ UNCHANGED <<need_conversion, header, segments>> /\ source' = "edited"
    BY DEF AddSection
<1> QED
    BY <1>2, <1>3, EditedInv

LEMMA EditDataInv ==
    ASSUME ReaderInv, NEW k \in DOMAIN sections, NEW bytes \in Contents,
           \/ SetData(k, bytes)
           \/ \E pos \in 0..Size(sections[k]) : InsertData(k, pos, bytes)
    PROVE  ReaderInv'
<1>1. /\ sections' \in Seq(SectionType) /\ DOMAIN sections' = DOMAIN sections
      /\ \A j \in DOMAIN sections \ {k} : sections'[j] = sections[j]
      /\ Alike(sections'[k], sections[k])
    BY EditDataIs DEF ReaderInv
<1>2. ASSUME NEW j \in DOMAIN sections'
      PROVE  Sound(sections'[j])
  <2>1. CASE j = k
    BY <1>1, <2>1 DEF Alike
  <2>2. CASE j # k
    BY <1>1, <2>2 DEF ReaderInv, Buffers
  <2> QED
    BY <2>1, <2>2
<1>3. Edit /\ UNCHANGED <<need_conversion, header, segments>> /\ source' = "edited"
    BY DEF SetData, InsertData
<1> QED
    BY <1>1, <1>2, <1>3, EditedInv

LEMMA ReaderStutters ==
    ASSUME ReaderInv, UNCHANGED vars
    PROVE  ReaderInv'
<1>1. /\ Loading /\ sections' = sections /\ segments' = segments /\ pc' = pc
      /\ result' = result /\ header' = header /\ source' = source /\ f' = f
      /\ need_conversion' = need_conversion
    BY DEF vars, Loading
<1>2. Types' /\ OfFile'
    BY <1>1 DEF ReaderInv, Types, OfFile
<1>3. /\ Buffers' /\ SegmentsApart'
      /\ source = "file" => \A k \in DOMAIN sections' : SectionFiled(sections[k], k)'
      /\ source = "file" => \A g \in DOMAIN segments' : SegmentFiled(segments[g])'
      /\ \A name, k : NameFiled(name, k)' <=> NameFiled(name, k)
      /\ (\A g \in DOMAIN segments : Sees(segments[g])) =>
             \A g \in DOMAIN segments' : Sees(segments[g])'
    BY <1>1, SectionsStay, SegmentsStay
<1>4. FiledSections' = FiledSections /\ Filed("phnum")' = Filed("phnum")
    BY <1>1, FileStill
<1>5. SectionsFiled' /\ SegmentsFiled' /\ SegmentsSee'
    BY <1>1, <1>3, <1>4 DEF ReaderInv, SectionsFiled, SegmentsFiled, SegmentsSee
<1>6. NamesFiled'
  <2>1. ASSUME source = "file", pc \notin {"sections", "names"}, NEW k \in DOMAIN sections'
        PROVE  NameFiled(sections[k].name, k)'
    <3>1. PICK name : name = sections[k].name
        OBVIOUS
    <3>2. NameFiled(name, k)
        BY <1>1, <2>1, <3>1 DEF ReaderInv, NamesFiled
    <3>3. NameFiled(name, k)'
        BY <1>3, <3>2
    <3> QED
        BY <1>1, <3>1, <3>3
  <2>2. ASSUME source = "file", pc \in {"sections", "names"}
        PROVE  \A k \in DOMAIN sections' : sections'[k].name = << >>
    BY <1>1, <2>2 DEF ReaderInv, NamesFiled
  <2> QED
    BY <1>1, <2>1, <2>2 DEF NamesFiled
<1> QED
    BY <1>2, <1>3, <1>5, <1>6 DEF ReaderInv

LEMMA ReaderStep ==
    ASSUME ReaderInv, [Next]_vars
    PROVE  ReaderInv'
<1>1. CASE \E file \in Files : RejectFile(file) \/ ShortFile(file) \/ OpenFile(file)
    BY <1>1, RejectFileInv, ShortFileInv, OpenFileInv
<1>2. CASE LoadStep
    BY <1>2, SmallSectionHeadersInv, AddLoadedInv, SectionsReadInv, NameSectionsInv, NoNamesInv,
       AddSegmentInv, LoadEndsInv DEF LoadStep
<1>3. CASE \E class \in Classes, encoding \in {"LSB", "MSB"} : Create(class, encoding)
    BY <1>3, CreateInv
<1>4. CASE \E name \in Names : AddSection(name)
    BY <1>4, AddSectionInv
<1>5. CASE \E k \in DOMAIN sections, bytes \in Contents : SetData(k, bytes)
    BY <1>5, EditDataInv
<1>6. CASE Inserts
  <2>1. PICK k \in DOMAIN sections, bytes \in Contents :
            \E pos \in 0..Size(sections[k]) : InsertData(k, pos, bytes)
    BY <1>6 DEF Inserts
  <2> QED
    BY <2>1, EditDataInv
<1>7. CASE UNCHANGED vars
    BY <1>7, ReaderStutters
<1> QED
    BY <1>1, <1>2, <1>3, <1>4, <1>5, <1>6, <1>7 DEF Next

(* The invariant of the reader: while load goes on and after it, each section and each
   segment that was read is as the file has it, in the byte order of the file; and whatever is
   loaded or edited, every buffer has the bytes that its size counts. *)
THEOREM ReaderInvariant == Spec => []ReaderInv
<1>1. ReaderInv /\ [Next]_vars => ReaderInv'
    BY ReaderStep
<1> QED
    BY InitReader, <1>1, PTL DEF Spec

(* After load the object holds what the file says, whatever was loaded before. *)
THEOREM LoadsAsFiled == Spec => []AsFiled
<1>1. ReaderInv => AsFiled
  <2> SUFFICES ASSUME ReaderInv, pc = "idle", source = "file"
               PROVE  /\ Len(sections) = FiledSections
                      /\ \A k \in DOMAIN sections :
                             SectionFiled(sections[k], k) /\ NameFiled(sections[k].name, k)
                      /\ result => Len(segments) = Filed("phnum")
                      /\ \A g \in DOMAIN segments : SegmentFiled(segments[g])
    BY DEF AsFiled, SectionFiled, NameFiled, SegmentFiled
  <2> QED
    BY DEF ReaderInv, SectionsFiled, NamesFiled, SegmentsFiled
<1> QED
    BY <1>1, ReaderInvariant, PTL

(* What edits write lies in the buffer, and the buffer has the bytes that the size counts,
   but for inflated data. *)
THEOREM EditsStayInBuffer == Spec => []EditsInBuffer
<1>1. ReaderInv => EditsInBuffer
  <2> SUFFICES ASSUME ReaderInv, NEW k \in DOMAIN sections, ~Compressed(sections[k])
               PROVE  /\ Len(sections[k].data) <= sections[k].room
                      /\ sections[k].data # << >> => Size(sections[k]) <= Len(sections[k].data)
    BY DEF EditsInBuffer, Range
  <2> QED
    BY DEF ReaderInv, Buffers, Sound
<1> QED
    BY <1>1, ReaderInvariant, PTL

(* No section is in two segments that have no byte in common, however they were loaded. *)
THEOREM SegmentsStayApart == Spec => []SegmentsApart
BY ReaderInvariant, PTL DEF ReaderInv

-----------------------------------------------------------------------------
(* Names in the string table *)

LEMMA InTableStill ==
    ASSUME need_conversion' = need_conversion, NEW t, NEW u
    PROVE  NameInTable(t, u)' <=> NameInTable(t, u)
BY DEF NameInTable, HasString, StringAt, Ends, Size, Get, convertor

LEMMA IndexStill ==
    ASSUME need_conversion' = need_conversion, header' = header
    PROVE  get("shstrndx")' = get("shstrndx")
BY DEF get, convertor

(* How names stay in the table over a step that changes no header. *)
LEMMA HeldAfter ==
    ASSUME need_conversion' = need_conversion, header' = header,
           \A k \in DOMAIN sections' : sections'[k].name # << >> =>
               /\ get("shstrndx") + 1 \in DOMAIN sections'
               /\ NameInTable(sections'[get("shstrndx") + 1], sections'[k])
    PROVE  NamesHeld'
<1>1. PICK p : p = get("shstrndx") + 1 /\ p = (get("shstrndx") + 1)'
    BY IndexStill
<1>2. ASSUME NEW k \in DOMAIN sections', sections'[k].name # << >>
      PROVE  /\ p \in DOMAIN sections'
             /\ NameInTable(sections[get("shstrndx") + 1], sections[k])'
  <2>1. PICK t, u : t = sections'[p] /\ u = sections'[k]
    OBVIOUS
  <2>2. p \in DOMAIN sections' /\ NameInTable(t, u)
    BY <1>1, <1>2, <2>1
  <2>3. NameInTable(t, u)'
    BY <2>2, InTableStill
  <2> QED
    BY <1>1, <2>1, <2>2, <2>3
<1> QED
    BY <1>1, <1>2 DEF NamesHeld

LEMMA NamesGiven ==
    ASSUME ReaderInv, NameSections
    PROVE  NamesHeld'
<1>1. /\ need_conversion' = need_conversion /\ header' = header
      /\ DOMAIN sections' = DOMAIN sections
    BY DEF NameSections, Loading
<1>2. PICK p : p = get("shstrndx") + 1
    OBVIOUS
<1>3. ASSUME NEW k \in DOMAIN sections', sections'[k].name # << >>
      PROVE  p \in DOMAIN sections' /\ NameInTable(sections'[p], sections'[k])
  <2>1. PICK t : t = sections'[k]
    OBVIOUS
  <2>2. p \in DOMAIN sections /\ NameInTable(sections[p], t)
    BY <1>1, <1>2, <1>3, <2>1, SectionsNamed DEF NamedBy
  <2>3. PICK old, new : old = sections[p] /\ new = sections'[p]
    OBVIOUS
  <2>4. new.data = old.data /\ \A x \in HeaderFields : Get(new, x) = Get(old, x)
    BY <1>2, <2>2, <2>3, SectionsNamed DEF NamedBy
  <2>5. Size(new) = Size(old) /\ Get(new, "type") = Get(old, "type")
    BY <2>4 DEF Size, HeaderFields
  <2>6. NameInTable(new, t) = NameInTable(old, t)
    BY <2>4, <2>5, SameNamed
  <2>7. NameInTable(new, t)
    BY <2>2, <2>3, <2>6
  <2> QED
    BY <1>1, <2>1, <2>2, <2>3, <2>7
<1> QED
    BY <1>1, <1>2, <1>3, HeldAfter

LEMMA NamesStay ==
    ASSUME Types, NamesHeld, pc \in {"segments", "idle"}, sections' = sections,
           need_conversion' = need_conversion, header' = header
    PROVE  NamesHeld'
BY HeldAfter DEF NamesHeld

LEMMA NamesAdded ==
    ASSUME ReaderInv, NamesHeld, NEW name \in Names, AddSection(name), BuffersFit'
    PROVE  NamesHeld'
<1>1. need_conversion' = need_conversion /\ header' = header /\ pc = "idle"
    BY DEF AddSection, Edit
<1>2. PICK p \in Nat : p = get("shstrndx") + 1 /\ Lengthened(sections', sections, p)
    BY AddSectionIs DEF ReaderInv
<1>3. sections \in Seq(SectionType) /\ sections' \in Seq(SectionType)
    BY <1>2 DEF ReaderInv, Types, Lengthened
<1>4. PICK n \in Nat : n = Len(sections) /\ DOMAIN sections = 1..n
    BY <1>3
<1>5. Len(sections') = n + 1 /\ DOMAIN sections' = 1..(n + 1)
    BY <1>2, <1>3, <1>4 DEF Lengthened
<1>6. p \in 1..(n + 1)
  <2>1. get("shstrndx") <= n
    BY <1>4 DEF AddSection
  <2>2. PICK v \in Nat : v = get("shstrndx")
    <3>1. header.fields["shstrndx"] \in Number /\ need_conversion \in BOOLEAN
        BY DEF ReaderInv, Types, FileFields
    <3> QED
        BY <3>1, ConvertBack, NumbersAreNat DEF get, convertor
  <2> QED
    BY <1>2, <2>1, <2>2
<1>7. Len(sections'[p].data) \in Number
    BY <1>5, <1>6 DEF BuffersFit
<1>8. /\ NameInTable(sections'[p], sections'[n + 1])
      /\ p \in DOMAIN sections => \A k \in DOMAIN sections :
             NameInTable(sections[p], sections[k]) => NameInTable(sections'[p], sections'[k])
      /\ \A k \in DOMAIN sections : sections'[k].name = sections[k].name
    BY <1>2, <1>4, <1>7 DEF Lengthened
<1>9. ASSUME NEW k \in DOMAIN sections', sections'[k].name # << >>
      PROVE  p \in DOMAIN sections' /\ NameInTable(sections'[p], sections'[k])
  <2>1. CASE k = n + 1
    BY <1>5, <1>6, <1>8, <2>1
  <2>2. CASE k # n + 1
    <3>1. k \in DOMAIN sections
        BY <1>4, <1>5, <2>2
    <3>2. sections[k].name # << >>
        BY <1>8, <1>9, <3>1
    <3>3. p \in DOMAIN sections /\ NameInTable(sections[p], sections[k])
        BY <1>1, <1>2, <3>1, <3>2 DEF NamesHeld
    <3> QED
        BY <1>5, <1>6, <1>8, <3>1, <3>3
  <2> QED
    BY <2>1, <2>2
<1> QED
    BY <1>1, <1>2, <1>9, HeldAfter

LEMMA NamesEdited ==
    ASSUME ReaderInv, NamesHeld, NEW k \in DOMAIN sections, NEW bytes \in Contents,
           \/ SetData(k, bytes)
           \/ \E pos \in 0..Size(sections[k]) : InsertData(k, pos, bytes)
    PROVE  NamesHeld'
<1>1. need_conversion' = need_conversion /\ header' = header /\ pc = "idle"
    BY DEF SetData, InsertData, Edit
<1>2. PICK p : p = get("shstrndx") + 1
    OBVIOUS
<1>3. /\ k # p /\ DOMAIN sections' = DOMAIN sections
      /\ \A j \in DOMAIN sections \ {k} : sections'[j] = sections[j]
      /\ Alike(sections'[k], sections[k])
    BY <1>2, EditDataIs DEF ReaderInv
<1>4. ASSUME NEW j \in DOMAIN sections', sections'[j].name # << >>
      PROVE  p \in DOMAIN sections' /\ NameInTable(sections'[p], sections'[j])
  <2>1. sections'[j].name = sections[j].name /\ Get(sections'[j], "name") = Get(sections[j], "name")
    BY <1>3 DEF Alike, HeaderFields
  <2>2. p \in DOMAIN sections /\ NameInTable(sections[p], sections[j])
    BY <1>1, <1>2, <1>3, <1>4, <2>1 DEF NamesHeld
  <2>3. sections'[p] = sections[p]
    BY <1>3, <2>2
  <2>4. NameInTable(sections[p], sections'[j]) = NameInTable(sections[p], sections[j])
    BY <2>1, SameNamed
  <2> QED
    BY <1>3, <2>2, <2>3, <2>4
<1> QED
    BY <1>1, <1>2, <1>4, HeldAfter

LEMMA NamesCreated ==
    ASSUME NEW class \in Classes, NEW encoding, Create(class, encoding), BuffersFit'
    PROVE  NamesHeld'
<1>1. /\ need_conversion' = (encoding # Host) /\ sections' = MandatorySections'
      /\ header' = NewHeader(class, encoding)
    BY DEF Create
<1>2. /\ sections' \in Seq(SectionType) /\ Len(sections') = 2
      /\ sections'[1].name = << >> /\ (get("shstrndx") + 1)' = 2
      /\ Len(sections'[2].data) \in Number => NameInTable(sections[2], sections[2])'
    BY <1>1, CreatedIs
<1>3. DOMAIN sections' = {1, 2}
    BY <1>2
<1>4. NameInTable(sections[2], sections[2])'
    BY <1>2, <1>3 DEF BuffersFit
<1> QED
    BY <1>2, <1>3, <1>4 DEF NamesHeld

LEMMA NamesStep ==
    ASSUME ReaderInv, NamesHeld, BuffersFit', [Next]_vars
    PROVE  NamesHeld'
<1>1. CASE \E file \in Files : RejectFile(file) \/ ShortFile(file) \/ OpenFile(file)
  <2>1. pc' = "sections" \/ sections' = << >>
    BY <1>1 DEF RejectFile, ShortFile, OpenFile
  <2> QED
    BY <2>1 DEF NamesHeld
<1>2. CASE SmallSectionHeaders \/ NoNames
  <2>1. pc \in {"sections", "names"} /\ sections' = sections
    BY <1>2 DEF SmallSectionHeaders, NoNames
  <2>2. \A k \in DOMAIN sections : sections[k].name = << >>
    BY <2>1 DEF ReaderInv, Types, NamesFiled
  <2> QED
    BY <2>1, <2>2 DEF NamesHeld
<1>3. CASE AddLoaded \/ SectionsRead
  <2>1. pc' \in {"sections", "names"}
    BY <1>3 DEF AddLoaded, SectionsRead
  <2> QED
    BY <2>1 DEF NamesHeld
<1>4. CASE NameSections
    BY <1>4, NamesGiven
<1>5. CASE AddSegment \/ SegmentFails \/ Loaded
  <2>1. /\ pc = "segments" /\ sections' = sections
        /\ need_conversion' = need_conversion /\ header' = header
    BY <1>5 DEF AddSegment, SegmentFails, Loaded, MoreSegments, Loading
  <2> QED
    BY <2>1, NamesStay DEF ReaderInv
<1>6. CASE \E class \in Classes, encoding \in {"LSB", "MSB"} : Create(class, encoding)
    BY <1>6, NamesCreated
<1>7. CASE \E name \in Names : AddSection(name)
    BY <1>7, NamesAdded
<1>8. CASE \E k \in DOMAIN sections, bytes \in Contents : SetData(k, bytes)
    BY <1>8, NamesEdited
<1>9. CASE Inserts
  <2>1. PICK k \in DOMAIN sections, bytes \in Contents :
            \E pos \in 0..Size(sections[k]) : InsertData(k, pos, bytes)
    BY <1>9 DEF Inserts
  <2> QED
    BY <2>1, NamesEdited
<1>10. CASE UNCHANGED vars
  <2>1. /\ sections' = sections /\ need_conversion' = need_conversion /\ header' = header
        /\ pc' = pc
    BY <1>10 DEF vars
  <2>2. CASE pc \in {"segments", "idle"}
    BY <2>1, <2>2, NamesStay DEF ReaderInv
  <2>3. CASE pc \notin {"segments", "idle"}
    BY <2>1, <2>3 DEF NamesHeld
  <2> QED
    BY <2>2, <2>3
<1> QED
    BY <1>1, <1>2, <1>3, <1>4, <1>5, <1>6, <1>7, <1>8, <1>9, <1>10 DEF Next, LoadStep

(* As long as no buffer outgrows what the size field can say, every section that has a name
   has it in the string table, however many are added to whatever was loaded or created. *)
THEOREM NamesStayInTable == Spec /\ []BuffersFit => []NamesInTable
<1>1. Init => NamesHeld
    BY DEF Init, NamesHeld
<1>2. ReaderInv /\ NamesHeld /\ BuffersFit' /\ [Next]_vars => NamesHeld'
    BY NamesStep
<1>3. NamesHeld => NamesInTable
  <2> SUFFICES ASSUME NamesHeld, pc = "idle", NEW k \in DOMAIN sections,
                      sections[k].name # << >>
               PROVE  NameInTable(sections[get("shstrndx") + 1], sections[k])
    BY DEF NamesInTable, NameInTable, Range
  <2> QED
    BY DEF NamesHeld
<1> QED
    BY <1>1, <1>2, <1>3, ReaderInvariant, PTL DEF Spec

-----------------------------------------------------------------------------
(* Insertions, as the caller sees them *)

(* A piece of the bytes that count. *)
IsPiece(x, d, at, n) ==
    /\ x \in Seq(Int) /\ Len(x) = n
    /\ \A j \in 1..n : x[j] = d[at + j]

LEMMA Piece ==
    ASSUME NEW d \in Seq(Int), NEW size \in Nat, size <= Len(d), NEW at \in Nat, NEW n \in Nat,
           NEW e \in Nat, e = at + n, e <= size, NEW b, b = SubSeq(d, 1, size),
           NEW x, x = SubSeq(b, at + 1, e)
    PROVE  IsPiece(x, d, at, n)
<1>1. 0 \in Nat /\ size = 0 + size /\ b = SubSeq(d, 0 + 1, size)
    OBVIOUS
<1>2. b \in Seq(Int) /\ Len(b) = size /\ \A j \in 1..size : b[j] = d[0 + j]
    BY <1>1, Slice
<1>3. x \in Seq(Int) /\ Len(x) = n /\ \A j \in 1..n : x[j] = b[at + j]
    BY <1>2, Slice
<1>4. ASSUME NEW i \in 1..n
      PROVE  x[i] = d[at + i]
  <2>1. at + i \in 1..size /\ 0 + (at + i) = at + i
    OBVIOUS
  <2>2. b[at + i] = d[at + i]
    BY <1>2, <2>1
  <2> QED
    BY <1>3, <2>2
<1> QED
    BY <1>3, <1>4 DEF IsPiece

(* Two pieces of as many bytes, each the same as the other's. *)
LEMMA SamePieces ==
    ASSUME NEW x, NEW y, NEW d, NEW c, NEW at, NEW to, NEW n \in Nat,
           IsPiece(x, d, at, n), IsPiece(y, c, to, n), \A j \in 1..n : d[at + j] = c[to + j]
    PROVE  x = y
<1>1. x \in Seq(Int) /\ y \in Seq(Int) /\ Len(x) = n /\ Len(y) = n
    BY DEF IsPiece
<1>2. \A j \in 1..n : x[j] = y[j]
    BY DEF IsPiece
<1> QED
    BY <1>1, <1>2, SameElements

(* The new bytes are where the caller said, and the others in their order. *)
InsertedAt(old, new, pos, bytes) ==
    LET n == Len(bytes)
    IN /\ SubSeq(Content(new), 1, pos) = SubSeq(Content(old), 1, pos)
       /\ SubSeq(Content(new), pos + 1, pos + n) = bytes
       /\ SubSeq(Content(new), pos + n + 1, Size(new)) = SubSeq(Content(old), pos + 1, Size(old))

LEMMA GrownInserted ==
    ASSUME need_conversion \in BOOLEAN, NEW s \in SectionType, NEW t, NEW size \in Nat,
           size = Size(s), size <= Len(s.data), NEW pos \in 0..size, NEW bytes \in Seq(Int),
           Grown(t, s, pos, bytes), Len(t.data) \in Number
    PROVE  InsertedAt(s, t, pos, bytes)
<1>1. PICK n \in Nat : n = Len(bytes)
    OBVIOUS
<1>2. PICK d, c \in Seq(Int) : d = s.data /\ c = t.data
    BY DEF Grown, SectionType
<1>3. /\ size <= Len(d) /\ size + n <= Len(c)
      /\ \A j \in 1..pos : c[j] = d[j]
      /\ \A j \in 1..n : c[pos + j] = bytes[j]
      /\ \A j \in (pos + 1)..size : c[n + j] = d[j]
    BY <1>1, <1>2 DEF Grown
<1>4. PICK all \in Nat : all = size + n /\ all <= Len(c)
    BY <1>3
<1>5. Size(t) = all
  <2>1. all % (Base * Base) = all
    BY <1>2, <1>4, NoWrap
  <2> QED
    BY <1>1, <1>4, <2>1 DEF Grown
<1>6. PICK rest \in Nat, behind \in Nat :
          size = pos + rest /\ behind = pos + n /\ all = behind + rest
  <2>1. size - pos \in Nat /\ pos + n \in Nat /\ size = pos + (size - pos)
    OBVIOUS
  <2>2. all = (pos + n) + (size - pos)
    BY <1>4
  <2> QED
    BY <2>1, <2>2
<1>7. PICK old, new : old = SubSeq(d, 1, size) /\ new = SubSeq(c, 1, all)
    OBVIOUS
<1>8. pos \in Nat /\ 0 \in Nat /\ pos = 0 + pos /\ pos <= all /\ pos <= size /\ behind <= all
      /\ size <= size /\ all <= all
    BY <1>4, <1>6
<1>9. SubSeq(new, 1, pos) = SubSeq(old, 1, pos)
  <2>1. PICK x, y : x = SubSeq(new, 0 + 1, pos) /\ y = SubSeq(old, 0 + 1, pos)
    OBVIOUS
  <2>2. IsPiece(x, c, 0, pos)
    BY <1>4, <1>7, <1>8, <2>1, Piece
  <2>3. IsPiece(y, d, 0, pos)
    BY <1>3, <1>7, <1>8, <2>1, Piece
  <2>4. \A j \in 1..pos : c[0 + j] = d[0 + j]
    <3>1. \A j \in 1..pos : 0 + j = j
        OBVIOUS
    <3> QED
        BY <1>3, <3>1
  <2>5. x = y
    BY <1>8, <2>2, <2>3, <2>4, SamePieces
  <2>6. 0 + 1 = 1
    OBVIOUS
  <2> QED
    BY <2>1, <2>5, <2>6
<1>10. SubSeq(new, pos + 1, behind) = bytes
  <2>1. PICK x : x = SubSeq(new, pos + 1, behind)
    OBVIOUS
  <2>2. IsPiece(x, c, pos, n)
    BY <1>4, <1>6, <1>7, <1>8, <2>1, Piece
  <2>3. x \in Seq(Int) /\ Len(x) = n /\ \A j \in 1..n : x[j] = bytes[j]
    BY <1>3, <2>2 DEF IsPiece
  <2> QED
    BY <1>1, <2>1, <2>3, SameElements, ZenonT(60)
<1>11. SubSeq(new, behind + 1, all) = SubSeq(old, pos + 1, size)
  <2>1. PICK x, y : x = SubSeq(new, behind + 1, all) /\ y = SubSeq(old, pos + 1, size)
    OBVIOUS
  <2>2. IsPiece(x, c, behind, rest)
    BY <1>4, <1>6, <1>7, <1>8, <2>1, Piece
  <2>3. IsPiece(y, d, pos, rest)
    BY <1>3, <1>6, <1>7, <1>8, <2>1, Piece
  <2>4. ASSUME NEW i \in 1..rest
        PROVE  c[behind + i] = d[pos + i]
    <3>1. pos + i \in (pos + 1)..size /\ n + (pos + i) = behind + i
        BY <1>6
    <3> QED
        BY <1>3, <3>1
  <2>5. x = y
    BY <2>2, <2>3, <2>4, SamePieces
  <2> QED
    BY <2>1, <2>5
<1> QED
    BY <1>1, <1>2, <1>5, <1>6, <1>7, <1>9, <1>10, <1>11 DEF InsertedAt, Content

(* One insertion. *)
LEMMA InsertionIs ==
    ASSUME ReaderInv, BuffersFit', NEW k \in DOMAIN sections, NEW pos \in 0..Size(sections[k]),
           NEW bytes \in Contents, InsertData(k, pos, bytes)
    PROVE  /\ \A j \in DOMAIN sections \ {k} : sections'[j] = sections[j]
           /\ Get(sections[k], "type") # SHT_NOBITS =>
                  InsertedAt(sections[k], sections'[k], pos, bytes)
<1>1. sections \in Seq(SectionType) /\ need_conversion \in BOOLEAN /\ Types /\ Buffers
    BY DEF ReaderInv, Types
<1>2. DOMAIN sections' = DOMAIN sections /\ \A j \in DOMAIN sections \ {k} : sections'[j] = sections[j]
    BY <1>1, EditDataIs
<1>3. PICK s \in SectionType : s = sections[k] /\ Sound(s) /\ Editable(s)
    BY <1>1 DEF Buffers, InsertData
<1>4. sections'[k] = InsertBytes(s, pos, bytes)
    BY <1>1, <1>3 DEF InsertData
<1>5. bytes \in Seq(Int)
    BY BytesAssumption
<1>6. ASSUME Get(s, "type") # SHT_NOBITS
      PROVE  InsertedAt(s, sections'[k], pos, bytes)
  <2>1. PICK t : t = InsertBytes(s, pos, bytes)
    OBVIOUS
  <2>2. Grown(t, s, pos, bytes)
    BY <1>1, <1>3, <1>5, <1>6, <2>1, InsertGrows
  <2>3. Len(t.data) \in Number
    BY <1>2, <1>4, <2>1 DEF BuffersFit
  <2>4. PICK size \in Nat : size = Size(s) /\ pos \in 0..size
    BY <1>1, <1>3, SizeIsNat
  <2>5. size <= Len(s.data)
    BY <1>3, <2>4 DEF Sound, Editable, SectionType
  <2> QED
    BY <1>1, <1>4, <1>5, <2>1, <2>2, <2>3, <2>4, <2>5, GrownInserted
<1> QED
    BY <1>2, <1>3, <1>6

(* As long as no buffer outgrows what the size field can say, whatever is inserted into a
   section lies where the caller said, between the bytes that were there, in their order,
   and no other section changes. *)
THEOREM InsertsInPlace == Spec /\ []BuffersFit => Inserted
<1> DEFINE Right ==
        \A k \in DOMAIN sections : \A pos \in 0..Size(sections[k]), bytes \in Contents :
            InsertData(k, pos, bytes) =>
                /\ \A j \in DOMAIN sections \ {k} : sections'[j] = sections[j]
                /\ Get(sections[k], "type") # SHT_NOBITS =>
                       InsertedAt(sections[k], sections'[k], pos, bytes)
<1>1. ReaderInv /\ BuffersFit' => Right
    BY InsertionIs
<1>2. ReaderInv /\ BuffersFit' => [Right]_vars
    BY <1>1
<1> QED
    BY <1>2, ReaderInvariant, PTL DEF Inserted, InsertedAt

=============================================================================
