------------------------------- MODULE DirList -------------------------------
(***************************************************************************)
(* The listing of a directory (DirList.cpp): what of a folder, and of the  *)
(* folders in it down to a depth, is listed, and in which order.           *)
(*                                                                         *)
(* A tree gives each folder the entries that readdir finds there. Of a     *)
(* path only the place matters that it has among all paths, without regard *)
(* to case, and the extension, without regard to case too.                 *)
(***************************************************************************)
EXTENDS Integers, Sequences, SequencesExt

CONSTANT NoFolder       \* the folder of an entry that is none

AllFlags == {"Files", "Dirs", "CheckSubfolders"}

(* An entry has: path, ext, the folder it is, and dots if its name is "." or ".." *)
isDir(entry) == entry.folder # NoFolder

Matches(ext, filter) == ext \in filter

(* A filter of {} takes all. *)
Listed(entry, filter, flags) ==
    /\ ~entry.dots
    /\ IF isDir(entry) THEN "Dirs" \in flags ELSE "Files" \in flags
    /\ filter # {} => Matches(entry.ext, filter)

(* Mutant: the depth alone decides. *)
EntersUnasked(entry, flags, depth) ==
    isDir(entry) /\ ~entry.dots /\ depth > 0

Enters(entry, flags, depth) ==
    isDir(entry) /\ ~entry.dots /\ "CheckSubfolders" \in flags /\ depth > 0

(* A folder, when below gives what is in each folder at the next depth: what is in a folder
   comes before that folder. *)
LoadFolder(tree, folder, filter, flags, depth, below) ==
    FlattenSeq([k \in DOMAIN tree[folder] |->
        LET entry == tree[folder][k]
        IN (IF Enters(entry, flags, depth) THEN below[entry.folder] ELSE << >>)
           \o (IF Listed(entry, filter, flags) THEN <<entry>> ELSE << >>)])

(* Each folder has a depth of its own; one that cannot be opened is listed but has nothing
   in it. *)
InternalLoadPath(tree, filter, flags, maxDepth) ==
    LET load[depth \in 0..maxDepth] ==
            [folder \in DOMAIN tree |->
                LoadFolder(tree, folder, filter, flags, depth, load[depth - 1])]
    IN load[maxDepth]

(* Folders come first. *)
SortCallback(a, b) ==
    IF isDir(a) = isDir(b) THEN a.path <= b.path ELSE isDir(a)

(* Each entry has its place by the number of those it has to be behind: there is one for each
   place, since paths differ. *)
SortList(list) ==
    LET Ahead(k) == {l \in DOMAIN list \ {k} : SortCallback(list[l], list[k])}
    IN [place \in DOMAIN list |->
           list[CHOOSE k \in DOMAIN list : Cardinality(Ahead(k)) = place - 1]]

LoadPath(tree, folder, filter, flags, maxDepth) ==
    SortList(InternalLoadPath(tree, filter, flags, maxDepth)[folder])

-----------------------------------------------------------------------------
(* The folders that folders F have in them. *)
Subfolders(tree, F) ==
    LET In == {entry \in UNION {Range(tree[x]) : x \in F} : isDir(entry) /\ ~entry.dots}
    IN {entry.folder : entry \in In}

(* What a file system gives: no two entries have the same path, but for "." and ".."; no
   folder is in two others, nor in one that is in it. *)
IsTree(tree) ==
    /\ \A x \in DOMAIN tree :
          /\ tree[x] \in Seq(Range(tree[x]))
          /\ \A entry \in Range(tree[x]) :
                 entry.path \in Nat /\ (isDir(entry) /\ ~entry.dots => entry.folder \in DOMAIN tree)
    /\ \A x, y \in DOMAIN tree : \A j \in DOMAIN tree[x], k \in DOMAIN tree[y] :
          LET one == tree[x][j]
              other == tree[y][k]
          IN <<x, j>> # <<y, k>> /\ ~one.dots /\ ~other.dots =>
                 /\ one.path # other.path
                 /\ isDir(one) /\ isDir(other) => one.folder # other.folder
    /\ \E level \in [DOMAIN tree -> 1..Cardinality(DOMAIN tree)] :
          \A x \in DOMAIN tree : \A y \in Subfolders(tree, {x}) : level[x] < level[y]

(* The folders at most n below a folder. *)
Within(tree, folder, n) ==
    LET within[k \in 0..n] == IF k = 0 THEN {folder}
                              ELSE within[k - 1] \cup Subfolders(tree, within[k - 1])
    IN within[n]

(* For any flags, filter and depth: each entry down to that depth that is asked for is
   listed once, none else, the folders first and both sorted by path; whatever the
   tree and the order of readdir. *)
AsAsked(tree, folder, filter, flags, depth) ==
    LET list == LoadPath(tree, folder, filter, flags, depth)
        searched == IF "CheckSubfolders" \in flags THEN Within(tree, folder, depth) ELSE {folder}
    IN /\ Range(list) = {entry \in UNION {Range(tree[x]) : x \in searched} :
                            Listed(entry, filter, flags)}
       /\ \A j, k \in DOMAIN list : j < k =>
              /\ isDir(list[k]) => isDir(list[j])
              /\ isDir(list[j]) = isDir(list[k]) => list[j].path < list[k].path
=============================================================================
