----------------------------- MODULE ModuleMeta -----------------------------
(***************************************************************************)
(* How ModuleDataFactory::load reads the section .wums.meta of a module:   *)
(* "key=value" strings, one after the other, each ended by a zero.         *)
(*                                                                         *)
(* A string is the sequence of its parts between the '=' signs. The code   *)
(* splits a string by writing a zero over its first '=', and then goes on  *)
(* behind that zero, so what was the value is looked at once more, as a    *)
(* string of its own.                                                      *)
(***************************************************************************)
EXTENDS Integers, Sequences

CONSTANT Versions       \* the values of "wums" the loader supports

ASSUME VersionsAssumption == Versions \subseteq STRING

VARIABLES
    rest,           \* what is still to be read of the section
    export_name,
    skipInitFini,
    initBeforeRelocationDoneHook,
    checkedVersion,
    verdict         \* "none", "accepted" or "ignored"

metaVars == <<rest, export_name, skipInitFini, initBeforeRelocationDoneHook, checkedVersion,
              verdict>>
fields == <<export_name, skipInitFini, initBeforeRelocationDoneHook>>

MetaInit ==
    /\ rest = << >>
    /\ export_name = << >>
    /\ skipInitFini = FALSE
    /\ initBeforeRelocationDoneHook = FALSE
    /\ checkedVersion = FALSE
    /\ verdict = "none"

(* A new ModuleData, and a section to be read. *)
StartMeta(meta) ==
    /\ rest' = meta
    /\ export_name' = << >>
    /\ skipInitFini' = FALSE
    /\ initBeforeRelocationDoneHook' = FALSE
    /\ checkedVersion' = FALSE
    /\ verdict' = "none"

-----------------------------------------------------------------------------
Reading == verdict = "none" /\ rest # << >>
IsEntry == Len(Head(rest)) > 1
key == Head(Head(rest))
value == Tail(Head(rest))
VersionKeys == {"wums", "wum"}
Supported(v) == Len(v) = 1 /\ v[1] \in Versions

(* curEntry += strlen(curEntry) + 1 *)
Behind == IF IsEntry THEN <<value>> \o Tail(rest) ELSE Tail(rest)

(* A string without '='. *)
SkipString ==
    /\ Reading
    /\ ~IsEntry
    /\ rest' = Behind
    /\ UNCHANGED <<fields, checkedVersion, verdict>>

(* Mutant: skipInitFini, once set, stays. *)
ReadFieldSticky ==
    /\ Reading
    /\ IsEntry
    /\ key \notin VersionKeys
    /\ rest' = Behind
    /\ export_name' = IF key = "export_name" THEN value ELSE export_name
    /\ skipInitFini' = (skipInitFini \/ (key = "skipInitFini" /\ value = <<"true">>))
    /\ initBeforeRelocationDoneHook' = IF key = "initBeforeRelocationDoneHook"
                                       THEN value = <<"true">>
                                       ELSE initBeforeRelocationDoneHook
    /\ UNCHANGED <<checkedVersion, verdict>>

ReadField ==
    /\ Reading
    /\ IsEntry
    /\ key \notin VersionKeys
    /\ rest' = Behind
    /\ export_name' = IF key = "export_name" THEN value ELSE export_name
    /\ skipInitFini' = IF key = "skipInitFini" THEN value = <<"true">> ELSE skipInitFini
    /\ initBeforeRelocationDoneHook' = IF key = "initBeforeRelocationDoneHook"
                                       THEN value = <<"true">>
                                       ELSE initBeforeRelocationDoneHook
    /\ UNCHANGED <<checkedVersion, verdict>>

SupportedVersion ==
    /\ Reading
    /\ IsEntry
    /\ key \in VersionKeys
    /\ Supported(value)
    /\ rest' = Behind
    /\ checkedVersion' = TRUE
    /\ UNCHANGED <<fields, verdict>>

(* "Unsupported WUMS version": nothing more is read. *)
UnsupportedVersion ==
    /\ Reading
    /\ IsEntry
    /\ key \in VersionKeys
    /\ ~Supported(value)
    /\ checkedVersion' = TRUE
    /\ verdict' = "ignored"
    /\ UNCHANGED <<rest, fields>>

EndOfMeta ==
    /\ verdict = "none"
    /\ rest = << >>
    /\ verdict' = IF checkedVersion THEN "accepted" ELSE "ignored"
    /\ UNCHANGED <<rest, fields, checkedVersion>>

ReadMeta == SkipString \/ ReadField \/ SupportedVersion \/ UnsupportedVersion \/ EndOfMeta

-----------------------------------------------------------------------------
(* What a section says, read line by line. *)

LinesOf(meta, keys) == {j \in DOMAIN meta : Len(meta[j]) > 1 /\ meta[j][1] \in keys}

(* The value in the last line for the key. *)
Says(meta, k, default) ==
    LET at == LinesOf(meta, {k})
    IN IF at = {} THEN default ELSE Tail(meta[CHOOSE j \in at : \A l \in at : l <= j])

(* No value holds an '='. *)
Plain(meta) == \A j \in DOMAIN meta : Len(meta[j]) <= 2

(* It names a version, and every one it names is supported. *)
VersionsFit(meta) ==
    /\ LinesOf(meta, VersionKeys) # {}
    /\ \A j \in LinesOf(meta, VersionKeys) : Supported(Tail(meta[j]))
=============================================================================
