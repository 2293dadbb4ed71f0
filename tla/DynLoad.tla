------------------------------ MODULE DynLoad -------------------------------
(***************************************************************************)
(* The RPLs of the running application, as the loader uses coreinit's      *)
(* dynamic loader, and the memory they are loaded into. Each time an RPL   *)
(* is loaded it gets a new number: a function address taken from one load  *)
(* is dead once that load is gone. An RPL is freed with the function that  *)
(* was set together with the allocator it came from.                       *)
(***************************************************************************)
EXTENDS Integers, FiniteSets

CONSTANTS
    Rpls,   \* names of RPLs
    Ids     \* numbers for loads of RPLs: enough for those still remembered

ASSUME IdsAssumption == Ids \subseteq Nat \ {0}

VARIABLES
    rpl,                    \* rpl[r]: which load of r is there, with what references
    allocator,              \* whose functions OSDynLoad_SetAllocator got last
    gAllocatedAddresses,    \* the loader's list of blocks given to RPLs
    heap,                   \* the blocks of the loader's heap that are taken by RPLs
    moduleMemory            \* blocks taken in the memory of the allocating module

dynLoadVars == <<rpl, allocator, gAllocatedAddresses, heap, moduleMemory>>
memory == <<gAllocatedAddresses, heap, moduleMemory>>

Owners == {"app", "loader", "module"}
NotLoaded == [id |-> 0, refs |-> 0, by |-> "app"]

Loaded(r) == rpl[r].id # 0

DynLoadInit ==
    /\ rpl = [r \in Rpls |-> NotLoaded]
    /\ allocator = "app"
    /\ gAllocatedAddresses = {}
    /\ heap = {}
    /\ moduleMemory = {}

(* Mutant: the block is not put on the list. *)
UntrackedAlloc(x) ==
    /\ heap' = IF allocator = "loader" THEN heap \cup {x} ELSE heap
    /\ moduleMemory' = IF allocator = "module" THEN moduleMemory \cup {x} ELSE moduleMemory
    /\ UNCHANGED gAllocatedAddresses

(* The allocation function: CustomDynLoadAlloc lists the block it takes. *)
Alloc(x) ==
    /\ heap' = IF allocator = "loader" THEN heap \cup {x} ELSE heap
    /\ gAllocatedAddresses' = IF allocator = "loader" THEN gAllocatedAddresses \cup {x}
                              ELSE gAllocatedAddresses
    /\ moduleMemory' = IF allocator = "module" THEN moduleMemory \cup {x} ELSE moduleMemory

(* Mutant: the block stays on the list. *)
FreeKeepsEntry(r) ==
    /\ heap' = heap \ {rpl[r].id}
    /\ moduleMemory' = moduleMemory \ {rpl[r].id}
    /\ UNCHANGED gAllocatedAddresses

(* The free function of r's allocator: CustomDynLoadFree also takes the block
   off the list. An application's own memory is not followed here. *)
Free(r) ==
    /\ heap' = heap \ {rpl[r].id}
    /\ gAllocatedAddresses' = gAllocatedAddresses \ {rpl[r].id}
    /\ moduleMemory' = moduleMemory \ {rpl[r].id}

(* OSDynLoad_Acquire of a loaded RPL. *)
AddRef(r) ==
    /\ Loaded(r)
    /\ rpl' = [rpl EXCEPT ![r].refs = @ + 1]
    /\ UNCHANGED <<allocator, memory>>

(* OSDynLoad_Acquire of an RPL that has to be loaded, as load number x. *)
Load(r, x) ==
    /\ ~Loaded(r)
    /\ rpl' = [rpl EXCEPT ![r] = [id |-> x, refs |-> 1, by |-> allocator]]
    /\ Alloc(x)
    /\ UNCHANGED allocator

Acquire(r, x) == AddRef(r) \/ Load(r, x)

(* OSDynLoad_Release, that unloads the RPL with the last reference. *)
DropRef(r) ==
    /\ rpl[r].refs > 1
    /\ rpl' = [rpl EXCEPT ![r].refs = @ - 1]
    /\ UNCHANGED <<allocator, memory>>

Unload(r) ==
    /\ rpl[r].refs = 1
    /\ rpl' = [rpl EXCEPT ![r] = NotLoaded]
    /\ Free(r)
    /\ UNCHANGED allocator

Release(r) == DropRef(r) \/ Unload(r)

(* The system gives a new process the RPLs its program imports, in its own
   memory. loads: their numbers. *)
NewProcess(loads) ==
    /\ rpl' = [r \in Rpls |-> IF r \in DOMAIN loads
                              THEN [id |-> loads[r], refs |-> 1, by |-> "app"]
                              ELSE NotLoaded]
    /\ allocator' = "app"
    /\ UNCHANGED memory

(* With the process its RPLs are gone; nobody calls their free functions. *)
EndProcess ==
    /\ rpl' = [r \in Rpls |-> NotLoaded]
    /\ allocator' = "app"
    /\ UNCHANGED memory

DynLoadTypeOK ==
    /\ rpl \in [Rpls -> [id : Ids \cup {0}, refs : Nat, by : Owners]]
    /\ \A r \in Rpls : rpl[r].id = 0 <=> rpl[r].refs = 0
    /\ allocator \in Owners
    /\ gAllocatedAddresses \subseteq Ids
    /\ heap \subseteq Ids
    /\ moduleMemory \subseteq Ids
=============================================================================
