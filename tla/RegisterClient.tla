---- MODULE RegisterClient ----
(* What the compiler may ask of its allocator, in any order: a register
   anywhere, a run of registers at the top, the return of one register, the
   return of everything above a point.  `held` is what the compiler was given
   and has not returned: two descriptors live in one register if the allocator
   ever forgets it. *)
EXTENDS RegisterAllocator

CONSTANTS
    PushSizes,  \* the sizes of runs asked for (names of a local, arguments, loop state)
    Room        \* the highest top the client lets a push reach

ASSUME ClientAssumption == PushSizes \subseteq Register /\ Room \in Top

VARIABLES
    alloc,      \* CompilerFunction::register_allocator
    held,       \* the registers handed out and not yet returned
    given       \* the registers the last call handed out
vars == <<alloc, held, given>>

Init == alloc = Empty /\ held = {} /\ given = {}

(* ExprDestination::AllocateNew: a register anywhere. *)
AllocateNew ==
    /\ CanAllocate(alloc)
    /\ alloc' = Allocate(alloc)
    /\ given' = {alloc.first_free}
    /\ held' = held \union {alloc.first_free}

(* ExprDestination::PushNew and every push of a run. *)
PushNew(size) ==
    /\ CanPush(alloc, size)
    /\ alloc.stack_top + size <= Room
    /\ alloc' = Push(alloc, size)
    /\ given' = alloc.stack_top..(alloc.stack_top + size - 1)
    /\ held' = held \union (alloc.stack_top..(alloc.stack_top + size - 1))

(* A temporary or a local goes out of use. *)
FreeOne(r) ==
    /\ alloc' = Free(alloc, r)
    /\ held' = held \ {r}
    /\ given' = {}

(* The end of a call, of an argument list or of a loop. *)
PopAbove(top) ==
    /\ alloc' = PopTo(alloc, top)
    /\ held' = {r \in held : r < top}
    /\ given' = {}

Next ==
    \/ AllocateNew
    \/ \E size \in PushSizes : PushNew(size)
    \/ \E r \in held : FreeOne(r)
    \/ \E top \in Top : PopAbove(top)

Spec == Init /\ [][Next]_vars

TypeOK ==
    /\ alloc \in Allocators
    /\ held \subseteq Register
    /\ given \subseteq Register

(* The allocator marks exactly the registers the compiler holds: free never meets
   its assertion ("cannot free unallocated register"), and no register is handed
   out while another descriptor lives in it. *)
MarkedIsHeld == \A r \in Register : alloc.registers[r] <=> r \in held

(* The top is exactly one above the highest register held.  call_function and
   call_method rely on it: the results of a call are left at the top, and the
   assertion after it expects push to return that very register. *)
TopIsTight ==
    /\ \A r \in held : r < alloc.stack_top
    /\ alloc.stack_top = 0 \/ alloc.stack_top - 1 \in held

(* first_free is the lowest register not held: allocate never passes over a free
   register and never returns a taken one. *)
FirstFreeIsLowest ==
    /\ \A r \in Register : r < alloc.first_free => r \in held
    /\ alloc.first_free = Registers \/ alloc.first_free \notin held

(* The frame the function asks for holds every register its code names: the size
   recorded in the prototype is never below a top. *)
SizeCoversTop == alloc.stack_top <= alloc.stack_size

AllocatorInv == TypeOK /\ MarkedIsHeld /\ TopIsTight /\ FirstFreeIsLowest /\ SizeCoversTop

(* A call that succeeds hands out registers nobody held. *)
HandsOutFresh == [][given' \intersect held = {}]_vars
====
