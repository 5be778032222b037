---- MODULE RegisterAllocator ----
(* The register allocator of the compiler (piccolo, compiler/register_allocator.rs):
   Registers registers, a lowest free one, a top and the largest top ever
   reached.  The operators are pure: each takes an allocator and returns the
   next one; None stands for the refusal the callers turn into the error
   "insufficient available registers".

   A register index is a byte.  Registers - 1 is its largest value here, so the
   sum `rbegin + size` of push is taken modulo Registers, as the optimised build
   computes it (the source has 256 registers and a u8). *)
EXTENDS Integers

CONSTANT Registers          \* 256 in the source
ASSUME RegistersAssumption == Registers \in Nat \ {0}

Register == 0..(Registers - 1)
Top == 0..Registers
None == -1

Allocators == [registers: [Register -> BOOLEAN], first_free: Top,
               stack_top: Top, stack_size: Top]

Empty == [registers |-> [r \in Register |-> FALSE],
          first_free |-> 0, stack_top |-> 0, stack_size |-> 0]

Larger(a, b) == IF a < b THEN b ELSE a
Smaller(a, b) == IF a < b THEN a ELSE b

(* Mutant: the search stops at the next register, taken or not. *)
NextFreeUnchecked(registers, from) == Smaller(from + 1, Registers)

(* The first free register at or above `from`, Registers when there is none. *)
NextFree(registers, from) ==
    CHOOSE i \in from..Registers :
        /\ i = Registers \/ ~registers[i]
        /\ \A j \in from..(i - 1) : registers[j]

(* The top below `top` once the free registers under it, down to `bottom`, are given up. *)
LoweredTop(registers, bottom, top) ==
    CHOOSE t \in bottom..top :
        /\ t = bottom \/ registers[t - 1]
        /\ \A j \in t..(top - 1) : ~registers[j]

CanAllocate(a) == a.first_free < Registers

Allocate(a) ==
    LET r == a.first_free
        taken == [a.registers EXCEPT ![r] = TRUE]
        top == IF r = a.stack_top THEN a.stack_top + 1 ELSE a.stack_top
    IN  [registers |-> taken, first_free |-> NextFree(taken, r),
         stack_top |-> top, stack_size |-> Larger(a.stack_size, top)]

(* Mutant: holes left under the new top stay below it. *)
PopToOverHoles(a, newTop) ==
    IF a.stack_top <= newTop THEN a
    ELSE [a EXCEPT !.registers = [r \in Register |-> a.registers[r] /\ r < newTop],
                   !.first_free = Smaller(a.first_free, newTop), !.stack_top = newTop]

PopTo(a, newTop) ==
    IF a.stack_top <= newTop THEN a
    ELSE LET cleared == [r \in Register |-> a.registers[r] /\ ~(newTop <= r /\ r < a.stack_top)]
             first == Smaller(a.first_free, newTop)
         IN  [a EXCEPT !.registers = cleared, !.first_free = first,
                       !.stack_top = LoweredTop(cleared, first, newTop)]

(* Mutant: free below the top forgets the mark. *)
FreeKeepsMark(a, r) ==
    IF r + 1 = a.stack_top THEN PopTo(a, r)
    ELSE [a EXCEPT !.first_free = Smaller(a.first_free, r)]

Free(a, r) ==
    IF r + 1 = a.stack_top THEN PopTo(a, r)
    ELSE [a EXCEPT !.registers[r] = FALSE, !.first_free = Smaller(a.first_free, r)]

CanPush(a, size) == size > 0 /\ size <= Registers - a.stack_top

(* The registers push marks: from the old top up to the sum, computed in a byte. *)
Pushed(a, size) ==
    {r \in Register : a.stack_top <= r /\ r < (a.stack_top + size) % Registers}

Push(a, size) ==
    [registers |-> [r \in Register |-> a.registers[r] \/ r \in Pushed(a, size)],
     first_free |-> IF a.first_free = a.stack_top THEN a.first_free + size ELSE a.first_free,
     stack_top |-> a.stack_top + size,
     stack_size |-> Larger(a.stack_size, a.stack_top + size)]
====
