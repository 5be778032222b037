---- MODULE CompilerProofs ----
(* The compiler of piccolo, for every number of registers.

   The register allocator (RegisterClient): its invariant holds and it hands out no
   register that is in use, as long as no push reaches the last one (RoomLeft).

   The walk over a function (LuaScopes): no assertion of the compiler fails,
   whatever the source text (CompilerSound), and no jump of the code leads into the scope
   of a local it did not start in (JumpsStayOutOfScopes).  The proof goes from the parts
   of the function under compilation up to the walk:
     - the operators that change one field, and what they leave alone (Keeps);
     - Regular(g): registers, locals, blocks, jump targets and pending jumps fit
       together, and each method of the compiler keeps them so; its last part, Scoped(g),
       is what tells the scopes of locals from the places jumps lead to;
     - Laid(g, o, at, n): the blocks of g are those of the constructs o the walk is
       inside of, the state registers of their loops are marked, and every jump to a
       label the compiler made up waits where its construct will resolve it;
     - each construct closes on what it opened (ConstructCloses), and opens what it
       will close (ConstructOpens, ElseOpens, ElseIfOpens);
     - CompilerInv: the above for every state of the walk.
   UpvalueProofs goes on from there. *)
EXTENDS RegisterClient, LuaScopes, SequenceTheorems, WellFoundedInduction, TLAPS

(* The register allocator. *)

(* Every nonempty set of naturals has a least element. *)
LEMMA LeastElement ==
    ASSUME NEW T, T \subseteq Nat, T # {}
    PROVE  \E x \in T : \A y \in T : x <= y
<1>1. PICK x \in T : \A y \in T : ~(<<y, x>> \in OpToRel(<, Nat))
  BY WFMin, NatLessThanWellFounded, Zenon
<1>2. \A y \in T : ~(y < x)
  <2> TAKE y \in T
  <2>1. <<y, x>> \in Nat \X Nat
    OBVIOUS
  <2> QED BY <1>1, <2>1, Zenon DEF OpToRel
<1> QED BY <1>2

(* The search of allocate ends at the first free register, or past the last one. *)
LEMMA NextFreeFinds ==
    ASSUME NEW regs \in [Register -> BOOLEAN], NEW from \in Top
    PROVE  /\ NextFree(regs, from) \in from..Registers
           /\ NextFree(regs, from) = Registers \/ ~regs[NextFree(regs, from)]
           /\ \A j \in from..(NextFree(regs, from) - 1) : regs[j]
<1> DEFINE T == {i \in from..Registers : i = Registers \/ ~regs[i]}
<1>1. T \subseteq Nat /\ Registers \in T
  BY RegistersAssumption DEF Top
<1>2. PICK i \in T : \A y \in T : i <= y
  BY <1>1, LeastElement, Zenon
<1>3. \A j \in from..(i - 1) : regs[j]
  BY <1>1, <1>2, RegistersAssumption DEF Top
<1> QED BY <1>2, <1>3 DEF NextFree

(* Giving up free registers ends at the lowest top that loses none in use. *)
LEMMA LoweredTopFinds ==
    ASSUME NEW regs \in [Register -> BOOLEAN], NEW bottom \in Top, NEW top \in Top,
           bottom <= top
    PROVE  /\ LoweredTop(regs, bottom, top) \in bottom..top
           /\ LoweredTop(regs, bottom, top) = bottom \/ regs[LoweredTop(regs, bottom, top) - 1]
           /\ \A j \in LoweredTop(regs, bottom, top)..(top - 1) : ~regs[j]
<1> DEFINE T == {t \in bottom..top : \A j \in t..(top - 1) : ~regs[j]}
<1>1. T \subseteq Nat /\ top \in T
  BY RegistersAssumption DEF Top
<1>2. PICK t \in T : \A y \in T : t <= y
  BY <1>1, LeastElement, Zenon
<1>3. t = bottom \/ regs[t - 1]
  <2> SUFFICES ASSUME t # bottom, ~regs[t - 1] PROVE FALSE
    OBVIOUS
  <2>1. t - 1 \in T
    BY <1>2, RegistersAssumption DEF Top
  <2> QED BY <1>1, <1>2, <2>1
<1> QED BY <1>2, <1>3 DEF LoweredTop

LEMMA SmallRemainder ==
    ASSUME NEW n \in Nat \ {0}, NEW x \in Nat, x < n
    PROVE  x % n = x
  OBVIOUS

(* The assumption the theorem rests on: no client pushes up to the last register. *)
RoomLeft == Room < Registers

LEMMA InitEstablishes == Init => AllocatorInv
  BY RegistersAssumption DEF Init, AllocatorInv, TypeOK, MarkedIsHeld, TopIsTight,
     FirstFreeIsLowest, SizeCoversTop, Allocators, Empty, Register, Top

LEMMA AllocateNewKeeps == AllocatorInv /\ AllocateNew => AllocatorInv'
<1> SUFFICES ASSUME AllocatorInv, AllocateNew PROVE AllocatorInv'
  OBVIOUS
<1> USE RegistersAssumption DEF AllocatorInv, TypeOK, MarkedIsHeld, TopIsTight,
        FirstFreeIsLowest, SizeCoversTop, Allocators, Register, Top
<1> DEFINE r == alloc.first_free
           taken == [alloc.registers EXCEPT ![r] = TRUE]
<1>1. r \in Register /\ taken \in [Register -> BOOLEAN] /\ r <= alloc.stack_top
  BY DEF AllocateNew, CanAllocate
<1>2. /\ NextFree(taken, r) \in r..Registers
      /\ NextFree(taken, r) = Registers \/ ~taken[NextFree(taken, r)]
      /\ \A j \in r..(NextFree(taken, r) - 1) : taken[j]
  BY <1>1, NextFreeFinds
<1>3. /\ alloc'.registers = taken
      /\ alloc'.first_free = NextFree(taken, r)
      /\ alloc'.stack_top = IF r = alloc.stack_top THEN alloc.stack_top + 1 ELSE alloc.stack_top
      /\ alloc'.stack_size = Larger(alloc.stack_size, alloc'.stack_top)
      /\ alloc' \in [registers: {alloc'.registers}, first_free: {alloc'.first_free},
                     stack_top: {alloc'.stack_top}, stack_size: {alloc'.stack_size}]
      /\ held' = held \union {r} /\ given' = {r}
  BY DEF AllocateNew, Allocate
<1> HIDE DEF taken, r
<1>4. MarkedIsHeld'
  BY <1>1, <1>3 DEF taken
<1>5. TopIsTight'
  BY <1>1, <1>3
<1>6. FirstFreeIsLowest'
  <2>1. ASSUME NEW q \in Register, q < alloc'.first_free PROVE q \in held'
    <3>1. CASE q < r
      BY <1>3, <2>1, <3>1 DEF r
    <3>2. CASE ~(q < r)
      <4>1. taken[q]
        BY <1>1, <1>2, <1>3, <2>1, <3>2
      <4> QED BY <1>3, <1>4, <2>1, <4>1
    <3> QED BY <3>1, <3>2
  <2>2. alloc'.first_free = Registers \/ alloc'.first_free \notin held'
    BY <1>1, <1>2, <1>3, <1>4
  <2> QED BY <2>1, <2>2
<1>7. SizeCoversTop' /\ TypeOK'
  BY <1>1, <1>2, <1>3 DEF Larger
<1> QED BY <1>4, <1>5, <1>6, <1>7

LEMMA PushNewKeeps ==
    ASSUME RoomLeft, AllocatorInv, NEW size \in PushSizes, PushNew(size)
    PROVE  AllocatorInv'
<1> USE RegistersAssumption DEF AllocatorInv, TypeOK, MarkedIsHeld, TopIsTight,
        FirstFreeIsLowest, SizeCoversTop, Allocators, Register, Top
<1> DEFINE top == alloc.stack_top + size
<1>1. size \in Nat /\ size > 0 /\ top < Registers /\ top \in Nat
  BY ClientAssumption DEF PushNew, CanPush, RoomLeft
<1>2. top % Registers = top
  BY <1>1, SmallRemainder, RegistersAssumption, Zenon
<1>3. Pushed(alloc, size) = {q \in Register : alloc.stack_top <= q /\ q < top}
  BY <1>2 DEF Pushed
<1>4. /\ alloc'.registers = [q \in Register |-> alloc.registers[q] \/ q \in Pushed(alloc, size)]
      /\ alloc'.first_free = IF alloc.first_free = alloc.stack_top THEN alloc.first_free + size
                             ELSE alloc.first_free
      /\ alloc'.stack_top = top
      /\ alloc'.stack_size = Larger(alloc.stack_size, top)
      /\ alloc' \in [registers: {alloc'.registers}, first_free: {alloc'.first_free},
                     stack_top: {alloc'.stack_top}, stack_size: {alloc'.stack_size}]
      /\ held' = held \union (alloc.stack_top..(alloc.stack_top + size - 1))
      /\ given' = alloc.stack_top..(alloc.stack_top + size - 1)
  <2> HIDE DEF AllocatorInv
  <2>1. alloc' = Push(alloc, size)
    BY DEF PushNew
  <2>2. alloc'.registers = [q \in Register |-> alloc.registers[q] \/ q \in Pushed(alloc, size)]
    BY <2>1 DEF Push
  <2>3. /\ alloc'.first_free = IF alloc.first_free = alloc.stack_top THEN alloc.first_free + size
                               ELSE alloc.first_free
        /\ alloc'.stack_top = top
        /\ alloc'.stack_size = Larger(alloc.stack_size, top)
    BY <2>1 DEF Push
  <2>4. alloc' \in [registers: {alloc'.registers}, first_free: {alloc'.first_free},
                    stack_top: {alloc'.stack_top}, stack_size: {alloc'.stack_size}]
    BY <2>1 DEF Push
  <2>5. /\ held' = held \union (alloc.stack_top..(alloc.stack_top + size - 1))
        /\ given' = alloc.stack_top..(alloc.stack_top + size - 1)
    BY Zenon DEF PushNew
  <2> QED BY <2>2, <2>3, <2>4, <2>5
<1> HIDE DEF top
<1>5. MarkedIsHeld'
  <2> SUFFICES ASSUME NEW q \in Register PROVE alloc'.registers[q] <=> q \in held'
    OBVIOUS
  <2>1. alloc'.registers[q] <=> alloc.registers[q] \/ q \in Pushed(alloc, size)
    BY <1>4
  <2>2. q \in Pushed(alloc, size) <=> q \in alloc.stack_top..(alloc.stack_top + size - 1)
    BY <1>1, <1>3 DEF top
  <2> QED BY <1>4, <2>1, <2>2
<1>6. TopIsTight'
  BY <1>1, <1>4 DEF top
<1>7. FirstFreeIsLowest'
  BY <1>1, <1>4 DEF top
<1>8. SizeCoversTop' /\ TypeOK'
  <2>1. alloc'.registers \in [Register -> BOOLEAN]
    BY <1>4
  <2>2. held' \subseteq Register /\ given' \subseteq Register
    <3>1. alloc.stack_top..(alloc.stack_top + size - 1) \subseteq Register
      BY <1>1 DEF top
    <3> QED BY <1>4, <3>1
  <2>3. SizeCoversTop' /\ alloc'.first_free \in Top /\ alloc'.stack_top \in Top
          /\ alloc'.stack_size \in Top
    BY <1>1, <1>4 DEF Larger, top
  <2> QED BY <1>4, <2>1, <2>2, <2>3
<1> QED BY <1>5, <1>6, <1>7, <1>8

(* What pop_to does to an allocator that satisfies the invariant. *)
LEMMA PopToKeeps ==
    ASSUME AllocatorInv, NEW newTop \in Top,
           alloc' = PopTo(alloc, newTop), held' = {r \in held : r < newTop}, given' = {}
    PROVE  AllocatorInv'
<1> USE RegistersAssumption DEF AllocatorInv, TypeOK, MarkedIsHeld, TopIsTight,
        FirstFreeIsLowest, SizeCoversTop, Allocators, Register, Top
<1>1. CASE alloc.stack_top <= newTop
  <2>1. alloc' = alloc
    BY <1>1 DEF PopTo
  <2>2. \A r \in held : r < newTop
    BY <1>1
  <2>3. held' = held
    BY <2>2
  <2> QED BY <2>1, <2>3
<1>2. CASE ~(alloc.stack_top <= newTop)
  <2> DEFINE cleared == [r \in Register |->
                            alloc.registers[r] /\ ~(newTop <= r /\ r < alloc.stack_top)]
             first == Smaller(alloc.first_free, newTop)
             low == LoweredTop(cleared, first, newTop)
  <2>1. cleared \in [Register -> BOOLEAN] /\ first \in Top /\ first <= newTop
    BY DEF Smaller
  <2>2. /\ low \in first..newTop
        /\ low = first \/ cleared[low - 1]
        /\ \A j \in low..(newTop - 1) : ~cleared[j]
    BY <2>1, LoweredTopFinds
  <2>3. /\ alloc'.registers = cleared
        /\ alloc'.first_free = first
        /\ alloc'.stack_top = low
        /\ alloc'.stack_size = alloc.stack_size
        /\ alloc' \in [registers: {alloc'.registers}, first_free: {alloc'.first_free},
                       stack_top: {alloc'.stack_top}, stack_size: {alloc'.stack_size}]
    BY <1>2 DEF PopTo
  <2>4. ASSUME NEW r \in Register PROVE cleared[r] <=> r \in held'
    <3>1. cleared[r] <=> r \in held /\ ~(newTop <= r /\ r < alloc.stack_top)
      OBVIOUS
    <3>2. r \in held => r < alloc.stack_top
      OBVIOUS
    <3> QED BY <3>1, <3>2
  <2>5. first = IF alloc.first_free < newTop THEN alloc.first_free ELSE newTop
    BY DEF Smaller
  <2> HIDE DEF cleared, first, low
  <2>6. TopIsTight'
    <3>1. ASSUME NEW r \in held' PROVE r < low
      BY <2>1, <2>2, <2>4, <3>1
    <3>2. low = 0 \/ low - 1 \in held'
      <4>1. CASE low = first
        BY <2>2, <2>4, <2>5, <4>1
      <4>2. CASE cleared[low - 1]
        BY <2>1, <2>2, <2>4, <4>2
      <4> QED BY <2>2, <4>1, <4>2
    <3> QED BY <2>3, <3>1, <3>2
  <2>7. FirstFreeIsLowest'
    BY <2>1, <2>2, <2>3, <2>4, <2>5
  <2>8. MarkedIsHeld'
    BY <2>3, <2>4
  <2>9. SizeCoversTop' /\ TypeOK'
    BY <1>2, <2>1, <2>2, <2>3
  <2> QED BY <2>6, <2>7, <2>8, <2>9
<1> QED BY <1>1, <1>2

LEMMA FreeOneKeeps ==
    ASSUME AllocatorInv, NEW r \in held, FreeOne(r)
    PROVE  AllocatorInv'
<1> USE RegistersAssumption DEF AllocatorInv, TypeOK, MarkedIsHeld, TopIsTight,
        FirstFreeIsLowest, SizeCoversTop, Allocators, Register, Top
<1>1. CASE r + 1 = alloc.stack_top
  <2>1. alloc' = PopTo(alloc, r)
    BY <1>1 DEF FreeOne, Free
  <2>2. \A q \in held : q < r <=> q # r
    BY <1>1
  <2>3. held' = {q \in held : q < r}
    BY <2>2 DEF FreeOne
  <2> QED BY <2>1, <2>3, PopToKeeps DEF FreeOne
<1>2. CASE r + 1 # alloc.stack_top
  <2>1. /\ alloc'.registers = [alloc.registers EXCEPT ![r] = FALSE]
        /\ alloc'.first_free = Smaller(alloc.first_free, r)
        /\ alloc'.stack_top = alloc.stack_top
        /\ alloc'.stack_size = alloc.stack_size
        /\ alloc' \in [registers: {alloc'.registers}, first_free: {alloc'.first_free},
                       stack_top: {alloc'.stack_top}, stack_size: {alloc'.stack_size}]
        /\ held' = held \ {r} /\ given' = {}
    BY <1>2 DEF FreeOne, Free
  <2>2. MarkedIsHeld'
    BY <2>1
  <2>3. TopIsTight'
    BY <1>2, <2>1
  <2>4. FirstFreeIsLowest'
    BY <2>1 DEF Smaller
  <2>5. SizeCoversTop' /\ TypeOK'
    <3>1. alloc'.registers \in [Register -> BOOLEAN]
      BY <2>1
    <3>2. alloc'.first_free \in Top
      BY <2>1 DEF Smaller
    <3> QED BY <2>1, <3>1, <3>2
  <2> QED BY <2>2, <2>3, <2>4, <2>5
<1> QED BY <1>1, <1>2

LEMMA NextKeeps == RoomLeft /\ AllocatorInv /\ [Next]_vars => AllocatorInv'
<1> SUFFICES ASSUME RoomLeft, AllocatorInv, [Next]_vars PROVE AllocatorInv'
  OBVIOUS
<1>1. CASE AllocateNew
  BY <1>1, AllocateNewKeeps
<1>2. CASE \E size \in PushSizes : PushNew(size)
  BY <1>2, PushNewKeeps
<1>3. CASE \E r \in held : FreeOne(r)
  BY <1>3, FreeOneKeeps
<1>4. CASE \E top \in Top : PopAbove(top)
  BY <1>4, PopToKeeps DEF PopAbove
<1>5. CASE UNCHANGED vars
  BY <1>5 DEF vars, AllocatorInv, TypeOK, MarkedIsHeld, TopIsTight, FirstFreeIsLowest,
     SizeCoversTop
<1> QED BY <1>1, <1>2, <1>3, <1>4, <1>5 DEF Next

(* For every number of registers: what is marked is what is held, the top is tight,
   first_free is the lowest free register and the recorded size covers the top. *)
THEOREM AllocatorIsRight ==
    ASSUME RoomLeft
    PROVE  Spec => []AllocatorInv
<1>1. AllocatorInv /\ [Next]_vars => AllocatorInv'
  BY NextKeeps
<1> QED BY <1>1, InitEstablishes, PTL DEF Spec

(* In particular no register is marked that nobody holds, nor held and unmarked. *)
THEOREM MarksWhatIsHeld ==
    ASSUME RoomLeft
    PROVE  Spec => []MarkedIsHeld
<1>1. AllocatorInv => MarkedIsHeld
  BY DEF AllocatorInv
<1> QED BY <1>1, AllocatorIsRight, PTL

(* call_function and call_method find the results of a call at the top. *)
THEOREM TopStaysTight ==
    ASSUME RoomLeft
    PROVE  Spec => []TopIsTight
<1>1. AllocatorInv => TopIsTight
  BY DEF AllocatorInv
<1> QED BY <1>1, AllocatorIsRight, PTL

(* No register is handed out while another value lives in it. *)
THEOREM HandsOutOnlyFresh ==
    ASSUME RoomLeft
    PROVE  Spec => HandsOutFresh
<1>1. AllocatorInv /\ [Next]_vars => [given' \intersect held = {}]_vars
  <2> SUFFICES ASSUME AllocatorInv, Next PROVE given' \intersect held = {}
    BY DEF vars
  <2> USE RegistersAssumption DEF AllocatorInv, TypeOK, TopIsTight, FirstFreeIsLowest,
          Allocators, Register, Top
  <2>1. CASE AllocateNew
    BY <2>1 DEF AllocateNew, CanAllocate
  <2>2. CASE \E size \in PushSizes : PushNew(size)
    BY <2>2, ClientAssumption DEF PushNew
  <2>3. CASE \E r \in held : FreeOne(r)
    BY <2>3 DEF FreeOne
  <2>4. CASE \E top \in Top : PopAbove(top)
    BY <2>4 DEF PopAbove
  <2> QED BY <2>1, <2>2, <2>3, <2>4 DEF Next
<1> QED BY <1>1, AllocatorIsRight, PTL DEF Spec, HandsOutFresh

(* Registers as LuaScopes uses them: those below the top, and no others. *)

Stacked(a, top) ==
    /\ a \in Allocators
    /\ a.stack_top = top /\ a.first_free = top
    /\ \A r \in Register : a.registers[r] <=> r < top

LEMMA PopToStacked ==
    ASSUME NEW top \in Top, NEW new \in 0..top, NEW a, Stacked(a, top)
    PROVE  Stacked(PopTo(a, new), new)
<1> USE RegistersAssumption DEF Allocators, Register, Top
<1>1. CASE new = top
  BY <1>1 DEF PopTo, Stacked
<1>2. CASE new < top
  <2> DEFINE cleared == [r \in Register |-> a.registers[r] /\ ~(new <= r /\ r < a.stack_top)]
             b == PopTo(a, new)
  <2>1. Smaller(a.first_free, new) = new /\ ~(a.stack_top <= new)
    BY <1>2 DEF Smaller, Stacked
  <2>2. LoweredTop(cleared, new, new) \in new..new
    <3>1. cleared \in [Register -> BOOLEAN] /\ new \in Top
      OBVIOUS
    <3> HIDE DEF cleared
    <3> QED
      BY <3>1, LoweredTopFinds
  <2>3. LoweredTop(cleared, new, new) = new
    BY <2>2
  <2>4. /\ b.registers = cleared /\ b.first_free = new /\ b.stack_top = new
        /\ b \in [registers : {cleared}, first_free : {new}, stack_top : {new}, stack_size : Top]
    BY <2>1, <2>3 DEF PopTo, Stacked
  <2>5. \A r \in Register : cleared[r] <=> r < new
    <3> TAKE r \in Register
    <3>1. cleared[r] <=> a.registers[r] /\ ~(new <= r /\ r < top)
      BY DEF Stacked
    <3>2. a.registers[r] <=> r < top
      BY DEF Stacked
    <3> QED
      BY <1>2, <3>1, <3>2
  <2>6. cleared \in [Register -> BOOLEAN]
    OBVIOUS
  <2> HIDE DEF cleared, b
  <2>7. Stacked(b, new)
    BY <2>4, <2>5, <2>6 DEF Stacked
  <2> QED
    BY <2>7 DEF b
<1> QED
  BY <1>1, <1>2

LEMMA FreeStacked ==
    ASSUME NEW top \in Top, top > 0, NEW a, Stacked(a, top)
    PROVE  Stacked(Free(a, top - 1), top - 1)
<1>1. top - 1 \in 0..top /\ top - 1 + 1 = a.stack_top
  BY RegistersAssumption DEF Top, Stacked
<1>2. Free(a, top - 1) = PopTo(a, top - 1)
  BY <1>1 DEF Free
<1> QED
  BY <1>1, <1>2, PopToStacked

LEMMA PushStacked ==
    ASSUME NEW top \in Top, NEW n \in Nat \ {0}, top + n < Registers, NEW a, Stacked(a, top)
    PROVE  CanPush(a, n) /\ Stacked(Push(a, n), top + n)
<1> USE RegistersAssumption DEF Register, Top
<1>1. CanPush(a, n)
  BY DEF CanPush, Stacked
<1>2. (a.stack_top + n) % Registers = top + n
  BY SmallRemainder DEF Stacked
<1>3. Pushed(a, n) = {r \in Register : top <= r /\ r < top + n}
  BY <1>2 DEF Pushed, Stacked
<1> DEFINE regs == [r \in Register |-> a.registers[r] \/ r \in Pushed(a, n)]
           b == Push(a, n)
<1>4. /\ b.registers = regs /\ b.first_free = top + n /\ b.stack_top = top + n
      /\ b \in [registers : {regs}, first_free : {top + n}, stack_top : {top + n}, stack_size : {b.stack_size}]
      /\ b.stack_size = Larger(a.stack_size, top + n)
  BY DEF Push, Stacked
<1>5. b.stack_size \in Top
  BY <1>4 DEF Larger, Stacked, Allocators
<1>6. regs \in [Register -> BOOLEAN] /\ \A r \in Register : regs[r] <=> r < top + n
  <2>1. ASSUME NEW r \in Register PROVE regs[r] <=> r < top + n
    <3>1. regs[r] <=> a.registers[r] \/ (top <= r /\ r < top + n)
      BY <1>3
    <3>2. a.registers[r] <=> r < top
      BY DEF Stacked
    <3> QED
      BY <3>1, <3>2
  <2>2. regs \in [Register -> BOOLEAN]
    OBVIOUS
  <2> QED
    BY <2>1, <2>2
<1> HIDE DEF regs, b
<1>7. Stacked(b, top + n)
  BY <1>4, <1>5, <1>6 DEF Stacked, Allocators
<1> QED
  BY <1>1, <1>7 DEF b

LEMMA TempStacked ==
    ASSUME NEW top \in Top, top < Registers, NEW a, Stacked(a, top)
    PROVE  /\ CanAllocate(a) /\ a.first_free = top
           /\ Stacked(Free(Allocate(a), top), top)
<1> USE RegistersAssumption DEF Register, Top
<1>1. CanAllocate(a) /\ a.first_free = top
  BY DEF CanAllocate, Stacked
<1> DEFINE taken == [a.registers EXCEPT ![top] = TRUE]
           b == Allocate(a)
<1>2. taken \in [Register -> BOOLEAN] /\ \A r \in Register : taken[r] <=> r < top + 1
  BY DEF Stacked, Allocators
<1>3. NextFree(taken, top) = top + 1
  <2> DEFINE next == NextFree(taken, top)
  <2> HIDE DEF taken
  <2>1. /\ next \in top..Registers /\ (next = Registers \/ ~taken[next])
        /\ \A j \in top..next - 1 : taken[j]
    BY <1>2, NextFreeFinds
  <2> HIDE DEF next
  <2>2. next # top
    BY <1>2, <2>1
  <2>3. ~(next > top + 1)
    <3> SUFFICES ASSUME next > top + 1 PROVE FALSE
      OBVIOUS
    <3>1. top + 1 \in top..next - 1 /\ top + 1 \in Register
      BY <2>1
    <3> QED
      BY <1>2, <2>1, <3>1
  <2> QED
    BY <2>1, <2>2, <2>3 DEF next
<1>4. /\ b.registers = taken /\ b.first_free = top + 1 /\ b.stack_top = top + 1
      /\ b.stack_size = Larger(a.stack_size, top + 1)
      /\ b \in [registers : {taken}, first_free : {top + 1}, stack_top : {top + 1}, stack_size : {b.stack_size}]
  BY <1>1, <1>3 DEF Allocate, Stacked
<1>5. b.stack_size \in Top
  BY <1>4 DEF Larger, Stacked, Allocators
<1> HIDE DEF taken, b
<1>6. Stacked(b, top + 1)
  BY <1>2, <1>4, <1>5 DEF Stacked, Allocators
<1>7. Stacked(Free(b, top), top)
  <2>1. top + 1 \in Top /\ top + 1 > 0 /\ (top + 1) - 1 = top
    OBVIOUS
  <2> QED
    BY <1>6, <2>1, FreeStacked
<1> QED
  BY <1>1, <1>7 DEF b

(* The function under compilation. *)

JumpLabels == [kind : {"unique"}, id : Nat] \union [kind : {"named"}, id : Labels] \union {Break}
Instrs == [op : {"jump", "test", "forprep", "forloop", "closure", "write", "return"},
           target : Int, close : Int, writes : SUBSET Int, captures : Int]
LocalDescriptors == [reg : Nat, from : Nat \ {0}]
BlockDescriptors == [stack_bottom : Nat, bottom_jump_target : Nat, owns_upvalues : BOOLEAN]
JumpTargets == [label : JumpLabels, instruction : Nat, stack_top : Nat, block_index : Nat]
PendingJumps == [target : JumpLabels, instruction : Nat, block_index : Nat, stack_top : Nat,
                 close_upvalues : BOOLEAN]

IsFunctionRecord(g) ==
    g \in [alloc : {g.alloc}, locals : {g.locals}, blocks : {g.blocks}, jump_targets : {g.jump_targets},
           pending_jumps : {g.pending_jumps}, ops : {g.ops}, unique : {g.unique}, error : {g.error},
           scopes : {g.scopes}, fixed_params : {g.fixed_params}]

(* Another step of the compiler leaves all of g but what the names say. *)
Keeps(g, h, fields) ==
    /\ IsFunctionRecord(h) /\ h.fixed_params = g.fixed_params
    /\ "alloc" \notin fields => h.alloc = g.alloc
    /\ "locals" \notin fields => h.locals = g.locals
    /\ "blocks" \notin fields => h.blocks = g.blocks
    /\ "jump_targets" \notin fields => h.jump_targets = g.jump_targets
    /\ "pending_jumps" \notin fields => h.pending_jumps = g.pending_jumps
    /\ "ops" \notin fields => h.ops = g.ops
    /\ "unique" \notin fields => h.unique = g.unique
    /\ "error" \notin fields => h.error = g.error
    /\ "scopes" \notin fields => h.scopes = g.scopes

LEMMA FailFields ==
    ASSUME NEW g, IsFunctionRecord(g), NEW e
    PROVE  Keeps(g, Fail(g, e), {"error"}) /\ Fail(g, e).error = e
  BY DEF Fail, IsFunctionRecord, Keeps

LEMMA EmitFields ==
    ASSUME NEW g, IsFunctionRecord(g), NEW i
    PROVE  Keeps(g, Emit(g, i), {"ops"}) /\ Emit(g, i).ops = Append(g.ops, i)
  BY DEF Emit, IsFunctionRecord, Keeps

LEMMA PushFields ==
    ASSUME NEW top \in Top, NEW n \in Nat \ {0}, top + n < Registers,
           NEW g, IsFunctionRecord(g), Stacked(g.alloc, top)
    PROVE  Keeps(g, PushRegisters(g, n), {"alloc"}) /\ Stacked(PushRegisters(g, n).alloc, top + n)
<1>1. CanPush(g.alloc, n) /\ Stacked(Push(g.alloc, n), top + n)
  BY PushStacked
<1>2. PushRegisters(g, n) = [g EXCEPT !.alloc = Push(@, n)]
  BY <1>1 DEF PushRegisters
<1> QED
  BY <1>1, <1>2 DEF IsFunctionRecord, Keeps

LEMMA TempFields ==
    ASSUME NEW top \in Top, top < Registers, NEW g, IsFunctionRecord(g), Stacked(g.alloc, top), NEW i
    PROVE  /\ Keeps(g, WithTemp(g, i), {"alloc", "ops"})
           /\ Stacked(WithTemp(g, i).alloc, top)
           /\ WithTemp(g, i).ops = Append(g.ops, [i EXCEPT !.writes = {top}])
<1>1. CanAllocate(g.alloc) /\ g.alloc.first_free = top /\ Stacked(Free(Allocate(g.alloc), top), top)
  BY TempStacked
<1> DEFINE h == [g EXCEPT !.alloc = Free(Allocate(@), top)]
<1>2. WithTemp(g, i) = Emit(h, [i EXCEPT !.writes = {top}])
  BY <1>1 DEF WithTemp
<1>3. Keeps(g, h, {"alloc"}) /\ h.alloc = Free(Allocate(g.alloc), top)
  BY DEF IsFunctionRecord, Keeps
<1> HIDE DEF h
<1> QED
  BY <1>1, <1>2, <1>3, EmitFields DEF Keeps

LEMMA DeclareFields ==
    ASSUME NEW g, IsFunctionRecord(g), NEW r
    PROVE  /\ Keeps(g, DeclareLocal(g, r), {"locals"})
           /\ DeclareLocal(g, r).locals = Append(g.locals, [reg |-> r, from |-> Pc(g)])
  BY DEF DeclareLocal, IsFunctionRecord, Keeps

LEMMA EnterFields ==
    ASSUME NEW g, IsFunctionRecord(g)
    PROVE  /\ Keeps(g, EnterBlock(g), {"blocks"})
           /\ EnterBlock(g).blocks = Append(g.blocks, [stack_bottom |-> StackTop(g),
                                      bottom_jump_target |-> Len(g.jump_targets), owns_upvalues |-> FALSE])
  BY DEF EnterBlock, IsFunctionRecord, Keeps

(* The end of a block gives its registers back. *)

StackOf(top, size) ==
    [registers |-> [r \in Register |-> r < top], first_free |-> top, stack_top |-> top, stack_size |-> size]

LEMMA StackedIs ==
    ASSUME NEW top \in Top, NEW a, Stacked(a, top)
    PROVE  a = StackOf(top, a.stack_size) /\ a.stack_size \in Top
<1>1. a.registers = [r \in Register |-> r < top]
  <2>1. \A r \in Register : a.registers[r] = (r < top)
    <3> TAKE r \in Register
    <3>1. a.registers[r] \in BOOLEAN /\ (a.registers[r] <=> r < top)
      BY DEF Stacked, Allocators
    <3>2. CASE r < top
      BY <3>1, <3>2
    <3>3. CASE ~(r < top)
      BY <3>1, <3>3
    <3> QED
      BY <3>2, <3>3
  <2>2. a.registers = [r \in Register |-> a.registers[r]]
    BY DEF Stacked, Allocators
  <2> QED
    BY <2>1, <2>2, Zenon
<1>2. a = [registers |-> a.registers, first_free |-> a.first_free, stack_top |-> a.stack_top,
           stack_size |-> a.stack_size] /\ a.stack_size \in Top
  BY DEF Stacked, Allocators
<1>3. a.first_free = top /\ a.stack_top = top
  BY DEF Stacked
<1> QED
  BY <1>1, <1>2, <1>3, Zenon DEF StackOf

LEMMA StackOfIs ==
    ASSUME NEW top \in Top, NEW size \in Top
    PROVE  Stacked(StackOf(top, size), top) /\ StackOf(top, size).stack_size = size
<1> DEFINE marks == [r \in Register |-> r < top]
<1>1. marks \in [Register -> BOOLEAN] /\ \A r \in Register : marks[r] <=> r < top
  <2>1. Register \in SUBSET Nat /\ top \in Nat
    BY RegistersAssumption DEF Register, Top
  <2>2. marks \in [Register -> BOOLEAN]
    BY <2>1
  <2>3. ASSUME NEW r \in Register PROVE marks[r] <=> r < top
    BY <2>1
  <2> QED
    BY <2>2, <2>3, Zenon
<1> HIDE DEF marks
<1>2. LET a == [registers |-> marks, first_free |-> top, stack_top |-> top, stack_size |-> size]
      IN  Stacked(a, top) /\ a.stack_size = size
  BY <1>1 DEF Stacked, Allocators
<1> QED
  BY <1>2 DEF StackOf, marks

LEMMA FreeStackOf ==
    ASSUME NEW top \in Top, top > 0, NEW size \in Top
    PROVE  Free(StackOf(top, size), top - 1) = StackOf(top - 1, size)
<1>1. Stacked(Free(StackOf(top, size), top - 1), top - 1)
  BY StackOfIs, FreeStacked
<1>2. top - 1 \in Top
  BY RegistersAssumption DEF Top
<1>3. Free(StackOf(top, size), top - 1).stack_size = size
  BY RegistersAssumption DEF Free, PopTo, StackOf, Top
<1> QED
  BY <1>1, <1>2, <1>3, StackedIs

Freeing(a, s, n) == CHOOSE h : h = [i \in 0..n |-> IF i = 0 THEN a ELSE Free(h[i - 1], s[Len(s) + 1 - i].reg)]

LEMMA FreedOneByOne ==
    ASSUME NEW top \in Top, NEW n \in 0..top, NEW a, Stacked(a, top), NEW s,
           \A i \in 1..n : s[Len(s) + 1 - i].reg = top - i
    PROVE  Stacked(Freeing(a, s, n)[n], top - n)
<1> DEFINE size == a.stack_size
           w == [i \in 0..n |-> StackOf(top - i, size)]
           Freed(h) == h = [i \in 0..n |-> IF i = 0 THEN a ELSE Free(h[i - 1], s[Len(s) + 1 - i].reg)]
<1>1. a = StackOf(top, size) /\ size \in Top
  BY StackedIs
<1> HIDE DEF size
<1>2. top \in Nat /\ n \in Nat /\ \A i \in 0..n : top - i \in Top
  BY RegistersAssumption DEF Top
<1>3. \A i \in 1..n : Free(StackOf(top - (i - 1), size), top - i) = StackOf(top - i, size)
  <2> TAKE i \in 1..n
  <2>1. /\ i - 1 \in 0..n /\ top - (i - 1) \in Top /\ top - (i - 1) > 0
        /\ (top - (i - 1)) - 1 = top - i
    BY <1>2 DEF Top
  <2> QED
    BY <1>1, <2>1, FreeStackOf
<1>4. \A i \in 0..n : w[i] = IF i = 0 THEN a ELSE Free(w[i - 1], s[Len(s) + 1 - i].reg)
  <2> TAKE i \in 0..n
  <2>1. i = 0 => w[i] = a
    <3>1. top - 0 = top /\ w[i] = StackOf(top - i, size)
      BY <1>2
    <3> HIDE DEF w
    <3> QED
      BY <1>1, <3>1
  <2>2. ASSUME i # 0 PROVE w[i] = Free(w[i - 1], s[Len(s) + 1 - i].reg)
    <3>1. i \in 1..n /\ i - 1 \in 0..n
      BY <2>2
    <3>2. w[i] = StackOf(top - i, size) /\ w[i - 1] = StackOf(top - (i - 1), size)
      BY <3>1
    <3>3. s[Len(s) + 1 - i].reg = top - i
      BY <3>1
    <3> HIDE DEF w
    <3> QED
      BY <1>3, <2>2, <3>1, <3>2, <3>3, Zenon
  <2> HIDE DEF w
  <2> QED
    BY <2>1, <2>2, Zenon
<1>5. Freed(w)
  <2>1. w = [i \in 0..n |-> w[i]]
    OBVIOUS
  <2> HIDE DEF w
  <2> QED
    BY <1>4, <2>1, Zenon
<1> DEFINE v == Freeing(a, s, n)
<1>6. Freed(v)
  <2> HIDE DEF w
  <2> QED
    BY <1>5 DEF Freeing
<1> DEFINE Bad == {i \in 0..n : v[i] # w[i]}
<1>7. Bad = {}
  <2> SUFFICES ASSUME Bad # {} PROVE FALSE
    OBVIOUS
  <2>1. PICK i \in Bad : \A j \in Bad : i <= j
    <3>1. Bad \subseteq Nat
      OBVIOUS
    <3> HIDE DEF Bad
    <3> QED
      BY <3>1, LeastElement
  <2>2. v[i] = IF i = 0 THEN a ELSE Free(v[i - 1], s[Len(s) + 1 - i].reg)
    <3>1. i \in 0..n
      BY <2>1
    <3> HIDE DEF v, Bad
    <3> QED
      BY <1>6, <3>1
  <2> HIDE DEF v, w
  <2>3. i # 0 => v[i - 1] = w[i - 1]
    <3>1. i # 0 => i - 1 \in 0..n /\ ~(i <= i - 1)
      OBVIOUS
    <3> QED
      BY <2>1, <3>1
  <2>4. i \in 0..n /\ v[i] # w[i]
    OBVIOUS
  <2> QED
    BY <1>4, <2>2, <2>3, <2>4
<1>8. n \in 0..n /\ v[n] = w[n]
  <2>1. n \in 0..n
    BY <1>2
  <2> HIDE DEF v, w
  <2> QED
    BY <1>7, <2>1
<1>9. w[n] = StackOf(top - n, size) /\ top - n \in Top
  BY <1>2, <1>8
<1> HIDE DEF v, w
<1>10. Stacked(v[n], top - n)
  BY <1>1, <1>8, <1>9, StackOfIs
<1> QED
  BY <1>10 DEF v

LEMMA GreatestElement ==
    ASSUME NEW n \in Nat, NEW S \in SUBSET (0..n), S # {}
    PROVE  Max(S) \in S /\ \A y \in S : y <= Max(S)
<1> DEFINE Mirror == {x \in 0..n : n - x \in S}
<1>1. Mirror \subseteq Nat /\ Mirror # {}
  <2>1. PICK x \in S : TRUE
    OBVIOUS
  <2>2. n - x \in 0..n /\ n - (n - x) = x
    OBVIOUS
  <2>3. n - x \in Mirror
    BY <2>2
  <2>4. Mirror \subseteq Nat
    OBVIOUS
  <2> HIDE DEF Mirror
  <2> QED
    BY <2>3, <2>4
<1>2. PICK m \in Mirror : \A y \in Mirror : m <= y
  <2> HIDE DEF Mirror
  <2> QED BY <1>1, LeastElement
<1>3. PICK x \in S : m = n - x
  BY <1>2
<1>4. \A y \in S : x >= y
  <2> SUFFICES ASSUME NEW y \in S PROVE x >= y
    OBVIOUS
  <2>1. n - y \in Mirror
    <3>1. n - y \in 0..n /\ n - (n - y) = y
      OBVIOUS
    <3> QED
      BY <3>1
  <2> HIDE DEF Mirror
  <2> QED
    BY <1>2, <1>3, <2>1
<1>5. Max(S) \in S /\ \A y \in S : Max(S) >= y
  BY <1>4 DEF Max
<1> QED
  BY <1>5

LEMMA Elements ==
    ASSUME NEW S, NEW s \in Seq(S)
    PROVE  Len(s) \in Nat /\ DOMAIN s = 1..Len(s) /\ \A i \in 1..Len(s) : s[i] \in S
  BY ElementOfSeq, LenProperties

(* Locals lie in rising registers below the top. *)
Rising(locals, top) ==
    /\ locals \in Seq(LocalDescriptors)
    /\ \A i \in 1..Len(locals) : locals[i].reg < top
    /\ \A i, j \in 1..Len(locals) : i < j => locals[i].reg < locals[j].reg

(* From bottom on, nothing but locals is in the registers. *)
OnlyLocals(locals, bottom, top) == \A r \in bottom..top - 1 : \E i \in 1..Len(locals) : locals[i].reg = r

LEMMA OuterIs ==
    ASSUME NEW g, NEW bottom \in Nat, NEW top \in Nat, Rising(g.locals, top)
    PROVE  /\ Outer(g, bottom) \in 0..Len(g.locals)
           /\ \A i \in 1..Len(g.locals) : g.locals[i].reg < bottom <=> i <= Outer(g, bottom)
<1> DEFINE s == g.locals
           I == {i \in 1..Len(s) : s[i].reg < bottom}
<1>1. Len(s) \in Nat /\ \A i \in 1..Len(s) : s[i].reg \in Nat
  <2>1. s \in Seq(LocalDescriptors)
    BY DEF Rising
  <2>2. Len(s) \in Nat /\ \A i \in 1..Len(s) : s[i] \in LocalDescriptors
    BY <2>1, Elements
  <2> QED
    BY <2>2 DEF LocalDescriptors
<1>2. Outer(g, bottom) = IF I # {} THEN Max(I) ELSE 0
  BY DEF Outer, SelectLastInSeq
<1>3. I \in SUBSET (0..Len(s))
  OBVIOUS
<1>4. CASE I = {}
  BY <1>1, <1>2, <1>4
<1>5. CASE I # {}
  <2>1. Max(I) \in I /\ \A y \in I : y <= Max(I)
    <3> HIDE DEF I
    <3> QED BY <1>1, <1>3, <1>5, GreatestElement
  <2> DEFINE m == Max(I)
  <2>2. m \in 1..Len(s) /\ s[m].reg < bottom /\ Outer(g, bottom) = m
    BY <1>2, <1>5, <2>1
  <2> HIDE DEF m
  <2>3. ASSUME NEW i \in 1..Len(s) PROVE s[i].reg < bottom <=> i <= m
    <3>1. s[i].reg < bottom => i <= m
      BY <2>1 DEF m
    <3>2. i <= m => i = m \/ s[i].reg < s[m].reg
      BY <1>1, <2>2 DEF Rising
    <3>3. i <= m => s[i].reg < bottom
      BY <1>1, <2>2, <3>2
    <3> QED
      BY <3>1, <3>3
  <2> QED
    BY <1>1, <2>2, <2>3
<1> QED
  BY <1>4, <1>5

LEMMA LocalsDownFromTop ==
    ASSUME NEW s, NEW bottom \in Nat, NEW top \in Nat, bottom <= top, Rising(s, top), OnlyLocals(s, bottom, top),
           NEW kept \in 0..Len(s), \A i \in 1..Len(s) : s[i].reg < bottom <=> i <= kept
    PROVE  /\ \A n \in 1..Len(s) - kept : s[Len(s) + 1 - n].reg = top - n
           /\ Len(s) - kept = top - bottom
<1> DEFINE last == Len(s)
           Bad == {n \in 1..last - kept : s[last + 1 - n].reg # top - n}
<1>1. last \in Nat /\ (\A i \in 1..last : s[i].reg \in Nat) /\ kept \in Nat
  <2>1. s \in Seq(LocalDescriptors)
    BY DEF Rising
  <2>2. last \in Nat /\ \A i \in 1..last : s[i] \in LocalDescriptors
    BY <2>1, Elements
  <2> QED
    BY <2>2 DEF LocalDescriptors
<1>0. bottom \in Nat /\ top \in Nat
  OBVIOUS
<1>2. Bad = {}
  <2> SUFFICES ASSUME Bad # {} PROVE FALSE
    OBVIOUS
  <2>1. PICK n \in Bad : \A j \in Bad : n <= j
    <3>1. Bad \subseteq Nat
      BY <1>1
    <3> HIDE DEF Bad
    <3> QED
      BY <3>1, LeastElement
  <2>2. n \in 1..last - kept /\ s[last + 1 - n].reg # top - n
    BY <2>1
  <2>3. n > 1 => s[last + 1 - (n - 1)].reg = top - (n - 1)
    <3>1. n > 1 => n - 1 \in 1..last - kept /\ ~(n <= n - 1)
      BY <1>1, <2>2
    <3>2. n > 1 => n - 1 \notin Bad
      <4> HIDE DEF Bad
      <4> QED BY <2>1, <3>1
    <3> QED
      BY <3>1, <3>2
  <2> HIDE DEF last, Bad
  <2> DEFINE i == last + 1 - n
  <2>4. i \in kept + 1..last /\ (n > 1 => i + 1 \in 1..last /\ last + 1 - (n - 1) = i + 1)
    BY <1>1, <2>2
  <2>5. i \in 1..last /\ s[i].reg >= bottom /\ s[i].reg < top
    BY <1>1, <2>4 DEF Rising, last
  <2>6. s[i].reg < top - n + 1
    <3>1. CASE n = 1
      BY <2>5, <3>1
    <3>2. CASE n > 1
      <4>1. s[i].reg < s[i + 1].reg
        BY <1>1, <2>4, <2>5, <3>2 DEF Rising, last
      <4>2. s[i + 1].reg = top - (n - 1)
        BY <2>3, <2>4, <3>2
      <4> QED
        BY <1>1, <2>2, <4>1, <4>2
    <3> QED
      BY <1>1, <2>2, <3>1, <3>2
  <2>75. i \in Nat /\ last + 1 - n = i /\ s[i].reg # top - n
    BY <1>1, <2>2, <2>4
  <2>76. n \in Nat /\ n >= 1 /\ s[i].reg \in Nat
    BY <1>1, <2>2, <2>5
  <2> HIDE DEF i
  <2>7. top - n \in bottom..top - 1 /\ s[i].reg < top - n
    BY <1>0, <2>5, <2>6, <2>75, <2>76
  <2>8. PICK j \in 1..last : s[j].reg = top - n
    BY <2>7 DEF OnlyLocals, last
  <2>9. j > i
    <3>1. j < i => s[j].reg < s[i].reg
      BY <1>1, <2>4, <2>5 DEF Rising, last
    <3> QED
      BY <1>1, <2>5, <2>7, <2>8, <3>1
  <2>10. n > 1
    BY <1>1, <2>2, <2>75, <2>8, <2>9
  <2>11. s[j].reg >= s[i + 1].reg
    <3>1. j = i + 1 \/ i + 1 < j
      BY <1>1, <2>75, <2>9
    <3>2. i + 1 < j => s[i + 1].reg < s[j].reg
      BY <1>1, <2>4, <2>8, <2>10 DEF Rising, last
    <3>3. s[j].reg \in Nat /\ s[i + 1].reg \in Nat
      BY <1>1, <2>4, <2>10
    <3> QED
      BY <3>1, <3>2, <3>3
  <2>12. n \in Nat
    BY <1>1, <2>2
  <2>13. s[i + 1].reg = top - (n - 1)
    BY <2>3, <2>4, <2>10
  <2>14. top - (n - 1) = (top - n) + 1 /\ top - n \in Int
    BY <1>0, <2>12
  <2> QED
    BY <2>8, <2>11, <2>13, <2>14
<1>3. last - kept = top - bottom
  <2>1. CASE last = kept
    <3>1. ASSUME bottom < top PROVE FALSE
      <4>1. PICK i \in 1..last : s[i].reg = bottom
        BY <3>1 DEF OnlyLocals
      <4> QED
        BY <1>1, <2>1, <4>1
    <3> QED
      BY <2>1, <3>1
  <2>2. CASE kept < last
    <3> DEFINE n == last - kept
    <3>1. n \in 1..last - kept /\ last + 1 - n = kept + 1 /\ kept + 1 \in 1..last
      BY <1>1, <2>2
    <3>2. s[kept + 1].reg = top - n /\ s[kept + 1].reg >= bottom
      <4>1. \A m \in 1..last - kept : s[last + 1 - m].reg = top - m
        BY <1>2
      <4>2. s[last + 1 - n].reg = top - n
        BY <3>1, <4>1
      <4>3. ~(s[kept + 1].reg < bottom) /\ s[kept + 1].reg \in Nat
        BY <1>1, <3>1
      <4> HIDE DEF n
      <4> QED
        BY <1>0, <3>1, <4>2, <4>3
    <3> HIDE DEF n
    <3>3. ASSUME bottom < top - n PROVE FALSE
      <4>1. bottom \in bottom..top - 1
        BY <1>1, <3>1, <3>3
      <4>2. PICK i \in 1..last : s[i].reg = bottom
        BY <4>1 DEF OnlyLocals
      <4>3. i >= kept + 1
        BY <1>1, <4>2
      <4>4. s[i].reg >= s[kept + 1].reg
        BY <1>1, <3>1, <4>3 DEF Rising
      <4> QED
        BY <1>1, <3>2, <3>3, <4>2, <4>4
    <3>4. n = top - bottom
      BY <1>1, <3>1, <3>2, <3>3
    <3> QED
      BY <3>4 DEF n
  <2> QED
    BY <1>1, <2>1, <2>2
<1> QED
  BY <1>2, <1>3

Placeholder == Instr("jump", {})

(* x, a target or a pending jump, lies in its block and below the blocks after it. *)
Placed(x, B, top) ==
    /\ x.block_index \in 1..Len(B)
    /\ B[x.block_index].stack_bottom <= x.stack_top /\ x.stack_top <= top
    /\ \A i \in 1..Len(B) : x.block_index < i => x.stack_top <= B[i].stack_bottom

BlocksRise(B, top) ==
    /\ B \in Seq(BlockDescriptors)
    /\ \A i \in 1..Len(B) : B[i].stack_bottom <= top
    /\ \A i, j \in 1..Len(B) : i < j => B[i].stack_bottom <= B[j].stack_bottom

TargetsPlaced(T, B, top) ==
    /\ T \in Seq(JumpTargets)
    /\ \A k \in 1..Len(T) : Placed(T[k], B, top)
    /\ \A i \in 1..Len(B) :
          /\ B[i].bottom_jump_target \in 0..Len(T)
          /\ \A k \in 1..Len(T) : T[k].block_index < i <=> k <= B[i].bottom_jump_target

JumpsWait(P, B, top, ops) ==
    /\ P \in SUBSET PendingJumps
    /\ \A p \in P : Placed(p, B, top)
    /\ \A p \in P : p.instruction \in 1..Len(ops) /\ ops[p.instruction] = Placeholder
    /\ \A p, q \in P : p.instruction = q.instruction => p = q

ScopeDescriptors == [reg : Nat, from : Nat \ {0}, to : Nat]

(* A jump from i to t enters no scope: neither of a local that was dropped nor of one
   that is still there. *)
Lands(locals, scopes, i, t) ==
    /\ \A s \in scopes : s.from <= t /\ t < s.to => s.from <= i /\ i < s.to
    /\ \A k \in 1..Len(locals) : locals[k].from <= t => locals[k].from <= i

JumpsLand(ops, locals, scopes) ==
    \A i \in 1..Len(ops) :
        ops[i].op = "jump" => ops[i].target <= Len(ops) + 1 /\ Lands(locals, scopes, i, ops[i].target)

(* A pending jump was emitted within the scope of every local below its top. *)
WaitersWithin(P, locals) ==
    \A p \in P : \A k \in 1..Len(locals) : locals[k].reg < p.stack_top => locals[k].from <= p.instruction

(* A target lies before every local above its top, and in no scope that has ended. *)
TargetsOutside(T, locals, scopes, here) ==
    \A j \in 1..Len(T) :
        /\ T[j].instruction <= here
        /\ \A k \in 1..Len(locals) : T[j].stack_top <= locals[k].reg => T[j].instruction < locals[k].from
        /\ \A s \in scopes : ~(s.from <= T[j].instruction /\ T[j].instruction < s.to)

ScopesEnd(locals, scopes, here) ==
    /\ scopes \in SUBSET ScopeDescriptors
    /\ \A s \in scopes : s.to <= here
    /\ \A k \in 1..Len(locals) : locals[k].from <= here

Scoped(g) ==
    /\ ScopesEnd(g.locals, g.scopes, Len(g.ops) + 1)
    /\ JumpsLand(g.ops, g.locals, g.scopes)
    /\ WaitersWithin(g.pending_jumps, g.locals)
    /\ TargetsOutside(g.jump_targets, g.locals, g.scopes, Len(g.ops) + 1)

(* What holds of the function whatever the compiler is about to do next. *)
Regular(g) ==
    /\ IsFunctionRecord(g)
    /\ StackTop(g) \in Top /\ Stacked(g.alloc, StackTop(g))
    /\ Rising(g.locals, StackTop(g))
    /\ BlocksRise(g.blocks, StackTop(g))
    /\ TargetsPlaced(g.jump_targets, g.blocks, StackTop(g))
    /\ g.ops \in Seq(Instrs)
    /\ JumpsWait(g.pending_jumps, g.blocks, StackTop(g), g.ops)
    /\ Scoped(g)

LEMMA RegularParts ==
    ASSUME NEW g, Regular(g)
    PROVE  /\ StackTop(g) \in Nat /\ Len(g.locals) \in Nat /\ Len(g.blocks) \in Nat
           /\ Len(g.jump_targets) \in Nat /\ Len(g.ops) \in Nat
           /\ \A i \in 1..Len(g.locals) : g.locals[i] \in LocalDescriptors /\ g.locals[i].reg \in Nat
           /\ \A i \in 1..Len(g.blocks) : g.blocks[i] \in BlockDescriptors /\ g.blocks[i].stack_bottom \in Nat
           /\ \A i \in 1..Len(g.jump_targets) : /\ g.jump_targets[i] \in JumpTargets
                                                /\ g.jump_targets[i].stack_top \in Nat
                                                /\ g.jump_targets[i].block_index \in Nat
           /\ \A i \in 1..Len(g.ops) : g.ops[i] \in Instrs
           /\ \A p \in g.pending_jumps : /\ p \in PendingJumps /\ p.stack_top \in Nat
                                         /\ p.block_index \in Nat /\ p.instruction \in Nat
<1>1. StackTop(g) \in Nat
  BY RegistersAssumption DEF Regular, Top
<1>2. Len(g.locals) \in Nat /\ \A i \in 1..Len(g.locals) : g.locals[i] \in LocalDescriptors
  <2>1. g.locals \in Seq(LocalDescriptors)
    BY DEF Regular, Rising
  <2> QED
    BY <2>1, Elements
<1>3. Len(g.blocks) \in Nat /\ \A i \in 1..Len(g.blocks) : g.blocks[i] \in BlockDescriptors
  <2>1. g.blocks \in Seq(BlockDescriptors)
    BY DEF Regular, BlocksRise
  <2> QED
    BY <2>1, Elements
<1>4. Len(g.jump_targets) \in Nat /\ \A i \in 1..Len(g.jump_targets) : g.jump_targets[i] \in JumpTargets
  <2>1. g.jump_targets \in Seq(JumpTargets)
    BY DEF Regular, TargetsPlaced
  <2> QED
    BY <2>1, Elements
<1>5. Len(g.ops) \in Nat /\ \A i \in 1..Len(g.ops) : g.ops[i] \in Instrs
  <2>1. g.ops \in Seq(Instrs)
    BY DEF Regular
  <2> QED
    BY <2>1, Elements
<1>6. \A i \in 1..Len(g.locals) : g.locals[i].reg \in Nat
  BY <1>2 DEF LocalDescriptors
<1>7. \A i \in 1..Len(g.blocks) : g.blocks[i].stack_bottom \in Nat
  BY <1>3 DEF BlockDescriptors
<1>8. \A i \in 1..Len(g.jump_targets) : g.jump_targets[i].stack_top \in Nat /\ g.jump_targets[i].block_index \in Nat
  BY <1>4 DEF JumpTargets
<1>9. \A p \in g.pending_jumps : p \in PendingJumps
  BY DEF Regular, JumpsWait
<1>10. \A p \in g.pending_jumps : p.stack_top \in Nat /\ p.block_index \in Nat /\ p.instruction \in Nat
  BY <1>9 DEF PendingJumps
<1> QED
  BY <1>1, <1>2, <1>3, <1>4, <1>5, <1>6, <1>7, <1>8, <1>9, <1>10

(* The scopes stay as they are when the code grows by jumps that enter none. *)
LEMMA ScopedKept ==
    ASSUME NEW g, Regular(g), NEW h, h.locals = g.locals, h.scopes = g.scopes,
           h.jump_targets = g.jump_targets, h.ops \in Seq(Instrs), Len(g.ops) <= Len(h.ops),
           \A q \in h.pending_jumps :
              \/ q \in g.pending_jumps
              \/ q.instruction = Len(g.ops) + 1,
           \A i \in 1..Len(h.ops) : h.ops[i].op = "jump" =>
              \/ i \in 1..Len(g.ops) /\ h.ops[i] = g.ops[i]
              \/ h.ops[i].target <= Len(h.ops) + 1 /\ Lands(g.locals, g.scopes, i, h.ops[i].target)
    PROVE  Scoped(h)
<1> DEFINE n == Len(g.ops)
           m == Len(h.ops)
<1>1. n \in Nat /\ m \in Nat /\ n <= m
  BY RegularParts, Elements
<1>2. /\ ScopesEnd(g.locals, g.scopes, n + 1) /\ JumpsLand(g.ops, g.locals, g.scopes)
      /\ WaitersWithin(g.pending_jumps, g.locals)
      /\ TargetsOutside(g.jump_targets, g.locals, g.scopes, n + 1)
  BY DEF Regular, Scoped
<1>3. \A i \in 1..Len(g.locals) : g.locals[i].from \in Nat
  BY RegularParts DEF LocalDescriptors
<1>4. ScopesEnd(g.locals, g.scopes, m + 1)
  <2>1. \A s \in g.scopes : s.to \in Nat
    BY <1>2 DEF ScopesEnd, ScopeDescriptors
  <2> QED
    BY <1>1, <1>2, <1>3, <2>1 DEF ScopesEnd
<1>5. JumpsLand(h.ops, g.locals, g.scopes)
  <2> SUFFICES ASSUME NEW i \in 1..m, h.ops[i].op = "jump"
               PROVE  h.ops[i].target <= m + 1 /\ Lands(g.locals, g.scopes, i, h.ops[i].target)
    BY DEF JumpsLand
  <2>1. CASE i \in 1..n /\ h.ops[i] = g.ops[i]
    <3>1. g.ops[i].target <= n + 1 /\ Lands(g.locals, g.scopes, i, g.ops[i].target)
      BY <1>2, <2>1 DEF JumpsLand
    <3>2. g.ops[i].target \in Int
      BY <2>1, RegularParts DEF Instrs
    <3> QED
      BY <1>1, <2>1, <3>1, <3>2
  <2> QED
    BY <2>1
<1>6. WaitersWithin(h.pending_jumps, g.locals)
  <2> SUFFICES ASSUME NEW q \in h.pending_jumps, NEW k \in 1..Len(g.locals), g.locals[k].reg < q.stack_top
               PROVE  g.locals[k].from <= q.instruction
    BY DEF WaitersWithin
  <2> QED
    BY <1>2 DEF WaitersWithin, ScopesEnd
<1>7. TargetsOutside(g.jump_targets, g.locals, g.scopes, m + 1)
  <2>1. \A j \in 1..Len(g.jump_targets) : g.jump_targets[j].instruction \in Nat
    BY RegularParts DEF JumpTargets
  <2>2. \A j \in 1..Len(g.jump_targets) : g.jump_targets[j].instruction <= m + 1
    BY <1>1, <1>2, <2>1 DEF TargetsOutside
  <2> QED
    BY <1>2, <2>2 DEF TargetsOutside
<1> QED
  BY <1>4, <1>5, <1>6, <1>7 DEF Scoped

(* Fields whose change leaves a function regular. *)
LEMMA RegularKept ==
    ASSUME NEW g, Regular(g), NEW h, Keeps(g, h, {"alloc", "ops", "error", "unique"}),
           NEW top \in Top, StackTop(g) <= top, Stacked(h.alloc, top),
           h.ops \in Seq(Instrs), Len(g.ops) <= Len(h.ops),
           \A j \in 1..Len(g.ops) : g.ops[j] = Placeholder => h.ops[j] = Placeholder,
           \A i \in 1..Len(h.ops) : h.ops[i].op = "jump" =>
              \/ i \in 1..Len(g.ops) /\ h.ops[i] = g.ops[i]
              \/ h.ops[i].target <= Len(h.ops) + 1 /\ Lands(g.locals, g.scopes, i, h.ops[i].target)
    PROVE  Regular(h) /\ StackTop(h) = top
<1>1. /\ h.locals = g.locals /\ h.blocks = g.blocks /\ h.jump_targets = g.jump_targets
      /\ h.pending_jumps = g.pending_jumps /\ h.scopes = g.scopes /\ IsFunctionRecord(h)
  BY DEF Keeps
<1>2. StackTop(h) = top /\ top \in Nat
  BY RegistersAssumption DEF Stacked, StackTop, Top
<1>3. /\ Rising(g.locals, StackTop(g)) /\ BlocksRise(g.blocks, StackTop(g))
      /\ TargetsPlaced(g.jump_targets, g.blocks, StackTop(g))
      /\ JumpsWait(g.pending_jumps, g.blocks, StackTop(g), g.ops)
  BY DEF Regular
<1>4. Rising(g.locals, top)
  <2>1. \A i \in 1..Len(g.locals) : g.locals[i].reg < top
    BY <1>2, <1>3, RegularParts DEF Rising
  <2> QED
    BY <1>3, <2>1 DEF Rising
<1>5. BlocksRise(g.blocks, top)
  <2>1. \A i \in 1..Len(g.blocks) : g.blocks[i].stack_bottom <= top
    BY <1>2, <1>3, RegularParts DEF BlocksRise
  <2> QED
    BY <1>3, <2>1 DEF BlocksRise
<1>6. TargetsPlaced(g.jump_targets, g.blocks, top)
  <2>1. \A k \in 1..Len(g.jump_targets) : Placed(g.jump_targets[k], g.blocks, top)
    BY <1>2, <1>3, RegularParts DEF TargetsPlaced, Placed
  <2> QED
    BY <1>3, <2>1 DEF TargetsPlaced
<1>7. JumpsWait(g.pending_jumps, g.blocks, top, h.ops)
  <2>1. \A p \in g.pending_jumps : Placed(p, g.blocks, top)
    BY <1>2, <1>3, RegularParts DEF JumpsWait, Placed
  <2>2. Len(h.ops) \in Nat
    BY Elements
  <2>3. \A p \in g.pending_jumps : p.instruction \in 1..Len(h.ops) /\ h.ops[p.instruction] = Placeholder
    BY <1>3, <2>2, RegularParts DEF JumpsWait
  <2> QED
    BY <1>3, <2>1, <2>3 DEF JumpsWait
<1>8. Scoped(h)
  BY <1>1, ScopedKept
<1> QED
  BY <1>1, <1>2, <1>4, <1>5, <1>6, <1>7, <1>8 DEF Regular

LEMMA Appended ==
    ASSUME NEW S, NEW s \in Seq(S), NEW x \in S
    PROVE  /\ Append(s, x) \in Seq(S) /\ Len(Append(s, x)) = Len(s) + 1 /\ Len(s) \in Nat
           /\ \A i \in 1..Len(s) : Append(s, x)[i] = s[i]
           /\ Append(s, x)[Len(s) + 1] = x
  BY AppendProperties, Elements

LEMMA EmitRegular ==
    ASSUME NEW g, Regular(g), NEW i \in Instrs,
           i.op = "jump" => i.target <= Len(g.ops) + 2 /\ Lands(g.locals, g.scopes, Len(g.ops) + 1, i.target)
    PROVE  Regular(Emit(g, i)) /\ StackTop(Emit(g, i)) = StackTop(g)
<1>1. Keeps(g, Emit(g, i), {"ops"}) /\ Emit(g, i).ops = Append(g.ops, i)
  BY EmitFields DEF Regular
<1> DEFINE h == Emit(g, i)
<1>2. Keeps(g, h, {"alloc", "ops", "error", "unique"}) /\ h.alloc = g.alloc /\ h.ops = Append(g.ops, i)
  BY <1>1 DEF Keeps
<1> HIDE DEF h
<1>3. /\ h.ops \in Seq(Instrs) /\ Len(h.ops) = Len(g.ops) + 1 /\ Len(g.ops) \in Nat
      /\ \A j \in 1..Len(g.ops) : h.ops[j] = g.ops[j]
      /\ h.ops[Len(g.ops) + 1] = i
  BY <1>2, Appended DEF Regular
<1>4. StackTop(g) \in Top /\ StackTop(g) \in Nat /\ Stacked(h.alloc, StackTop(g))
  BY <1>2, RegularParts DEF Regular
<1>5. StackTop(g) <= StackTop(g) /\ Len(g.ops) <= Len(h.ops)
  BY <1>3, <1>4
<1>7. \A j \in 1..Len(h.ops) : h.ops[j].op = "jump" =>
         \/ j \in 1..Len(g.ops) /\ h.ops[j] = g.ops[j]
         \/ h.ops[j].target <= Len(h.ops) + 1 /\ Lands(g.locals, g.scopes, j, h.ops[j].target)
  <2> SUFFICES ASSUME NEW j \in 1..Len(h.ops), h.ops[j].op = "jump", j \notin 1..Len(g.ops)
               PROVE  h.ops[j].target <= Len(h.ops) + 1 /\ Lands(g.locals, g.scopes, j, h.ops[j].target)
    BY <1>3
  <2>1. j = Len(g.ops) + 1 /\ Len(h.ops) + 1 = Len(g.ops) + 2
    BY <1>3
  <2> QED
    BY <1>3, <2>1
<1>6. Regular(h) /\ StackTop(h) = StackTop(g)
  BY <1>2, <1>3, <1>4, <1>5, <1>7, RegularKept
<1> QED
  BY <1>6 DEF h

LEMMA TempRegular ==
    ASSUME NEW g, Regular(g), StackTop(g) < Registers, NEW i \in Instrs, i.op # "jump"
    PROVE  /\ Regular(WithTemp(g, i)) /\ StackTop(WithTemp(g, i)) = StackTop(g)
           /\ Keeps(g, WithTemp(g, i), {"alloc", "ops"})
           /\ \E j \in Instrs : j.op = i.op /\ WithTemp(g, i).ops = Append(g.ops, j)
<1> DEFINE h == WithTemp(g, i)
           top == StackTop(g)
<1>1. top \in Top /\ top \in Nat /\ Stacked(g.alloc, top) /\ IsFunctionRecord(g)
  BY RegularParts DEF Regular
<1> HIDE DEF top
<1>2. Keeps(g, h, {"alloc", "ops"}) /\ Stacked(h.alloc, top) /\ h.ops = Append(g.ops, [i EXCEPT !.writes = {top}])
  BY <1>1, TempFields DEF top
<1> DEFINE j == [i EXCEPT !.writes = {top}]
<1>3. j \in Instrs /\ j.op = i.op
  BY <1>1 DEF Instrs
<1> HIDE DEF h, j
<1>4. /\ h.ops \in Seq(Instrs) /\ Len(h.ops) = Len(g.ops) + 1 /\ Len(g.ops) \in Nat
      /\ \A k \in 1..Len(g.ops) : h.ops[k] = g.ops[k]
      /\ h.ops[Len(g.ops) + 1] = j
  BY <1>2, <1>3, Appended DEF Regular, j
<1>5. Keeps(g, h, {"alloc", "ops", "error", "unique"}) /\ top <= top /\ Len(g.ops) <= Len(h.ops)
  BY <1>1, <1>2, <1>4 DEF Keeps
<1>7. \A k \in 1..Len(h.ops) : h.ops[k].op = "jump" => k \in 1..Len(g.ops) /\ h.ops[k] = g.ops[k]
  BY <1>3, <1>4
<1>6. Regular(h) /\ StackTop(h) = top
  BY <1>1, <1>2, <1>4, <1>5, <1>7, RegularKept DEF top
<1> QED
  BY <1>2, <1>3, <1>6 DEF h, top, j

LEMMA PushRegular ==
    ASSUME NEW g, Regular(g), NEW n \in Nat \ {0}, StackTop(g) + n < Registers
    PROVE  /\ Regular(PushRegisters(g, n)) /\ StackTop(PushRegisters(g, n)) = StackTop(g) + n
           /\ Keeps(g, PushRegisters(g, n), {"alloc"})
<1> DEFINE h == PushRegisters(g, n)
           top == StackTop(g)
<1>1. top \in Top /\ top \in Nat /\ Stacked(g.alloc, top) /\ IsFunctionRecord(g)
  BY RegularParts DEF Regular
<1> HIDE DEF top
<1>2. Keeps(g, h, {"alloc"}) /\ Stacked(h.alloc, top + n)
  BY <1>1, PushFields DEF top
<1> HIDE DEF h
<1>3. top + n \in Top /\ top <= top + n
  BY <1>1, RegistersAssumption DEF Top, top
<1>4. Keeps(g, h, {"alloc", "ops", "error", "unique"}) /\ h.ops = g.ops /\ Len(g.ops) \in Nat /\ Len(g.ops) <= Len(g.ops)
  BY <1>2, RegularParts DEF Keeps
<1>5. Regular(h) /\ StackTop(h) = top + n
  BY <1>1, <1>2, <1>3, <1>4, RegularKept DEF Regular, top
<1> QED
  BY <1>2, <1>5 DEF h, top

LEMMA FailRegular ==
    ASSUME NEW g, Regular(g), NEW e
    PROVE  Regular(Fail(g, e)) /\ Keeps(g, Fail(g, e), {"error"}) /\ Fail(g, e).error = e
<1> DEFINE h == Fail(g, e)
<1>1. Keeps(g, h, {"error"}) /\ h.error = e
  BY FailFields DEF Regular
<1> HIDE DEF h
<1>2. Keeps(g, h, {"alloc", "ops", "error", "unique"}) /\ h.ops = g.ops /\ h.alloc = g.alloc
  BY <1>1 DEF Keeps
<1>3. StackTop(g) \in Top /\ StackTop(g) <= StackTop(g) /\ Len(g.ops) <= Len(g.ops)
  BY RegularParts DEF Regular
<1>4. Regular(h)
  BY <1>2, <1>3, RegularKept DEF Regular
<1> QED
  BY <1>1, <1>4 DEF h

(* No jump and no label waits for the instruction that comes next: one was just
   emitted that is not a jump. *)
Behind(g) ==
    /\ \A i \in 1..Len(g.ops) : g.ops[i].op = "jump" => g.ops[i].target <= Len(g.ops)
    /\ \A j \in 1..Len(g.jump_targets) : g.jump_targets[j].instruction <= Len(g.ops)

(* After an instruction that is not a jump, everything lies behind. *)
LEMMA EmitBehind ==
    ASSUME NEW g, Regular(g), NEW i \in Instrs, i.op # "jump", NEW h,
           h.ops = Append(g.ops, i),
           \A j \in 1..Len(h.jump_targets) : \E k \in 1..Len(g.jump_targets) :
              h.jump_targets[j] = g.jump_targets[k]
    PROVE  Behind(h)
<1>1. /\ Len(h.ops) = Len(g.ops) + 1 /\ Len(g.ops) \in Nat
      /\ \A j \in 1..Len(g.ops) : h.ops[j] = g.ops[j]
      /\ h.ops[Len(g.ops) + 1] = i
  BY Appended DEF Regular
<1>2. \A j \in 1..Len(g.ops) : g.ops[j].op = "jump" => g.ops[j].target <= Len(g.ops) + 1
  BY DEF Regular, Scoped, JumpsLand
<1>3. \A j \in 1..Len(g.jump_targets) : g.jump_targets[j].instruction <= Len(g.ops) + 1
  BY DEF Regular, Scoped, TargetsOutside
<1>4. \A j \in 1..Len(h.ops) : j \in 1..Len(g.ops) \/ h.ops[j] = i
  BY <1>1
<1> QED
  BY <1>1, <1>2, <1>3, <1>4 DEF Behind

LEMMA DeclareRegular ==
    ASSUME NEW g, Regular(g), Behind(g), NEW r \in Nat, r < StackTop(g),
           \A i \in 1..Len(g.locals) : g.locals[i].reg < r,
           \A p \in g.pending_jumps : p.stack_top <= r
    PROVE  /\ Regular(DeclareLocal(g, r)) /\ StackTop(DeclareLocal(g, r)) = StackTop(g)
           /\ Keeps(g, DeclareLocal(g, r), {"locals"})
           /\ Len(DeclareLocal(g, r).locals) = Len(g.locals) + 1
           /\ \A i \in 1..Len(g.locals) : DeclareLocal(g, r).locals[i] = g.locals[i]
           /\ DeclareLocal(g, r).locals[Len(g.locals) + 1].reg = r
<1> DEFINE h == DeclareLocal(g, r)
           v == [reg |-> r, from |-> Pc(g)]
<1>1. Keeps(g, h, {"locals"}) /\ h.locals = Append(g.locals, v)
  BY DeclareFields DEF Regular
<1>2. v \in LocalDescriptors /\ v.reg = r /\ v.from = Len(g.ops) + 1
  BY RegularParts DEF LocalDescriptors, Pc
<1> HIDE DEF h, v
<1>3. /\ h.locals \in Seq(LocalDescriptors) /\ Len(h.locals) = Len(g.locals) + 1 /\ Len(g.locals) \in Nat
      /\ \A i \in 1..Len(g.locals) : h.locals[i] = g.locals[i]
      /\ h.locals[Len(g.locals) + 1] = v
  <2>1. g.locals \in Seq(LocalDescriptors)
    BY DEF Regular, Rising
  <2> QED
    BY <1>1, <1>2, <2>1, Appended
<1>4. /\ h.alloc = g.alloc /\ h.blocks = g.blocks /\ h.jump_targets = g.jump_targets /\ h.ops = g.ops
      /\ h.pending_jumps = g.pending_jumps /\ h.scopes = g.scopes
      /\ IsFunctionRecord(h) /\ StackTop(h) = StackTop(g)
  BY <1>1 DEF Keeps, StackTop
<1>5. Rising(h.locals, StackTop(g))
  <2>1. \A i \in 1..Len(g.locals) + 1 : i \in 1..Len(g.locals) \/ i = Len(g.locals) + 1
    BY <1>3
  <2>2. \A i \in 1..Len(g.locals) : h.locals[i].reg < r /\ h.locals[i].reg < StackTop(g)
    BY <1>3 DEF Regular, Rising
  <2>3. \A i \in 1..Len(h.locals) : h.locals[i].reg < StackTop(g)
    BY <1>2, <1>3, <2>1, <2>2
  <2>4. ASSUME NEW i \in 1..Len(h.locals), NEW j \in 1..Len(h.locals), i < j
        PROVE  h.locals[i].reg < h.locals[j].reg
    <3>1. i \in 1..Len(g.locals)
      BY <1>3, <2>4
    <3>2. CASE j \in 1..Len(g.locals)
      BY <1>3, <2>4, <3>1, <3>2 DEF Regular, Rising
    <3>3. CASE j = Len(g.locals) + 1
      BY <1>2, <1>3, <2>2, <3>1, <3>3
    <3> QED
      BY <1>3, <2>1, <3>2, <3>3
  <2> QED
    BY <1>3, <2>3, <2>4 DEF Rising
<1>7. Scoped(h)
  <2> DEFINE n == Len(g.locals)
             here == Len(g.ops) + 1
  <2>1. \A k \in 1..Len(h.locals) : k \in 1..n \/ k = n + 1
    BY <1>3
  <2>2. here \in Nat /\ \A k \in 1..n : g.locals[k].reg \in Nat
    BY RegularParts
  <2>3. /\ ScopesEnd(g.locals, g.scopes, here) /\ JumpsLand(g.ops, g.locals, g.scopes)
        /\ WaitersWithin(g.pending_jumps, g.locals)
        /\ TargetsOutside(g.jump_targets, g.locals, g.scopes, here)
    BY DEF Regular, Scoped
  <2>4. ScopesEnd(h.locals, g.scopes, here)
    <3>1. \A k \in 1..Len(h.locals) : h.locals[k].from <= here
      <4> TAKE k \in 1..Len(h.locals)
      <4>1. CASE k \in 1..n
        BY <1>3, <2>3, <4>1 DEF ScopesEnd
      <4>2. CASE k = n + 1
        BY <1>2, <1>3, <2>2, <4>2
      <4> QED
        BY <2>1, <4>1, <4>2
    <3> QED
      BY <2>3, <3>1 DEF ScopesEnd
  <2>5. JumpsLand(g.ops, h.locals, g.scopes)
    <3> SUFFICES ASSUME NEW i \in 1..Len(g.ops), g.ops[i].op = "jump", NEW k \in 1..Len(h.locals),
                        h.locals[k].from <= g.ops[i].target
                 PROVE  h.locals[k].from <= i
      BY <2>3 DEF JumpsLand, Lands
    <3>1. g.ops[i].target \in Int /\ g.ops[i].target < here
      BY <2>2, RegularParts DEF Behind, Instrs
    <3>2. CASE k \in 1..n
      BY <1>3, <2>3, <3>2 DEF JumpsLand, Lands
    <3>3. CASE k = n + 1
      BY <1>2, <1>3, <2>2, <3>1, <3>3
    <3> QED
      BY <2>1, <3>2, <3>3
  <2>6. WaitersWithin(g.pending_jumps, h.locals)
    <3> SUFFICES ASSUME NEW p \in g.pending_jumps, NEW k \in 1..Len(h.locals), h.locals[k].reg < p.stack_top
                 PROVE  h.locals[k].from <= p.instruction
      BY DEF WaitersWithin
    <3>1. p.stack_top <= r /\ p.stack_top \in Nat
      BY RegularParts
    <3>2. k # n + 1
      BY <1>2, <1>3, <3>1
    <3> QED
      BY <1>3, <2>1, <2>3, <3>2 DEF WaitersWithin
  <2>7. TargetsOutside(g.jump_targets, h.locals, g.scopes, here)
    <3>2. h.locals[n + 1].from = here
      BY <1>2, <1>3
    <3>3. Len(g.ops) \in Nat /\ \A j \in 1..Len(g.jump_targets) : g.jump_targets[j].instruction \in Nat
      BY RegularParts DEF JumpTargets
    <3>4. \A j \in 1..Len(g.jump_targets) : g.jump_targets[j].instruction <= Len(g.ops)
      BY DEF Behind
    <3>1. \A j \in 1..Len(g.jump_targets) : g.jump_targets[j].instruction < h.locals[n + 1].from
      BY <3>2, <3>3, <3>4
    <3> QED
      BY <1>3, <2>1, <2>3, <3>1 DEF TargetsOutside
  <2> QED
    BY <1>4, <2>4, <2>5, <2>6, <2>7 DEF Scoped
<1>6. Regular(h)
  BY <1>4, <1>5, <1>7 DEF Regular
<1> QED
  BY <1>1, <1>2, <1>3, <1>4, <1>6 DEF h

LEMMA PlacedEntered ==
    ASSUME NEW x, NEW B, NEW top \in Nat, Placed(x, B, top), NEW C, Len(B) \in Nat, x.stack_top \in Nat,
           Len(C) = Len(B) + 1, \A i \in 1..Len(B) : C[i].stack_bottom = B[i].stack_bottom,
           C[Len(B) + 1].stack_bottom = top
    PROVE  Placed(x, C, top)
  BY DEF Placed

LEMMA EnterRegular ==
    ASSUME NEW g, Regular(g)
    PROVE  /\ Regular(EnterBlock(g)) /\ StackTop(EnterBlock(g)) = StackTop(g)
           /\ Keeps(g, EnterBlock(g), {"blocks"})
           /\ Len(EnterBlock(g).blocks) = Len(g.blocks) + 1
           /\ \A i \in 1..Len(g.blocks) : EnterBlock(g).blocks[i] = g.blocks[i]
           /\ EnterBlock(g).blocks[Len(g.blocks) + 1].stack_bottom = StackTop(g)
<1> DEFINE h == EnterBlock(g)
           b == [stack_bottom |-> StackTop(g), bottom_jump_target |-> Len(g.jump_targets), owns_upvalues |-> FALSE]
<1>1. Keeps(g, h, {"blocks"}) /\ h.blocks = Append(g.blocks, b)
  BY EnterFields DEF Regular
<1>2. b \in BlockDescriptors /\ b.stack_bottom = StackTop(g) /\ b.bottom_jump_target = Len(g.jump_targets)
  BY RegularParts DEF BlockDescriptors
<1> HIDE DEF h, b
<1>3. /\ h.blocks \in Seq(BlockDescriptors) /\ Len(h.blocks) = Len(g.blocks) + 1 /\ Len(g.blocks) \in Nat
      /\ \A i \in 1..Len(g.blocks) : h.blocks[i] = g.blocks[i]
      /\ h.blocks[Len(g.blocks) + 1] = b
  <2>1. g.blocks \in Seq(BlockDescriptors)
    BY DEF Regular, BlocksRise
  <2> QED
    BY <1>1, <1>2, <2>1, Appended
<1>4. /\ h.alloc = g.alloc /\ h.locals = g.locals /\ h.jump_targets = g.jump_targets /\ h.ops = g.ops
      /\ h.pending_jumps = g.pending_jumps /\ h.scopes = g.scopes
      /\ IsFunctionRecord(h) /\ StackTop(h) = StackTop(g)
  BY <1>1 DEF Keeps, StackTop
<1> DEFINE n == Len(g.blocks)
           top == StackTop(g)
<1>5. \A i \in 1..n + 1 : i \in 1..n \/ i = n + 1
  BY <1>3
<1>6. top \in Nat /\ n \in Nat
  BY RegularParts
<1>7. \A i \in 1..n : g.blocks[i].stack_bottom \in Nat /\ h.blocks[i].stack_bottom = g.blocks[i].stack_bottom
  BY <1>3, RegularParts
<1>8. h.blocks[n + 1].stack_bottom = top
  BY <1>2, <1>3
<1>9. BlocksRise(h.blocks, top)
  <2>1. \A i \in 1..n : g.blocks[i].stack_bottom <= top
    BY DEF Regular, BlocksRise
  <2>2. \A i \in 1..Len(h.blocks) : h.blocks[i].stack_bottom <= top
    BY <1>3, <1>5, <1>6, <1>7, <1>8, <2>1
  <2>3. ASSUME NEW i \in 1..Len(h.blocks), NEW j \in 1..Len(h.blocks), i < j
        PROVE  h.blocks[i].stack_bottom <= h.blocks[j].stack_bottom
    <3>1. i \in 1..n
      BY <1>3, <2>3
    <3>2. CASE j \in 1..n
      BY <1>7, <2>3, <3>1, <3>2 DEF Regular, BlocksRise
    <3>3. CASE j = n + 1
      BY <1>7, <1>8, <2>1, <3>1, <3>3
    <3> QED
      BY <1>3, <1>5, <3>2, <3>3
  <2> QED
    BY <1>3, <2>2, <2>3 DEF BlocksRise
<1>10. TargetsPlaced(g.jump_targets, h.blocks, top)
  <2> DEFINE T == g.jump_targets
  <2>1. Len(T) \in Nat /\ \A k \in 1..Len(T) : T[k].stack_top \in Nat /\ T[k].block_index \in 1..n
    BY RegularParts DEF Regular, TargetsPlaced, Placed
  <2>2. \A k \in 1..Len(T) : Placed(T[k], h.blocks, top)
    <3> TAKE k \in 1..Len(T)
    <3>1. Placed(T[k], g.blocks, top)
      BY DEF Regular, TargetsPlaced
    <3> QED
      BY <1>3, <1>6, <1>7, <1>8, <2>1, <3>1, PlacedEntered
  <2>3. ASSUME NEW i \in 1..n
        PROVE  /\ h.blocks[i].bottom_jump_target \in 0..Len(T)
               /\ \A k \in 1..Len(T) : T[k].block_index < i <=> k <= h.blocks[i].bottom_jump_target
    BY <1>3 DEF Regular, TargetsPlaced
  <2>4. /\ h.blocks[n + 1].bottom_jump_target \in 0..Len(T)
        /\ \A k \in 1..Len(T) : T[k].block_index < n + 1 <=> k <= h.blocks[n + 1].bottom_jump_target
    <3>1. h.blocks[n + 1].bottom_jump_target = Len(T)
      BY <1>2, <1>3
    <3> QED
      BY <1>6, <2>1, <3>1
  <2>5. T \in Seq(JumpTargets)
    BY DEF Regular, TargetsPlaced
  <2> HIDE DEF T
  <2>6. \A i \in 1..Len(h.blocks) :
          /\ h.blocks[i].bottom_jump_target \in 0..Len(T)
          /\ \A k \in 1..Len(T) : T[k].block_index < i <=> k <= h.blocks[i].bottom_jump_target
    <3> TAKE i \in 1..Len(h.blocks)
    <3>1. CASE i \in 1..n
      BY <2>3, <3>1
    <3>2. CASE i = n + 1
      BY <2>4, <3>2
    <3> QED
      BY <1>3, <1>5, <3>1, <3>2
  <2>7. TargetsPlaced(T, h.blocks, top)
    BY <2>2, <2>5, <2>6 DEF TargetsPlaced
  <2> QED
    BY <2>7 DEF T
<1>11. JumpsWait(g.pending_jumps, h.blocks, top, g.ops)
  <2>1. \A p \in g.pending_jumps : Placed(p, h.blocks, top)
    <3> TAKE p \in g.pending_jumps
    <3>1. Placed(p, g.blocks, top) /\ p.stack_top \in Nat
      BY RegularParts DEF Regular, JumpsWait
    <3> QED
      BY <1>3, <1>6, <1>7, <1>8, <3>1, PlacedEntered
  <2> QED
    BY <2>1 DEF Regular, JumpsWait
<1>13. Scoped(h)
  BY <1>4 DEF Regular, Scoped
<1>12. Regular(h)
  BY <1>4, <1>9, <1>10, <1>11, <1>13 DEF Regular
<1> QED
  BY <1>1, <1>3, <1>4, <1>8, <1>12 DEF h

(* Only the marks of blocks that own upvalues differ. *)
LEMMA MarkRegular ==
    ASSUME NEW g, Regular(g), NEW h, Keeps(g, h, {"blocks"}), h.blocks \in Seq(BlockDescriptors),
           Len(h.blocks) = Len(g.blocks),
           \A i \in 1..Len(g.blocks) : /\ h.blocks[i].stack_bottom = g.blocks[i].stack_bottom
                                       /\ h.blocks[i].bottom_jump_target = g.blocks[i].bottom_jump_target
    PROVE  Regular(h) /\ StackTop(h) = StackTop(g)
<1>1. /\ h.alloc = g.alloc /\ h.locals = g.locals /\ h.jump_targets = g.jump_targets /\ h.ops = g.ops
      /\ h.pending_jumps = g.pending_jumps /\ h.scopes = g.scopes
      /\ IsFunctionRecord(h) /\ StackTop(h) = StackTop(g)
  BY DEF Keeps, StackTop
<1>2. \A x : Placed(x, g.blocks, StackTop(g)) => Placed(x, h.blocks, StackTop(g))
  BY DEF Placed
<1>3. BlocksRise(h.blocks, StackTop(g))
  BY DEF Regular, BlocksRise
<1>4. TargetsPlaced(g.jump_targets, h.blocks, StackTop(g))
  <2>1. \A k \in 1..Len(g.jump_targets) : Placed(g.jump_targets[k], h.blocks, StackTop(g))
    BY <1>2 DEF Regular, TargetsPlaced
  <2> QED
    BY <2>1 DEF Regular, TargetsPlaced
<1>5. JumpsWait(g.pending_jumps, h.blocks, StackTop(g), g.ops)
  <2>1. \A p \in g.pending_jumps : Placed(p, h.blocks, StackTop(g))
    BY <1>2 DEF Regular, JumpsWait
  <2> QED
    BY <2>1 DEF Regular, JumpsWait
<1>6. Scoped(h)
  BY <1>1 DEF Regular, Scoped
<1> QED
  BY <1>1, <1>3, <1>4, <1>5, <1>6 DEF Regular

LEMMA PlaceholderTyped == Placeholder \in Instrs /\ Placeholder.op = "jump"
  BY DEF Placeholder, Instr, Instrs, NoTarget, None

LEMMA JumpTyped ==
    ASSUME NEW x \in Instrs, NEW t \in Int, NEW c \in Int
    PROVE  [x EXCEPT !.target = t, !.close = c] \in Instrs /\ [x EXCEPT !.target = t, !.close = c].op = x.op
<1>1. [x EXCEPT !.target = t] \in Instrs /\ [x EXCEPT !.target = t].op = x.op
  BY DEF Instrs
<1>2. [x EXCEPT !.target = t, !.close = c] = [[x EXCEPT !.target = t] EXCEPT !.close = c]
  BY Zenon DEF Instrs
<1> DEFINE y == [x EXCEPT !.target = t]
<1> HIDE DEF y
<1>3. \A z \in Instrs : [z EXCEPT !.close = c] \in Instrs /\ [z EXCEPT !.close = c].op = z.op
  BY DEF Instrs
<1> QED
  BY <1>1, <1>2, <1>3

LEMMA TargetFound ==
    ASSUME NEW g, Regular(g), NEW label
    PROVE  /\ TargetOf(g, label) \in 0..Len(g.jump_targets)
           /\ TargetOf(g, label) # 0 => g.jump_targets[TargetOf(g, label)].label = label
           /\ (\E k \in 1..Len(g.jump_targets) : g.jump_targets[k].label = label) => TargetOf(g, label) # 0
<1> DEFINE T == g.jump_targets
           I == {k \in 1..Len(T) : T[k].label = label}
<1>1. TargetOf(g, label) = IF I # {} THEN Max(I) ELSE 0
  BY DEF TargetOf, SelectLastInSeq
<1>2. Len(T) \in Nat /\ I \in SUBSET (0..Len(T))
  BY RegularParts
<1>3. CASE I = {}
  BY <1>1, <1>2, <1>3
<1>4. CASE I # {}
  <2>1. Max(I) \in I
    <3> HIDE DEF I
    <3> QED
      BY <1>2, <1>4, GreatestElement
  <2> QED
    BY <1>1, <1>2, <1>4, <2>1
<1> QED
  BY <1>3, <1>4

PendingAt(g, label) ==
    [target |-> label, instruction |-> Len(g.ops) + 1, block_index |-> Len(g.blocks),
     stack_top |-> StackTop(g), close_upvalues |-> FALSE]

LEMMA PlacedHere ==
    ASSUME NEW g, Regular(g), Len(g.blocks) > 0, NEW x, x.block_index = Len(g.blocks), x.stack_top = StackTop(g)
    PROVE  Placed(x, g.blocks, StackTop(g))
<1>1. /\ Len(g.blocks) \in Nat /\ StackTop(g) \in Nat
      /\ \A i \in 1..Len(g.blocks) : g.blocks[i].stack_bottom <= StackTop(g)
  BY RegularParts DEF Regular, BlocksRise
<1> QED
  BY <1>1 DEF Placed

(* A jump is patched at once when its label was placed before; otherwise it waits. *)
LEMMA JumpRegular ==
    ASSUME NEW g, Regular(g), Ok(g), Len(g.blocks) > 0, NEW label \in JumpLabels
    PROVE  /\ Regular(Jump(g, label)) /\ Keeps(g, Jump(g, label), {"pending_jumps", "ops"})
           /\ \E i \in Instrs : i.op = "jump" /\ Jump(g, label).ops = Append(g.ops, i)
           /\ IF \E k \in 1..Len(g.jump_targets) : g.jump_targets[k].label = label
              THEN Jump(g, label).pending_jumps = g.pending_jumps
              ELSE Jump(g, label).pending_jumps = g.pending_jumps \union {PendingAt(g, label)}
<1> DEFINE h == Jump(g, label)
           k == TargetOf(g, label)
           t == g.jump_targets[k]
           b == Len(g.blocks)
           p == PendingAt(g, label)
           close == IF t.stack_top < StackTop(g) /\ \E j \in t.block_index..b : g.blocks[j].owns_upvalues
                    THEN t.stack_top ELSE None
           i == [Instr("jump", {}) EXCEPT !.target = t.instruction, !.close = close]
<1>1. IsFunctionRecord(g) /\ g.ops \in Seq(Instrs) /\ StackTop(g) \in Nat
  BY RegularParts DEF Regular
<1>2. CASE k # 0
  <2>1. k \in 1..Len(g.jump_targets) /\ t.label = label
    BY <1>2, TargetFound, RegularParts
  <2>2. t.stack_top \in Nat /\ t.instruction \in Int
    BY <2>1, RegularParts DEF JumpTargets
  <2>3. t.stack_top <= StackTop(g) /\ t.block_index \in 1..b
    BY <2>1 DEF Regular, TargetsPlaced, Placed
  <2>4. i \in Instrs /\ i.op = "jump"
    <3>1. close \in Int
      <4> HIDE DEF k, t
      <4> QED
        BY <2>2 DEF None
    <3> DEFINE n == t.instruction
    <3>2. n \in Int
      BY <2>2
    <3> HIDE DEF n, close
    <3>3. [Placeholder EXCEPT !.target = n, !.close = close] \in Instrs
          /\ [Placeholder EXCEPT !.target = n, !.close = close].op = "jump"
      BY <3>1, <3>2, PlaceholderTyped, JumpTyped, Zenon
    <3> QED
      BY <3>3 DEF Placeholder, n
  <2>5. ~(t.stack_top > StackTop(g) \/ t.block_index > b)
    BY <1>1, <2>2, <2>3, RegularParts
  <2>6. h = Emit(g, i)
    BY <1>2, <2>5 DEF Jump
  <2>10. i.target = t.instruction
    OBVIOUS
  <2>11. t.instruction \in Nat /\ t.instruction <= Len(g.ops) + 1
         /\ \A s \in g.scopes : ~(s.from <= t.instruction /\ t.instruction < s.to)
    <3>1. t \in JumpTargets
      BY <2>1, RegularParts
    <3>2. TargetsOutside(g.jump_targets, g.locals, g.scopes, Len(g.ops) + 1)
      BY DEF Regular, Scoped
    <3> HIDE DEF i
    <3> QED
      BY <2>1, <3>1, <3>2 DEF TargetsOutside, JumpTargets
  <2> HIDE DEF i, h, t
  <2>12. i.target <= Len(g.ops) + 2 /\ Lands(g.locals, g.scopes, Len(g.ops) + 1, i.target)
    <3>1. \A j \in 1..Len(g.locals) : g.locals[j].from <= Len(g.ops) + 1
      BY DEF Regular, Scoped, ScopesEnd
    <3>2. Len(g.ops) \in Nat
      BY RegularParts
    <3> QED
      BY <2>10, <2>11, <3>1, <3>2 DEF Lands
  <2>7. Keeps(g, h, {"ops"}) /\ h.ops = Append(g.ops, i) /\ Regular(h)
    BY <1>1, <2>4, <2>6, <2>12, EmitFields, EmitRegular
  <2>8. Keeps(g, h, {"pending_jumps", "ops"}) /\ h.pending_jumps = g.pending_jumps
    BY <2>7 DEF Keeps
  <2>9. \E j \in 1..Len(g.jump_targets) : g.jump_targets[j].label = label
    BY <2>1 DEF t
  <2> QED
    BY <2>4, <2>7, <2>8, <2>9 DEF h
<1>3. CASE k = 0
  <2> DEFINE e == [g EXCEPT !.pending_jumps = @ \union {p}]
  <2>1. h = Emit(e, Placeholder)
    BY <1>3 DEF Jump, PendingAt, Placeholder, Pc
  <2>2. Keeps(g, e, {"pending_jumps"}) /\ e.pending_jumps = g.pending_jumps \union {p}
    BY <1>1 DEF IsFunctionRecord, Keeps
  <2> HIDE DEF e, h
  <2>3. Keeps(e, h, {"ops"}) /\ h.ops = Append(e.ops, Placeholder)
    BY <2>1, <2>2, EmitFields DEF Keeps
  <2>4. /\ Keeps(g, h, {"pending_jumps", "ops"}) /\ h.ops = Append(g.ops, Placeholder)
        /\ h.pending_jumps = g.pending_jumps \union {p}
    BY <2>2, <2>3 DEF Keeps
  <2>5. /\ h.ops \in Seq(Instrs) /\ Len(h.ops) = Len(g.ops) + 1 /\ Len(g.ops) \in Nat
        /\ \A j \in 1..Len(g.ops) : h.ops[j] = g.ops[j]
        /\ h.ops[Len(g.ops) + 1] = Placeholder
    BY <1>1, <2>4, PlaceholderTyped, Appended
  <2>6. p \in PendingJumps /\ p.block_index = b /\ p.stack_top = StackTop(g) /\ p.instruction = Len(g.ops) + 1
    BY RegularParts DEF PendingAt, PendingJumps
  <2>7. Placed(p, g.blocks, StackTop(g))
    BY <2>6, PlacedHere
  <2> HIDE DEF p
  <2>8. JumpsWait(g.pending_jumps, g.blocks, StackTop(g), g.ops)
    BY DEF Regular
  <2>9. JumpsWait(g.pending_jumps \union {p}, g.blocks, StackTop(g), h.ops)
    <3>1. g.pending_jumps \union {p} \in SUBSET PendingJumps
      BY <2>6, <2>8 DEF JumpsWait
    <3>2. \A q \in g.pending_jumps : q.instruction \in 1..Len(g.ops) /\ g.ops[q.instruction] = Placeholder
      BY <2>8 DEF JumpsWait
    <3>3. \A q \in g.pending_jumps \union {p} :
             q.instruction \in 1..Len(h.ops) /\ h.ops[q.instruction] = Placeholder
      BY <2>5, <2>6, <3>2
    <3>4. \A q \in g.pending_jumps : q.instruction # p.instruction
      BY <2>5, <2>6, <3>2
    <3>5. \A q, r \in g.pending_jumps \union {p} : q.instruction = r.instruction => q = r
      BY <2>8, <3>4 DEF JumpsWait
    <3>6. \A q \in g.pending_jumps \union {p} : Placed(q, g.blocks, StackTop(g))
      BY <2>7, <2>8 DEF JumpsWait
    <3> QED
      BY <3>1, <3>3, <3>5, <3>6 DEF JumpsWait
  <2>10. /\ h.alloc = g.alloc /\ h.locals = g.locals /\ h.jump_targets = g.jump_targets
         /\ h.blocks = g.blocks /\ h.scopes = g.scopes /\ IsFunctionRecord(h) /\ StackTop(h) = StackTop(g)
    BY <2>4 DEF Keeps, StackTop
  <2>13. Scoped(h)
    <3>1. Placeholder.target = 0
      BY DEF Placeholder, Instr, NoTarget
    <3>2. \A j \in 1..Len(h.ops) : h.ops[j].op = "jump" =>
             \/ j \in 1..Len(g.ops) /\ h.ops[j] = g.ops[j]
             \/ h.ops[j].target <= Len(h.ops) + 1 /\ Lands(g.locals, g.scopes, j, h.ops[j].target)
      <4> SUFFICES ASSUME NEW j \in 1..Len(h.ops), j \notin 1..Len(g.ops)
                   PROVE  h.ops[j].target <= Len(h.ops) + 1 /\ Lands(g.locals, g.scopes, j, h.ops[j].target)
        BY <2>5
      <4>1. j = Len(g.ops) + 1 /\ h.ops[j].target = 0
        BY <2>5, <3>1
      <4>2. \A s \in g.scopes : s.from \in Nat \ {0}
        BY DEF Regular, Scoped, ScopesEnd, ScopeDescriptors
      <4>3. \A k1 \in 1..Len(g.locals) : g.locals[k1].from \in Nat \ {0}
        BY RegularParts DEF LocalDescriptors
      <4> QED
        BY <2>5, <4>1, <4>2, <4>3 DEF Lands
    <3>3. \A q \in h.pending_jumps : q \in g.pending_jumps \/ q.instruction = Len(g.ops) + 1
      BY <2>4, <2>6
    <3>4. Len(g.ops) <= Len(h.ops)
      BY <2>5
    <3> QED
      BY <2>5, <2>10, <3>2, <3>3, <3>4, ScopedKept
  <2>11. Regular(h)
    BY <2>4, <2>5, <2>9, <2>10, <2>13 DEF Regular
  <2>12. ~\E j \in 1..Len(g.jump_targets) : g.jump_targets[j].label = label
    BY <1>3, TargetFound
  <2> QED
    BY <2>4, <2>11, <2>12, PlaceholderTyped DEF h, p
<1> QED
  BY <1>2, <1>3

Here(g, label) == {p \in g.pending_jumps : Resolves(g, p, label)}
TargetAt(g, label) ==
    [label |-> label, instruction |-> Pc(g), stack_top |-> StackTop(g), block_index |-> Len(g.blocks)]

LEMMA PatchedFields ==
    ASSUME NEW g, Regular(g), NEW J \in SUBSET PendingJumps
    PROVE  /\ Keeps(g, Patched(g, J), {"ops"})
           /\ Patched(g, J).ops \in Seq(Instrs) /\ Len(Patched(g, J).ops) = Len(g.ops)
           /\ \A i \in 1..Len(g.ops) :
                 /\ (\A p \in J : p.instruction # i) => Patched(g, J).ops[i] = g.ops[i]
                 /\ (\E p \in J : p.instruction = i) => Patched(g, J).ops[i].target = Pc(g)
<1> DEFINE Closes(i) == \E p \in J : p.instruction = i /\ p.close_upvalues
           At(i) == [g.ops[i] EXCEPT !.target = Pc(g), !.close = IF Closes(i) THEN StackTop(g) ELSE None]
           New(i) == IF \E p \in J : p.instruction = i THEN At(i) ELSE g.ops[i]
           ops == [i \in 1..Len(g.ops) |-> New(i)]
<1>1. g.ops \in Seq(Instrs) /\ DOMAIN g.ops = 1..Len(g.ops) /\ Len(g.ops) \in Nat /\ StackTop(g) \in Nat
  BY RegularParts, Elements DEF Regular
<1>2. \A i \in 1..Len(g.ops) : g.ops[i] \in Instrs
  BY RegularParts
<1>3. \A i \in 1..Len(g.ops) : New(i) \in Instrs
  <2> TAKE i \in 1..Len(g.ops)
  <2>1. Pc(g) \in Int
    BY <1>1 DEF Pc
  <2> DEFINE close == IF Closes(i) THEN StackTop(g) ELSE None
  <2>2. close \in Int
    <3> HIDE DEF Closes
    <3> QED
      BY <1>1 DEF None
  <2>3. [g.ops[i] EXCEPT !.target = Pc(g), !.close = close] \in Instrs
    <3> HIDE DEF close
    <3> QED
      BY <1>2, <2>1, <2>2, JumpTyped, Zenon
  <2>4. At(i) \in Instrs
    BY <2>3
  <2> HIDE DEF At
  <2> QED
    BY <1>2, <2>4
<1>4. Patched(g, J) = [g EXCEPT !.ops = ops]
  BY <1>1 DEF Patched
<1> HIDE DEF New
<1>5. ops \in [1..Len(g.ops) -> Instrs]
  BY <1>3
<1>6. ops \in Seq(Instrs) /\ Len(ops) = Len(g.ops)
  BY <1>1, <1>5
<1>7. \A i \in 1..Len(g.ops) : (\A p \in J : p.instruction # i) => ops[i] = g.ops[i]
  BY DEF New
<1>8. \A i \in 1..Len(g.ops) : (\E p \in J : p.instruction = i) => ops[i].target = Pc(g)
  <2> TAKE i \in 1..Len(g.ops)
  <2> HAVE \E p \in J : p.instruction = i
  <2>1. ops[i] = At(i)
    <3> HIDE DEF At
    <3> QED
      BY DEF New
  <2> HIDE DEF ops, Closes
  <2>2. At(i).target = Pc(g)
    BY <1>2 DEF Instrs
  <2> QED
    BY <2>1, <2>2
<1> HIDE DEF ops, At
<1> QED
  BY <1>4, <1>6, <1>7, <1>8 DEF Regular, IsFunctionRecord, Keeps

Patchable(g, label) == \A p \in Here(g, label) : label.kind = "named" \/ p.stack_top = StackTop(g)

(* A label is placed, and the jumps that wait for it in this block are patched. *)
LEMMA JumpTargetRegular ==
    ASSUME NEW g, Regular(g), Len(g.blocks) > 0, NEW label \in JumpLabels, Patchable(g, label),
           g.error \notin {"panic", "BreakRejected"}
    PROVE  /\ Regular(JumpTarget(g, label))
           /\ Keeps(g, JumpTarget(g, label), {"jump_targets", "pending_jumps", "ops", "error"})
           /\ JumpTarget(g, label).error \notin {"panic", "BreakRejected"}
           /\ Len(JumpTarget(g, label).ops) = Len(g.ops)
           /\ \A i \in 1..Len(g.ops) : g.ops[i] # Placeholder => JumpTarget(g, label).ops[i] = g.ops[i]
           /\ Ok(JumpTarget(g, label)) =>
                 /\ Ok(g)
                 /\ JumpTarget(g, label).pending_jumps = g.pending_jumps \ Here(g, label)
                 /\ JumpTarget(g, label).jump_targets = Append(g.jump_targets, TargetAt(g, label))
<1> DEFINE h == JumpTarget(g, label)
           b == Len(g.blocks)
           top == StackTop(g)
           t == TargetAt(g, label)
           here == Here(g, label)
           placed == [g EXCEPT !.jump_targets = Append(@, t), !.pending_jumps = @ \ here]
<1>0. Keeps(g, g, {"jump_targets", "pending_jumps", "ops", "error"})
  BY DEF Keeps, Regular
<1>1. IsFunctionRecord(g) /\ top \in Nat /\ b \in Nat /\ Len(g.ops) \in Nat
  BY RegularParts DEF Regular
<1>2. t \in JumpTargets /\ t.block_index = b /\ t.stack_top = top /\ t.label = label
      /\ t.instruction = Len(g.ops) + 1
  BY <1>1 DEF TargetAt, JumpTargets, Pc
<1>3. /\ Keeps(g, placed, {"jump_targets", "pending_jumps"})
      /\ placed.jump_targets = Append(g.jump_targets, t) /\ placed.pending_jumps = g.pending_jumps \ here
  BY <1>1 DEF IsFunctionRecord, Keeps
<1> HIDE DEF placed, here
<1>4. /\ placed.alloc = g.alloc /\ placed.locals = g.locals /\ placed.blocks = g.blocks /\ placed.ops = g.ops
      /\ placed.error = g.error /\ placed.scopes = g.scopes
      /\ IsFunctionRecord(placed) /\ StackTop(placed) = top
  BY <1>3 DEF Keeps, StackTop
<1>5. Placed(t, g.blocks, top)
  BY <1>2, PlacedHere
<1> HIDE DEF t
<1>6. TargetsPlaced(placed.jump_targets, g.blocks, top)
  <2> DEFINE T == g.jump_targets
             U == placed.jump_targets
  <2>1. TargetsPlaced(T, g.blocks, top) /\ T \in Seq(JumpTargets)
    BY DEF Regular, TargetsPlaced
  <2>2. /\ U \in Seq(JumpTargets) /\ Len(U) = Len(T) + 1 /\ Len(T) \in Nat
        /\ (\A k \in 1..Len(T) : U[k] = T[k]) /\ U[Len(T) + 1] = t
    BY <1>2, <1>3, <2>1, Appended
  <2> HIDE DEF T, U
  <2>3. \A k \in 1..Len(U) : k \in 1..Len(T) \/ k = Len(T) + 1
    BY <2>2
  <2>4. \A k \in 1..Len(U) : Placed(U[k], g.blocks, top)
    BY <1>5, <2>1, <2>2, <2>3 DEF TargetsPlaced
  <2>5. ASSUME NEW i \in 1..Len(g.blocks)
        PROVE  /\ g.blocks[i].bottom_jump_target \in 0..Len(U)
               /\ \A k \in 1..Len(U) : U[k].block_index < i <=> k <= g.blocks[i].bottom_jump_target
    <3>1. g.blocks[i].bottom_jump_target \in 0..Len(T)
      BY <2>1 DEF TargetsPlaced
    <3>2. \A k \in 1..Len(T) : U[k].block_index < i <=> k <= g.blocks[i].bottom_jump_target
      BY <2>1, <2>2 DEF TargetsPlaced
    <3>3. U[Len(T) + 1].block_index < i <=> Len(T) + 1 <= g.blocks[i].bottom_jump_target
      BY <1>1, <1>2, <2>2, <3>1
    <3> QED
      BY <2>2, <2>3, <3>1, <3>2, <3>3
  <2>6. TargetsPlaced(U, g.blocks, top)
    BY <2>2, <2>4, <2>5 DEF TargetsPlaced
  <2> QED
    BY <2>6 DEF U
<1>7. JumpsWait(placed.pending_jumps, g.blocks, top, g.ops)
  BY <1>3 DEF Regular, JumpsWait
<1>14. ScopesEnd(g.locals, g.scopes, Len(g.ops) + 1) /\ JumpsLand(g.ops, g.locals, g.scopes)
       /\ WaitersWithin(g.pending_jumps, g.locals)
       /\ TargetsOutside(g.jump_targets, g.locals, g.scopes, Len(g.ops) + 1)
  BY DEF Regular, Scoped
<1>15. TargetsOutside(placed.jump_targets, g.locals, g.scopes, Len(g.ops) + 1)
  <2> DEFINE T == g.jump_targets
             U == placed.jump_targets
  <2>1. T \in Seq(JumpTargets)
    BY DEF Regular, TargetsPlaced
  <2>2. /\ Len(U) = Len(T) + 1 /\ Len(T) \in Nat
        /\ (\A k \in 1..Len(T) : U[k] = T[k]) /\ U[Len(T) + 1] = t
    BY <1>2, <1>3, <2>1, Appended
  <2>3. \A k \in 1..Len(U) : k \in 1..Len(T) \/ k = Len(T) + 1
    BY <2>2
  <2> HIDE DEF U
  <2>4. \A k \in 1..Len(g.locals) : g.locals[k].reg \in Nat /\ ~(top <= g.locals[k].reg)
    BY <1>1, RegularParts DEF Regular, Rising
  <2>5. \A s \in g.scopes : s.to \in Nat /\ ~(Len(g.ops) + 1 < s.to)
    BY <1>1, <1>14 DEF ScopesEnd, ScopeDescriptors
  <2>6. \A j \in 1..Len(U) :
          /\ U[j].instruction <= Len(g.ops) + 1
          /\ \A k \in 1..Len(g.locals) : U[j].stack_top <= g.locals[k].reg => U[j].instruction < g.locals[k].from
          /\ \A s \in g.scopes : ~(s.from <= U[j].instruction /\ U[j].instruction < s.to)
    <3> TAKE j \in 1..Len(U)
    <3>1. CASE j \in 1..Len(T)
      <4>1. U[j] = g.jump_targets[j] /\ j \in 1..Len(g.jump_targets)
        BY <2>2, <3>1
      <4> QED
        BY <1>14, <4>1 DEF TargetsOutside
    <3>2. CASE j = Len(T) + 1
      BY <1>1, <1>2, <2>2, <2>4, <2>5, <3>2
    <3> QED
      BY <2>3, <3>1, <3>2
  <2> QED
    BY <2>6 DEF TargetsOutside, U
<1>16. Scoped(placed)
  <2>1. WaitersWithin(placed.pending_jumps, g.locals)
    BY <1>3, <1>14 DEF WaitersWithin
  <2> QED
    BY <1>4, <1>14, <1>15, <2>1 DEF Scoped
<1>8. Regular(placed)
  BY <1>4, <1>6, <1>7, <1>16 DEF Regular
<1>9. \A p \in g.pending_jumps : p.block_index <= b /\ p.stack_top <= top
  BY <1>1, RegularParts DEF Regular, JumpsWait, Placed
<1>10. \A p \in here : p \in g.pending_jumps /\ p.stack_top \in Nat /\ g.ops[p.instruction] = Placeholder
  BY RegularParts DEF here, Here, Regular, JumpsWait
<1>11. CASE ~Ok(g)
  BY <1>0, <1>11 DEF JumpTarget
<1>12. CASE Ok(g) /\ \E u \in ToSet(g.jump_targets) : u.block_index >= b /\ u.label = label
  <2>1. h = Fail(g, "DuplicateLabel")
    BY <1>12 DEF JumpTarget
  <2> HIDE DEF h
  <2>2. Keeps(g, h, {"error"}) /\ h.error = "DuplicateLabel" /\ Regular(h)
    BY <2>1, FailRegular
  <2> QED
    BY <2>2 DEF Keeps, Ok, h
<1>13. CASE Ok(g) /\ ~\E u \in ToSet(g.jump_targets) : u.block_index >= b /\ u.label = label
  <2>1. ~\E p \in g.pending_jumps : p.block_index > b
    BY <1>1, <1>9, RegularParts
  <2>2. ~\E p \in here : p.stack_top > top
    BY <1>1, <1>9, <1>10
  <2>3. CASE \E p \in here : p.stack_top < top
    <3>1. label.kind = "named"
      BY <1>1, <1>10, <2>3 DEF Patchable, here
    <3>2. h = Fail(placed, "JumpLocal")
      BY <1>13, <2>1, <2>2, <2>3, <3>1 DEF JumpTarget, placed, here, Here, t, TargetAt
    <3> HIDE DEF h
    <3>3. Keeps(placed, h, {"error"}) /\ h.error = "JumpLocal" /\ Regular(h)
      BY <1>8, <3>2, FailRegular
    <3>4. Keeps(g, h, {"jump_targets", "pending_jumps", "ops", "error"}) /\ h.ops = g.ops
      BY <1>3, <3>3 DEF Keeps
    <3> QED
      BY <3>3, <3>4 DEF Ok, h
  <2>4. CASE ~\E p \in here : p.stack_top < top
    <3>1. ~\E p \in here : g.ops[p.instruction] # Instr("jump", {})
      BY <1>10 DEF Placeholder
    <3>2. h = Patched(placed, here)
      BY <1>13, <2>1, <2>2, <2>4, <3>1 DEF JumpTarget, placed, here, Here, t, TargetAt
    <3> HIDE DEF h
    <3>3. here \in SUBSET PendingJumps
      BY DEF here, Here, Regular, JumpsWait
    <3>4. /\ Keeps(placed, h, {"ops"}) /\ h.ops \in Seq(Instrs) /\ Len(h.ops) = Len(placed.ops)
          /\ \A i \in 1..Len(placed.ops) :
                /\ (\A p \in here : p.instruction # i) => h.ops[i] = placed.ops[i]
                /\ (\E p \in here : p.instruction = i) => h.ops[i].target = Pc(placed)
      BY <1>8, <3>2, <3>3, PatchedFields
    <3>5. \A i \in 1..Len(g.ops) : g.ops[i] # Placeholder => h.ops[i] = g.ops[i]
      BY <1>4, <1>10, <3>4
    <3>6. ASSUME NEW p \in placed.pending_jumps, NEW q \in here PROVE q.instruction # p.instruction
      BY <1>3, <1>10 DEF Regular, JumpsWait
    <3>7. /\ Keeps(g, h, {"jump_targets", "pending_jumps", "ops", "error"}) /\ h.error = g.error
          /\ h.pending_jumps = placed.pending_jumps /\ h.jump_targets = placed.jump_targets
          /\ h.alloc = g.alloc /\ h.locals = g.locals /\ h.blocks = g.blocks /\ IsFunctionRecord(h)
          /\ StackTop(h) = top /\ h.scopes = g.scopes
      BY <1>3, <3>4 DEF Keeps, StackTop
    <3>8. JumpsWait(h.pending_jumps, g.blocks, top, h.ops)
      <4>1. \A p \in placed.pending_jumps : p.instruction \in 1..Len(h.ops) /\ h.ops[p.instruction] = Placeholder
        BY <1>4, <1>7, <3>4, <3>6 DEF JumpsWait
      <4> QED
        BY <1>7, <3>7, <4>1 DEF JumpsWait
    <3>12. JumpsLand(h.ops, g.locals, g.scopes)
      <4> SUFFICES ASSUME NEW i \in 1..Len(h.ops), h.ops[i].op = "jump"
                   PROVE  h.ops[i].target <= Len(h.ops) + 1 /\ Lands(g.locals, g.scopes, i, h.ops[i].target)
        BY DEF JumpsLand
      <4>0. i \in 1..Len(g.ops) /\ Len(h.ops) = Len(g.ops) /\ placed.ops = g.ops
        BY <1>4, <3>4
      <4>1. CASE \A p \in here : p.instruction # i
        BY <1>14, <3>4, <4>0, <4>1 DEF JumpsLand
      <4>2. CASE \E p \in here : p.instruction = i
        <5>1. PICK p \in here : p.instruction = i
          BY <4>2
        <5>2. h.ops[i].target = Len(g.ops) + 1
          BY <3>4, <4>0, <4>2 DEF Pc
        <5>3. p.stack_top = top /\ p \in g.pending_jumps
          BY <1>1, <1>9, <1>10, <2>4
        <5>4. \A k \in 1..Len(g.locals) : g.locals[k].from <= i
          BY <1>14, <5>1, <5>3 DEF WaitersWithin, Regular, Rising
        <5>5. \A s \in g.scopes : s.to \in Nat /\ ~(Len(g.ops) + 1 < s.to)
          BY <1>1, <1>14 DEF ScopesEnd, ScopeDescriptors
        <5> QED
          BY <1>1, <4>0, <5>2, <5>4, <5>5 DEF Lands
      <4> QED
        BY <4>1, <4>2
    <3>13. Scoped(h)
      <4>1. Len(h.ops) = Len(g.ops)
        BY <1>4, <3>4
      <4>2. WaitersWithin(placed.pending_jumps, g.locals)
        BY <1>3, <1>14 DEF WaitersWithin
      <4> QED
        BY <1>14, <1>15, <3>7, <3>12, <4>1, <4>2 DEF Scoped
    <3>9. Regular(h)
      BY <1>6, <3>4, <3>7, <3>8, <3>13 DEF Regular
    <3>10. h.error \notin {"panic", "BreakRejected"} /\ Len(h.ops) = Len(g.ops)
      BY <1>4, <3>4, <3>7
    <3>11. /\ h.pending_jumps = g.pending_jumps \ here
           /\ h.jump_targets = Append(g.jump_targets, t)
      BY <1>3, <3>7
    <3> QED
      BY <1>13, <3>5, <3>7, <3>9, <3>10, <3>11 DEF h, t, here
  <2> QED
    BY <2>3, <2>4
<1> QED
  BY <1>11, <1>12, <1>13

IsLocal(locals, r) == \E i \in 1..Len(locals) : locals[i].reg = r
Targets(g) == {g.jump_targets[k] : k \in 1..Len(g.jump_targets)}

LEMMA FirstOfSeq ==
    ASSUME NEW S, NEW s \in Seq(S), NEW n \in 0..Len(s)
    PROVE  /\ SubSeq(s, 1, n) \in Seq(S) /\ Len(SubSeq(s, 1, n)) = n
           /\ \A i \in 1..n : SubSeq(s, 1, n)[i] = s[i]
<1>1. Len(s) \in Nat
  BY Elements
<1>2. 1 \in 1..Len(s) + 1 /\ n \in 1 - 1..Len(s) /\ n \in Nat
  BY <1>1
<1> QED
  BY <1>1, <1>2, SubSeqProperties

(* The locals from bottom on are gone from h, and their scopes end here. *)
Dropped(g, h, bottom, here) ==
    /\ Len(h.locals) \in 0..Len(g.locals)
    /\ \A i \in 1..Len(h.locals) : h.locals[i] = g.locals[i]
    /\ \A s \in h.scopes :
          \/ s \in g.scopes
          \/ \E k \in 1..Len(g.locals) : /\ bottom <= g.locals[k].reg
                                        /\ s = [reg |-> g.locals[k].reg, from |-> g.locals[k].from, to |-> here]
    /\ \A i \in 1..Len(g.locals) : g.locals[i].reg < bottom <=> i <= Len(h.locals)
    /\ g.scopes \subseteq h.scopes
    /\ \A i \in 1..Len(g.locals) : bottom <= g.locals[i].reg =>
          [reg |-> g.locals[i].reg, from |-> g.locals[i].from, to |-> here] \in h.scopes

(* The locals of the block go, and their registers with them. *)
LEMMA FreeLocalsFields ==
    ASSUME NEW g, IsFunctionRecord(g), NEW top \in Top, NEW bottom \in Nat, bottom <= top,
           Stacked(g.alloc, top), Rising(g.locals, top), OnlyLocals(g.locals, bottom, top)
    PROVE  /\ Keeps(g, FreeLocals(g, bottom), {"alloc", "locals", "scopes"})
           /\ Dropped(g, FreeLocals(g, bottom), bottom, Pc(g))
           /\ Stacked(FreeLocals(g, bottom).alloc, bottom)
           /\ Rising(FreeLocals(g, bottom).locals, bottom)
           /\ \A r \in Nat : r < bottom => (IsLocal(FreeLocals(g, bottom).locals, r) <=> IsLocal(g.locals, r))
<1> DEFINE kept == Outer(g, bottom)
           last == Len(g.locals)
           dropped == {g.locals[i] : i \in kept + 1..last}
           a == Freeing(g.alloc, g.locals, last - kept)[last - kept]
           news == g.scopes \union {[reg |-> v.reg, from |-> v.from, to |-> Pc(g)] : v \in dropped}
           h == [g EXCEPT !.alloc = a, !.locals = SubSeq(@, 1, kept), !.scopes = news]
<1>1. /\ g.locals \in Seq(LocalDescriptors) /\ last \in Nat /\ top \in Nat
      /\ \A i \in 1..last : g.locals[i].reg \in Nat /\ g.locals[i].reg < top
  <2>1. g.locals \in Seq(LocalDescriptors)
    BY DEF Rising
  <2>2. last \in Nat /\ \A i \in 1..last : g.locals[i] \in LocalDescriptors
    BY <2>1, Elements
  <2> QED
    BY <2>1, <2>2, RegistersAssumption DEF Rising, LocalDescriptors, Top
<1>2. kept \in 0..last /\ \A i \in 1..last : g.locals[i].reg < bottom <=> i <= kept
  BY <1>1, OuterIs
<1> HIDE DEF kept
<1>3. /\ \A n \in 1..last - kept : g.locals[last + 1 - n].reg = top - n
      /\ last - kept = top - bottom
  BY <1>1, <1>2, LocalsDownFromTop, ZenonT(40)
<1>4. last - kept \in 0..top /\ top - (last - kept) = bottom
  BY <1>1, <1>3
<1>5. Stacked(a, bottom)
  <2> DEFINE n == last - kept
  <2>1. n \in 0..top /\ \A i \in 1..n : g.locals[last + 1 - i].reg = top - i
    BY <1>3, <1>4
  <2> HIDE DEF n
  <2>2. Stacked(Freeing(g.alloc, g.locals, n)[n], top - n)
    BY <2>1, FreedOneByOne
  <2> QED
    BY <1>4, <2>2 DEF n
<1> HIDE DEF a
<1>6. ~\E v \in dropped : ~g.alloc.registers[v.reg]
  <2>1. \A i \in kept + 1..last : g.locals[i].reg \in Register /\ g.locals[i].reg < top
    BY <1>1, <1>2, RegistersAssumption DEF Register, Top
  <2> QED
    BY <2>1 DEF Stacked
<1>7. FreeLocals(g, bottom) = h
  <2>1. FreeLocals(g, bottom) = FreeDownTo(g, kept)
    BY DEF FreeLocals, kept
  <2>2. FreeDownTo(g, kept) = h
    BY <1>6 DEF FreeDownTo, a, Freeing
  <2> QED
    BY <2>1, <2>2
<1>12. \A s \in news :
          \/ s \in g.scopes
          \/ \E k \in 1..Len(g.locals) : /\ bottom <= g.locals[k].reg
                                        /\ s = [reg |-> g.locals[k].reg, from |-> g.locals[k].from, to |-> Pc(g)]
  <2> SUFFICES ASSUME NEW v \in dropped
               PROVE  \E k \in 1..Len(g.locals) : bottom <= g.locals[k].reg /\ v = g.locals[k]
    BY Zenon DEF news
  <2>1. PICK k \in kept + 1..last : v = g.locals[k]
    OBVIOUS
  <2>2. k \in 1..last /\ ~(g.locals[k].reg < bottom)
    BY <1>1, <1>2, <2>1
  <2> QED
    BY <1>1, <2>1, <2>2
<1>14. /\ g.scopes \subseteq news
       /\ \A i \in 1..Len(g.locals) : bottom <= g.locals[i].reg =>
             [reg |-> g.locals[i].reg, from |-> g.locals[i].from, to |-> Pc(g)] \in news
  <2>1. \A i \in 1..last : bottom <= g.locals[i].reg => g.locals[i] \in dropped
    BY <1>1, <1>2
  <2>2. \A v \in dropped : [reg |-> v.reg, from |-> v.from, to |-> Pc(g)] \in news
    BY Zenon DEF news
  <2> HIDE DEF dropped
  <2> QED
    BY <2>1, <2>2
<1> HIDE DEF news
<1>8. Keeps(g, h, {"alloc", "locals", "scopes"}) /\ h.alloc = a /\ h.locals = SubSeq(g.locals, 1, kept)
      /\ h.scopes = news
  BY DEF IsFunctionRecord, Keeps
<1> HIDE DEF h
<1>9. /\ h.locals \in Seq(LocalDescriptors) /\ Len(h.locals) = kept
      /\ \A i \in 1..kept : h.locals[i] = g.locals[i]
  BY <1>1, <1>2, <1>8, FirstOfSeq
<1>10. Rising(h.locals, bottom)
  <2>1. \A i \in 1..kept : i \in 1..last
    BY <1>1, <1>2
  <2>2. \A i \in 1..kept : h.locals[i].reg < bottom
    BY <1>1, <1>2, <1>9, <2>1
  <2>3. \A i, j \in 1..kept : i < j => h.locals[i].reg < h.locals[j].reg
    BY <1>9, <2>1 DEF Rising
  <2> QED
    BY <1>9, <2>2, <2>3 DEF Rising
<1>11. ASSUME NEW r \in Nat, r < bottom PROVE IsLocal(h.locals, r) <=> IsLocal(g.locals, r)
  <2>1. ASSUME NEW i \in 1..last, g.locals[i].reg = r PROVE IsLocal(h.locals, r)
    <3>1. i \in 1..kept
      BY <1>1, <1>2, <1>11, <2>1
    <3> QED
      BY <1>9, <2>1, <3>1 DEF IsLocal
  <2>2. ASSUME NEW i \in 1..kept, h.locals[i].reg = r PROVE IsLocal(g.locals, r)
    <3>1. i \in 1..last
      BY <1>1, <1>2
    <3> QED
      BY <1>9, <2>2, <3>1 DEF IsLocal
  <2> QED
    BY <1>9, <2>1, <2>2 DEF IsLocal
<1>13. Dropped(g, h, bottom, Pc(g))
  BY <1>1, <1>2, <1>8, <1>9, <1>12, <1>14 DEF Dropped
<1> QED
  BY <1>5, <1>7, <1>8, <1>10, <1>11, <1>13

(* A pending jump brought outward one level. *)
Lifted(p, n, top, owns) ==
    [p EXCEPT !.block_index = n, !.stack_top = top, !.close_upvalues = @ \/ owns]

Outward(P, n, top, owns) ==
    IF n = 0 THEN P
    ELSE {p \in P : p.block_index <= n}
         \union {Lifted(p, n, top, owns) : p \in {q \in P : q.block_index > n}}

(* The instruction at the end of a block: it closes the upvalues from bottom on and leads on. *)
Closes(x, m, bottom) ==
    /\ x.op = "jump" /\ x.target = m + 1 /\ x.close = bottom /\ x.writes = {} /\ x.captures = None

(* exit_block: what is left of the function. *)
LEMMA ExitFields ==
    ASSUME NEW g, Regular(g), NEW n \in Nat, Len(g.blocks) = n + 1,
           OnlyLocals(g.locals, g.blocks[n + 1].stack_bottom, StackTop(g))
    PROVE  LET h == ExitBlock(g)
               bottom == g.blocks[n + 1].stack_bottom
           IN  /\ Keeps(g, h, {"alloc", "locals", "blocks", "jump_targets", "pending_jumps", "ops", "scopes"})
               /\ Dropped(g, h, bottom, Len(g.ops) + 1)
               /\ Stacked(h.alloc, bottom) /\ bottom \in Nat
               /\ Rising(h.locals, bottom)
               /\ \A r \in Nat : r < bottom => (IsLocal(h.locals, r) <=> IsLocal(g.locals, r))
               /\ h.blocks = Front(g.blocks)
               /\ h.jump_targets = SubSeq(g.jump_targets, 1, g.blocks[n + 1].bottom_jump_target)
               /\ h.ops = g.ops \/ \E i \in Instrs : h.ops = Append(g.ops, i) /\ i.target = Len(g.ops) + 2
               /\ h.pending_jumps = Outward(g.pending_jumps, n, bottom, g.blocks[n + 1].owns_upvalues)
               /\ \/ h.ops = g.ops /\ ~(g.blocks[n + 1].owns_upvalues /\ n > 0)
                  \/ n > 0 /\ \E x \in Instrs : h.ops = Append(g.ops, x) /\ Closes(x, Len(g.ops) + 1, bottom)
<1> DEFINE block == g.blocks[n + 1]
           bottom == block.stack_bottom
           e == [g EXCEPT !.blocks = Front(@)]
           w == FreeLocals(e, bottom)
           c == CloseUpvalues(w, block)
           h == ExitBlock(g)
<1>1. /\ Len(g.blocks) \in Nat /\ n \in Nat /\ n + 1 = Len(g.blocks) /\ n + 1 \in 1..Len(g.blocks)
      /\ bottom \in Nat /\ StackTop(g) \in Nat /\ IsFunctionRecord(g)
      /\ g.blocks \in Seq(BlockDescriptors)
  BY RegularParts DEF Regular, BlocksRise
<1>2. Last(g.blocks) = block
  BY <1>1 DEF Last
<1>3. Keeps(g, e, {"blocks"}) /\ e.blocks = Front(g.blocks)
  BY <1>1 DEF IsFunctionRecord, Keeps
<1>4. Len(Front(g.blocks)) = n
  BY <1>1 DEF Front
<1>5. bottom <= StackTop(g)
  BY <1>1 DEF Regular, BlocksRise
<1> HIDE DEF e, block
<1>6. /\ Keeps(e, w, {"alloc", "locals", "scopes"}) /\ Dropped(e, w, bottom, Pc(e)) /\ Stacked(w.alloc, bottom) /\ Rising(w.locals, bottom)
      /\ \A r \in Nat : r < bottom => (IsLocal(w.locals, r) <=> IsLocal(e.locals, r))
  <2>1. e.alloc = g.alloc /\ e.locals = g.locals /\ IsFunctionRecord(e)
    BY <1>3 DEF Keeps
  <2>2. OnlyLocals(g.locals, bottom, StackTop(g))
    BY <1>1 DEF block
  <2>3. StackTop(g) \in Top /\ Stacked(g.alloc, StackTop(g)) /\ Rising(g.locals, StackTop(g))
    BY DEF Regular
  <2> QED
    BY <1>1, <1>5, <2>1, <2>2, <2>3, FreeLocalsFields
<1>7. /\ Keeps(g, w, {"alloc", "locals", "blocks", "scopes"}) /\ w.blocks = Front(g.blocks)
      /\ StackTop(w) = bottom
      /\ \A r \in Nat : r < bottom => (IsLocal(w.locals, r) <=> IsLocal(g.locals, r))
      /\ Dropped(g, w, bottom, Len(g.ops) + 1)
  <2>1. e.locals = g.locals /\ e.scopes = g.scopes /\ e.ops = g.ops
    BY <1>3 DEF Keeps
  <2>2. Dropped(g, w, bottom, Len(g.ops) + 1)
    <3>1. Pc(e) = Len(g.ops) + 1
      BY <2>1 DEF Pc
    <3> QED
      BY <1>6, <2>1, <3>1, SMTT(30) DEF Dropped
  <2> QED
    BY <1>3, <1>6, <2>2 DEF Keeps, Stacked, StackTop
<1>8. WithoutBlock(g) = w
  BY <1>2 DEF WithoutBlock, e, w
<1> HIDE DEF w
<1>9. h = LeaveBlock(c, block)
  BY <1>2, <1>8 DEF ExitBlock
<1>10. /\ Keeps(w, c, {"ops"})
       /\ c.ops = g.ops \/ \E i \in Instrs : c.ops = Append(g.ops, i) /\ i.target = Len(g.ops) + 2
       /\ \/ c.ops = g.ops /\ ~(block.owns_upvalues /\ n > 0)
          \/ n > 0 /\ \E x \in Instrs : c.ops = Append(g.ops, x) /\ Closes(x, Len(g.ops) + 1, bottom)
  <2>1. CASE ~(block.owns_upvalues /\ w.blocks # <<>>)
    <3>1. n > 0 => w.blocks # <<>>
      BY <1>1, <1>4, <1>7
    <3> QED
      BY <1>7, <2>1, <3>1 DEF CloseUpvalues, Keeps
  <2>2. CASE block.owns_upvalues /\ w.blocks # <<>>
    <3> DEFINE pc1 == Pc(w) + 1
               i == [Placeholder EXCEPT !.target = pc1, !.close = bottom]
    <3>1. pc1 \in Int /\ bottom \in Int /\ pc1 = Len(g.ops) + 2
      BY <1>1, <1>7, RegularParts DEF Pc, Keeps
    <3>2. c = Emit(w, i)
      BY <2>2 DEF CloseUpvalues, Placeholder, bottom
    <3> HIDE DEF pc1, bottom
    <3>3. i \in Instrs
      BY <3>1, PlaceholderTyped, JumpTyped, Zenon
    <3>5. i.target = pc1
      BY PlaceholderTyped DEF Instrs
    <3>6. /\ i.op = "jump" /\ i.close = bottom /\ i.writes = {} /\ i.captures = None
      <4>1. Placeholder.op = "jump" /\ Placeholder.writes = {} /\ Placeholder.captures = None
        BY DEF Placeholder, Instr
      <4> QED
        BY <4>1, PlaceholderTyped DEF Instrs
    <3> HIDE DEF c, i
    <3>4. Keeps(w, c, {"ops"}) /\ c.ops = Append(w.ops, i)
      BY <1>7, <3>2, EmitFields DEF Keeps
    <3>7. c.ops = Append(g.ops, i) /\ Closes(i, Len(g.ops) + 1, bottom)
      <4>1. w.ops = g.ops /\ Len(g.ops) \in Nat BY <1>7, RegularParts DEF Keeps
      <4>2. Closes(i, Len(g.ops) + 1, bottom) BY <3>1, <3>5, <3>6, <4>1 DEF Closes
      <4> QED BY <3>4, <4>1, <4>2
    <3>8. n > 0
      BY <1>1, <1>4, <1>7, <2>2
    <3> QED
      BY <1>7, <3>1, <3>3, <3>4, <3>5, <3>7, <3>8 DEF Keeps
  <2> QED
    BY <2>1, <2>2
<1> HIDE DEF c
<1>11. /\ Keeps(g, c, {"alloc", "locals", "blocks", "ops", "scopes"}) /\ c.blocks = Front(g.blocks)
       /\ c.alloc = w.alloc /\ c.locals = w.locals /\ c.scopes = w.scopes
       /\ StackTop(c) = bottom /\ Len(c.blocks) = n
       /\ c.pending_jumps = g.pending_jumps /\ c.jump_targets = g.jump_targets /\ IsFunctionRecord(c)
  BY <1>4, <1>7, <1>10 DEF Keeps, StackTop
<1> DEFINE leaving == {p \in g.pending_jumps : n > 0 /\ p.block_index > n}
           Lift(p) == Lifted(p, n, bottom, block.owns_upvalues)
           P == (g.pending_jumps \ leaving) \union {Lift(p) : p \in leaving}
           T == SubSeq(g.jump_targets, 1, block.bottom_jump_target)
           k == [c EXCEPT !.jump_targets = T, !.pending_jumps = P]
<1>12. ~\E p \in leaving : p.stack_top < bottom
  <2> SUFFICES ASSUME NEW p \in leaving PROVE ~(p.stack_top < bottom)
    OBVIOUS
  <2>1. p \in g.pending_jumps /\ p.block_index > n /\ p.block_index \in Nat /\ p.stack_top \in Nat
    BY RegularParts
  <2>2. p.block_index \in 1..Len(g.blocks) /\ g.blocks[p.block_index].stack_bottom <= p.stack_top
    BY <2>1 DEF Regular, JumpsWait, Placed
  <2>3. p.block_index = n + 1
    BY <1>1, <2>1, <2>2
  <2>4. bottom <= p.stack_top
    BY <2>2, <2>3 DEF block
  <2> QED
    BY <1>1, <2>1, <2>4
<1>13. h = k
  BY <1>9, <1>11, <1>12 DEF LeaveBlock, Lifted
<1> HIDE DEF P, T
<1>14. Keeps(c, k, {"jump_targets", "pending_jumps"}) /\ k.jump_targets = T /\ k.pending_jumps = P
  BY <1>11 DEF IsFunctionRecord, Keeps
<1> HIDE DEF k, h
<1>15. Keeps(g, h, {"alloc", "locals", "blocks", "jump_targets", "pending_jumps", "ops", "scopes"})
  BY <1>11, <1>13, <1>14 DEF Keeps
<1>16. /\ h.alloc = w.alloc /\ h.locals = w.locals /\ h.blocks = Front(g.blocks) /\ h.ops = c.ops
       /\ h.jump_targets = T /\ h.pending_jumps = P /\ h.scopes = w.scopes
  BY <1>11, <1>13, <1>14 DEF Keeps
<1>17. P = Outward(g.pending_jumps, n, bottom, block.owns_upvalues)
  <2>1. CASE n = 0
    BY <2>1 DEF P, Outward
  <2>2. CASE n # 0
    <3>1. n > 0
      BY <1>1, <2>2
    <3>2. leaving = {q \in g.pending_jumps : q.block_index > n}
      BY <3>1
    <3>3. g.pending_jumps \ leaving = {p \in g.pending_jumps : p.block_index <= n}
      BY <1>1, <3>1, RegularParts
    <3> HIDE DEF leaving
    <3> QED
      BY <2>2, <3>2, <3>3 DEF P, Outward, Lift
  <2> QED
    BY <2>1, <2>2
<1>18. Stacked(h.alloc, bottom) /\ Rising(h.locals, bottom)
  BY <1>6, <1>16
<1>19. \A r \in Nat : r < bottom => (IsLocal(h.locals, r) <=> IsLocal(g.locals, r))
  BY <1>7, <1>16
<1>20. h.ops = g.ops \/ \E i \in Instrs : h.ops = Append(g.ops, i) /\ i.target = Len(g.ops) + 2
  BY <1>10, <1>16
<1>21. Dropped(g, h, bottom, Len(g.ops) + 1)
  BY <1>7, <1>16 DEF Dropped
<1>22. \/ h.ops = g.ops /\ ~(block.owns_upvalues /\ n > 0)
       \/ n > 0 /\ \E x \in Instrs : h.ops = Append(g.ops, x) /\ Closes(x, Len(g.ops) + 1, bottom)
  BY <1>10, <1>16
<1> QED
  BY <1>1, <1>15, <1>16, <1>17, <1>18, <1>19, <1>20, <1>21, <1>22 DEF h, block, bottom, T

LEMMA FrontIs ==
    ASSUME NEW S, NEW s \in Seq(S), NEW n \in Nat, Len(s) = n + 1
    PROVE  /\ Front(s) \in Seq(S) /\ Len(Front(s)) = n
           /\ \A i \in 1..n : Front(s)[i] = s[i]
<1>1. Front(s) = SubSeq(s, 1, n)
  BY DEF Front
<1>2. n \in 0..Len(s)
  OBVIOUS
<1> QED
  BY <1>1, <1>2, FirstOfSeq

(* h is g after its last block was left, n blocks remain. *)
LeftTo(g, h, n) ==
    LET bottom == g.blocks[n + 1].stack_bottom
    IN  /\ Keeps(g, h, {"alloc", "locals", "blocks", "jump_targets", "pending_jumps", "ops", "scopes"})
        /\ StackTop(h) = bottom
        /\ Len(h.blocks) = n /\ \A i \in 1..n : h.blocks[i] = g.blocks[i]
        /\ Targets(h) = {t \in Targets(g) : t.block_index <= n}
        /\ \A q \in h.pending_jumps : \E p \in g.pending_jumps :
              /\ q.target = p.target /\ q.instruction = p.instruction
              /\ \/ p.block_index <= n /\ q = p
                 \/ p.block_index = n + 1 /\ q.block_index = n /\ q.stack_top = bottom
        /\ \A r \in Nat : r < bottom => (IsLocal(h.locals, r) <=> IsLocal(g.locals, r))
        /\ Len(g.ops) <= Len(h.ops) /\ \A i \in 1..Len(g.ops) : h.ops[i] = g.ops[i]

LEMMA LiftedIs ==
    ASSUME NEW p \in PendingJumps, NEW n \in Nat, NEW top \in Nat, NEW owns \in BOOLEAN
    PROVE  LET q == Lifted(p, n, top, owns)
           IN  /\ q \in PendingJumps /\ q.target = p.target /\ q.instruction = p.instruction
               /\ q.block_index = n /\ q.stack_top = top
<1> DEFINE c == p.close_upvalues \/ owns
           p1 == [p EXCEPT !.block_index = n]
           p2 == [p1 EXCEPT !.stack_top = top]
           p3 == [p2 EXCEPT !.close_upvalues = c]
<1>1. Lifted(p, n, top, owns) = p3
  BY Zenon DEF Lifted
<1>2. c \in BOOLEAN
  OBVIOUS
<1> HIDE DEF c
<1>3. p1 \in PendingJumps /\ p1.target = p.target /\ p1.instruction = p.instruction /\ p1.block_index = n
  BY DEF PendingJumps
<1> HIDE DEF p1
<1>4. /\ p2 \in PendingJumps /\ p2.target = p1.target /\ p2.instruction = p1.instruction
      /\ p2.block_index = p1.block_index /\ p2.stack_top = top
  BY <1>3 DEF PendingJumps
<1> HIDE DEF p2
<1>5. /\ p3 \in PendingJumps /\ p3.target = p2.target /\ p3.instruction = p2.instruction
      /\ p3.block_index = p2.block_index /\ p3.stack_top = p2.stack_top
  BY <1>2, <1>4 DEF PendingJumps
<1> HIDE DEF p3
<1> QED
  BY <1>1, <1>3, <1>4, <1>5

(* At the end of a block scopes end, waiting jumps come outward, and inner targets are forgotten. *)
LEMMA ScopedExit ==
    ASSUME NEW g, Regular(g), NEW bottom \in Nat, NEW h, Dropped(g, h, bottom, Len(g.ops) + 1),
           h.ops = g.ops \/ \E i \in Instrs : h.ops = Append(g.ops, i) /\ i.target = Len(g.ops) + 2,
           \A q \in h.pending_jumps : q.stack_top \in Nat /\ \E p \in g.pending_jumps :
              q.instruction = p.instruction /\ (q.stack_top = p.stack_top \/ q.stack_top <= p.stack_top),
           \A j \in 1..Len(h.jump_targets) : \E k \in 1..Len(g.jump_targets) :
              h.jump_targets[j] = g.jump_targets[k] /\ g.jump_targets[k].stack_top <= bottom
    PROVE  Scoped(h)
<1> DEFINE n == Len(g.ops)
           m == Len(h.ops)
           L == g.locals
           here == n + 1
<1>1. /\ ScopesEnd(L, g.scopes, here) /\ JumpsLand(g.ops, L, g.scopes)
      /\ WaitersWithin(g.pending_jumps, L)
      /\ TargetsOutside(g.jump_targets, L, g.scopes, here)
  BY DEF Regular, Scoped
<1>2. /\ n \in Nat /\ here \in Nat /\ g.ops \in Seq(Instrs)
      /\ \A k \in 1..Len(L) : L[k].reg \in Nat /\ L[k].from \in Nat \ {0}
      /\ \A p \in g.pending_jumps : p.stack_top \in Nat /\ p.instruction \in Nat
      /\ \A k \in 1..Len(g.jump_targets) : g.jump_targets[k].instruction \in Nat
                                           /\ g.jump_targets[k].stack_top \in Nat
  BY RegularParts DEF Regular, LocalDescriptors, JumpTargets
<1>3. \A s \in g.scopes : s.from \in Nat \ {0} /\ s.to \in Nat /\ s \in ScopeDescriptors
  BY <1>1 DEF ScopesEnd, ScopeDescriptors
<1>4. /\ m \in Nat /\ n <= m /\ \A i \in 1..n : h.ops[i] = g.ops[i]
      /\ \A i \in 1..m : i \in 1..n \/ (i = here /\ m = n + 1 /\ h.ops[i].target = n + 2)
  <2>1. CASE h.ops = g.ops
    BY <1>2, <2>1
  <2>2. CASE \E i \in Instrs : h.ops = Append(g.ops, i) /\ i.target = n + 2
    <3>1. PICK i \in Instrs : h.ops = Append(g.ops, i) /\ i.target = n + 2
      BY <2>2
    <3>2. /\ h.ops \in Seq(Instrs) /\ m = n + 1 /\ \A j \in 1..n : h.ops[j] = g.ops[j]
          /\ h.ops[n + 1] = i
      BY <1>2, <3>1, Appended
    <3> QED
      BY <1>2, <3>1, <3>2
  <2> QED
    BY <2>1, <2>2
<1> DEFINE M == h.locals
<1>5. \A k \in 1..Len(M) : k \in 1..Len(L) /\ M[k] = L[k]
  <2>1. Len(L) \in Nat /\ Len(M) \in 0..Len(L)
    BY RegularParts DEF Dropped
  <2> QED
    BY <2>1 DEF Dropped
<1> HIDE DEF L, M, m, n, here
<1>6. \A s \in h.scopes :
         \/ s \in g.scopes
         \/ \E k \in 1..Len(L) : bottom <= L[k].reg /\ s = [reg |-> L[k].reg, from |-> L[k].from, to |-> here]
  BY DEF Dropped, L, here, n
<1>7. ScopesEnd(M, h.scopes, m + 1)
  <2>1. \A s \in h.scopes : s \in ScopeDescriptors /\ s.to <= m + 1
    <3> TAKE s \in h.scopes
    <3>1. CASE s \in g.scopes
      BY <1>1, <1>2, <1>3, <1>4, <3>1 DEF ScopesEnd, here
    <3>2. CASE \E k \in 1..Len(L) : bottom <= L[k].reg /\ s = [reg |-> L[k].reg, from |-> L[k].from, to |-> here]
      BY <1>2, <1>4, <3>2 DEF ScopeDescriptors, here
    <3> QED
      BY <1>6, <3>1, <3>2
  <2>2. \A k \in 1..Len(M) : M[k].from <= m + 1
    <3>1. n \in Nat /\ m \in Nat /\ n + 1 <= m + 1
      BY <1>2, <1>4
    <3>2. \A k \in 1..Len(L) : L[k].from \in Nat /\ L[k].from <= n + 1
      BY <1>1, <1>2 DEF ScopesEnd, here
    <3> QED
      BY <1>5, <3>1, <3>2
  <2> QED
    BY <2>1, <2>2 DEF ScopesEnd
<1>8. JumpsLand(h.ops, M, h.scopes)
  <2> SUFFICES ASSUME NEW i \in 1..m, h.ops[i].op = "jump"
               PROVE  h.ops[i].target <= m + 1 /\ Lands(M, h.scopes, i, h.ops[i].target)
    BY DEF JumpsLand, m
  <2> DEFINE t == h.ops[i].target
  <2>1. CASE i \in 1..n
    <3>1. h.ops[i] = g.ops[i] /\ g.ops[i].target \in Int
      BY <1>4, <2>1, RegularParts DEF Instrs, n
    <3>2. t <= here /\ Lands(L, g.scopes, i, t) /\ t \in Int
      BY <1>1, <2>1, <3>1 DEF JumpsLand, n, here
    <3> HIDE DEF t
    <3>3. \A s \in h.scopes : s.from <= t /\ t < s.to => s.from <= i /\ i < s.to
      <4> TAKE s \in h.scopes
      <4>1. CASE s \in g.scopes
        BY <3>2, <4>1 DEF Lands
      <4>2. CASE \E k \in 1..Len(L) : bottom <= L[k].reg /\ s = [reg |-> L[k].reg, from |-> L[k].from, to |-> here]
        <5>1. PICK k \in 1..Len(L) : s = [reg |-> L[k].reg, from |-> L[k].from, to |-> here]
          BY <4>2
        <5>2. s.from = L[k].from /\ s.to = here
          BY <5>1
        <5> QED
          BY <1>2, <2>1, <3>2, <5>2 DEF Lands, here
      <4> QED
        BY <1>6, <4>1, <4>2
    <3>4. \A k \in 1..Len(M) : M[k].from <= t => M[k].from <= i
      BY <1>5, <3>2 DEF Lands
    <3>5. t <= m + 1
      BY <1>2, <1>4, <3>2 DEF here
    <3> QED
      BY <3>3, <3>4, <3>5 DEF Lands, t
  <2>2. CASE i = here /\ m = n + 1 /\ t = n + 2
    <3> HIDE DEF t
    <3>1. \A s \in h.scopes : s.to \in Nat /\ s.to <= here
      <4> TAKE s \in h.scopes
      <4>1. CASE s \in g.scopes
        BY <1>1, <1>3, <4>1 DEF ScopesEnd
      <4>2. CASE \E k \in 1..Len(L) : bottom <= L[k].reg /\ s = [reg |-> L[k].reg, from |-> L[k].from, to |-> here]
        BY <1>2, <4>2
      <4> QED
        BY <1>6, <4>1, <4>2
    <3>2. \A k \in 1..Len(M) : M[k].from <= here
      BY <1>1, <1>5 DEF ScopesEnd
    <3>3. \A s \in h.scopes : ~(t < s.to)
      BY <1>2, <2>2, <3>1 DEF here
    <3>4. t <= m + 1 /\ i = here
      BY <1>2, <2>2 DEF here
    <3> QED
      BY <3>2, <3>3, <3>4 DEF Lands, t
  <2> QED
    BY <1>4, <2>1, <2>2
<1>9. WaitersWithin(h.pending_jumps, M)
  <2> SUFFICES ASSUME NEW q \in h.pending_jumps, NEW k \in 1..Len(M), M[k].reg < q.stack_top
               PROVE  M[k].from <= q.instruction
    BY DEF WaitersWithin
  <2>1. PICK p \in g.pending_jumps :
           q.instruction = p.instruction /\ (q.stack_top = p.stack_top \/ q.stack_top <= p.stack_top)
    OBVIOUS
  <2>2. q.stack_top \in Nat /\ p.stack_top \in Nat /\ k \in 1..Len(L) /\ M[k] = L[k] /\ L[k].reg \in Nat
    BY <1>2, <1>5
  <2>3. L[k].reg < p.stack_top
    BY <2>1, <2>2
  <2> QED
    BY <1>1, <2>1, <2>2, <2>3 DEF WaitersWithin
<1>10. TargetsOutside(h.jump_targets, M, h.scopes, m + 1)
  <2> SUFFICES ASSUME NEW j \in 1..Len(h.jump_targets)
               PROVE  LET t == h.jump_targets[j]
                      IN  /\ t.instruction <= m + 1
                          /\ \A k \in 1..Len(M) : t.stack_top <= M[k].reg => t.instruction < M[k].from
                          /\ \A s \in h.scopes : ~(s.from <= t.instruction /\ t.instruction < s.to)
    BY DEF TargetsOutside
  <2> DEFINE t == h.jump_targets[j]
  <2>1. PICK c \in 1..Len(g.jump_targets) : t = g.jump_targets[c] /\ g.jump_targets[c].stack_top <= bottom
    OBVIOUS
  <2>2. /\ t.instruction \in Nat /\ t.instruction <= here /\ t.stack_top <= bottom /\ t.stack_top \in Nat
        /\ \A k \in 1..Len(L) : t.stack_top <= L[k].reg => t.instruction < L[k].from
        /\ \A s \in g.scopes : ~(s.from <= t.instruction /\ t.instruction < s.to)
    BY <1>1, <1>2, <2>1 DEF TargetsOutside
  <2> HIDE DEF t
  <2>3. t.instruction <= m + 1
    BY <1>2, <1>4, <2>2 DEF here
  <2>4. \A k \in 1..Len(M) : t.stack_top <= M[k].reg => t.instruction < M[k].from
    BY <1>5, <2>2
  <2>5. ASSUME NEW s \in h.scopes PROVE ~(s.from <= t.instruction /\ t.instruction < s.to)
    <3>1. CASE s \in g.scopes
      BY <2>2, <3>1
    <3>2. CASE \E k \in 1..Len(L) : bottom <= L[k].reg /\ s = [reg |-> L[k].reg, from |-> L[k].from, to |-> here]
      <4>1. PICK k \in 1..Len(L) :
               bottom <= L[k].reg /\ s = [reg |-> L[k].reg, from |-> L[k].from, to |-> here]
        BY <3>2
      <4>4. L[k].from \in Nat /\ L[k].reg \in Nat
        BY <1>2
      <4>5. s.from = L[k].from
        BY <4>1
      <4>2. t.stack_top <= L[k].reg /\ s.from = L[k].from /\ L[k].from \in Nat
        BY <2>2, <4>1, <4>4, <4>5
      <4>3. t.instruction < L[k].from /\ t.instruction \in Nat
        BY <2>2, <4>2
      <4> QED
        BY <4>2, <4>3
    <3> QED
      BY <1>6, <3>1, <3>2
  <2> QED
    BY <2>3, <2>4, <2>5 DEF t
<1> QED
  BY <1>7, <1>8, <1>9, <1>10 DEF Scoped, M, m

LEMMA ExitRegular ==
    ASSUME NEW g, Regular(g), NEW n \in Nat \ {0}, Len(g.blocks) = n + 1,
           OnlyLocals(g.locals, g.blocks[n + 1].stack_bottom, StackTop(g))
    PROVE  Regular(ExitBlock(g)) /\ LeftTo(g, ExitBlock(g), n)
<1> DEFINE h == ExitBlock(g)
           block == g.blocks[n + 1]
           bottom == block.stack_bottom
           Lift(p) == Lifted(p, n, bottom, block.owns_upvalues)
           B == g.blocks
           T == g.jump_targets
           bjt == block.bottom_jump_target
<1>0. n \in Nat /\ n # 0
  OBVIOUS
<1>1. /\ Keeps(g, h, {"alloc", "locals", "blocks", "jump_targets", "pending_jumps", "ops", "scopes"})
      /\ Stacked(h.alloc, bottom) /\ bottom \in Nat
      /\ Rising(h.locals, bottom)
      /\ \A r \in Nat : r < bottom => (IsLocal(h.locals, r) <=> IsLocal(g.locals, r))
      /\ h.blocks = Front(g.blocks)
      /\ h.jump_targets = SubSeq(g.jump_targets, 1, block.bottom_jump_target)
      /\ h.ops = g.ops \/ \E i \in Instrs : h.ops = Append(g.ops, i) /\ i.target = Len(g.ops) + 2
      /\ Dropped(g, h, bottom, Len(g.ops) + 1)
  BY <1>0, ExitFields
<1>2. h.pending_jumps = {p \in g.pending_jumps : p.block_index <= n}
                        \union {Lift(p) : p \in {q \in g.pending_jumps : q.block_index > n}}
  <2>1. h.pending_jumps = Outward(g.pending_jumps, n, bottom, block.owns_upvalues)
    BY <1>0, ExitFields
  <2> HIDE DEF h, bottom, block
  <2> QED
    BY <1>0, <2>1 DEF Outward
<1> HIDE DEF h, Lift
<1>25. \A p \in PendingJumps :
         /\ Lift(p) \in PendingJumps /\ Lift(p).target = p.target /\ Lift(p).instruction = p.instruction
         /\ Lift(p).block_index = n /\ Lift(p).stack_top = bottom
  <2>1. bottom \in Nat /\ block.owns_upvalues \in BOOLEAN
    BY <1>0, <1>1, RegularParts DEF BlockDescriptors
  <2> HIDE DEF block, bottom
  <2>2. \A p \in PendingJumps :
          LET q == Lifted(p, n, bottom, block.owns_upvalues)
          IN  /\ q \in PendingJumps /\ q.target = p.target /\ q.instruction = p.instruction
              /\ q.block_index = n /\ q.stack_top = bottom
    <3> TAKE p \in PendingJumps
    <3> DEFINE owns == block.owns_upvalues
    <3>1. n \in Nat /\ bottom \in Nat /\ owns \in BOOLEAN
      BY <1>0, <2>1
    <3> HIDE DEF owns
    <3>2. LET q == Lifted(p, n, bottom, owns)
          IN  /\ q \in PendingJumps /\ q.target = p.target /\ q.instruction = p.instruction
              /\ q.block_index = n /\ q.stack_top = bottom
      BY <3>1, LiftedIs
    <3> QED
      BY <3>2, Zenon DEF owns
  <2> QED
    BY <2>2, Zenon DEF Lift
<1>3. /\ BlocksRise(B, StackTop(g)) /\ TargetsPlaced(T, B, StackTop(g))
      /\ JumpsWait(g.pending_jumps, B, StackTop(g), g.ops) /\ StackTop(g) \in Nat
      /\ n + 1 \in 1..Len(B) /\ block \in BlockDescriptors /\ block.owns_upvalues \in BOOLEAN
  BY RegularParts DEF Regular, BlockDescriptors
<1>4. StackTop(h) = bottom /\ bottom \in Top /\ bottom <= StackTop(g)
  <2>1. StackTop(h) = bottom
    BY <1>1 DEF Stacked, StackTop
  <2>2. bottom <= StackTop(g)
    BY <1>3 DEF BlocksRise
  <2> QED
    BY <1>1, <2>1, <2>2, RegistersAssumption DEF Regular, Top
<1>5. /\ h.blocks \in Seq(BlockDescriptors) /\ Len(h.blocks) = n
      /\ \A i \in 1..n : h.blocks[i] = B[i]
  <2>1. B \in Seq(BlockDescriptors)
    BY <1>3 DEF BlocksRise
  <2>2. /\ Front(B) \in Seq(BlockDescriptors) /\ Len(Front(B)) = n
        /\ \A i \in 1..n : Front(B)[i] = B[i]
    BY <1>0, <2>1, FrontIs
  <2> QED
    BY <1>1, <2>2
<1>6. \A i \in 1..n : i \in 1..Len(B) /\ i < n + 1 /\ B[i].stack_bottom \in Nat
  BY RegularParts
<1>7. BlocksRise(h.blocks, bottom)
  <2>1. \A i \in 1..n : B[i].stack_bottom <= bottom
    BY <1>3, <1>6 DEF BlocksRise
  <2>2. \A i, j \in 1..n : i < j => B[i].stack_bottom <= B[j].stack_bottom
    BY <1>3, <1>6 DEF BlocksRise
  <2> QED
    BY <1>5, <2>1, <2>2 DEF BlocksRise
<1>8. ASSUME NEW x, Placed(x, B, StackTop(g)), x.block_index <= n, x.block_index \in Nat
      PROVE  Placed(x, h.blocks, bottom)
  <2>1. x.block_index \in 1..n /\ B[x.block_index].stack_bottom <= x.stack_top
    BY <1>8 DEF Placed
  <2>2. x.stack_top <= bottom
    BY <1>3, <1>8 DEF Placed
  <2>3. \A i \in 1..n : x.block_index < i => x.stack_top <= B[i].stack_bottom
    BY <1>6, <1>8 DEF Placed
  <2> QED
    BY <1>5, <2>1, <2>2, <2>3 DEF Placed
<1> DEFINE U == h.jump_targets
<1>9. bjt \in 0..Len(T) /\ \A k \in 1..Len(T) : T[k].block_index < n + 1 <=> k <= bjt
  BY <1>3 DEF TargetsPlaced
<1>10. T \in Seq(JumpTargets) /\ Len(T) \in Nat /\ \A k \in 1..Len(T) : T[k].block_index \in Nat
  BY <1>3, RegularParts DEF TargetsPlaced
<1>11. /\ U \in Seq(JumpTargets) /\ Len(U) = bjt /\ bjt \in Nat
       /\ \A k \in 1..bjt : U[k] = T[k] /\ k \in 1..Len(T) /\ T[k].block_index <= n
  <2>1. U \in Seq(JumpTargets) /\ Len(U) = bjt /\ \A k \in 1..bjt : U[k] = T[k]
    BY <1>1, <1>9, <1>10, FirstOfSeq
  <2> HIDE DEF U, T, bjt
  <2> QED
    BY <1>9, <1>10, <2>1
<1>12. TargetsPlaced(U, h.blocks, bottom)
  <2>1. \A k \in 1..bjt : Placed(U[k], h.blocks, bottom)
    <3> TAKE k \in 1..bjt
    <3>1. Placed(T[k], B, StackTop(g))
      BY <1>3, <1>11 DEF TargetsPlaced
    <3> HIDE DEF U, T, bjt, B
    <3> QED
      BY <1>8, <1>10, <1>11, <3>1
  <2>2. ASSUME NEW i \in 1..n
        PROVE  /\ B[i].bottom_jump_target \in 0..bjt
               /\ \A k \in 1..bjt : U[k].block_index < i <=> k <= B[i].bottom_jump_target
    <3>1. /\ B[i].bottom_jump_target \in 0..Len(T)
          /\ \A k \in 1..Len(T) : T[k].block_index < i <=> k <= B[i].bottom_jump_target
      BY <1>3, <1>6 DEF TargetsPlaced
    <3> DEFINE m == B[i].bottom_jump_target
    <3> HIDE DEF m, U, T, bjt
    <3>2. m # 0 => m <= bjt
      <4>1. m # 0 => m \in 1..Len(T) /\ T[m].block_index < i
        BY <1>10, <3>1 DEF m
      <4>2. m # 0 => T[m].block_index < n + 1
        BY <1>10, <4>1
      <4> QED
        BY <1>9, <4>1, <4>2
    <3>3. m \in 0..bjt
      BY <1>10, <1>11, <3>1, <3>2 DEF m
    <3> QED
      BY <1>11, <3>1, <3>3 DEF m
  <2> QED
    BY <1>5, <1>11, <2>1, <2>2 DEF TargetsPlaced
<1>13. h.ops \in Seq(Instrs) /\ Len(g.ops) <= Len(h.ops) /\ \A i \in 1..Len(g.ops) : h.ops[i] = g.ops[i]
  <2>1. g.ops \in Seq(Instrs) /\ Len(g.ops) \in Nat
    BY RegularParts DEF Regular
  <2>2. CASE h.ops = g.ops
    BY <2>1, <2>2
  <2>3. CASE \E i \in Instrs : h.ops = Append(g.ops, i) /\ i.target = Len(g.ops) + 2
    <3>1. PICK i \in Instrs : h.ops = Append(g.ops, i)
      BY <2>3
    <3>2. /\ h.ops \in Seq(Instrs) /\ Len(h.ops) = Len(g.ops) + 1
          /\ \A j \in 1..Len(g.ops) : h.ops[j] = g.ops[j]
      BY <2>1, <3>1, Appended
    <3> QED
      BY <2>1, <3>2
  <2> QED
    BY <1>1, <2>2, <2>3
<1>14. ASSUME NEW q \in h.pending_jumps
       PROVE  \E p \in g.pending_jumps :
                 /\ q.target = p.target /\ q.instruction = p.instruction /\ q \in PendingJumps
                 /\ \/ p.block_index <= n /\ q = p
                    \/ p.block_index = n + 1 /\ q.block_index = n /\ q.stack_top = bottom
  <2>1. \A p \in g.pending_jumps : p \in PendingJumps /\ p.block_index \in Nat /\ p.block_index <= n + 1
    BY <1>3, RegularParts DEF JumpsWait, Placed
  <2>2. CASE q \in g.pending_jumps /\ q.block_index <= n
    BY <2>1, <2>2
  <2>3. CASE \E p \in g.pending_jumps : p.block_index > n /\ q = Lift(p)
    <3>1. PICK p \in g.pending_jumps : p.block_index > n /\ q = Lift(p)
      BY <2>3
    <3>2. p.block_index = n + 1
      BY <2>1, <3>1
    <3>3. /\ q \in PendingJumps /\ q.target = p.target /\ q.instruction = p.instruction
          /\ q.block_index = n /\ q.stack_top = bottom
      BY <1>25, <2>1, <3>1
    <3> QED
      BY <3>2, <3>3
  <2> QED
    BY <1>2, <2>2, <2>3
<1>15. JumpsWait(h.pending_jumps, h.blocks, bottom, h.ops)
  <2>1. h.pending_jumps \in SUBSET PendingJumps
    BY <1>14
  <2>2. \A q \in h.pending_jumps : Placed(q, h.blocks, bottom)
    <3> TAKE q \in h.pending_jumps
    <3>1. PICK p \in g.pending_jumps : \/ p.block_index <= n /\ q = p
                                       \/ p.block_index = n + 1 /\ q.block_index = n /\ q.stack_top = bottom
      BY <1>14
    <3>2. CASE p.block_index <= n /\ q = p
      BY <1>3, <1>8, <3>2, RegularParts DEF JumpsWait
    <3>3. CASE q.block_index = n /\ q.stack_top = bottom
      <4>1. n \in 1..n /\ h.blocks[n].stack_bottom <= bottom
        BY <1>5, <1>7 DEF BlocksRise
      <4> QED
        BY <1>1, <1>5, <3>3, <4>1 DEF Placed
    <3> QED
      BY <3>1, <3>2, <3>3
  <2>3. \A q \in h.pending_jumps : q.instruction \in 1..Len(h.ops) /\ h.ops[q.instruction] = Placeholder
    <3> TAKE q \in h.pending_jumps
    <3>1. PICK p \in g.pending_jumps : q.instruction = p.instruction
      BY <1>14
    <3>2. p.instruction \in 1..Len(g.ops) /\ g.ops[p.instruction] = Placeholder
      BY <1>3 DEF JumpsWait
    <3>3. Len(h.ops) \in Nat /\ Len(g.ops) \in Nat
      BY <1>13, Elements, RegularParts
    <3> QED
      BY <1>13, <3>1, <3>2, <3>3
  <2>4. ASSUME NEW q \in h.pending_jumps, NEW r \in h.pending_jumps, q.instruction = r.instruction
        PROVE  q = r
    <3>1. ASSUME NEW x \in h.pending_jumps
          PROVE  \E p \in g.pending_jumps : p.instruction = x.instruction
                                            /\ x = IF p.block_index <= n THEN p ELSE Lift(p)
      <4>1. CASE x \in g.pending_jumps /\ x.block_index <= n
        BY <4>1
      <4>2. CASE \E p \in g.pending_jumps : p.block_index > n /\ x = Lift(p)
        <5>1. PICK p \in g.pending_jumps : p.block_index > n /\ x = Lift(p)
          BY <4>2
        <5>2. p \in PendingJumps /\ p.block_index \in Nat
          BY RegularParts
        <5>3. x.instruction = p.instruction
          BY <1>25, <5>1, <5>2
        <5>4. ~(p.block_index <= n)
          BY <5>1, <5>2
        <5> QED
          BY <5>1, <5>3, <5>4
      <4> QED
        BY <1>2, <4>1, <4>2
    <3>2. PICK p1 \in g.pending_jumps : p1.instruction = q.instruction
                                        /\ q = IF p1.block_index <= n THEN p1 ELSE Lift(p1)
      BY <3>1
    <3>3. PICK p2 \in g.pending_jumps : p2.instruction = r.instruction
                                        /\ r = IF p2.block_index <= n THEN p2 ELSE Lift(p2)
      BY <3>1
    <3>4. p1 = p2
      BY <1>3, <2>4, <3>2, <3>3 DEF JumpsWait
    <3> QED
      BY <3>2, <3>3, <3>4
  <2> QED
    BY <2>1, <2>2, <2>3, <2>4 DEF JumpsWait
<1>19. Scoped(h)
  <2>1. \A q \in h.pending_jumps : q.stack_top \in Nat /\ \E p \in g.pending_jumps :
           q.instruction = p.instruction /\ (q.stack_top = p.stack_top \/ q.stack_top <= p.stack_top)
    <3> TAKE q \in h.pending_jumps
    <3>1. PICK p \in g.pending_jumps :
             /\ q.instruction = p.instruction /\ q \in PendingJumps
             /\ \/ p.block_index <= n /\ q = p
                \/ p.block_index = n + 1 /\ q.block_index = n /\ q.stack_top = bottom
      BY <1>14
    <3>2. p.block_index = n + 1 => bottom <= p.stack_top
      BY <1>3 DEF JumpsWait, Placed
    <3>3. q.stack_top \in Nat
      BY <3>1 DEF PendingJumps
    <3> QED
      BY <3>1, <3>2, <3>3
  <2>2. \A j \in 1..Len(h.jump_targets) : \E k \in 1..Len(g.jump_targets) :
           h.jump_targets[j] = g.jump_targets[k] /\ g.jump_targets[k].stack_top <= bottom
    <3> TAKE j \in 1..Len(h.jump_targets)
    <3>1. j \in 1..Len(T) /\ U[j] = T[j] /\ T[j].block_index <= n /\ T[j].block_index \in Nat
      BY <1>10, <1>11
    <3>2. Placed(T[j], B, StackTop(g))
      BY <1>3, <3>1 DEF TargetsPlaced
    <3>3. T[j].stack_top <= bottom
      BY <1>3, <3>1, <3>2 DEF Placed
    <3> QED
      BY <3>1, <3>3
  <2> HIDE DEF bottom, U, T, B
  <2> QED
    BY <1>1, <2>1, <2>2, ScopedExit
<1>16. Regular(h)
  <2>1. IsFunctionRecord(h) /\ Stacked(h.alloc, StackTop(h)) /\ StackTop(h) \in Top
    BY <1>1, <1>4 DEF Keeps
  <2> QED
    BY <1>1, <1>4, <1>7, <1>12, <1>13, <1>15, <1>19, <2>1 DEF Regular
<1>17. Targets(h) = {t \in Targets(g) : t.block_index <= n}
  <2>1. \A t : t \in Targets(h) <=> \E k \in 1..bjt : t = T[k]
    <3> HIDE DEF T, bjt, U
    <3>1. \A k \in 1..Len(h.jump_targets) : h.jump_targets[k] = T[k]
      BY <1>11 DEF U
    <3>2. Len(h.jump_targets) = bjt
      BY <1>11 DEF U
    <3> QED
      BY <3>1, <3>2 DEF Targets
  <2>2. \A t : t \in Targets(g) /\ t.block_index <= n <=> \E k \in 1..bjt : t = T[k]
    <3> HIDE DEF bjt, U
    <3>1. \A k \in 1..Len(T) : T[k].block_index <= n <=> k <= bjt
      BY <1>9, <1>10
    <3>2. \A k \in 1..Len(T) : k <= bjt <=> k \in 1..bjt
      BY <1>10, <1>11
    <3> QED
      BY <1>11, <3>1, <3>2 DEF Targets
  <2> QED
    BY <2>1, <2>2
<1>18. LeftTo(g, h, n)
  BY <1>1, <1>4, <1>5, <1>13, <1>14, <1>17 DEF LeftTo
<1> QED
  BY <1>16, <1>18 DEF h

LEMMA PopRegular ==
    ASSUME NEW g, Regular(g), NEW base \in 0..StackTop(g),
           \A i \in 1..Len(g.locals) : g.locals[i].reg < base,
           \A i \in 1..Len(g.blocks) : g.blocks[i].stack_bottom <= base,
           \A t \in Targets(g) : t.stack_top <= base,
           \A p \in g.pending_jumps : p.stack_top <= base
    PROVE  LET h == [g EXCEPT !.alloc = PopTo(@, base)]
           IN  Regular(h) /\ StackTop(h) = base /\ Keeps(g, h, {"alloc"})
<1> DEFINE h == [g EXCEPT !.alloc = PopTo(@, base)]
<1>1. Keeps(g, h, {"alloc"}) /\ h.alloc = PopTo(g.alloc, base)
  BY DEF Regular, IsFunctionRecord, Keeps
<1> HIDE DEF h
<1>2. StackTop(g) \in Top /\ StackTop(g) \in Nat /\ Stacked(g.alloc, StackTop(g))
  BY RegularParts DEF Regular
<1>3. Stacked(h.alloc, base)
  BY <1>1, <1>2, PopToStacked
<1>4. StackTop(h) = base /\ base \in Top /\ base <= StackTop(g)
  BY <1>2, <1>3, RegistersAssumption DEF Stacked, StackTop, Top
<1>5. /\ h.locals = g.locals /\ h.blocks = g.blocks /\ h.jump_targets = g.jump_targets
      /\ h.pending_jumps = g.pending_jumps /\ h.ops = g.ops /\ h.scopes = g.scopes /\ IsFunctionRecord(h)
  BY <1>1 DEF Keeps
<1>11. Scoped(h)
  BY <1>5 DEF Regular, Scoped
<1>6. Rising(g.locals, base)
  BY DEF Regular, Rising
<1>7. BlocksRise(g.blocks, base)
  BY DEF Regular, BlocksRise
<1>8. TargetsPlaced(g.jump_targets, g.blocks, base)
  <2>1. \A k \in 1..Len(g.jump_targets) : Placed(g.jump_targets[k], g.blocks, base)
    <3> TAKE k \in 1..Len(g.jump_targets)
    <3>1. g.jump_targets[k].stack_top <= base /\ Placed(g.jump_targets[k], g.blocks, StackTop(g))
      BY DEF Targets, Regular, TargetsPlaced
    <3> QED
      BY <3>1 DEF Placed
  <2> QED
    BY <2>1 DEF Regular, TargetsPlaced
<1>9. JumpsWait(g.pending_jumps, g.blocks, base, g.ops)
  <2>1. \A p \in g.pending_jumps : Placed(p, g.blocks, base)
    BY DEF Regular, JumpsWait, Placed
  <2> QED
    BY <2>1 DEF Regular, JumpsWait
<1>10. Regular(h)
  BY <1>3, <1>4, <1>5, <1>6, <1>7, <1>8, <1>9, <1>11 DEF Regular
<1> QED
  BY <1>1, <1>4, <1>10 DEF h

Items(g) == Targets(g) \union g.pending_jumps
Sound(g) == g.error \notin {"panic", "BreakRejected"}

(* h differs from g only behind block m, and in instructions that wait to be patched
   or are in X. *)
Beyond(g, h, m, X) ==
    /\ Regular(h) /\ h.fixed_params = g.fixed_params
    /\ m \in Nat /\ m <= Len(g.blocks) /\ m <= Len(h.blocks)
    /\ \A i \in 1..m : h.blocks[i].stack_bottom = g.blocks[i].stack_bottom
    /\ \A t \in Targets(g) : t.block_index <= m => t \in Targets(h)
    /\ \A x \in Items(h) : x.block_index < m => x \in Items(g)
    /\ Len(g.ops) <= Len(h.ops)
    /\ \A i \in 1..Len(g.ops) : g.ops[i] # Placeholder /\ i \notin X => h.ops[i] = g.ops[i]

LEMMA BeyondTrans ==
    ASSUME NEW g, NEW h, NEW k, NEW m, NEW X, Regular(g), Beyond(g, h, m, X), Beyond(h, k, m, X)
    PROVE  Beyond(g, k, m, X)
<1>1. Len(g.ops) \in Nat /\ Len(h.ops) \in Nat /\ Len(k.ops) \in Nat /\ m \in Nat
  BY RegularParts DEF Beyond
<1>2. \A i \in 1..Len(g.ops) : g.ops[i] # Placeholder /\ i \notin X => k.ops[i] = g.ops[i]
  BY <1>1 DEF Beyond
<1>3. \A i \in 1..m : k.blocks[i].stack_bottom = g.blocks[i].stack_bottom
  BY DEF Beyond
<1>4. \A t \in Targets(g) : t.block_index <= m => t \in Targets(k)
  BY DEF Beyond
<1>5. \A x \in Items(k) : x.block_index < m => x \in Items(g)
  BY DEF Beyond
<1>6. Len(g.ops) <= Len(k.ops)
  BY <1>1 DEF Beyond
<1> QED
  BY <1>2, <1>3, <1>4, <1>5, <1>6 DEF Beyond

LEMMA ItemsTyped ==
    ASSUME NEW g, Regular(g)
    PROVE  \A x \in Items(g) : /\ x.block_index \in 1..Len(g.blocks) /\ x.block_index \in Nat
                               /\ x.stack_top \in Nat /\ x.stack_top <= StackTop(g)
                               /\ Placed(x, g.blocks, StackTop(g))
<1> SUFFICES ASSUME NEW x \in Items(g)
             PROVE  /\ x.block_index \in 1..Len(g.blocks) /\ x.block_index \in Nat
                    /\ x.stack_top \in Nat /\ x.stack_top <= StackTop(g)
                    /\ Placed(x, g.blocks, StackTop(g))
  OBVIOUS
<1>1. Placed(x, g.blocks, StackTop(g)) /\ x.stack_top \in Nat /\ x.block_index \in Nat
  <2>1. CASE x \in g.pending_jumps
    BY <2>1, RegularParts DEF Regular, JumpsWait
  <2>2. CASE x \in Targets(g)
    BY <2>2, RegularParts DEF Targets, Regular, TargetsPlaced
  <2> QED
    BY <2>1, <2>2 DEF Items
<1> QED
  BY <1>1 DEF Placed

LEMMA BeyondLess ==
    ASSUME NEW g, NEW h, NEW n, NEW m \in Nat, m <= n, NEW X, NEW Y, X \subseteq Y, Beyond(g, h, n, X),
           Regular(g)
    PROVE  Beyond(g, h, m, Y)
<1>1. n \in Nat /\ Len(g.blocks) \in Nat /\ Len(h.blocks) \in Nat
  BY RegularParts DEF Beyond
<1>2. \A t \in Targets(g) : t.block_index \in Nat
  BY ItemsTyped DEF Items
<1>3. \A x \in Items(h) : x.block_index \in Nat
  BY ItemsTyped DEF Beyond
<1> QED
  BY <1>1, <1>2, <1>3 DEF Beyond

LEMMA BeyondSelf ==
    ASSUME NEW g, Regular(g), NEW m \in Nat, m <= Len(g.blocks), NEW X
    PROVE  Beyond(g, g, m, X)
  BY RegularParts DEF Beyond

(* Steps that leave blocks, targets and pending jumps alone. *)
LEMMA BeyondKept ==
    ASSUME NEW g, Regular(g), NEW h, Regular(h),
           Keeps(g, h, {"alloc", "locals", "ops", "error", "unique"}),
           NEW m \in Nat, m <= Len(g.blocks), NEW X,
           Len(g.ops) <= Len(h.ops),
           \A i \in 1..Len(g.ops) : g.ops[i] # Placeholder /\ i \notin X => h.ops[i] = g.ops[i]
    PROVE  Beyond(g, h, m, X)
<1>1. /\ h.blocks = g.blocks /\ h.jump_targets = g.jump_targets /\ h.pending_jumps = g.pending_jumps
      /\ h.fixed_params = g.fixed_params
  BY DEF Keeps
<1>2. Targets(h) = Targets(g) /\ Items(h) = Items(g)
  BY <1>1 DEF Targets, Items
<1> QED
  BY <1>1, <1>2 DEF Beyond

LEMMA BeyondEmit ==
    ASSUME NEW g, Regular(g), NEW i \in Instrs, i.op # "jump", NEW m \in Nat, m <= Len(g.blocks), NEW X
    PROVE  Beyond(g, Emit(g, i), m, X)
<1> DEFINE h == Emit(g, i)
<1>1. Keeps(g, h, {"ops"}) /\ h.ops = Append(g.ops, i) /\ Regular(h)
  BY EmitFields, EmitRegular DEF Regular
<1> HIDE DEF h
<1>2. Len(h.ops) = Len(g.ops) + 1 /\ Len(g.ops) \in Nat /\ \A j \in 1..Len(g.ops) : h.ops[j] = g.ops[j]
  BY <1>1, Appended DEF Regular
<1>3. Keeps(g, h, {"alloc", "locals", "ops", "error", "unique"}) /\ Len(g.ops) <= Len(h.ops)
  BY <1>1, <1>2 DEF Keeps
<1>4. Beyond(g, h, m, X)
  BY <1>1, <1>2, <1>3, BeyondKept
<1> QED
  BY <1>4 DEF h

LEMMA BeyondTemp ==
    ASSUME NEW g, Regular(g), StackTop(g) < Registers, NEW i \in Instrs, i.op # "jump", NEW m \in Nat, m <= Len(g.blocks), NEW X
    PROVE  Beyond(g, WithTemp(g, i), m, X)
<1> DEFINE h == WithTemp(g, i)
<1>1. Keeps(g, h, {"alloc", "ops"}) /\ Regular(h) /\ \E j \in Instrs : h.ops = Append(g.ops, j)
  BY TempRegular
<1> HIDE DEF h
<1>2. Len(h.ops) = Len(g.ops) + 1 /\ Len(g.ops) \in Nat /\ \A j \in 1..Len(g.ops) : h.ops[j] = g.ops[j]
  <2>1. PICK j \in Instrs : h.ops = Append(g.ops, j)
    BY <1>1
  <2> QED
    BY <2>1, Appended DEF Regular
<1>3. Keeps(g, h, {"alloc", "locals", "ops", "error", "unique"}) /\ Len(g.ops) <= Len(h.ops)
  BY <1>1, <1>2 DEF Keeps
<1>4. Beyond(g, h, m, X)
  BY <1>1, <1>2, <1>3, BeyondKept
<1> QED
  BY <1>4 DEF h

LEMMA BeyondEnter ==
    ASSUME NEW g, Regular(g), NEW m \in Nat, m <= Len(g.blocks), NEW X
    PROVE  Beyond(g, EnterBlock(g), m, X)
<1> DEFINE h == EnterBlock(g)
<1>1. /\ Regular(h) /\ Keeps(g, h, {"blocks"}) /\ Len(h.blocks) = Len(g.blocks) + 1
      /\ \A i \in 1..Len(g.blocks) : h.blocks[i] = g.blocks[i]
  BY EnterRegular
<1> HIDE DEF h
<1>2. /\ h.jump_targets = g.jump_targets /\ h.pending_jumps = g.pending_jumps /\ h.ops = g.ops
      /\ h.fixed_params = g.fixed_params
  BY <1>1 DEF Keeps
<1>3. Targets(h) = Targets(g) /\ Items(h) = Items(g) /\ Len(g.blocks) \in Nat /\ Len(g.ops) \in Nat
  BY <1>2, RegularParts DEF Targets, Items
<1>4. Beyond(g, h, m, X)
  BY <1>1, <1>2, <1>3 DEF Beyond
<1> QED
  BY <1>4 DEF h

LEMMA BeyondJump ==
    ASSUME NEW g, Regular(g), Len(g.blocks) > 0, NEW label \in JumpLabels,
           NEW m \in Nat, m <= Len(g.blocks), NEW X
    PROVE  Beyond(g, Jump(g, label), m, X) /\ (Sound(g) => Sound(Jump(g, label)))
           /\ Keeps(g, Jump(g, label), {"pending_jumps", "ops"})
           /\ StackTop(Jump(g, label)) = StackTop(g)
<1> DEFINE h == Jump(g, label)
<1>1. CASE ~Ok(g)
  <2>1. h = g
    BY <1>1 DEF Jump
  <2>2. Keeps(g, g, {"pending_jumps", "ops"})
    BY DEF Keeps, Regular
  <2> QED
    BY <2>1, <2>2, BeyondSelf
<1>2. CASE Ok(g)
  <2>1. /\ Regular(h) /\ Keeps(g, h, {"pending_jumps", "ops"})
        /\ \E i \in Instrs : i.op = "jump" /\ h.ops = Append(g.ops, i)
        /\ \/ h.pending_jumps = g.pending_jumps
           \/ h.pending_jumps = g.pending_jumps \union {PendingAt(g, label)}
    BY <1>2, JumpRegular
  <2> HIDE DEF h
  <2>2. Len(h.ops) = Len(g.ops) + 1 /\ Len(g.ops) \in Nat /\ \A j \in 1..Len(g.ops) : h.ops[j] = g.ops[j]
    <3>1. PICK j \in Instrs : h.ops = Append(g.ops, j)
      BY <2>1
    <3> QED
      BY <3>1, Appended DEF Regular
  <2>3. /\ h.blocks = g.blocks /\ h.jump_targets = g.jump_targets /\ h.error = g.error
        /\ StackTop(h) = StackTop(g) /\ Targets(h) = Targets(g) /\ h.fixed_params = g.fixed_params
    BY <2>1 DEF Keeps, StackTop, Targets
  <2>4. \A x \in Items(h) : x.block_index < m => x \in Items(g)
    <3>1. PendingAt(g, label).block_index = Len(g.blocks) /\ Len(g.blocks) \in Nat
      BY RegularParts DEF PendingAt
    <3>2. ~(PendingAt(g, label).block_index < m)
      BY <3>1
    <3> QED
      BY <2>1, <2>3, <3>2 DEF Items
  <2>5. Len(g.ops) <= Len(h.ops)
    BY <2>2
  <2>6. Beyond(g, h, m, X)
    BY <2>1, <2>2, <2>3, <2>4, <2>5 DEF Beyond
  <2> QED
    BY <2>1, <2>3, <2>6 DEF h, Sound
<1> QED
  BY <1>1, <1>2

LEMMA JumpTargetShape ==
    ASSUME NEW g, Regular(g), NEW label \in JumpLabels
    PROVE  /\ \/ JumpTarget(g, label).jump_targets = g.jump_targets
              \/ JumpTarget(g, label).jump_targets = Append(g.jump_targets, TargetAt(g, label))
           /\ JumpTarget(g, label).pending_jumps \subseteq g.pending_jumps
<1> DEFINE placed == [g EXCEPT !.jump_targets = Append(@, TargetAt(g, label)), !.pending_jumps = @ \ Here(g, label)]
<1>1. /\ IsFunctionRecord(placed) /\ placed.jump_targets = Append(g.jump_targets, TargetAt(g, label))
      /\ placed.pending_jumps = g.pending_jumps \ Here(g, label)
  BY DEF Regular, IsFunctionRecord
<1>2. \A e : /\ Fail(g, e).jump_targets = g.jump_targets /\ Fail(g, e).pending_jumps = g.pending_jumps
  BY DEF Regular, IsFunctionRecord, Fail
<1>3. \E e : \/ JumpTarget(g, label) = g \/ JumpTarget(g, label) = Fail(g, e)
             \/ JumpTarget(g, label) = Fail(placed, e)
             \/ JumpTarget(g, label) = Patched(placed, Here(g, label))
  BY DEF JumpTarget, TargetAt, Here
<1> HIDE DEF placed
<1>4. \A e : /\ Fail(placed, e).jump_targets = placed.jump_targets
            /\ Fail(placed, e).pending_jumps = placed.pending_jumps
  BY <1>1 DEF IsFunctionRecord, Fail
<1>5. /\ Patched(placed, Here(g, label)).jump_targets = placed.jump_targets
      /\ Patched(placed, Here(g, label)).pending_jumps = placed.pending_jumps
  BY <1>1 DEF IsFunctionRecord, Patched
<1> QED
  BY <1>1, <1>2, <1>3, <1>4, <1>5

LEMMA BeyondTarget ==
    ASSUME NEW g, Regular(g), Len(g.blocks) > 0, NEW label \in JumpLabels, Patchable(g, label), Sound(g),
           NEW m \in Nat, m <= Len(g.blocks), NEW X
    PROVE  /\ Beyond(g, JumpTarget(g, label), m, X) /\ Sound(JumpTarget(g, label))
           /\ StackTop(JumpTarget(g, label)) = StackTop(g)
           /\ Keeps(g, JumpTarget(g, label), {"jump_targets", "pending_jumps", "ops", "error"})
           /\ Ok(JumpTarget(g, label)) =>
                 /\ Ok(g)
                 /\ JumpTarget(g, label).pending_jumps = g.pending_jumps \ Here(g, label)
                 /\ Targets(JumpTarget(g, label)) = Targets(g) \union {TargetAt(g, label)}
<1> DEFINE h == JumpTarget(g, label)
<1>1. /\ Regular(h)
      /\ Keeps(g, h, {"jump_targets", "pending_jumps", "ops", "error"})
      /\ h.error \notin {"panic", "BreakRejected"}
      /\ Len(h.ops) = Len(g.ops)
      /\ \A i \in 1..Len(g.ops) : g.ops[i] # Placeholder => h.ops[i] = g.ops[i]
      /\ Ok(h) => /\ Ok(g)
                  /\ h.pending_jumps = g.pending_jumps \ Here(g, label)
                  /\ h.jump_targets = Append(g.jump_targets, TargetAt(g, label))
  BY JumpTargetRegular DEF Sound
<1>2. /\ h.jump_targets = g.jump_targets \/ h.jump_targets = Append(g.jump_targets, TargetAt(g, label))
      /\ h.pending_jumps \subseteq g.pending_jumps
  BY JumpTargetShape
<1> HIDE DEF h
<1>3. Len(g.blocks) \in Nat /\ Len(g.ops) \in Nat /\ StackTop(g) \in Nat
  BY RegularParts
<1>4. ASSUME h.jump_targets = Append(g.jump_targets, TargetAt(g, label))
      PROVE  Targets(h) = Targets(g) \union {TargetAt(g, label)}
  <2> DEFINE T == g.jump_targets
             t == TargetAt(g, label)
             U == h.jump_targets
  <2>1. t \in JumpTargets /\ T \in Seq(JumpTargets)
    BY <1>3 DEF TargetAt, JumpTargets, Pc, Regular, TargetsPlaced
  <2> HIDE DEF t, T
  <2>2. /\ Len(U) = Len(T) + 1 /\ Len(T) \in Nat
        /\ (\A k \in 1..Len(T) : U[k] = T[k]) /\ U[Len(T) + 1] = t
    BY <1>4, <2>1, Appended DEF t, T
  <2>3. \A k \in 1..Len(U) : k \in 1..Len(T) \/ k = Len(T) + 1
    BY <2>2
  <2>4. \A k \in 1..Len(T) : k \in 1..Len(U)
    BY <2>2
  <2>5. Len(T) + 1 \in 1..Len(U)
    BY <2>2
  <2> HIDE DEF U
  <2>6. {U[k] : k \in 1..Len(U)} = {T[k] : k \in 1..Len(T)} \union {t}
    BY <2>2, <2>3, <2>4, <2>5
  <2> QED
    BY <2>6 DEF Targets, T, U, t
<1>5. Targets(h) = Targets(g) \/ Targets(h) = Targets(g) \union {TargetAt(g, label)}
  BY <1>2, <1>4 DEF Targets
<1>6. ~(TargetAt(g, label).block_index < m)
  BY <1>3 DEF TargetAt
<1>7. h.blocks = g.blocks /\ StackTop(h) = StackTop(g) /\ h.fixed_params = g.fixed_params
  BY <1>1 DEF Keeps, StackTop
<1>8. \A x \in Items(h) : x.block_index < m => x \in Items(g)
  BY <1>2, <1>5, <1>6 DEF Items
<1>9. \A t \in Targets(g) : t \in Targets(h)
  BY <1>5
<1>10. Beyond(g, h, m, X)
  BY <1>1, <1>3, <1>7, <1>8, <1>9 DEF Beyond
<1> QED
  BY <1>1, <1>4, <1>7, <1>10 DEF h, Sound

LEMMA BeyondExit ==
    ASSUME NEW g, Regular(g), NEW n \in Nat \ {0}, Len(g.blocks) = n + 1,
           OnlyLocals(g.locals, g.blocks[n + 1].stack_bottom, StackTop(g)),
           NEW m \in Nat, m <= n, NEW X
    PROVE  Beyond(g, ExitBlock(g), m, X) /\ LeftTo(g, ExitBlock(g), n) /\ (Sound(g) => Sound(ExitBlock(g)))
<1> DEFINE h == ExitBlock(g)
<1>1. Regular(h) /\ LeftTo(g, h, n)
  BY ExitRegular
<1> HIDE DEF h
<1>2. /\ Len(h.blocks) = n /\ \A i \in 1..n : h.blocks[i] = g.blocks[i]
  BY <1>1 DEF LeftTo
<1>3. Targets(h) = {t \in Targets(g) : t.block_index <= n}
  BY <1>1 DEF LeftTo
<1>4. \A t \in Targets(g) : t.block_index <= m => t \in Targets(h)
  BY <1>3, ItemsTyped DEF Items
<1>5. \A x \in Items(h) : x.block_index < m => x \in Items(g)
  <2>1. \A q \in h.pending_jumps : q \in g.pending_jumps \/ q.block_index = n
    BY <1>1 DEF LeftTo
  <2> QED
    BY <1>3, <2>1 DEF Items
<1>6. Len(g.ops) <= Len(h.ops) /\ \A i \in 1..Len(g.ops) : h.ops[i] = g.ops[i]
  BY <1>1 DEF LeftTo
<1>7. h.error = g.error /\ h.fixed_params = g.fixed_params
  BY <1>1 DEF LeftTo, Keeps
<1>8. Beyond(g, h, m, X)
  BY <1>1, <1>2, <1>4, <1>5, <1>6, <1>7 DEF Beyond
<1> QED
  BY <1>1, <1>7, <1>8 DEF h, Sound

(* The constructs the walk is inside of. *)

Bottom(g, i) == g.blocks[i].stack_bottom
HasState(c) == c.kind \in {"for", "forin"}

(* How many blocks a construct holds: its own, two for a loop that keeps state or tests
   at its end, and the block of its body. *)
BlocksOf(c) ==
    (IF HasState(c) \/ c.kind = "repeat" THEN 2 ELSE 1)
    + (IF c.ret \/ c.kind = "repeat" \/ c.at = "labels" THEN 0 ELSE 1)

UniqueLabels == [kind : {"unique"}, id : Nat]
SourceKinds == {"do", "while", "repeat", "if", "for", "forin"}

Typed(c) ==
    /\ c \in [kind : SourceKinds \union {"chunk", "else"}, ret : BOOLEAN, labels : {c.labels},
              at : {"body", "labels"}, afterLabel : BOOLEAN]
    /\ c.kind \in {"while", "if"} => c.labels[1] \in UniqueLabels /\ c.labels[2] \in UniqueLabels
    /\ c.kind = "repeat" => c.labels[1] \in UniqueLabels
    /\ c.kind = "else" => c.labels[2] \in UniqueLabels
    /\ HasState(c) => c.labels[1] \in Nat /\ c.labels[2] \in Nat
    /\ c.kind = "forin" => c.labels[3] \in UniqueLabels
    /\ c.kind = "while" => ~c.ret
    /\ c.kind = "repeat" /\ ~c.ret => c.at = "body"

(* The blocks of a construct that holds those behind pos: the state of a loop lies under
   them and nothing of the blocks before reaches into it; the block of a loop that a break
   leaves declares nothing of its own; a loop that jumps back has its start. *)
Fits(c, pos, g) ==
    /\ HasState(c) =>
          /\ Bottom(g, pos + 1) = c.labels[1] + 3
          /\ \A i \in 1..pos : Bottom(g, i) <= c.labels[1]
          /\ \A x \in Items(g) : x.block_index <= pos => x.stack_top <= c.labels[1]
    /\ HasState(c) \/ c.kind = "repeat" => Bottom(g, pos + 2) = Bottom(g, pos + 1)
    /\ c.kind = "while" /\ c.at = "body" => Bottom(g, pos + 2) = Bottom(g, pos + 1)
    /\ c.kind = "while" /\ c.at = "labels" => StackTop(g) = Bottom(g, pos + 1)
    /\ c.kind = "while" => \E t \in Targets(g) : t.label = c.labels[1] /\ t.block_index = pos
    /\ c.kind = "repeat" => \E t \in Targets(g) : t.label = c.labels[1] /\ t.block_index = pos + 2

PrepWaits(c, ops) ==
    c.kind = "for" => /\ c.labels[2] \in 1..Len(ops)
                      /\ ops[c.labels[2]] = Instr("forprep", c.labels[1]..(c.labels[1] + 2))

(* The first n constructs of o hold the first m blocks, at[c] are before those of o[c]. *)
Held(g, o, at, n, m) ==
    /\ n \in Nat \ {0} /\ m \in Nat /\ at[1] = 0
    /\ \A c \in 1..n : /\ at[c] \in Nat /\ Typed(o[c])
                       /\ at[c] + BlocksOf(o[c]) = (IF c = n THEN m ELSE at[c + 1])
                       /\ Fits(o[c], at[c], g) /\ PrepWaits(o[c], g.ops)
                       /\ o[c].kind = "chunk" <=> c = 1
                       /\ c < n => o[c].at = "body"
    /\ \A c, d \in 1..n : c < d => at[c] + BlocksOf(o[c]) <= at[d]

LEMMA BlocksOfIs ==
    ASSUME NEW c, Typed(c)
    PROVE  /\ BlocksOf(c) \in 1..3 /\ BlocksOf(c) \in Nat
           /\ HasState(c) \/ c.kind = "repeat" => BlocksOf(c) >= 2
           /\ c.kind = "while" /\ c.at = "body" => BlocksOf(c) = 2
BY DEF BlocksOf, Typed, HasState

LEMMA HeldRange ==
    ASSUME NEW g, NEW o, NEW at, NEW n, NEW m, Held(g, o, at, n, m)
    PROVE  /\ n \in 1..n /\ n \in Nat /\ m \in Nat /\ at[n] \in Nat /\ at[n] + BlocksOf(o[n]) = m /\ at[n] < m
           /\ \A c \in 1..n : /\ at[c] \in Nat /\ BlocksOf(o[c]) \in 1..3 /\ at[c] + BlocksOf(o[c]) <= m
                              /\ c # n => at[c] + BlocksOf(o[c]) <= at[n]
<1>1. n \in 1..n /\ n \in Nat /\ m \in Nat BY DEF Held
<1>2. \A c \in 1..n : at[c] \in Nat /\ BlocksOf(o[c]) \in 1..3 BY BlocksOfIs DEF Held
<1>3. at[n] + BlocksOf(o[n]) = m BY <1>1 DEF Held
<1>4. \A c \in 1..n : c # n => at[c] + BlocksOf(o[c]) <= at[n] BY <1>1 DEF Held
<1> QED BY <1>1, <1>2, <1>3, <1>4

LEMMA HeldSame ==
    ASSUME NEW g, NEW o, NEW at, NEW n, NEW m, Held(g, o, at, n, m),
           NEW p, NEW as, \A c \in 1..n : p[c] = o[c] /\ as[c] = at[c]
    PROVE  Held(g, p, as, n, m)
<1>1. n \in Nat \ {0} /\ m \in Nat /\ at[1] = 0 /\ 1 \in 1..n BY DEF Held
<1>2. as[1] = 0 BY <1>1
<1>3. ASSUME NEW c \in 1..n
      PROVE  /\ as[c] \in Nat /\ Typed(p[c])
             /\ as[c] + BlocksOf(p[c]) = (IF c = n THEN m ELSE as[c + 1])
             /\ Fits(p[c], as[c], g) /\ PrepWaits(p[c], g.ops)
             /\ p[c].kind = "chunk" <=> c = 1
             /\ c < n => p[c].at = "body"
  <2>1. p[c] = o[c] /\ as[c] = at[c] OBVIOUS
  <2>2. c # n => c + 1 \in 1..n BY <1>1
  <2>3. c # n => as[c + 1] = at[c + 1] BY <2>2
  <2> QED BY <2>1, <2>3 DEF Held
<1>4. \A c, d \in 1..n : c < d => as[c] + BlocksOf(p[c]) <= as[d] BY DEF Held
<1> QED BY <1>1, <1>2, <1>3, <1>4 DEF Held

LEMMA PrepNotPlaceholder ==
    ASSUME NEW w
    PROVE  Instr("forprep", w) # Placeholder
BY DEF Instr, Placeholder

LEMMA FitsKept ==
    ASSUME NEW g, Regular(g), NEW h, NEW m, NEW X, Beyond(g, h, m, X), NEW c, Typed(c),
           NEW pos \in Nat, pos + BlocksOf(c) <= m, Fits(c, pos, g), c.at = "body" \/ StackTop(h) = StackTop(g)
    PROVE  Fits(c, pos, h)
<1>1. m \in Nat /\ BlocksOf(c) \in 1..3 BY BlocksOfIs DEF Beyond
<1>2. \A i \in 1..m : Bottom(h, i) = Bottom(g, i) BY DEF Beyond, Bottom
<1>3. \A t \in Targets(g) : t.block_index <= m => t \in Targets(h) BY DEF Beyond
<1>4. \A x \in Items(h) : x.block_index < m => x \in Items(g) BY DEF Beyond
<1>5. pos + 1 \in 1..m /\ pos + 1 <= m BY <1>1
<1>6. Regular(h) BY DEF Beyond
<1>7. \A x \in Items(h) : x.block_index \in Nat BY <1>6, ItemsTyped
<1>8. HasState(c) \/ c.kind = "repeat" => pos + 2 \in 1..m BY <1>1, BlocksOfIs
<1>9. c.kind = "while" /\ c.at = "body" => pos + 2 \in 1..m BY <1>1, BlocksOfIs
<1>a. ASSUME HasState(c)
      PROVE  /\ Bottom(h, pos + 1) = c.labels[1] + 3
             /\ \A i \in 1..pos : Bottom(h, i) <= c.labels[1]
             /\ \A x \in Items(h) : x.block_index <= pos => x.stack_top <= c.labels[1]
  <2>1. Bottom(h, pos + 1) = c.labels[1] + 3 BY <1>a, <1>2, <1>5 DEF Fits
  <2>2. \A i \in 1..pos : i \in 1..m BY <1>1, <1>5
  <2>3. \A i \in 1..pos : Bottom(h, i) <= c.labels[1] BY <1>a, <1>2, <2>2 DEF Fits
  <2>4. \A x \in Items(h) : x.block_index <= pos => x.block_index < m BY <1>1, <1>5, <1>7
  <2>5. \A x \in Items(g) : x.block_index <= pos => x.stack_top <= c.labels[1] BY <1>a DEF Fits
  <2> QED BY <2>1, <2>3, <2>4, <2>5, <1>4
<1>b. HasState(c) \/ c.kind = "repeat" => Bottom(h, pos + 2) = Bottom(h, pos + 1)
  BY <1>2, <1>5, <1>8 DEF Fits
<1>c. c.kind = "while" /\ c.at = "body" => Bottom(h, pos + 2) = Bottom(h, pos + 1)
  BY <1>2, <1>5, <1>9 DEF Fits
<1>d. c.kind = "while" /\ c.at = "labels" => StackTop(h) = Bottom(h, pos + 1)
  BY <1>2, <1>5 DEF Fits
<1>e. c.kind = "while" => \E t \in Targets(h) : t.label = c.labels[1] /\ t.block_index = pos
  BY <1>1, <1>3, <1>5 DEF Fits
<1>f. c.kind = "repeat" => \E t \in Targets(h) : t.label = c.labels[1] /\ t.block_index = pos + 2
  BY <1>1, <1>3, <1>8 DEF Fits
<1> QED BY <1>a, <1>b, <1>c, <1>d, <1>e, <1>f DEF Fits

LEMMA PrepKept ==
    ASSUME NEW g, Regular(g), NEW h, NEW m, NEW X, Beyond(g, h, m, X), NEW c, PrepWaits(c, g.ops),
           c.kind = "for" => c.labels[2] \notin X
    PROVE  PrepWaits(c, h.ops)
<1>1. CASE c.kind # "for" BY <1>1 DEF PrepWaits
<1>2. CASE c.kind = "for"
  <2> DEFINE i == c.labels[2]
             prep == Instr("forprep", c.labels[1]..(c.labels[1] + 2))
  <2>1. i \in 1..Len(g.ops) /\ g.ops[i] = prep /\ i \notin X BY <1>2 DEF PrepWaits
  <2>2. prep # Placeholder BY PrepNotPlaceholder
  <2>3. Len(g.ops) \in Nat /\ Len(h.ops) \in Nat BY RegularParts DEF Beyond
  <2>4. Len(g.ops) <= Len(h.ops) /\ h.ops[i] = g.ops[i] BY <2>1, <2>2 DEF Beyond
  <2> QED BY <2>1, <2>3, <2>4 DEF PrepWaits
<1> QED BY <1>1, <1>2

(* What is done behind the blocks of the constructs leaves them as they are. *)
LEMMA HeldKept ==
    ASSUME NEW g, Regular(g), NEW o, NEW at, NEW n, NEW m, Held(g, o, at, n, m),
           NEW h, NEW X, Beyond(g, h, m, X), o[n].at = "body" \/ StackTop(h) = StackTop(g),
           \A c \in 1..n : o[c].kind = "for" => o[c].labels[2] \notin X
    PROVE  Held(h, o, at, n, m)
<1>1. \A c \in 1..n : o[c].at = "body" \/ StackTop(h) = StackTop(g) BY DEF Held
<1>2. ASSUME NEW c \in 1..n PROVE Fits(o[c], at[c], h)
  <2>1. Typed(o[c]) /\ at[c] \in Nat /\ Fits(o[c], at[c], g) BY DEF Held
  <2>2. at[c] + BlocksOf(o[c]) <= m BY HeldRange
  <2> QED BY <1>1, <2>1, <2>2, FitsKept
<1>3. \A c \in 1..n : PrepWaits(o[c], h.ops) BY PrepKept DEF Held
<1> QED BY <1>2, <1>3 DEF Held

LEMMA HeldShorter ==
    ASSUME NEW g, NEW o, NEW at, NEW n, n > 1, NEW m, Held(g, o, at, n, m)
    PROVE  /\ Held(g, o, at, n - 1, at[n]) /\ \A c \in 1..n - 1 : o[c].at = "body"
<1>1. n \in Nat /\ n - 1 \in Nat \ {0} /\ n \in 1..n BY DEF Held
<1>2. \A c \in 1..n - 1 : c \in 1..n /\ c < n /\ (c = n - 1 => c + 1 = n) BY <1>1
<1>3. at[n] \in Nat BY <1>1 DEF Held
<1>4. \A c \in 1..n - 1 : at[c] + BlocksOf(o[c]) = (IF c = n - 1 THEN at[n] ELSE at[c + 1])
  BY <1>2 DEF Held
<1>5. \A c \in 1..n - 1 : o[c].at = "body" BY <1>2 DEF Held
<1>6. \A c \in 1..n - 1 : /\ at[c] \in Nat /\ Typed(o[c]) /\ Fits(o[c], at[c], g) /\ PrepWaits(o[c], g.ops)
                          /\ o[c].kind = "chunk" <=> c = 1
  BY <1>2 DEF Held
<1>7. \A c, d \in 1..n - 1 : c < d => at[c] + BlocksOf(o[c]) <= at[d] BY <1>2 DEF Held
<1>8. at[1] = 0 BY DEF Held
<1> QED BY <1>1, <1>3, <1>4, <1>5, <1>6, <1>7, <1>8 DEF Held

(* p has one construct more than o, behind m blocks. *)
OneMore(o, at, n, m, p, as) ==
    /\ \A c \in 1..n : p[c] = o[c] /\ as[c] = at[c]
    /\ as[n + 1] = m

LEMMA HeldLonger ==
    ASSUME NEW g, NEW o, NEW at, NEW n, NEW m, Held(g, o, at, n, m), o[n].at = "body",
           NEW p, NEW as, OneMore(o, at, n, m, p, as),
           Typed(p[n + 1]), p[n + 1].kind # "chunk", Fits(p[n + 1], m, g), PrepWaits(p[n + 1], g.ops)
    PROVE  Held(g, p, as, n + 1, m + BlocksOf(p[n + 1]))
<1> DEFINE c1 == p[n + 1]
<1> USE DEF OneMore
<1>0. Held(g, p, as, n, m) BY HeldSame
<1>1. n \in Nat \ {0} /\ m \in Nat /\ n + 1 \in Nat \ {0} /\ n \in 1..n BY DEF Held
<1>2. BlocksOf(c1) \in Nat BY BlocksOfIs
<1>3. \A c \in 1..n + 1 : c \in 1..n \/ c = n + 1 BY <1>1
<1>4. ASSUME NEW c \in 1..n
      PROVE  /\ as[c] \in Nat /\ Typed(p[c]) /\ c # n + 1
             /\ as[c] + BlocksOf(p[c]) = as[c + 1]
             /\ Fits(p[c], as[c], g) /\ PrepWaits(p[c], g.ops)
             /\ p[c].kind = "chunk" <=> c = 1
             /\ p[c].at = "body"
  <2>1. c = n => as[c + 1] = m BY <1>1
  <2>2. p[n].at = "body" BY <1>1
  <2>3. (c # n => c < n) /\ c # n + 1 BY <1>1
  <2>4. /\ as[c] \in Nat /\ Typed(p[c])
        /\ as[c] + BlocksOf(p[c]) = (IF c = n THEN m ELSE as[c + 1])
        /\ Fits(p[c], as[c], g) /\ PrepWaits(p[c], g.ops)
        /\ p[c].kind = "chunk" <=> c = 1
        /\ c < n => p[c].at = "body"
    BY <1>0 DEF Held
  <2>5. as[c] + BlocksOf(p[c]) = as[c + 1] BY <2>1, <2>4
  <2> QED BY <2>2, <2>3, <2>4, <2>5
<1>5. /\ as[n + 1] \in Nat /\ Typed(p[n + 1]) /\ as[n + 1] + BlocksOf(p[n + 1]) = m + BlocksOf(c1)
      /\ Fits(p[n + 1], as[n + 1], g) /\ PrepWaits(p[n + 1], g.ops)
      /\ p[n + 1].kind = "chunk" <=> n + 1 = 1
      /\ ~(n + 1 < n + 1)
  BY <1>1
<1>6. \A c \in 1..n : as[c] + BlocksOf(p[c]) <= m /\ as[c] \in Nat /\ BlocksOf(p[c]) \in 1..3
  <2>1. \A c \in 1..n : /\ as[c] \in Nat /\ BlocksOf(p[c]) \in 1..3 /\ as[c] + BlocksOf(p[c]) <= m
                        /\ c # n => as[c] + BlocksOf(p[c]) <= as[n]
    BY ONLY <1>0, HeldRange
  <2> QED BY <2>1
<1>7. ASSUME NEW c \in 1..n + 1, NEW d \in 1..n + 1, c < d PROVE as[c] + BlocksOf(p[c]) <= as[d]
  <2>1. c \in 1..n BY <1>1, <1>7
  <2>2. CASE d = n + 1 BY <2>1, <2>2, <1>6
  <2>3. CASE d \in 1..n BY <2>1, <2>3, <1>0, <1>7 DEF Held
  <2> QED BY <1>3, <2>2, <2>3
<1>8. as[1] = 0 BY <1>0 DEF Held
<1>9. m + BlocksOf(c1) \in Nat BY <1>1, <1>2
<1>a. ASSUME NEW c \in 1..n + 1
      PROVE  /\ as[c] \in Nat /\ Typed(p[c])
             /\ as[c] + BlocksOf(p[c]) = (IF c = n + 1 THEN m + BlocksOf(c1) ELSE as[c + 1])
             /\ Fits(p[c], as[c], g) /\ PrepWaits(p[c], g.ops)
             /\ p[c].kind = "chunk" <=> c = 1
             /\ c < n + 1 => p[c].at = "body"
  <2>1. CASE c \in 1..n BY <2>1, <1>4
  <2>2. CASE c = n + 1 BY <2>2, <1>5
  <2> QED BY <1>3, <2>1, <2>2
<1> QED BY <1>1, <1>7, <1>8, <1>9, <1>a DEF Held

(* Registers and pending jumps belong to constructs. *)

Reserved(c, r) == HasState(c) /\ c.labels[1] <= r /\ r < c.labels[1] + 3

(* A register in use holds a local or the state of a loop. *)
Registered(g, o, n) ==
    \A r \in Nat : r < StackTop(g) => (IsLocal(g.locals, r) <=> ~\E c \in 1..n : Reserved(o[c], r))

Below(o, n, b) == \A c \in 1..n : \A r \in Nat : Reserved(o[c], r) => r < b

(* The labels a construct places when it ends. *)
Awaits(c, l) ==
    \/ c.kind = "while" /\ l = c.labels[2]
    \/ c.kind = "if" /\ (l = c.labels[1] \/ l = c.labels[2])
    \/ c.kind = "else" /\ l = c.labels[2]
    \/ c.kind = "forin" /\ l = c.labels[3]

Owner(p, c, pos, g) ==
    /\ Awaits(c, p.target)
    /\ c.kind = "forin" => p.block_index = pos + 2
    /\ c.kind # "forin" => p.block_index = pos /\ p.stack_top = Bottom(g, pos + 1)

IsUnique(p) == p.target.kind = "unique"

Owned(g, o, at, n) ==
    \A p \in g.pending_jumps : IsUnique(p) => \E c \in 1..n : Owner(p, o[c], at[c], g)

Distinct(o, n, next) ==
    /\ \A c \in 1..n : \A l : Awaits(o[c], l) => l \in UniqueLabels /\ l.id < next
    /\ \A c, d \in 1..n : \A l : Awaits(o[c], l) /\ Awaits(o[d], l) => c = d

(* What holds of the function between two steps of the walk. *)
Laid(g, o, at, n) ==
    /\ Regular(g) /\ g.unique \in Nat
    /\ Held(g, o, at, n, Len(g.blocks)) /\ Bottom(g, 1) = g.fixed_params
    /\ Registered(g, o, n) /\ Owned(g, o, at, n) /\ Distinct(o, n, g.unique)

LEMMA UniqueIsLabel ==
    ASSUME NEW l \in UniqueLabels
    PROVE  l \in JumpLabels /\ l.kind = "unique"
BY DEF UniqueLabels, JumpLabels

LEMMA BottomsRise ==
    ASSUME NEW g, Regular(g)
    PROVE  /\ \A i \in 1..Len(g.blocks) : Bottom(g, i) \in Nat /\ Bottom(g, i) <= StackTop(g)
           /\ \A i, j \in 1..Len(g.blocks) : i <= j => Bottom(g, i) <= Bottom(g, j)
<1>1. \A i \in 1..Len(g.blocks) : Bottom(g, i) \in Nat BY RegularParts DEF Bottom
<1>2. Len(g.blocks) \in Nat BY RegularParts
<1> QED BY <1>1, <1>2 DEF Regular, BlocksRise, Bottom

(* The state of every loop lies under the blocks of the innermost construct. *)
LEMMA HeldBelow ==
    ASSUME NEW g, Regular(g), NEW o, NEW at, NEW n, Held(g, o, at, n, Len(g.blocks)),
           NEW i \in at[n] + 1..Len(g.blocks)
    PROVE  Below(o, n, Bottom(g, i)) /\ Bottom(g, i) \in Nat /\ Bottom(g, i) <= StackTop(g)
<1>1. /\ n \in 1..n /\ at[n] \in Nat /\ Len(g.blocks) \in Nat
      /\ \A c \in 1..n : /\ at[c] \in Nat /\ BlocksOf(o[c]) \in 1..3 /\ at[c] + BlocksOf(o[c]) <= Len(g.blocks)
                         /\ c # n => at[c] + BlocksOf(o[c]) <= at[n]
  BY ONLY HeldRange, Held(g, o, at, n, Len(g.blocks))
<1>2. i \in 1..Len(g.blocks) BY <1>1
<1>3. ASSUME NEW c \in 1..n, NEW r \in Nat, Reserved(o[c], r) PROVE r < Bottom(g, i)
  <2>1. at[c] + 1 \in 1..Len(g.blocks) /\ at[c] + 1 <= i BY <1>1, <1>2
  <2>2. Bottom(g, at[c] + 1) <= Bottom(g, i) /\ Bottom(g, at[c] + 1) \in Nat /\ Bottom(g, i) \in Nat
    BY <2>1, <1>2, BottomsRise
  <2>3. Fits(o[c], at[c], g) /\ Typed(o[c]) BY DEF Held
  <2>4. HasState(o[c]) /\ o[c].labels[1] <= r /\ r < o[c].labels[1] + 3 BY <1>3 DEF Reserved
  <2>5. Bottom(g, at[c] + 1) = o[c].labels[1] + 3 BY <2>3, <2>4 DEF Fits
  <2>6. o[c].labels[1] \in Nat BY <2>3, <2>4 DEF Typed
  <2> QED BY <2>2, <2>4, <2>5, <2>6
<1> QED BY <1>2, <1>3, BottomsRise DEF Below

LEMMA OnlyLocalsAbove ==
    ASSUME NEW g, StackTop(g) \in Nat, NEW o, NEW n, Registered(g, o, n), NEW b \in Nat, Below(o, n, b)
    PROVE  OnlyLocals(g.locals, b, StackTop(g))
<1> SUFFICES ASSUME NEW r \in b..StackTop(g) - 1 PROVE IsLocal(g.locals, r)
  BY DEF OnlyLocals, IsLocal
<1>1. r \in Nat /\ r < StackTop(g) /\ ~(r < b) OBVIOUS
<1>2. ~\E c \in 1..n : Reserved(o[c], r) BY <1>1 DEF Below
<1> QED BY <1>1, <1>2 DEF Registered

LEMMA RegisteredKept ==
    ASSUME NEW g, NEW o, NEW n, Registered(g, o, n), NEW h, h.locals = g.locals, StackTop(h) = StackTop(g)
    PROVE  Registered(h, o, n)
BY DEF Registered

LEMMA RegisteredExit ==
    ASSUME NEW g, NEW o, NEW n, Registered(g, o, n), NEW h, NEW k, LeftTo(g, h, k),
           StackTop(h) <= StackTop(g), StackTop(h) \in Nat, StackTop(g) \in Nat
    PROVE  Registered(h, o, n)
<1> SUFFICES ASSUME NEW r \in Nat, r < StackTop(h)
             PROVE  IsLocal(h.locals, r) <=> ~\E c \in 1..n : Reserved(o[c], r)
  BY DEF Registered
<1>1. IsLocal(h.locals, r) <=> IsLocal(g.locals, r) BY DEF LeftTo
<1>2. r < StackTop(g) OBVIOUS
<1> QED BY <1>1, <1>2 DEF Registered

LEMMA RegisteredLess ==
    ASSUME NEW g, NEW o, NEW n \in Nat, n > 1, Registered(g, o, n),
           \A r \in Nat : r < StackTop(g) => ~Reserved(o[n], r)
    PROVE  Registered(g, o, n - 1)
<1>1. \A c \in 1..n : c \in 1..n - 1 \/ c = n OBVIOUS
<1>2. \A c \in 1..n - 1 : c \in 1..n OBVIOUS
<1>3. ASSUME NEW r \in Nat, r < StackTop(g)
      PROVE (\E c \in 1..n : Reserved(o[c], r)) <=> (\E c \in 1..n - 1 : Reserved(o[c], r))
  BY <1>1, <1>2, <1>3
<1> QED BY <1>3 DEF Registered

LEMMA RegisteredMore ==
    ASSUME NEW g, NEW o, NEW n \in Nat, Registered(g, o, n),
           NEW p, \A c \in 1..n : p[c] = o[c], ~HasState(p[n + 1])
    PROVE  Registered(g, p, n + 1)
<1>1. \A c \in 1..n + 1 : c \in 1..n \/ c = n + 1 OBVIOUS
<1>2. \A c \in 1..n : c \in 1..n + 1 OBVIOUS
<1>3. \A r : ~Reserved(p[n + 1], r) BY DEF Reserved
<1>4. ASSUME NEW r \in Nat, r < StackTop(g)
      PROVE (\E c \in 1..n : Reserved(o[c], r)) <=> (\E c \in 1..n + 1 : Reserved(p[c], r))
  BY <1>1, <1>2, <1>3
<1> QED BY <1>4 DEF Registered

(* Pending jumps to the labels of the constructs around the innermost one. *)
Others(g, o, at, n) ==
    \A p \in g.pending_jumps : IsUnique(p) =>
        Awaits(o[n], p.target) \/ \E c \in 1..n - 1 : Owner(p, o[c], at[c], g)

Ranged(o, at, n) ==
    /\ n \in Nat /\ n > 1 /\ at[n] \in Nat /\ at[n] > 0
    /\ \A c \in 1..n - 1 : /\ at[c] \in Nat /\ at[c] + 1 <= at[n]
                           /\ o[c].kind = "forin" => at[c] + 2 <= at[n]

LEMMA HeldRanged ==
    ASSUME NEW g, NEW o, NEW at, NEW n, n > 1, NEW m, Held(g, o, at, n, m)
    PROVE  Ranged(o, at, n)
<1>1. n \in Nat /\ at[n] \in Nat
      /\ \A c \in 1..n : /\ at[c] \in Nat /\ BlocksOf(o[c]) \in 1..3
                         /\ c # n => at[c] + BlocksOf(o[c]) <= at[n]
  BY HeldRange
<1>2. ASSUME NEW c \in 1..n - 1
      PROVE  /\ at[c] \in Nat /\ at[c] + 1 <= at[n]
             /\ o[c].kind = "forin" => at[c] + 2 <= at[n]
  <2>1. c \in 1..n /\ c # n BY <1>1
  <2>2. Typed(o[c]) BY <2>1 DEF Held
  <2>3. o[c].kind = "forin" => BlocksOf(o[c]) >= 2 BY <2>2, BlocksOfIs DEF HasState
  <2> QED BY <1>1, <2>1, <2>3
<1>3. 1 \in 1..n - 1 BY <1>1
<1>4. at[n] > 0 BY <1>1, <1>2, <1>3
<1> QED BY <1>1, <1>2, <1>4 DEF Ranged

LEMMA OwnerSame ==
    ASSUME NEW p, NEW c, NEW pos \in Nat, NEW g, Owner(p, c, pos, g), NEW h, Bottom(h, pos + 1) = Bottom(g, pos + 1)
    PROVE  Owner(p, c, pos, h)
BY DEF Owner

LEMMA OwnedOthers ==
    ASSUME NEW g, NEW o, NEW at, NEW n \in Nat \ {0}, Owned(g, o, at, n)
    PROVE  Others(g, o, at, n)
<1>1. \A c \in 1..n : c \in 1..n - 1 \/ c = n OBVIOUS
<1> QED BY <1>1 DEF Owned, Others, Owner

LEMMA OthersKept ==
    ASSUME NEW g, NEW o, NEW at, NEW n, Ranged(o, at, n), Others(g, o, at, n), NEW h,
           \A i \in 1..at[n] : Bottom(h, i) = Bottom(g, i),
           \A p \in h.pending_jumps : p \in g.pending_jumps \/ ~IsUnique(p) \/ Awaits(o[n], p.target)
    PROVE  Others(h, o, at, n)
<1>1. \A c \in 1..n - 1 : at[c] \in Nat /\ at[c] + 1 \in 1..at[n] BY DEF Ranged
<1>2. \A c \in 1..n - 1 : \A p : Owner(p, o[c], at[c], g) => Owner(p, o[c], at[c], h)
  BY <1>1, OwnerSame
<1> QED BY <1>2 DEF Others

LEMMA OthersExit ==
    ASSUME NEW g, Regular(g), NEW o, NEW at, NEW n, Ranged(o, at, n), Others(g, o, at, n), NEW h,
           NEW k \in Nat, at[n] <= k, LeftTo(g, h, k)
    PROVE  Others(h, o, at, n)
<1>1. \A c \in 1..n - 1 : at[c] \in Nat /\ at[c] + 1 \in 1..k BY DEF Ranged
<1>2. \A i \in 1..k : Bottom(h, i) = Bottom(g, i) BY DEF LeftTo, Bottom
<1>3. \A c \in 1..n - 1 : \A p : Owner(p, o[c], at[c], g) => Owner(p, o[c], at[c], h)
  BY <1>1, <1>2, OwnerSame
<1> SUFFICES ASSUME NEW q \in h.pending_jumps, IsUnique(q), ~Awaits(o[n], q.target)
             PROVE  \E c \in 1..n - 1 : Owner(q, o[c], at[c], h)
  BY DEF Others
<1>4. PICK p \in g.pending_jumps :
         /\ q.target = p.target
         /\ \/ p.block_index <= k /\ q = p
            \/ p.block_index = k + 1 /\ q.block_index = k
  BY DEF LeftTo
<1>5. IsUnique(p) /\ ~Awaits(o[n], p.target) BY <1>4 DEF IsUnique
<1>6. PICK c \in 1..n - 1 : Owner(p, o[c], at[c], g) BY <1>5 DEF Others
<1>7. p.block_index <= at[n] /\ p.block_index \in Nat BY <1>6 DEF Owner, Ranged
<1>8. at[n] \in Nat BY DEF Ranged
<1>9. q = p BY <1>4, <1>7, <1>8
<1> QED BY <1>3, <1>6, <1>9

(* Where the jumps to one label wait. *)
WaitsAt(g, l, b, top) == \A p \in g.pending_jumps : p.target = l => p.block_index = b /\ p.stack_top = top
WaitsIn(g, l, k) ==
    \A p \in g.pending_jumps : p.target = l =>
        p.block_index = k + 1 \/ (p.block_index = k /\ p.stack_top = Bottom(g, k + 1))
Cleared(g, l) == \A p \in g.pending_jumps : p.target # l

LEMMA Gathered ==
    ASSUME NEW g, NEW l, NEW k \in Nat, WaitsIn(g, l, k), NEW h, LeftTo(g, h, k)
    PROVE  WaitsAt(h, l, k, StackTop(h))
<1> SUFFICES ASSUME NEW q \in h.pending_jumps, q.target = l
             PROVE  q.block_index = k /\ q.stack_top = StackTop(h)
  BY DEF WaitsAt
<1>1. StackTop(h) = Bottom(g, k + 1) BY DEF LeftTo, Bottom
<1>2. PICK p \in g.pending_jumps :
         /\ q.target = p.target
         /\ \/ p.block_index <= k /\ q = p
            \/ p.block_index = k + 1 /\ q.block_index = k /\ q.stack_top = StackTop(h)
  BY <1>1 DEF LeftTo, Bottom
<1>3. p.block_index = k + 1 \/ (p.block_index = k /\ p.stack_top = Bottom(g, k + 1)) BY <1>2 DEF WaitsIn
<1> QED BY <1>1, <1>2, <1>3

LEMMA GatheredPatchable ==
    ASSUME NEW g, NEW l, WaitsAt(g, l, Len(g.blocks), StackTop(g))
    PROVE  /\ Patchable(g, l)
           /\ \A h : h.pending_jumps = g.pending_jumps \ Here(g, l) => Cleared(h, l)
BY DEF WaitsAt, Patchable, Here, Resolves, Cleared

(* A break is in the block it leaves, and that block declares nothing. *)
LEMMA BreakPatchable ==
    ASSUME NEW g, Regular(g), Len(g.blocks) > 0, Bottom(g, Len(g.blocks)) = StackTop(g), NEW l
    PROVE  Patchable(g, l)
<1> SUFFICES ASSUME NEW p \in g.pending_jumps, p.block_index = Len(g.blocks)
             PROVE  p.stack_top = StackTop(g)
  BY DEF Patchable, Here, Resolves
<1>1. /\ Bottom(g, p.block_index) <= p.stack_top /\ p.stack_top <= StackTop(g)
  BY DEF Regular, JumpsWait, Placed, Bottom
<1>2. p.stack_top \in Nat /\ StackTop(g) \in Nat BY RegularParts
<1> QED BY <1>1, <1>2

(* While the innermost construct is being closed. *)

(* g comes from f0 by steps behind the blocks of the constructs around the n-th. *)
Mid(f0, g, o, at, n, X) ==
    /\ Beyond(f0, g, Len(g.blocks), X) /\ Sound(g)
    /\ at[n] <= Len(g.blocks) /\ Len(g.blocks) <= Len(f0.blocks)
    /\ \A i \in 1..Len(g.blocks) : Bottom(g, i) = Bottom(f0, i)
    /\ StackTop(g) <= StackTop(f0)
    /\ Registered(g, o, n) /\ g.unique = f0.unique
    /\ Ok(g) => Others(g, o, at, n)

LEMMA MidSelf ==
    ASSUME NEW g, NEW o, NEW at, NEW n, n > 1, Laid(g, o, at, n), Sound(g), NEW X
    PROVE  Mid(g, g, o, at, n, X) /\ Ranged(o, at, n)
<1>1. Ranged(o, at, n) BY HeldRanged DEF Laid
<1>2. Regular(g) /\ Len(g.blocks) \in Nat /\ StackTop(g) \in Nat BY RegularParts DEF Laid
<1>3. at[n] \in Nat /\ at[n] <= Len(g.blocks) /\ n \in Nat \ {0}
  <2>1. at[n] \in Nat /\ at[n] < Len(g.blocks) /\ n \in Nat /\ n \in 1..n BY HeldRange DEF Laid
  <2> QED BY <1>2, <2>1
<1>4. Beyond(g, g, Len(g.blocks), X) BY <1>2, <1>3, BeyondSelf
<1>5. Others(g, o, at, n) BY <1>3, OwnedOthers DEF Laid
<1> QED BY <1>1, <1>2, <1>3, <1>4, <1>5 DEF Mid, Laid

LEMMA MidStep ==
    ASSUME NEW f0, Regular(f0), NEW g, NEW o, NEW at, NEW n, NEW X, Ranged(o, at, n), Mid(f0, g, o, at, n, X),
           NEW h, Beyond(g, h, Len(g.blocks), X), Sound(h), h.locals = g.locals, h.blocks = g.blocks,
           StackTop(h) = StackTop(g), h.unique = g.unique, Ok(h) => Ok(g),
           Ok(h) => \A p \in h.pending_jumps :
                       p \in g.pending_jumps \/ ~IsUnique(p) \/ Awaits(o[n], p.target)
    PROVE  Mid(f0, h, o, at, n, X)
<1>1. Beyond(f0, h, Len(h.blocks), X) BY BeyondTrans DEF Mid
<1>2. Registered(h, o, n) BY RegisteredKept DEF Mid
<1>3. \A i : Bottom(h, i) = Bottom(g, i) BY DEF Bottom
<1>4. Ok(h) => Others(h, o, at, n) BY <1>3, OthersKept DEF Mid
<1>5. \A i \in 1..Len(h.blocks) : Bottom(h, i) = Bottom(f0, i) BY <1>3 DEF Mid
<1> QED BY <1>1, <1>2, <1>4, <1>5 DEF Mid

LEMMA MidRegular ==
    ASSUME NEW f0, NEW g, NEW o, NEW at, NEW n, NEW X, Ranged(o, at, n), Mid(f0, g, o, at, n, X)
    PROVE  /\ Regular(g) /\ Sound(g) /\ Len(g.blocks) \in Nat /\ Len(g.blocks) > 0 /\ at[n] \in Nat
           /\ at[n] <= Len(g.blocks) /\ StackTop(g) \in Nat
<1>1. Regular(g) BY DEF Mid, Beyond
<1>2. at[n] \in Nat /\ at[n] > 0 /\ at[n] <= Len(g.blocks) BY DEF Mid, Ranged
<1>3. Len(g.blocks) \in Nat /\ StackTop(g) \in Nat BY <1>1, RegularParts
<1> QED BY <1>1, <1>2, <1>3 DEF Mid

LEMMA MidTarget ==
    ASSUME NEW f0, Regular(f0), NEW g, NEW o, NEW at, NEW n, NEW X, Ranged(o, at, n), Mid(f0, g, o, at, n, X),
           NEW label \in JumpLabels, Ok(g) => Patchable(g, label)
    PROVE  LET h == JumpTarget(g, label)
           IN  /\ Mid(f0, h, o, at, n, X) /\ h.blocks = g.blocks /\ StackTop(h) = StackTop(g)
               /\ h.alloc = g.alloc /\ h.locals = g.locals
               /\ Ok(h) => /\ Ok(g) /\ h.pending_jumps = g.pending_jumps \ Here(g, label)
                           /\ Targets(h) = Targets(g) \union {TargetAt(g, label)}
<1> DEFINE h == JumpTarget(g, label)
<1>0. /\ Regular(g) /\ Sound(g) /\ Len(g.blocks) > 0 /\ Len(g.blocks) \in Nat
      /\ at[n] \in Nat /\ at[n] <= Len(g.blocks)
  BY MidRegular
<1>1. CASE ~Ok(g)
  <2>1. h = g BY <1>1 DEF JumpTarget
  <2> QED BY <1>1, <2>1
<1>2. CASE Ok(g)
  <2>0. Patchable(g, label) /\ Len(g.blocks) \in Nat /\ Len(g.blocks) <= Len(g.blocks) BY <1>0, <1>2
  <2>1. /\ Beyond(g, h, Len(g.blocks), X) /\ Sound(h)
        /\ StackTop(h) = StackTop(g)
        /\ Keeps(g, h, {"jump_targets", "pending_jumps", "ops", "error"})
        /\ Ok(h) => /\ Ok(g)
                    /\ h.pending_jumps = g.pending_jumps \ Here(g, label)
                    /\ Targets(h) = Targets(g) \union {TargetAt(g, label)}
    BY <1>0, <2>0, BeyondTarget
  <2>2. h.locals = g.locals /\ h.blocks = g.blocks /\ h.unique = g.unique /\ h.alloc = g.alloc BY <2>1 DEF Keeps
  <2> HIDE DEF h
  <2>3. Mid(f0, h, o, at, n, X) BY <2>1, <2>2, MidStep
  <2> QED BY <2>1, <2>2, <2>3 DEF h
<1> QED BY <1>1, <1>2

LEMMA MidJump ==
    ASSUME NEW f0, Regular(f0), NEW g, NEW o, NEW at, NEW n, NEW X, Ranged(o, at, n), Mid(f0, g, o, at, n, X),
           NEW label \in JumpLabels,
           \/ label.kind # "unique" \/ Awaits(o[n], label) \/ \E t \in Targets(g) : t.label = label
    PROVE  LET h == Jump(g, label)
           IN  /\ Mid(f0, h, o, at, n, X) /\ h.blocks = g.blocks /\ StackTop(h) = StackTop(g)
               /\ h.alloc = g.alloc /\ h.locals = g.locals /\ h.error = g.error
               /\ \A p \in h.pending_jumps :
                     p \in g.pending_jumps \/ (p.target = label /\ p.block_index = Len(g.blocks))
               /\ (\E t \in Targets(g) : t.label = label) => h.pending_jumps = g.pending_jumps
<1> DEFINE h == Jump(g, label)
<1>0. /\ Regular(g) /\ Sound(g) /\ Len(g.blocks) > 0 /\ Len(g.blocks) \in Nat
      /\ at[n] \in Nat /\ at[n] <= Len(g.blocks)
  BY MidRegular
<1>1. CASE ~Ok(g)
  <2>1. h = g BY <1>1 DEF Jump
  <2> QED BY <1>1, <2>1
<1>2. CASE Ok(g)
  <2>1. Beyond(g, h, Len(g.blocks), X) /\ Sound(h) /\ Keeps(g, h, {"pending_jumps", "ops"}) /\ StackTop(h) = StackTop(g)
    BY <1>0, BeyondJump
  <2>2. IF \E k \in 1..Len(g.jump_targets) : g.jump_targets[k].label = label
        THEN h.pending_jumps = g.pending_jumps
        ELSE h.pending_jumps = g.pending_jumps \union {PendingAt(g, label)}
    BY <1>0, <1>2, JumpRegular
  <2>3. (\E t \in Targets(g) : t.label = label) <=>
            (\E k \in 1..Len(g.jump_targets) : g.jump_targets[k].label = label)
    BY DEF Targets
  <2>4. h.locals = g.locals /\ h.blocks = g.blocks /\ h.unique = g.unique /\ h.alloc = g.alloc /\ h.error = g.error
    BY <2>1 DEF Keeps
  <2>5. PendingAt(g, label).target = label /\ PendingAt(g, label).block_index = Len(g.blocks)
    BY DEF PendingAt
  <2> HIDE DEF h
  <2>6. \A p \in h.pending_jumps :
           p \in g.pending_jumps \/ (p.target = label /\ p.block_index = Len(g.blocks))
    BY <2>2, <2>5
  <2>7. (\E t \in Targets(g) : t.label = label) => h.pending_jumps = g.pending_jumps
    BY <2>2, <2>3
  <2>8. \A p \in h.pending_jumps : p \in g.pending_jumps \/ ~IsUnique(p) \/ Awaits(o[n], p.target)
    BY <2>6, <2>7 DEF IsUnique
  <2>9. Mid(f0, h, o, at, n, X) BY <1>2, <2>1, <2>4, <2>8, MidStep DEF Ok
  <2> QED BY <2>1, <2>4, <2>6, <2>7, <2>9 DEF h
<1> QED BY <1>1, <1>2

LEMMA MidTemp ==
    ASSUME NEW f0, Regular(f0), NEW g, NEW o, NEW at, NEW n, NEW X, Ranged(o, at, n), Mid(f0, g, o, at, n, X),
           NEW i \in Instrs, i.op # "jump", StackTop(g) < Registers
    PROVE  LET h == WithTemp(g, i)
           IN  /\ Mid(f0, h, o, at, n, X) /\ h.blocks = g.blocks /\ StackTop(h) = StackTop(g)
               /\ h.locals = g.locals /\ h.error = g.error
               /\ h.pending_jumps = g.pending_jumps /\ Targets(h) = Targets(g)
<1> DEFINE h == WithTemp(g, i)
<1>0. /\ Regular(g) /\ Sound(g) /\ Len(g.blocks) > 0 /\ Len(g.blocks) \in Nat
      /\ at[n] \in Nat /\ at[n] <= Len(g.blocks)
  BY MidRegular
<1>1. StackTop(h) = StackTop(g) /\ Keeps(g, h, {"alloc", "ops"}) BY <1>0, TempRegular
<1>2. Beyond(g, h, Len(g.blocks), X) BY <1>0, BeyondTemp
<1>3. /\ h.locals = g.locals /\ h.blocks = g.blocks /\ h.unique = g.unique /\ h.error = g.error
      /\ h.pending_jumps = g.pending_jumps /\ h.jump_targets = g.jump_targets
  BY <1>1 DEF Keeps
<1> HIDE DEF h
<1>4. Sound(h) /\ (Ok(h) <=> Ok(g)) /\ Targets(h) = Targets(g) BY <1>0, <1>3 DEF Sound, Ok, Targets
<1>5. Mid(f0, h, o, at, n, X) BY <1>1, <1>2, <1>3, <1>4, MidStep
<1> QED BY <1>1, <1>3, <1>4, <1>5 DEF h

LEMMA MidEmit ==
    ASSUME NEW f0, Regular(f0), NEW g, NEW o, NEW at, NEW n, NEW X, Ranged(o, at, n), Mid(f0, g, o, at, n, X),
           NEW i \in Instrs, i.op # "jump"
    PROVE  LET h == Emit(g, i)
           IN  /\ Mid(f0, h, o, at, n, X) /\ h.blocks = g.blocks /\ StackTop(h) = StackTop(g)
               /\ h.locals = g.locals /\ h.error = g.error /\ h.alloc = g.alloc
               /\ h.pending_jumps = g.pending_jumps /\ Targets(h) = Targets(g)
<1> DEFINE h == Emit(g, i)
<1>0. /\ Regular(g) /\ Sound(g) /\ Len(g.blocks) > 0 /\ Len(g.blocks) \in Nat
      /\ at[n] \in Nat /\ at[n] <= Len(g.blocks)
  BY MidRegular
<1>1. StackTop(h) = StackTop(g) BY <1>0, EmitRegular
<1>2. Beyond(g, h, Len(g.blocks), X) BY <1>0, BeyondEmit
<1>3. /\ h.locals = g.locals /\ h.blocks = g.blocks /\ h.unique = g.unique /\ h.error = g.error
      /\ h.pending_jumps = g.pending_jumps /\ h.jump_targets = g.jump_targets /\ h.alloc = g.alloc
  <2>1. IsFunctionRecord(g) BY <1>0 DEF Regular
  <2> QED BY <2>1, EmitFields DEF Keeps
<1> HIDE DEF h
<1>4. Sound(h) /\ (Ok(h) <=> Ok(g)) /\ Targets(h) = Targets(g) BY <1>0, <1>3 DEF Sound, Ok, Targets
<1>5. Mid(f0, h, o, at, n, X) BY <1>1, <1>2, <1>3, <1>4, MidStep
<1> QED BY <1>1, <1>3, <1>4, <1>5 DEF h

LEMMA MidExit ==
    ASSUME NEW f0, Regular(f0), NEW g, NEW o, NEW at, NEW n, NEW X, Ranged(o, at, n), Mid(f0, g, o, at, n, X),
           Held(f0, o, at, n, Len(f0.blocks)), NEW k \in Nat, Len(g.blocks) = k + 1, at[n] <= k
    PROVE  LET h == ExitBlock(g)
           IN  /\ Mid(f0, h, o, at, n, X) /\ LeftTo(g, h, k) /\ h.error = g.error
               /\ Len(h.blocks) = k /\ StackTop(h) = Bottom(f0, k + 1)
<1> DEFINE h == ExitBlock(g)
<1>0. Regular(g) /\ Sound(g) /\ Len(g.blocks) > 0 /\ at[n] \in Nat /\ at[n] <= Len(g.blocks) /\ StackTop(g) \in Nat
  BY MidRegular
<1>1. k \in Nat \ {0} BY DEF Ranged
<1>2. Len(f0.blocks) \in Nat BY RegularParts
<1>3. k + 1 \in at[n] + 1..Len(f0.blocks) /\ k + 1 \in 1..Len(g.blocks) BY <1>0, <1>2 DEF Mid
<1>4. Below(o, n, Bottom(f0, k + 1)) /\ Bottom(f0, k + 1) \in Nat BY <1>3, HeldBelow
<1>5. Bottom(g, k + 1) = Bottom(f0, k + 1) BY <1>3 DEF Mid
<1>6. OnlyLocals(g.locals, Bottom(g, k + 1), StackTop(g)) BY <1>0, <1>4, <1>5, OnlyLocalsAbove DEF Mid
<1>7. Beyond(g, h, k, X) /\ LeftTo(g, h, k) /\ Sound(h)
  BY <1>0, <1>1, <1>6, BeyondExit DEF Bottom
<1> HIDE DEF h
<1>8. /\ h.error = g.error /\ h.unique = g.unique /\ Len(h.blocks) = k /\ StackTop(h) = Bottom(g, k + 1)
      /\ \A i \in 1..k : Bottom(h, i) = Bottom(g, i)
  BY <1>7 DEF LeftTo, Keeps, Bottom
<1>9. StackTop(h) <= StackTop(g) /\ StackTop(h) \in Nat
  <2>1. Bottom(g, k + 1) \in Nat /\ Bottom(g, k + 1) <= StackTop(g) BY <1>0, <1>3, BottomsRise
  <2> QED BY <2>1, <1>8
<1>a. Registered(h, o, n) BY <1>0, <1>7, <1>9, RegisteredExit DEF Mid
<1>b. Ok(h) => Others(h, o, at, n) BY <1>0, <1>7, <1>8, OthersExit DEF Mid, Ok
<1>c. Beyond(f0, h, k, X)
  <2>1. Beyond(f0, g, k, X) BY <1>0, <1>1, BeyondLess DEF Mid
  <2> QED BY <1>7, <2>1, BeyondTrans
<1>d. \A i \in 1..Len(h.blocks) : Bottom(h, i) = Bottom(f0, i)
  <2>1. \A i \in 1..k : i \in 1..Len(g.blocks) BY <1>3
  <2> QED BY <2>1, <1>8 DEF Mid
<1>e. StackTop(h) <= StackTop(f0) /\ Len(h.blocks) <= Len(f0.blocks)
  <2>1. StackTop(g) <= StackTop(f0) /\ StackTop(f0) \in Nat BY RegularParts DEF Mid
  <2> QED BY <2>1, <1>0, <1>2, <1>3, <1>8, <1>9
<1>f. at[n] <= Len(h.blocks) /\ h.unique = f0.unique BY <1>8 DEF Mid
<1>g. Mid(f0, h, o, at, n, X) BY <1>7, <1>8, <1>a, <1>b, <1>c, <1>d, <1>e, <1>f DEF Mid
<1> QED BY <1>5, <1>7, <1>8, <1>g DEF h

(* The end of a construct. *)

LEMMA OwnedWaits ==
    ASSUME NEW g, NEW o, NEW at, NEW n \in Nat \ {0}, Owned(g, o, at, n), NEW next, Distinct(o, n, next),
           NEW l, Awaits(o[n], l)
    PROVE  /\ l \in UniqueLabels
           /\ \A p \in g.pending_jumps : p.target = l => Owner(p, o[n], at[n], g)
<1>1. n \in 1..n OBVIOUS
<1>2. l \in UniqueLabels /\ l.kind = "unique" BY <1>1, UniqueIsLabel DEF Distinct
<1>3. ASSUME NEW p \in g.pending_jumps, p.target = l PROVE Owner(p, o[n], at[n], g)
  <2>1. PICK c \in 1..n : Owner(p, o[c], at[c], g) BY <1>2, <1>3 DEF Owned, IsUnique
  <2>2. Awaits(o[c], l) BY <2>1, <1>3 DEF Owner
  <2>3. c = n BY <1>1, <2>2 DEF Distinct
  <2> QED BY <2>1, <2>3
<1> QED BY <1>2, <1>3

LEMMA DistinctLess ==
    ASSUME NEW o, NEW n \in Nat, n > 1, NEW next, Distinct(o, n, next)
    PROVE  Distinct(o, n - 1, next)
<1>1. \A c \in 1..n - 1 : c \in 1..n OBVIOUS
<1> QED BY <1>1 DEF Distinct

LEMMA CloseLaid ==
    ASSUME NEW g, NEW o, NEW at, NEW n, n > 1, Laid(g, o, at, n), NEW h, NEW X, Mid(g, h, o, at, n, X),
           Ok(h), Len(h.blocks) = at[n],
           \A l : Awaits(o[n], l) => Cleared(h, l),
           HasState(o[n]) => StackTop(h) <= o[n].labels[1],
           \A c \in 1..n - 1 : o[c].kind = "for" => o[c].labels[2] \notin X
    PROVE  Laid(h, o, at, n - 1)
<1>1. Regular(g) /\ Held(g, o, at, n, Len(g.blocks)) /\ Ranged(o, at, n) /\ n \in Nat /\ n > 1
  BY HeldRanged DEF Laid, Ranged
<1>2. Held(g, o, at, n - 1, at[n]) /\ \A c \in 1..n - 1 : o[c].at = "body" BY <1>1, HeldShorter
<1>3. Held(h, o, at, n - 1, at[n])
  <2>1. Beyond(g, h, at[n], X) BY DEF Mid
  <2>2. o[n - 1].at = "body" BY <1>1, <1>2
  <2> QED BY <1>1, <1>2, <2>1, <2>2, HeldKept
<1>4. Regular(h) /\ at[n] \in Nat /\ Len(h.blocks) > 0 /\ StackTop(h) \in Nat BY <1>1, MidRegular
<1>5. Bottom(h, 1) = h.fixed_params BY <1>4 DEF Mid, Beyond, Laid
<1>6. Registered(h, o, n - 1)
  <2>1. ASSUME NEW r \in Nat, r < StackTop(h), Reserved(o[n], r) PROVE FALSE
    <3>1. HasState(o[n]) /\ o[n].labels[1] <= r BY <2>1 DEF Reserved
    <3>2. o[n].labels[1] \in Nat
      <4>1. n \in 1..n BY <1>1
      <4> QED BY <1>1, <3>1, <4>1 DEF Held, Typed
    <3> QED BY <2>1, <3>1, <3>2, <1>4
  <2> QED BY <1>1, <2>1, RegisteredLess DEF Mid
<1>7. Owned(h, o, at, n - 1)
  <2>1. Others(h, o, at, n) BY DEF Mid
  <2> QED BY <2>1 DEF Others, Owned, Cleared
<1>8. Distinct(o, n - 1, h.unique) /\ h.unique \in Nat BY <1>1, DistinctLess DEF Laid, Mid
<1> QED BY <1>3, <1>4, <1>5, <1>6, <1>7, <1>8 DEF Laid

(* A block is left and the label behind it is placed: the jumps that wait for it meet it. *)
LEMMA ExitThenTarget ==
    ASSUME NEW f0, Regular(f0), NEW g, NEW o, NEW at, NEW n, NEW X, Ranged(o, at, n), Mid(f0, g, o, at, n, X),
           Held(f0, o, at, n, Len(f0.blocks)), NEW k \in Nat, Len(g.blocks) = k + 1, at[n] <= k,
           NEW l \in UniqueLabels, Ok(g) => WaitsIn(g, l, k)
    PROVE  LET e == ExitBlock(g)
               h == JumpTarget(e, l)
           IN  /\ Mid(f0, h, o, at, n, X) /\ Len(h.blocks) = k /\ StackTop(h) = Bottom(f0, k + 1)
               /\ LeftTo(g, e, k)
               /\ Ok(h) => /\ Ok(g) /\ Cleared(h, l)
                           /\ \A p \in h.pending_jumps : p \in e.pending_jumps
<1> DEFINE e == ExitBlock(g)
           h == JumpTarget(e, l)
<1>1. /\ Mid(f0, e, o, at, n, X) /\ LeftTo(g, e, k) /\ e.error = g.error
      /\ Len(e.blocks) = k /\ StackTop(e) = Bottom(f0, k + 1)
  BY MidExit
<1>2. l \in JumpLabels BY UniqueIsLabel
<1> HIDE DEF e
<1>3. Ok(e) => WaitsAt(e, l, Len(e.blocks), StackTop(e)) BY <1>1, Gathered DEF Ok
<1>4. Ok(e) => Patchable(e, l) BY <1>3, GatheredPatchable
<1>5. /\ Mid(f0, h, o, at, n, X) /\ h.blocks = e.blocks /\ StackTop(h) = StackTop(e)
      /\ Ok(h) => Ok(e) /\ h.pending_jumps = e.pending_jumps \ Here(e, l)
  BY <1>1, <1>2, <1>4, MidTarget
<1> HIDE DEF h
<1>6. Ok(h) => Cleared(h, l) BY <1>3, <1>5, GatheredPatchable
<1>7. Ok(h) => Ok(g) BY <1>1, <1>5 DEF Ok
<1> QED BY <1>1, <1>5, <1>6, <1>7 DEF h, e

LEMMA BreakTyped == Break \in JumpLabels /\ Break.kind # "unique"
BY DEF Break, JumpLabels

CloseAs(g, h, o, at, n) ==
    /\ Sound(h)
    /\ Ok(h) => Laid(h, o, at, n - 1) /\ StackTop(h) <= StackTop(g)

(* What the end of a construct starts from. *)
Ending(g, o, at, n) ==
    /\ n > 1 /\ Laid(g, o, at, n) /\ Sound(g)
    /\ o[n].at = "labels" \/ o[n].kind = "repeat"

LEMMA EndingStart ==
    ASSUME NEW g, NEW o, NEW at, NEW n, Ending(g, o, at, n), NEW X
    PROVE  /\ Mid(g, g, o, at, n, X) /\ Ranged(o, at, n) /\ Regular(g) /\ Held(g, o, at, n, Len(g.blocks))
           /\ n \in Nat \ {0} /\ at[n] \in Nat /\ at[n] + BlocksOf(o[n]) = Len(g.blocks)
           /\ Len(g.blocks) \in Nat /\ Typed(o[n]) /\ Fits(o[n], at[n], g) /\ PrepWaits(o[n], g.ops)
<1>1. Mid(g, g, o, at, n, X) /\ Ranged(o, at, n) BY MidSelf DEF Ending
<1>2. Regular(g) /\ Held(g, o, at, n, Len(g.blocks)) BY DEF Ending, Laid
<1>3. n \in 1..n /\ n \in Nat \ {0} /\ at[n] \in Nat /\ at[n] + BlocksOf(o[n]) = Len(g.blocks) /\ Len(g.blocks) \in Nat
  <2>1. n \in Nat \ {0} BY <1>2 DEF Held
  <2> QED BY <1>2, <2>1, HeldRange
<1>4. Typed(o[n]) /\ Fits(o[n], at[n], g) /\ PrepWaits(o[n], g.ops) BY <1>2, <1>3 DEF Held
<1> QED BY <1>1, <1>2, <1>3, <1>4

LEMMA CloseDo ==
    ASSUME NEW g, NEW o, NEW at, NEW n, Ending(g, o, at, n), o[n].kind = "do"
    PROVE  CloseAs(g, ExitBlock(g), o, at, n)
<1>1. /\ Mid(g, g, o, at, n, {}) /\ Ranged(o, at, n) /\ Regular(g) /\ Held(g, o, at, n, Len(g.blocks))
      /\ at[n] \in Nat /\ at[n] + BlocksOf(o[n]) = Len(g.blocks)
  BY EndingStart
<1>2. BlocksOf(o[n]) = 1 BY DEF Ending, BlocksOf, HasState
<1> DEFINE h == ExitBlock(g)
<1>3. Mid(g, h, o, at, n, {}) /\ Len(h.blocks) = at[n]
  <2>1. PICK k \in Nat : k = at[n] BY <1>1
  <2>2. Len(g.blocks) = k + 1 /\ at[n] <= k BY <1>1, <1>2, <2>1
  <2>3. Mid(g, h, o, at, n, {}) /\ Len(h.blocks) = k
    <3>1. Mid(g, h, o, at, n, {}) /\ LeftTo(g, h, k) BY <1>1, <2>1, <2>2, MidExit
    <3> QED BY <3>1 DEF LeftTo
  <2> QED BY <2>1, <2>3
<1> HIDE DEF h
<1>4. \A l : ~Awaits(o[n], l) BY DEF Awaits
<1>5. Ok(h) => Laid(h, o, at, n - 1) BY <1>3, <1>4, CloseLaid DEF Ending, HasState
<1> QED BY <1>3, <1>5 DEF CloseAs, Mid, h

LEMMA CloseWhileLaid ==
    ASSUME NEW g, NEW o, NEW at, NEW n, Ending(g, o, at, n), o[n].kind = "while"
    PROVE  CloseAs(g, CloseWhile(g, o[n].labels), o, at, n)
<1> DEFINE c == o[n]
           k == at[n]
           g1 == Jump(g, c.labels[1])
           g2 == JumpTarget(g1, Break)
           h == JumpTarget(ExitBlock(g2), c.labels[2])
<1>1. /\ Mid(g, g, o, at, n, {}) /\ Ranged(o, at, n) /\ Regular(g) /\ Held(g, o, at, n, Len(g.blocks))
      /\ n \in Nat \ {0} /\ k \in Nat /\ k + BlocksOf(c) = Len(g.blocks) /\ Typed(c) /\ Fits(c, k, g)
      /\ Len(g.blocks) \in Nat
  BY EndingStart
<1>2. BlocksOf(c) = 1 /\ c.at = "labels" BY DEF Ending, BlocksOf, HasState
<1>3. /\ c.labels[1] \in UniqueLabels /\ c.labels[2] \in UniqueLabels
      /\ c.labels[1] \in JumpLabels
  BY <1>1, UniqueIsLabel DEF Typed
<1>4. (\E t \in Targets(g) : t.label = c.labels[1]) /\ StackTop(g) = Bottom(g, k + 1) BY <1>1, <1>2 DEF Fits
<1>5. /\ Mid(g, g1, o, at, n, {}) /\ g1.blocks = g.blocks /\ StackTop(g1) = StackTop(g)
      /\ g1.pending_jumps = g.pending_jumps /\ g1.error = g.error
  BY <1>1, <1>3, <1>4, MidJump
<1> HIDE DEF g1
<1>6. Patchable(g1, Break)
  <2>1. Regular(g1) BY <1>1, <1>5, MidRegular
  <2>2. Bottom(g1, Len(g1.blocks)) = StackTop(g1) BY <1>1, <1>2, <1>4, <1>5 DEF Bottom
  <2>3. Len(g1.blocks) > 0 BY <1>1, <1>5, MidRegular
  <2> QED BY <2>1, <2>2, <2>3, BreakPatchable
<1>7. /\ Mid(g, g2, o, at, n, {}) /\ g2.blocks = g.blocks /\ StackTop(g2) = StackTop(g)
      /\ Ok(g2) => Ok(g1) /\ g2.pending_jumps = g1.pending_jumps \ Here(g1, Break)
  BY <1>1, <1>5, <1>6, BreakTyped, MidTarget
<1> HIDE DEF g2
<1>8. Awaits(c, c.labels[2]) /\ \A l : Awaits(c, l) => l = c.labels[2] BY DEF Awaits
<1>9. WaitsIn(g, c.labels[2], k)
  <2>1. Owned(g, o, at, n) /\ Distinct(o, n, g.unique) BY DEF Ending, Laid
  <2>2. \A p \in g.pending_jumps : p.target = c.labels[2] => Owner(p, c, k, g) BY <1>1, <1>8, <2>1, OwnedWaits
  <2> QED BY <2>2 DEF WaitsIn, Owner
<1>10. Ok(g2) => WaitsIn(g2, c.labels[2], k) BY <1>5, <1>7, <1>9 DEF WaitsIn, Bottom
<1>11. /\ Mid(g, h, o, at, n, {}) /\ Len(h.blocks) = k
       /\ Ok(h) => Cleared(h, c.labels[2])
  BY <1>1, <1>2, <1>3, <1>7, <1>10, ExitThenTarget
<1>12. h = CloseWhile(g, c.labels) BY DEF CloseWhile, h, g1, g2
<1> HIDE DEF h
<1>13. Ok(h) => Laid(h, o, at, n - 1) BY <1>8, <1>11, CloseLaid DEF Ending, HasState
<1> QED BY <1>11, <1>12, <1>13 DEF CloseAs, Mid

(* The jumps to a label that the innermost construct awaits. *)
LEMMA EndingWaits ==
    ASSUME NEW g, NEW o, NEW at, NEW n, Ending(g, o, at, n), NEW l, Awaits(o[n], l)
    PROVE  /\ l \in UniqueLabels /\ l \in JumpLabels
           /\ o[n].kind # "forin" => WaitsIn(g, l, at[n])
           /\ o[n].kind = "forin" => \A p \in g.pending_jumps : p.target = l => p.block_index = at[n] + 2
<1>1. n \in Nat \ {0} BY EndingStart
<1>2. Owned(g, o, at, n) /\ Distinct(o, n, g.unique) BY DEF Ending, Laid
<1>3. l \in UniqueLabels /\ \A p \in g.pending_jumps : p.target = l => Owner(p, o[n], at[n], g)
  BY <1>1, <1>2, OwnedWaits
<1> QED BY <1>3, UniqueIsLabel DEF WaitsIn, Owner

(* A part of an if is over: h is at the block around the statement, and the jumps to the
   end of the statement wait there. *)
PartEnded(g, h, o, at, n) ==
    /\ Mid(g, h, o, at, n, {}) /\ Len(h.blocks) = at[n] /\ StackTop(h) = Bottom(g, at[n] + 1)
    /\ Ok(h) => Cleared(h, o[n].labels[1]) /\ WaitsAt(h, o[n].labels[2], at[n], StackTop(h))

LEMMA IfPartEnds ==
    ASSUME NEW g, NEW o, NEW at, NEW n, Ending(g, o, at, n), o[n].kind = "if", NEW more \in BOOLEAN
    PROVE  PartEnded(g, CloseIfPart(g, o[n].labels, more), o, at, n)
<1> DEFINE c == o[n]
           k == at[n]
           g1 == IF more THEN Jump(g, c.labels[2]) ELSE g
           e == ExitBlock(g1)
           h == JumpTarget(e, c.labels[1])
<1>1. /\ Mid(g, g, o, at, n, {}) /\ Ranged(o, at, n) /\ Regular(g) /\ Held(g, o, at, n, Len(g.blocks))
      /\ k \in Nat /\ k + BlocksOf(c) = Len(g.blocks) /\ Len(g.blocks) \in Nat
  BY EndingStart
<1>2. BlocksOf(c) = 1 BY DEF Ending, BlocksOf, HasState
<1>3. Len(g.blocks) = k + 1 /\ k <= k BY <1>1, <1>2
<1>4. Awaits(c, c.labels[1]) /\ Awaits(c, c.labels[2]) BY DEF Awaits
<1>5. /\ c.labels[1] \in UniqueLabels /\ c.labels[2] \in JumpLabels
      /\ WaitsIn(g, c.labels[1], k) /\ WaitsIn(g, c.labels[2], k)
  BY <1>4, EndingWaits
<1>6. /\ Mid(g, g1, o, at, n, {}) /\ g1.blocks = g.blocks
      /\ \A p \in g1.pending_jumps : p \in g.pending_jumps \/ p.block_index = k + 1
  <2>1. CASE ~more BY <2>1, <1>1
  <2>2. CASE more
    <3>1. g1 = Jump(g, c.labels[2]) BY <2>2
    <3> QED BY <3>1, <1>1, <1>3, <1>4, <1>5, MidJump
  <2> QED BY <2>1, <2>2
<1> HIDE DEF g1
<1>7. WaitsIn(g1, c.labels[1], k) /\ WaitsIn(g1, c.labels[2], k) BY <1>5, <1>6 DEF WaitsIn, Bottom
<1>8. /\ Mid(g, h, o, at, n, {}) /\ Len(h.blocks) = k /\ StackTop(h) = Bottom(g, k + 1)
      /\ LeftTo(g1, e, k)
      /\ Ok(h) => Cleared(h, c.labels[1]) /\ \A p \in h.pending_jumps : p \in e.pending_jumps
  BY <1>1, <1>3, <1>5, <1>6, <1>7, ExitThenTarget
<1> HIDE DEF e
<1>9. WaitsAt(e, c.labels[2], k, StackTop(e)) BY <1>1, <1>7, <1>8, Gathered
<1>10. StackTop(e) = Bottom(g, k + 1) BY <1>6, <1>8 DEF LeftTo, Bottom
<1>11. Ok(h) => WaitsAt(h, c.labels[2], k, StackTop(h)) BY <1>8, <1>9, <1>10 DEF WaitsAt
<1>12. h = CloseIfPart(g, c.labels, more) BY DEF CloseIfPart, h, e, g1
<1> QED BY <1>8, <1>11, <1>12 DEF PartEnded

LEMMA CloseIf ==
    ASSUME NEW g, NEW o, NEW at, NEW n, Ending(g, o, at, n), o[n].kind = "if"
    PROVE  CloseAs(g, JumpTarget(CloseIfPart(g, o[n].labels, FALSE), o[n].labels[2]), o, at, n)
<1> DEFINE c == o[n]
           e == CloseIfPart(g, c.labels, FALSE)
           h == JumpTarget(e, c.labels[2])
<1>1. Mid(g, g, o, at, n, {}) /\ Ranged(o, at, n) /\ Regular(g) /\ at[n] \in Nat BY EndingStart
<1>2. /\ Mid(g, e, o, at, n, {}) /\ Len(e.blocks) = at[n]
      /\ Ok(e) => /\ Cleared(e, c.labels[1])
                  /\ WaitsAt(e, c.labels[2], at[n], StackTop(e))
  <2>1. \A more \in BOOLEAN : PartEnded(g, CloseIfPart(g, o[n].labels, more), o, at, n) BY IfPartEnds
  <2>2. PartEnded(g, e, o, at, n) BY <2>1, Zenon
  <2> QED BY <2>2 DEF PartEnded
<1> HIDE DEF e
<1>3. Awaits(c, c.labels[2]) /\ \A l : Awaits(c, l) => l = c.labels[1] \/ l = c.labels[2] BY DEF Awaits
<1>4. c.labels[2] \in JumpLabels BY <1>3, EndingWaits
<1>5. Ok(e) => Patchable(e, c.labels[2]) BY <1>2, GatheredPatchable
<1>6. /\ Mid(g, h, o, at, n, {}) /\ h.blocks = e.blocks
      /\ Ok(h) => Ok(e) /\ h.pending_jumps = e.pending_jumps \ Here(e, c.labels[2])
  BY <1>1, <1>2, <1>4, <1>5, MidTarget
<1> HIDE DEF h
<1>7. Ok(h) => Cleared(h, c.labels[2]) BY <1>2, <1>6, GatheredPatchable
<1>8. Ok(h) => Cleared(h, c.labels[1]) BY <1>2, <1>6 DEF Cleared
<1>9. Ok(h) => Laid(h, o, at, n - 1) BY <1>2, <1>3, <1>6, <1>7, <1>8, CloseLaid DEF Ending, HasState
<1> QED BY <1>6, <1>9 DEF CloseAs, Mid, h, e

LEMMA CloseElse ==
    ASSUME NEW g, NEW o, NEW at, NEW n, Ending(g, o, at, n), o[n].kind = "else"
    PROVE  CloseAs(g, JumpTarget(ExitBlock(g), o[n].labels[2]), o, at, n)
<1> DEFINE c == o[n]
           k == at[n]
           h == JumpTarget(ExitBlock(g), c.labels[2])
<1>1. /\ Mid(g, g, o, at, n, {}) /\ Ranged(o, at, n) /\ Regular(g) /\ Held(g, o, at, n, Len(g.blocks))
      /\ k \in Nat /\ k + BlocksOf(c) = Len(g.blocks) /\ Len(g.blocks) \in Nat
  BY EndingStart
<1>2. BlocksOf(c) = 1 BY DEF Ending, BlocksOf, HasState
<1>3. Len(g.blocks) = k + 1 /\ k <= k BY <1>1, <1>2
<1>4. Awaits(c, c.labels[2]) /\ \A l : Awaits(c, l) => l = c.labels[2] BY DEF Awaits
<1>5. c.labels[2] \in UniqueLabels /\ WaitsIn(g, c.labels[2], k) BY <1>4, EndingWaits
<1>6. /\ Mid(g, h, o, at, n, {}) /\ Len(h.blocks) = k
      /\ Ok(h) => Cleared(h, c.labels[2])
  BY <1>1, <1>3, <1>5, ExitThenTarget
<1> HIDE DEF h
<1>7. Ok(h) => Laid(h, o, at, n - 1) BY <1>4, <1>6, CloseLaid DEF Ending, HasState
<1> QED BY <1>6, <1>7 DEF CloseAs, Mid, h

LEMMA TestTyped ==
    /\ Instr("test", {}) \in Instrs /\ Instr("return", {}) \in Instrs /\ Instr("closure", {}) \in Instrs
    /\ \A w \in SUBSET Int : Instr("write", w) \in Instrs /\ Instr("forprep", w) \in Instrs
                             /\ Instr("forloop", w) \in Instrs
    /\ \A op, w : Instr(op, w).op = op
BY DEF Instr, Instrs, None, NoTarget

LEMMA CloseRepeatLaid ==
    ASSUME NEW g, NEW o, NEW at, NEW n, Ending(g, o, at, n), o[n].kind = "repeat", StackTop(g) < Registers
    PROVE  CloseAs(g, CloseRepeat(g, o[n].labels), o, at, n)
<1> DEFINE c == o[n]
           k == at[n]
           g1 == WithTemp(g, Instr("test", {}))
           g2 == Jump(g1, c.labels[1])
           g3 == ExitBlock(g2)
           g4 == JumpTarget(g3, Break)
           h == ExitBlock(g4)
<1>1. /\ Mid(g, g, o, at, n, {}) /\ Ranged(o, at, n) /\ Regular(g) /\ Held(g, o, at, n, Len(g.blocks))
      /\ k \in Nat /\ k + BlocksOf(c) = Len(g.blocks) /\ Typed(c) /\ Fits(c, k, g) /\ Len(g.blocks) \in Nat
  BY EndingStart
<1>2. BlocksOf(c) = 2 BY DEF Ending, BlocksOf, HasState
<1>3. c.labels[1] \in JumpLabels BY <1>1, UniqueIsLabel DEF Typed
<1>4. Len(g.blocks) = k + 2 BY <1>1, <1>2
<1>5. (\E t \in Targets(g) : t.label = c.labels[1]) /\ Bottom(g, k + 2) = Bottom(g, k + 1) BY <1>1 DEF Fits
<1>15. Instr("test", {}) \in Instrs /\ Instr("test", {}).op # "jump" BY TestTyped
<1>6. Mid(g, g1, o, at, n, {}) /\ g1.blocks = g.blocks /\ Targets(g1) = Targets(g)
  BY <1>1, <1>15, MidTemp
<1> HIDE DEF g1
<1>7. Mid(g, g2, o, at, n, {}) /\ g2.blocks = g.blocks BY <1>1, <1>3, <1>5, <1>6, MidJump
<1> HIDE DEF g2
<1>8. Mid(g, g3, o, at, n, {}) /\ Len(g3.blocks) = k + 1 /\ StackTop(g3) = Bottom(g, k + 1)
  <2>1. PICK m \in Nat : m = k + 1 BY <1>1
  <2>2. Len(g2.blocks) = m + 1 /\ k <= m BY <1>1, <1>4, <1>7, <2>1
  <2>3. Mid(g, g3, o, at, n, {}) /\ LeftTo(g2, g3, m) BY <1>1, <1>7, <2>1, <2>2, MidExit
  <2>4. Len(g3.blocks) = m /\ StackTop(g3) = Bottom(g2, m + 1) BY <2>3 DEF LeftTo, Bottom
  <2>5. m + 1 = k + 2 /\ Bottom(g2, m + 1) = Bottom(g, m + 1) BY <1>1, <1>7, <2>1 DEF Bottom
  <2> QED BY <1>5, <2>1, <2>3, <2>4, <2>5
<1> HIDE DEF g3
<1>9. Patchable(g3, Break)
  <2>1. Regular(g3) /\ Len(g3.blocks) > 0 BY <1>1, <1>8, MidRegular
  <2>2. Len(g3.blocks) \in 1..Len(g3.blocks) BY <2>1, RegularParts
  <2>3. Bottom(g3, Len(g3.blocks)) = StackTop(g3) BY <1>8, <2>2 DEF Mid
  <2> QED BY <2>1, <2>3, BreakPatchable
<1>10. Mid(g, g4, o, at, n, {}) /\ g4.blocks = g3.blocks BY <1>1, <1>8, <1>9, BreakTyped, MidTarget
<1> HIDE DEF g4
<1>11. Mid(g, h, o, at, n, {}) /\ Len(h.blocks) = k
  <2>1. PICK m \in Nat : m = k BY <1>1
  <2>2. Len(g4.blocks) = m + 1 /\ k <= m BY <1>1, <1>8, <1>10, <2>1
  <2>3. Mid(g, h, o, at, n, {}) /\ LeftTo(g4, h, m) BY <1>1, <1>10, <2>1, <2>2, MidExit
  <2> QED BY <2>1, <2>3 DEF LeftTo
<1>12. h = CloseRepeat(g, c.labels) BY DEF CloseRepeat, TestElse, h, g4, g3, g2, g1
<1> HIDE DEF h
<1>13. \A l : ~Awaits(c, l) BY DEF Awaits
<1>14. Ok(h) => Laid(h, o, at, n - 1) BY <1>11, <1>13, CloseLaid DEF Ending, HasState
<1> QED BY <1>11, <1>12, <1>14 DEF CloseAs, Mid

(* The end of a loop that keeps state. *)

LEMMA PrepsDiffer ==
    ASSUME NEW g, NEW o, NEW at, NEW n, NEW m, Held(g, o, at, n, m), o[n].kind = "for", n > 1,
           NEW c \in 1..n - 1, o[c].kind = "for"
    PROVE  o[c].labels[2] # o[n].labels[2]
<1> DEFINE b(i) == o[i].labels[1]
           prep(i) == Instr("forprep", b(i)..(b(i) + 2))
<1>1. n \in Nat /\ n \in 1..n /\ c \in 1..n /\ c # n
  <2>1. n \in Nat \ {0} BY DEF Held
  <2> QED BY <2>1
<1>2. /\ Typed(o[c]) /\ Fits(o[c], at[c], g) /\ PrepWaits(o[c], g.ops)
      /\ Typed(o[n]) /\ Fits(o[n], at[n], g) /\ PrepWaits(o[n], g.ops)
  BY <1>1 DEF Held
<1>3. HasState(o[c]) /\ HasState(o[n]) BY DEF HasState
<1>4. b(c) \in Nat /\ b(n) \in Nat BY <1>2, <1>3 DEF Typed
<1>5. at[c] \in Nat /\ at[n] \in Nat /\ at[c] + 1 <= at[n] BY HeldRanged DEF Ranged
<1>6. Bottom(g, at[c] + 1) = b(c) + 3 BY <1>2, <1>3 DEF Fits
<1>7. Bottom(g, at[c] + 1) <= b(n) BY <1>2, <1>3, <1>5 DEF Fits
<1>8. g.ops[o[c].labels[2]] = prep(c) /\ g.ops[o[n].labels[2]] = prep(n) BY <1>2 DEF PrepWaits
<1>9. prep(c).writes = b(c)..(b(c) + 2) /\ prep(n).writes = b(n)..(b(n) + 2) BY DEF Instr
<1>10. b(c) \in b(c)..(b(c) + 2) /\ b(c) \notin b(n)..(b(n) + 2) BY <1>4, <1>6, <1>7
<1>11. prep(c) # prep(n) BY <1>9, <1>10
<1> QED BY <1>8, <1>11

LEMMA MidMore ==
    ASSUME NEW f0, Regular(f0), NEW g, NEW o, NEW at, NEW n, NEW X, Ranged(o, at, n), Mid(f0, g, o, at, n, X),
           NEW Y, X \subseteq Y
    PROVE  Mid(f0, g, o, at, n, Y)
<1>1. Len(g.blocks) \in Nat /\ Len(g.blocks) <= Len(g.blocks) BY MidRegular
<1>2. Beyond(f0, g, Len(g.blocks), X) BY DEF Mid
<1>3. Beyond(f0, g, Len(g.blocks), Y) BY <1>1, <1>2, BeyondLess
<1> QED BY <1>3 DEF Mid

(* An instruction that waits for the end of its loop learns its target. *)
Retargeted(g, i, t) == [g EXCEPT !.ops[i].target = t]

LEMMA RetargetedFields ==
    ASSUME NEW g, Regular(g), NEW i \in 1..Len(g.ops), NEW t \in Int
    PROVE  LET h == Retargeted(g, i, t)
           IN  /\ Keeps(g, h, {"ops"})
               /\ h.ops \in Seq(Instrs) /\ Len(h.ops) = Len(g.ops) /\ h.ops[i].op = g.ops[i].op
               /\ \A j \in 1..Len(g.ops) : j # i => h.ops[j] = g.ops[j]
<1> DEFINE x == [g.ops[i] EXCEPT !.target = t]
           s == [g.ops EXCEPT ![i] = x]
           h == [g EXCEPT !.ops = s]
<1>1. IsFunctionRecord(g) /\ g.ops \in Seq(Instrs) BY DEF Regular
<1>2. g.ops[i] \in Instrs BY RegularParts
<1>3. x \in Instrs /\ x.op = g.ops[i].op BY <1>2 DEF Instrs
<1>4. s \in Seq(Instrs) /\ Len(s) = Len(g.ops) /\ s[i] = x /\ \A j \in 1..Len(g.ops) : j # i => s[j] = g.ops[j]
  <2> HIDE DEF x
  <2> QED BY <1>1, <1>3
<1>5. Keeps(g, h, {"ops"}) /\ h.ops = s
  <2> HIDE DEF s
  <2> QED BY <1>1 DEF Keeps, IsFunctionRecord
<1>6. Retargeted(g, i, t) = h BY DEF Retargeted
<1> HIDE DEF h, s, x
<1> QED BY <1>3, <1>4, <1>5, <1>6

LEMMA MidRetarget ==
    ASSUME NEW f0, Regular(f0), NEW g, NEW o, NEW at, NEW n, NEW X, Ranged(o, at, n), Mid(f0, g, o, at, n, X),
           NEW i \in X, i \in 1..Len(g.ops), g.ops[i] # Placeholder, g.ops[i].op # "jump", NEW t \in Int
    PROVE  LET h == Retargeted(g, i, t)
           IN  /\ Mid(f0, h, o, at, n, X) /\ h.blocks = g.blocks /\ StackTop(h) = StackTop(g)
               /\ h.error = g.error /\ h.pending_jumps = g.pending_jumps
<1> DEFINE h == Retargeted(g, i, t)
<1>0. /\ Regular(g) /\ Sound(g) /\ Len(g.blocks) > 0 /\ Len(g.blocks) \in Nat
      /\ StackTop(g) \in Top /\ Stacked(g.alloc, StackTop(g)) /\ StackTop(g) \in Nat /\ Len(g.ops) \in Nat
  BY MidRegular, RegularParts DEF Regular
<1>1. /\ Keeps(g, h, {"ops"}) /\ h.ops \in Seq(Instrs) /\ Len(h.ops) = Len(g.ops) /\ h.ops[i].op # "jump"
      /\ \A j \in 1..Len(g.ops) : j # i => h.ops[j] = g.ops[j]
  BY <1>0, RetargetedFields
<1> HIDE DEF h
<1>2. /\ h.locals = g.locals /\ h.blocks = g.blocks /\ h.unique = g.unique /\ h.error = g.error
      /\ h.pending_jumps = g.pending_jumps /\ h.alloc = g.alloc
      /\ Keeps(g, h, {"alloc", "ops", "error", "unique"})
      /\ Keeps(g, h, {"alloc", "locals", "ops", "error", "unique"})
  BY <1>1 DEF Keeps
<1>3. Len(g.ops) <= Len(h.ops) /\ StackTop(g) <= StackTop(g) BY <1>0, <1>1
<1>4. \A j \in 1..Len(g.ops) : g.ops[j] = Placeholder => h.ops[j] = Placeholder BY <1>1
<1>5. Regular(h) /\ StackTop(h) = StackTop(g)
  <2>1. \A j \in 1..Len(h.ops) : h.ops[j].op = "jump" => j \in 1..Len(g.ops) /\ h.ops[j] = g.ops[j] BY <1>1
  <2> QED BY <1>0, <1>1, <1>2, <1>3, <1>4, <2>1, RegularKept
<1>6. \A j \in 1..Len(g.ops) : g.ops[j] # Placeholder /\ j \notin X => h.ops[j] = g.ops[j] BY <1>1
<1>7. Beyond(g, h, Len(g.blocks), X)
  <2>1. Len(g.blocks) <= Len(g.blocks) BY <1>0
  <2> QED BY <2>1, <1>0, <1>2, <1>3, <1>5, <1>6, BeyondKept
<1>8. Sound(h) /\ (Ok(h) <=> Ok(g)) BY <1>0, <1>2 DEF Sound, Ok
<1>9. Mid(f0, h, o, at, n, X) BY <1>2, <1>5, <1>7, <1>8, MidStep
<1> QED BY <1>2, <1>5, <1>9 DEF h

(* Jumps that wait behind block k wait for one of the labels in L. *)
LowBut(g, L, k) == \A p \in g.pending_jumps : p.block_index <= k \/ p.target \in L

LEMMA LowExit ==
    ASSUME NEW g, Regular(g), NEW L, NEW k \in Nat, LowBut(g, L, k), NEW m \in Nat, k <= m, NEW h, LeftTo(g, h, m)
    PROVE  LowBut(h, L, k)
<1> SUFFICES ASSUME NEW q \in h.pending_jumps PROVE q.block_index <= k \/ q.target \in L
  BY DEF LowBut
<1>1. PICK p \in g.pending_jumps :
         /\ q.target = p.target
         /\ \/ p.block_index <= m /\ q = p
            \/ p.block_index = m + 1 /\ q.block_index = m
  BY DEF LeftTo
<1>2. p.block_index <= k \/ p.target \in L BY DEF LowBut
<1>3. p.block_index <= k => q = p BY <1>1
<1> QED BY <1>1, <1>2, <1>3

LEMMA LowTarget ==
    ASSUME NEW g, Regular(g), NEW L, NEW k \in Nat, LowBut(g, L, k), Len(g.blocks) = k + 1, NEW l, NEW h,
           h.pending_jumps = g.pending_jumps \ Here(g, l)
    PROVE  LowBut(h, L \ {l}, k)
<1> SUFFICES ASSUME NEW p \in h.pending_jumps, ~(p.block_index <= k) PROVE p.target \in L /\ p.target # l
  BY DEF LowBut
<1>1. p \in g.pending_jumps /\ p \notin Here(g, l) OBVIOUS
<1>2. p.block_index \in 1..Len(g.blocks) /\ p.block_index \in Nat BY <1>1, ItemsTyped DEF Items
<1>3. p.block_index = Len(g.blocks) BY <1>2
<1>4. p.target # l BY <1>1, <1>3 DEF Here, Resolves
<1> QED BY <1>1, <1>4 DEF LowBut

(* The state of the loop is given back. *)
LEMMA MidPop ==
    ASSUME NEW f0, Regular(f0), NEW g, NEW o, NEW at, NEW n, NEW X, Ranged(o, at, n), Mid(f0, g, o, at, n, X),
           Typed(o[n]), HasState(o[n]), Fits(o[n], at[n], f0), at[n] < Len(f0.blocks),
           Len(g.blocks) = at[n] + 1, LowBut(g, {}, at[n]),
           NEW e, LeftTo(g, e, at[n]), Mid(f0, e, o, at, n, X)
    PROVE  LET h == [e EXCEPT !.alloc = PopTo(@, o[n].labels[1])]
           IN  Mid(f0, h, o, at, n, X) /\ h.blocks = e.blocks /\ StackTop(h) = o[n].labels[1]
<1> DEFINE base == o[n].labels[1]
           h == [e EXCEPT !.alloc = PopTo(@, base)]
           k == at[n]
<1>1. Regular(e) /\ Sound(e) /\ Len(e.blocks) \in Nat /\ k \in Nat /\ StackTop(e) \in Nat BY MidRegular
<1>2. Regular(g) /\ Len(g.blocks) \in Nat BY MidRegular
<1>3. base \in Nat BY DEF Typed
<1>4. Len(e.blocks) = k /\ StackTop(e) = Bottom(g, k + 1) BY DEF LeftTo, Bottom
<1>5. StackTop(e) = base + 3
  <2>1. k + 1 \in 1..Len(g.blocks) BY <1>1
  <2>2. Bottom(g, k + 1) = Bottom(f0, k + 1) BY <2>1 DEF Mid
  <2>3. Bottom(f0, k + 1) = base + 3 BY DEF Fits
  <2> QED BY <1>4, <2>2, <2>3
<1>6. base \in 0..StackTop(e) BY <1>3, <1>5
<1>7. \A i \in 1..Len(e.locals) : e.locals[i].reg < base
  <2>1. TAKE i \in 1..Len(e.locals)
  <2>2. e.locals[i].reg \in Nat /\ e.locals[i].reg < StackTop(e)
    BY <1>1, RegularParts DEF Regular, Rising
  <2>3. IsLocal(e.locals, e.locals[i].reg) BY DEF IsLocal
  <2>4. n \in 1..n BY DEF Ranged
  <2>5. ~Reserved(o[n], e.locals[i].reg) BY <2>2, <2>3, <2>4 DEF Mid, Registered
  <2> QED BY <1>3, <1>5, <2>2, <2>5 DEF Reserved
<1>8. \A i \in 1..Len(e.blocks) : e.blocks[i].stack_bottom <= base
  <2>1. \A i \in 1..k : Bottom(f0, i) <= base BY DEF Fits
  <2>2. \A i \in 1..k : Bottom(e, i) = Bottom(f0, i) BY <1>4 DEF Mid
  <2> QED BY <1>4, <2>1, <2>2 DEF Bottom
<1>9. \A x \in Items(g) : x.block_index <= k => x.stack_top <= base
  <2>1. TAKE x \in Items(g)
  <2>2. HAVE x.block_index <= k
  <2>3. x.block_index \in Nat BY <1>2, ItemsTyped
  <2>4. x.block_index < Len(g.blocks) BY <1>1, <2>2, <2>3
  <2>5. x \in Items(f0) BY <2>4 DEF Mid, Beyond
  <2> QED BY <2>2, <2>5 DEF Fits
<1>10. \A t \in Targets(e) : t.stack_top <= base
  <2>1. \A t \in Targets(e) : t \in Items(g) /\ t.block_index <= k BY DEF LeftTo, Items
  <2> QED BY <2>1, <1>9
<1>11. \A q \in e.pending_jumps : q.stack_top <= base
  <2>1. TAKE q \in e.pending_jumps
  <2>2. PICK p \in g.pending_jumps :
           \/ p.block_index <= k /\ q = p
           \/ p.block_index = k + 1 /\ q.block_index = k
    BY DEF LeftTo
  <2>3. p.block_index <= k /\ p.block_index \in Nat BY <1>2, RegularParts DEF LowBut
  <2>4. q = p /\ p \in Items(g) BY <1>1, <2>2, <2>3 DEF Items
  <2> QED BY <1>9, <2>3, <2>4
<1>12. Regular(h) /\ StackTop(h) = base /\ Keeps(e, h, {"alloc"})
  BY <1>1, <1>6, <1>7, <1>8, <1>10, <1>11, PopRegular
<1> HIDE DEF h
<1>13. /\ h.locals = e.locals /\ h.blocks = e.blocks /\ h.unique = e.unique /\ h.error = e.error
       /\ h.pending_jumps = e.pending_jumps /\ h.ops = e.ops
       /\ Keeps(e, h, {"alloc", "locals", "ops", "error", "unique"})
  BY <1>12 DEF Keeps
<1>14. Beyond(e, h, Len(e.blocks), X)
  <2>1. Len(e.ops) <= Len(h.ops) /\ Len(e.blocks) <= Len(e.blocks) BY <1>1, <1>13, RegularParts
  <2>2. \A i \in 1..Len(e.ops) : e.ops[i] # Placeholder /\ i \notin X => h.ops[i] = e.ops[i] BY <1>13
  <2> QED BY <1>1, <1>12, <1>13, <2>1, <2>2, BeyondKept
<1>15. Beyond(f0, h, Len(h.blocks), X)
  <2>1. Beyond(f0, e, Len(e.blocks), X) BY DEF Mid
  <2> QED BY <2>1, <1>13, <1>14, BeyondTrans
<1>16. Registered(h, o, n)
  <2>1. \A r \in Nat : r < base => r < StackTop(e) BY <1>3, <1>5
  <2> QED BY <2>1, <1>12, <1>13 DEF Mid, Registered
<1>17. Sound(h) /\ (Ok(h) <=> Ok(e)) BY <1>1, <1>13 DEF Sound, Ok
<1>18. Ok(h) => Others(h, o, at, n)
  <2>1. \A i \in 1..at[n] : Bottom(h, i) = Bottom(e, i) BY <1>13 DEF Bottom
  <2>2. Ok(h) => Others(e, o, at, n) BY <1>17 DEF Mid
  <2> QED BY <2>1, <2>2, <1>13, OthersKept
<1>19. StackTop(h) <= StackTop(f0)
  <2>1. StackTop(e) <= StackTop(f0) /\ StackTop(f0) \in Nat BY RegularParts DEF Mid
  <2> QED BY <2>1, <1>3, <1>5, <1>12
<1>20. Mid(f0, h, o, at, n, X) BY <1>13, <1>15, <1>16, <1>17, <1>18, <1>19 DEF Mid, Bottom
<1> QED BY <1>12, <1>13, <1>20 DEF h

(* No goto waits in the loop for a label outside of it. *)
NoGotoLeaves(g, k) == \A p \in g.pending_jumps : p.target.kind = "named" => p.block_index <= k

LEMMA LowStart ==
    ASSUME NEW g, NEW o, NEW at, NEW n, Ending(g, o, at, n), NoGotoLeaves(g, at[n])
    PROVE  LowBut(g, {Break} \union {l \in UniqueLabels : Awaits(o[n], l)}, at[n])
<1>1. Ranged(o, at, n) /\ Regular(g) /\ n \in Nat BY EndingStart
<1>2. Owned(g, o, at, n) BY DEF Ending, Laid
<1> SUFFICES ASSUME NEW p \in g.pending_jumps, p.target # Break, ~(p.block_index <= at[n])
             PROVE  p.target \in UniqueLabels /\ Awaits(o[n], p.target)
  BY DEF LowBut
<1>3. p \in PendingJumps BY <1>1, RegularParts
<1>4. p.target \in JumpLabels BY <1>3 DEF PendingJumps
<1>5. p.target.kind # "named" BY DEF NoGotoLeaves
<1>6. p.target \in UniqueLabels /\ p.target.kind = "unique" BY <1>4, <1>5 DEF JumpLabels, UniqueLabels
<1>7. PICK c \in 1..n : Owner(p, o[c], at[c], g) BY <1>2, <1>6 DEF Owned, IsUnique
<1>8. CASE c = n BY <1>6, <1>7, <1>8 DEF Owner
<1>9. CASE c # n
  <2>1. c \in 1..n - 1 BY <1>1, <1>7, <1>9
  <2>2. /\ at[c] \in Nat /\ at[n] \in Nat /\ at[c] + 1 <= at[n]
        /\ o[c].kind = "forin" => at[c] + 2 <= at[n]
    BY <1>1, <2>1 DEF Ranged
  <2>3. p.block_index <= at[n] BY <1>7, <2>2 DEF Owner
  <2> QED BY <2>3
<1> QED BY <1>8, <1>9

LEMMA LoopTyped ==
    ASSUME NEW w \in SUBSET Int, NEW t \in Int
    PROVE  LET i == [Instr("forloop", w) EXCEPT !.target = t] IN i \in Instrs /\ i.op # "jump"
BY DEF Instr, Instrs, None, NoTarget

(* What is common to both loops: the block that breaks leave, and the state. *)
LEMMA LoopEnds ==
    ASSUME NEW g, NEW o, NEW at, NEW n, Ending(g, o, at, n), HasState(o[n]), NEW X,
           \A c \in 1..n - 1 : o[c].kind = "for" => o[c].labels[2] \notin X,
           NEW j, Mid(g, j, o, at, n, X), Len(j.blocks) = at[n] + 1, StackTop(j) = Bottom(g, at[n] + 1),
           Ok(j) => LowBut(j, {Break}, at[n]) /\ \A l : Awaits(o[n], l) => Cleared(j, l)
    PROVE  LET k == ExitBlock(JumpTarget(j, Break))
           IN  CloseAs(g, [k EXCEPT !.alloc = PopTo(@, o[n].labels[1])], o, at, n)
<1> DEFINE c == o[n]
           j1 == JumpTarget(j, Break)
           k == ExitBlock(j1)
           h == [k EXCEPT !.alloc = PopTo(@, c.labels[1])]
<1>1. /\ Ranged(o, at, n) /\ Regular(g) /\ Held(g, o, at, n, Len(g.blocks)) /\ n \in Nat
      /\ at[n] \in Nat /\ at[n] + BlocksOf(c) = Len(g.blocks) /\ Typed(c) /\ Fits(c, at[n], g)
  BY EndingStart
<1>2. Regular(j) /\ Len(j.blocks) \in Nat /\ Len(j.blocks) > 0 BY <1>1, MidRegular
<1>3. Patchable(j, Break)
  <2>1. Len(j.blocks) \in 1..Len(j.blocks) BY <1>2
  <2>2. Bottom(j, Len(j.blocks)) = StackTop(j) BY <2>1 DEF Mid
  <2> QED BY <1>2, <2>2, BreakPatchable
<1>4. /\ Mid(g, j1, o, at, n, X) /\ j1.blocks = j.blocks
      /\ Ok(j1) => Ok(j) /\ j1.pending_jumps = j.pending_jumps \ Here(j, Break)
  BY <1>1, <1>3, BreakTyped, MidTarget
<1> HIDE DEF j1
<1>5. Mid(g, k, o, at, n, X) /\ LeftTo(j1, k, at[n])
  <2>1. PICK m \in Nat : m = at[n] BY <1>1
  <2>2. Len(j1.blocks) = m + 1 /\ at[n] <= m BY <1>1, <1>4, <2>1
  <2>3. Mid(g, k, o, at, n, X) /\ LeftTo(j1, k, m) BY <1>1, <1>4, <2>1, <2>2, MidExit
  <2> QED BY <2>1, <2>3
<1> HIDE DEF k
<1>6. k.error = j1.error /\ Len(k.blocks) = at[n] BY <1>5 DEF LeftTo, Keeps
<1>7. Regular(k) /\ Sound(k) BY <1>1, <1>5, MidRegular
<1>8. h.error = k.error /\ h.pending_jumps = k.pending_jumps
  <2>1. IsFunctionRecord(k) BY <1>7 DEF Regular
  <2> QED BY <2>1 DEF IsFunctionRecord
<1>9. ASSUME Ok(h) PROVE Laid(h, o, at, n - 1) /\ StackTop(h) <= StackTop(g)
  <2>1. Ok(j1) /\ Ok(j) BY <1>4, <1>6, <1>8, <1>9 DEF Ok
  <2>2. LowBut(j1, {Break} \ {Break}, at[n]) BY <1>1, <1>2, <1>4, <2>1, LowTarget
  <2>3. LowBut(j1, {}, at[n]) BY <2>2 DEF LowBut
  <2>4. at[n] < Len(g.blocks) BY <1>1, HeldRange
  <2>5. Len(j1.blocks) = at[n] + 1 BY <1>4
  <2>6. Mid(g, h, o, at, n, X) /\ h.blocks = k.blocks /\ StackTop(h) = c.labels[1]
    BY <1>1, <1>4, <1>5, <2>3, <2>4, <2>5, MidPop
  <2> HIDE DEF h
  <2>7. Len(h.blocks) = at[n] BY <1>6, <2>6
  <2>8. \A l : Awaits(c, l) => Cleared(h, l)
    <3>1. \A q \in k.pending_jumps : \E p \in j1.pending_jumps : q.target = p.target
      BY <1>5 DEF LeftTo
    <3>2. j1.pending_jumps \subseteq j.pending_jumps BY <1>4, <2>1
    <3> QED BY <1>8, <2>1, <3>1, <3>2 DEF Cleared
  <2>9. StackTop(h) <= c.labels[1]
    <3>1. c.labels[1] \in Nat BY <1>1 DEF Typed
    <3> QED BY <3>1, <2>6
  <2>10. Laid(h, o, at, n - 1) BY <1>9, <2>6, <2>7, <2>8, <2>9, CloseLaid DEF Ending
  <2> QED BY <2>6, <2>10 DEF Mid
<1>10. Sound(h) BY <1>7, <1>8 DEF Sound
<1> QED BY <1>9, <1>10 DEF CloseAs, h, k, j1

LEMMA CloseForLaid ==
    ASSUME NEW g, NEW o, NEW at, NEW n, Ending(g, o, at, n), o[n].kind = "for", NoGotoLeaves(g, at[n])
    PROVE  CloseAs(g, CloseFor(g, o[n].labels), o, at, n)
<1> DEFINE c == o[n]
           prep == c.labels[2]
           X == {prep}
           loop == [Instr("forloop", {c.labels[1], c.labels[1] + 3}) EXCEPT !.target = prep + 1]
           e == ExitBlock(g)
           e1 == Emit(e, loop)
           j == Retargeted(e1, prep, Pc(e))
           k == ExitBlock(JumpTarget(j, Break))
           h == [k EXCEPT !.alloc = PopTo(@, c.labels[1])]
<1>1. /\ Mid(g, g, o, at, n, {}) /\ Ranged(o, at, n) /\ Regular(g) /\ Held(g, o, at, n, Len(g.blocks))
      /\ n \in Nat /\ at[n] \in Nat /\ at[n] + BlocksOf(c) = Len(g.blocks) /\ Len(g.blocks) \in Nat
      /\ Typed(c) /\ Fits(c, at[n], g) /\ PrepWaits(c, g.ops)
  BY EndingStart
<1>2. BlocksOf(c) = 2 /\ HasState(c) BY DEF Ending, BlocksOf, HasState
<1>3. c.labels[1] \in Nat /\ prep \in Nat BY <1>1, <1>2 DEF Typed
<1>4. Bottom(g, at[n] + 2) = Bottom(g, at[n] + 1) BY <1>1, <1>2 DEF Fits
<1>5. /\ Mid(g, e, o, at, n, {}) /\ Len(e.blocks) = at[n] + 1 /\ StackTop(e) = Bottom(g, at[n] + 1)
      /\ \E m \in Nat : m = at[n] + 1 /\ LeftTo(g, e, m)
  <2>1. PICK m \in Nat : m = at[n] + 1 BY <1>1
  <2>2. Len(g.blocks) = m + 1 /\ at[n] <= m /\ m + 1 = at[n] + 2 BY <1>1, <1>2, <2>1
  <2>3. Mid(g, e, o, at, n, {}) /\ LeftTo(g, e, m) BY <1>1, <2>1, <2>2, MidExit
  <2>4. Len(e.blocks) = m /\ StackTop(e) = Bottom(g, m + 1) BY <2>3 DEF LeftTo, Bottom
  <2> QED BY <1>4, <2>1, <2>2, <2>3, <2>4
<1> HIDE DEF e
<1>6. PrepWaits(c, e.ops)
  <2>1. Beyond(g, e, Len(e.blocks), {}) BY <1>5 DEF Mid
  <2> QED BY <1>1, <2>1, PrepKept
<1>7. Mid(g, e, o, at, n, X)
  <2>1. {} \subseteq X OBVIOUS
  <2> HIDE DEF X
  <2> QED BY <1>1, <1>5, <2>1, MidMore
<1>8. loop \in Instrs /\ loop.op # "jump"
  <2>1. {c.labels[1], c.labels[1] + 3} \in SUBSET Int /\ prep + 1 \in Int BY <1>3
  <2> QED BY <2>1, LoopTyped
<1>9. Regular(e) /\ e.ops \in Seq(Instrs) /\ Len(e.ops) \in Nat BY <1>1, <1>5, MidRegular DEF Regular
<1> HIDE DEF loop, X
<1>10. /\ Mid(g, e1, o, at, n, X) /\ e1.blocks = e.blocks /\ StackTop(e1) = StackTop(e)
       /\ e1.pending_jumps = e.pending_jumps /\ e1.error = e.error
  BY <1>1, <1>7, <1>8, MidEmit
<1>11. prep \in 1..Len(e1.ops) /\ e1.ops[prep] # Placeholder /\ e1.ops[prep].op # "jump"
  <2>1. e1.ops = Append(e.ops, loop) BY <1>9, EmitFields DEF Regular
  <2>2. Len(e1.ops) = Len(e.ops) + 1 /\ \A i \in 1..Len(e.ops) : e1.ops[i] = e.ops[i]
    BY <1>8, <1>9, <2>1, Appended
  <2>3. prep \in 1..Len(e.ops) /\ e.ops[prep] = Instr("forprep", c.labels[1]..(c.labels[1] + 2))
    BY <1>6 DEF PrepWaits
  <2>4. prep \in 1..Len(e1.ops) BY <1>9, <2>2, <2>3
  <2>5. e.ops[prep].op # "jump" BY <2>3 DEF Instr
  <2> QED BY <2>2, <2>3, <2>4, <2>5, PrepNotPlaceholder
<1>12. Pc(e) \in Int BY <1>9 DEF Pc
<1> HIDE DEF e1
<1>13. /\ Mid(g, j, o, at, n, X) /\ j.blocks = e1.blocks /\ StackTop(j) = StackTop(e1)
       /\ j.pending_jumps = e1.pending_jumps
  BY <1>1, <1>10, <1>11, <1>12, MidRetarget DEF X
<1> HIDE DEF j
<1>14. LowBut(j, {Break}, at[n])
  <2>1. LowBut(g, {Break} \union {l \in UniqueLabels : Awaits(c, l)}, at[n]) BY LowStart
  <2>2. \A l : ~Awaits(c, l) BY DEF Awaits
  <2>3. LowBut(g, {Break}, at[n]) BY <2>1, <2>2 DEF LowBut
  <2>4. PICK m \in Nat : m = at[n] + 1 /\ LeftTo(g, e, m) BY <1>5
  <2>5. LowBut(e, {Break}, at[n]) BY <1>1, <2>3, <2>4, LowExit
  <2> QED BY <2>5, <1>10, <1>13 DEF LowBut
<1>15. \A l : ~Awaits(c, l) BY DEF Awaits
<1>16. \A d \in 1..n - 1 : o[d].kind = "for" => o[d].labels[2] \notin X
  BY <1>1, PrepsDiffer DEF X, Ending
<1>17. Len(j.blocks) = at[n] + 1 /\ StackTop(j) = Bottom(g, at[n] + 1) BY <1>5, <1>10, <1>13
<1>18. CloseAs(g, h, o, at, n) BY <1>2, <1>13, <1>14, <1>15, <1>16, <1>17, LoopEnds
<1>19. h = CloseFor(g, c.labels)
  <2>1. e.ops[prep] = Instr("forprep", c.labels[1]..(c.labels[1] + 2))
    BY <1>6 DEF PrepWaits
  <2>2. CloseFor(g, c.labels) =
          LET jj == IF e.ops[prep] = Instr("forprep", c.labels[1]..(c.labels[1] + 2))
                    THEN j ELSE Fail(e, "panic")
              kk == ExitBlock(JumpTarget(jj, Break))
          IN  [kk EXCEPT !.alloc = PopTo(@, c.labels[1])]
    BY DEF CloseFor, Retargeted, e, e1, j, loop
  <2> QED BY <2>1, <2>2
<1> QED BY <1>18, <1>19

LEMMA CloseForInLaid ==
    ASSUME NEW g, NEW o, NEW at, NEW n, Ending(g, o, at, n), o[n].kind = "forin", NoGotoLeaves(g, at[n])
    PROVE  CloseAs(g, CloseForIn(g, o[n].labels), o, at, n)
<1> DEFINE c == o[n]
           call == Instr("write", {c.labels[1] + 3})
           loop == [Instr("forloop", {c.labels[1] + 2}) EXCEPT !.target = c.labels[2]]
           e == ExitBlock(g)
           e1 == JumpTarget(e, c.labels[3])
           e2 == Emit(e1, call)
           j == Emit(e2, loop)
           k == ExitBlock(JumpTarget(j, Break))
           h == [k EXCEPT !.alloc = PopTo(@, c.labels[1])]
<1>1. /\ Mid(g, g, o, at, n, {}) /\ Ranged(o, at, n) /\ Regular(g) /\ Held(g, o, at, n, Len(g.blocks))
      /\ n \in Nat /\ at[n] \in Nat /\ at[n] + BlocksOf(c) = Len(g.blocks) /\ Len(g.blocks) \in Nat
      /\ Typed(c) /\ Fits(c, at[n], g)
  BY EndingStart
<1>2. BlocksOf(c) = 2 /\ HasState(c) BY DEF Ending, BlocksOf, HasState
<1>3. c.labels[1] \in Nat /\ c.labels[2] \in Nat BY <1>1, <1>2 DEF Typed
<1>4. Bottom(g, at[n] + 2) = Bottom(g, at[n] + 1) BY <1>1, <1>2 DEF Fits
<1>5. Awaits(c, c.labels[3]) /\ \A l : Awaits(c, l) => l = c.labels[3] BY DEF Awaits
<1>6. c.labels[3] \in UniqueLabels /\ \A p \in g.pending_jumps : p.target = c.labels[3] => p.block_index = at[n] + 2
  BY <1>5, EndingWaits
<1>7. PICK m \in Nat : m = at[n] + 1 BY <1>1
<1>8. Len(g.blocks) = m + 1 /\ at[n] <= m /\ m + 1 = at[n] + 2 BY <1>1, <1>2, <1>7
<1>9. /\ Mid(g, e1, o, at, n, {}) /\ Len(e1.blocks) = m /\ StackTop(e1) = Bottom(g, m + 1)
      /\ LeftTo(g, e, m)
      /\ Ok(e1) => Cleared(e1, c.labels[3]) /\ \A p \in e1.pending_jumps : p \in e.pending_jumps
  <2>1. WaitsIn(g, c.labels[3], m) BY <1>6, <1>8 DEF WaitsIn
  <2> QED BY <1>1, <1>6, <1>7, <1>8, <2>1, ExitThenTarget
<1> HIDE DEF e, e1
<1>10. /\ call \in Instrs /\ call.op # "jump"
       /\ loop \in Instrs /\ loop.op # "jump"
  <2>1. {c.labels[1] + 3} \in SUBSET Int /\ {c.labels[1] + 2} \in SUBSET Int /\ c.labels[2] \in Int BY <1>3
  <2> QED BY <2>1, LoopTyped, TestTyped
<1> HIDE DEF call, loop
<1>11. /\ Mid(g, e2, o, at, n, {}) /\ e2.blocks = e1.blocks /\ StackTop(e2) = StackTop(e1)
       /\ e2.pending_jumps = e1.pending_jumps /\ e2.error = e1.error
  BY <1>1, <1>9, <1>10, MidEmit
<1> HIDE DEF e2
<1>12. /\ Mid(g, j, o, at, n, {}) /\ j.blocks = e2.blocks /\ StackTop(j) = StackTop(e2)
       /\ j.pending_jumps = e2.pending_jumps /\ j.error = e2.error
  BY <1>1, <1>10, <1>11, MidEmit
<1> HIDE DEF j
<1>13. Ok(j) => LowBut(j, {Break}, at[n])
  <2>1. LowBut(g, {Break} \union {l \in UniqueLabels : Awaits(c, l)}, at[n]) BY LowStart
  <2>2. LowBut(g, {Break, c.labels[3]}, at[n]) BY <2>1, <1>5 DEF LowBut
  <2>3. LowBut(e, {Break, c.labels[3]}, at[n]) BY <1>1, <1>8, <1>9, <2>2, LowExit
  <2>4. Ok(j) => Cleared(e1, c.labels[3]) /\ \A p \in e1.pending_jumps : p \in e.pending_jumps
    BY <1>9, <1>11, <1>12 DEF Ok
  <2> QED BY <2>3, <2>4, <1>11, <1>12 DEF LowBut, Cleared
<1>14. Ok(j) => \A l : Awaits(c, l) => Cleared(j, l) BY <1>5, <1>9, <1>11, <1>12 DEF Ok, Cleared
<1>15. Len(j.blocks) = at[n] + 1 /\ StackTop(j) = Bottom(g, at[n] + 1)
  BY <1>4, <1>7, <1>8, <1>9, <1>11, <1>12
<1>16. CloseAs(g, h, o, at, n)
  <2>1. \A d \in 1..n - 1 : o[d].kind = "for" => o[d].labels[2] \notin {} OBVIOUS
  <2> QED BY <1>2, <1>12, <1>13, <1>14, <1>15, <2>1, LoopEnds
<1>17. h = CloseForIn(g, c.labels) BY DEF CloseForIn, e, e1, e2, j, call, loop
<1> QED BY <1>16, <1>17

(* Whatever construct is closed, what remains is as before it was opened. *)
LEMMA ConstructCloses ==
    ASSUME NEW g, NEW o, NEW at, NEW n, Ending(g, o, at, n), StackTop(g) < Registers,
           HasState(o[n]) => NoGotoLeaves(g, at[n])
    PROVE  CloseAs(g, Closed(g, o[n].kind, o[n].labels), o, at, n)
<1> DEFINE c == o[n]
<1>1. Typed(c) /\ n \in Nat \ {0} /\ Held(g, o, at, n, Len(g.blocks)) BY EndingStart
<1>2. c.kind # "chunk"
  <2>1. n \in 1..n /\ n # 1 BY <1>1 DEF Ending
  <2> QED BY <1>1, <2>1 DEF Held
<1>3. c.kind \in SourceKinds \union {"else"} BY <1>1, <1>2 DEF Typed
<1>4. CASE c.kind = "do" BY <1>4, CloseDo DEF Closed
<1>5. CASE c.kind = "while" BY <1>5, CloseWhileLaid DEF Closed
<1>6. CASE c.kind = "repeat" BY <1>6, CloseRepeatLaid DEF Closed
<1>7. CASE c.kind = "if" BY <1>7, CloseIf DEF Closed
<1>8. CASE c.kind = "else" BY <1>8, CloseElse DEF Closed
<1>9. CASE c.kind = "for" BY <1>9, CloseForLaid DEF Closed, HasState
<1>10. CASE c.kind = "forin" BY <1>10, CloseForInLaid DEF Closed, HasState
<1> QED BY <1>3, <1>4, <1>5, <1>6, <1>7, <1>8, <1>9, <1>10 DEF SourceKinds

(* The start of a construct. *)

(* h comes from g by steps behind the blocks of g. *)
Grown(g, h) == Regular(h) /\ Sound(h) /\ Beyond(g, h, Len(g.blocks), {})

LEMMA GrownTrans ==
    ASSUME NEW g, Regular(g), NEW h, Grown(g, h), NEW k, Grown(h, k)
    PROVE  Grown(g, k)
<1>1. Len(g.blocks) \in Nat /\ Len(g.blocks) <= Len(h.blocks) /\ Regular(h) BY RegularParts DEF Grown, Beyond
<1>2. Beyond(h, k, Len(h.blocks), {}) /\ Beyond(g, h, Len(g.blocks), {}) BY DEF Grown
<1>3. Beyond(h, k, Len(g.blocks), {}) BY <1>1, <1>2, BeyondLess
<1>4. Beyond(g, k, Len(g.blocks), {}) BY <1>2, <1>3, BeyondTrans
<1> QED BY <1>4 DEF Grown

LEMMA GrownTarget ==
    ASSUME NEW g, Regular(g), Sound(g), Len(g.blocks) > 0, NEW label \in JumpLabels, Ok(g) => Patchable(g, label)
    PROVE  LET h == JumpTarget(g, label)
           IN  /\ Grown(g, h) /\ h.blocks = g.blocks /\ StackTop(h) = StackTop(g)
               /\ h.locals = g.locals /\ h.unique = g.unique
               /\ Ok(h) => /\ Ok(g) /\ h.pending_jumps \subseteq g.pending_jumps
                           /\ TargetAt(g, label) \in Targets(h)
<1> DEFINE h == JumpTarget(g, label)
<1>0. Len(g.blocks) \in Nat /\ Len(g.blocks) <= Len(g.blocks) BY RegularParts
<1>1. CASE ~Ok(g)
  <2>1. h = g BY <1>1 DEF JumpTarget
  <2> HIDE DEF h
  <2> QED BY <1>0, <1>1, <2>1, BeyondSelf DEF Grown, h
<1>2. CASE Ok(g)
  <2>0. Patchable(g, label) BY <1>2
  <2>1. /\ Beyond(g, h, Len(g.blocks), {}) /\ Sound(h)
        /\ StackTop(h) = StackTop(g)
        /\ Keeps(g, h, {"jump_targets", "pending_jumps", "ops", "error"})
        /\ Ok(h) => /\ Ok(g)
                    /\ h.pending_jumps = g.pending_jumps \ Here(g, label)
                    /\ Targets(h) = Targets(g) \union {TargetAt(g, label)}
    BY <1>0, <2>0, BeyondTarget
  <2>2. h.locals = g.locals /\ h.blocks = g.blocks /\ h.unique = g.unique BY <2>1 DEF Keeps
  <2> HIDE DEF h
  <2>3. Grown(g, h) BY <2>1 DEF Grown, Beyond
  <2> QED BY <2>1, <2>2, <2>3 DEF h
<1> QED BY <1>1, <1>2

LEMMA GrownTemp ==
    ASSUME NEW g, Regular(g), Sound(g), NEW i \in Instrs, i.op # "jump", StackTop(g) < Registers
    PROVE  LET h == WithTemp(g, i)
           IN  /\ Grown(g, h) /\ h.blocks = g.blocks /\ StackTop(h) = StackTop(g)
               /\ h.locals = g.locals /\ h.unique = g.unique /\ h.error = g.error
               /\ h.pending_jumps = g.pending_jumps
<1> DEFINE h == WithTemp(g, i)
<1>0. Len(g.blocks) \in Nat /\ Len(g.blocks) <= Len(g.blocks) BY RegularParts
<1>1. StackTop(h) = StackTop(g) /\ Keeps(g, h, {"alloc", "ops"}) /\ Regular(h) BY TempRegular
<1>2. Beyond(g, h, Len(g.blocks), {}) BY <1>0, BeyondTemp
<1> HIDE DEF h
<1> QED BY <1>1, <1>2 DEF Keeps, Grown, Sound, h

LEMMA GrownEmit ==
    ASSUME NEW g, Regular(g), Sound(g), NEW i \in Instrs, i.op # "jump"
    PROVE  LET h == Emit(g, i)
           IN  /\ Grown(g, h) /\ h.blocks = g.blocks /\ StackTop(h) = StackTop(g)
               /\ h.locals = g.locals /\ h.unique = g.unique /\ h.error = g.error
               /\ h.pending_jumps = g.pending_jumps
               /\ h.ops = Append(g.ops, i) /\ h.jump_targets = g.jump_targets
<1> DEFINE h == Emit(g, i)
<1>0. Len(g.blocks) \in Nat /\ Len(g.blocks) <= Len(g.blocks) /\ IsFunctionRecord(g) BY RegularParts DEF Regular
<1>1. StackTop(h) = StackTop(g) /\ Keeps(g, h, {"ops"}) /\ Regular(h) /\ h.ops = Append(g.ops, i)
  BY <1>0, EmitRegular, EmitFields
<1>2. Beyond(g, h, Len(g.blocks), {}) BY <1>0, BeyondEmit
<1> HIDE DEF h
<1> QED BY <1>1, <1>2 DEF Keeps, Grown, Sound, h

LEMMA GrownJump ==
    ASSUME NEW g, Regular(g), Sound(g), Len(g.blocks) > 0, NEW label \in JumpLabels
    PROVE  LET h == Jump(g, label)
           IN  /\ Grown(g, h) /\ h.blocks = g.blocks /\ StackTop(h) = StackTop(g)
               /\ h.locals = g.locals /\ h.unique = g.unique /\ h.error = g.error
               /\ \A p \in h.pending_jumps :
                     \/ p \in g.pending_jumps
                     \/ p.target = label /\ p.block_index = Len(g.blocks) /\ p.stack_top = StackTop(g)
               /\ Targets(h) = Targets(g)
<1> DEFINE h == Jump(g, label)
<1>0. Len(g.blocks) \in Nat /\ Len(g.blocks) <= Len(g.blocks) BY RegularParts
<1>1. Beyond(g, h, Len(g.blocks), {}) /\ Sound(h) /\ Keeps(g, h, {"pending_jumps", "ops"}) /\ StackTop(h) = StackTop(g)
  BY <1>0, BeyondJump
<1>2. /\ h.locals = g.locals /\ h.blocks = g.blocks /\ h.unique = g.unique /\ h.error = g.error
      /\ h.jump_targets = g.jump_targets
  BY <1>1 DEF Keeps
<1>3. h = g \/ h.pending_jumps = g.pending_jumps \/ h.pending_jumps = g.pending_jumps \union {PendingAt(g, label)}
  <2>1. CASE ~Ok(g) BY <2>1 DEF Jump
  <2>2. CASE Ok(g)
    <3>1. IF \E k \in 1..Len(g.jump_targets) : g.jump_targets[k].label = label
          THEN h.pending_jumps = g.pending_jumps
          ELSE h.pending_jumps = g.pending_jumps \union {PendingAt(g, label)}
      BY <2>2, JumpRegular
    <3> QED BY <3>1
  <2> QED BY <2>1, <2>2
<1> HIDE DEF h
<1>4. /\ PendingAt(g, label).target = label /\ PendingAt(g, label).block_index = Len(g.blocks)
      /\ PendingAt(g, label).stack_top = StackTop(g)
  BY DEF PendingAt
<1>5. \A p \in h.pending_jumps :
         \/ p \in g.pending_jumps
         \/ p.target = label /\ p.block_index = Len(g.blocks) /\ p.stack_top = StackTop(g)
  BY <1>3, <1>4
<1>6. Grown(g, h) /\ Targets(h) = Targets(g) BY <1>1, <1>2 DEF Grown, Beyond, Targets
<1> QED BY <1>1, <1>2, <1>5, <1>6 DEF h

LEMMA GrownEnter ==
    ASSUME NEW g, Regular(g), Sound(g)
    PROVE  LET h == EnterBlock(g)
           IN  /\ Grown(g, h) /\ StackTop(h) = StackTop(g)
               /\ Len(h.blocks) = Len(g.blocks) + 1
               /\ \A i \in 1..Len(g.blocks) : Bottom(h, i) = Bottom(g, i)
               /\ Bottom(h, Len(g.blocks) + 1) = StackTop(g)
               /\ h.locals = g.locals /\ h.unique = g.unique /\ h.error = g.error
               /\ h.pending_jumps = g.pending_jumps /\ Targets(h) = Targets(g) /\ h.ops = g.ops
<1> DEFINE h == EnterBlock(g)
<1>0. Len(g.blocks) \in Nat /\ Len(g.blocks) <= Len(g.blocks) BY RegularParts
<1>1. /\ Regular(h) /\ StackTop(h) = StackTop(g) /\ Keeps(g, h, {"blocks"})
      /\ Len(h.blocks) = Len(g.blocks) + 1
      /\ \A i \in 1..Len(g.blocks) : h.blocks[i] = g.blocks[i]
      /\ h.blocks[Len(g.blocks) + 1].stack_bottom = StackTop(g)
  BY EnterRegular
<1>2. Beyond(g, h, Len(g.blocks), {}) BY <1>0, BeyondEnter
<1> HIDE DEF h
<1> QED BY <1>1, <1>2 DEF Keeps, Grown, Sound, Bottom, Targets, h

LEMMA GrownPush ==
    ASSUME NEW g, Regular(g), Sound(g), NEW k \in Nat \ {0}, StackTop(g) + k < Registers
    PROVE  LET h == PushRegisters(g, k)
           IN  /\ Grown(g, h) /\ h.blocks = g.blocks /\ StackTop(h) = StackTop(g) + k
               /\ h.locals = g.locals /\ h.unique = g.unique /\ h.error = g.error
               /\ h.pending_jumps = g.pending_jumps /\ h.jump_targets = g.jump_targets /\ h.ops = g.ops
<1> DEFINE h == PushRegisters(g, k)
<1>0. Len(g.blocks) \in Nat /\ Len(g.blocks) <= Len(g.blocks) /\ Len(g.ops) <= Len(g.ops) BY RegularParts
<1>1. Regular(h) /\ StackTop(h) = StackTop(g) + k /\ Keeps(g, h, {"alloc"}) BY PushRegular
<1> HIDE DEF h
<1>2. /\ Keeps(g, h, {"alloc", "locals", "ops", "error", "unique"}) /\ h.ops = g.ops
      /\ h.blocks = g.blocks /\ h.locals = g.locals /\ h.unique = g.unique /\ h.error = g.error
      /\ h.pending_jumps = g.pending_jumps /\ h.jump_targets = g.jump_targets
  BY <1>1 DEF Keeps
<1>3. Beyond(g, h, Len(g.blocks), {}) BY <1>0, <1>1, <1>2, BeyondKept
<1> QED BY <1>1, <1>2, <1>3 DEF Grown, Sound, h

LEMMA GrownDeclare ==
    ASSUME NEW g, Regular(g), Sound(g), Behind(g), NEW r \in Nat, r < StackTop(g),
           \A i \in 1..Len(g.locals) : g.locals[i].reg < r, \A p \in g.pending_jumps : p.stack_top <= r
    PROVE  LET h == DeclareLocal(g, r)
           IN  /\ Grown(g, h) /\ h.blocks = g.blocks /\ StackTop(h) = StackTop(g)
               /\ h.unique = g.unique /\ h.error = g.error
               /\ h.pending_jumps = g.pending_jumps /\ h.jump_targets = g.jump_targets /\ h.ops = g.ops
               /\ \A s : IsLocal(h.locals, s) <=> (IsLocal(g.locals, s) \/ s = r)
<1> DEFINE h == DeclareLocal(g, r)
<1>0. /\ Len(g.blocks) \in Nat /\ Len(g.blocks) <= Len(g.blocks) /\ Len(g.ops) <= Len(g.ops)
      /\ Len(g.locals) \in Nat
  BY RegularParts
<1>1. /\ Regular(h) /\ StackTop(h) = StackTop(g) /\ Keeps(g, h, {"locals"})
      /\ Len(h.locals) = Len(g.locals) + 1
      /\ \A i \in 1..Len(g.locals) : h.locals[i] = g.locals[i]
      /\ h.locals[Len(g.locals) + 1].reg = r
  BY DeclareRegular
<1> HIDE DEF h
<1>2. /\ Keeps(g, h, {"alloc", "locals", "ops", "error", "unique"}) /\ h.ops = g.ops
      /\ h.blocks = g.blocks /\ h.unique = g.unique /\ h.error = g.error
      /\ h.pending_jumps = g.pending_jumps /\ h.jump_targets = g.jump_targets
  BY <1>1 DEF Keeps
<1>3. Beyond(g, h, Len(g.blocks), {}) BY <1>0, <1>1, <1>2, BeyondKept
<1>4. ASSUME NEW s PROVE IsLocal(h.locals, s) <=> (IsLocal(g.locals, s) \/ s = r)
  <2>1. \A i \in 1..Len(h.locals) : i \in 1..Len(g.locals) \/ i = Len(g.locals) + 1 BY <1>0, <1>1
  <2>2. \A i \in 1..Len(g.locals) : i \in 1..Len(h.locals) BY <1>0, <1>1
  <2>3. Len(g.locals) + 1 \in 1..Len(h.locals) BY <1>0, <1>1
  <2> QED BY <1>1, <2>1, <2>2, <2>3 DEF IsLocal
<1> QED BY <1>1, <1>2, <1>3, <1>4 DEF Grown, Sound, h

(* The next label number changes. *)
Renumbered(g, k) == [g EXCEPT !.unique = @ + k]

LEMMA GrownRenumber ==
    ASSUME NEW g, Regular(g), Sound(g), NEW k
    PROVE  LET h == Renumbered(g, k)
           IN  /\ Grown(g, h) /\ h.blocks = g.blocks /\ StackTop(h) = StackTop(g)
               /\ h.locals = g.locals /\ h.unique = g.unique + k /\ h.error = g.error
               /\ h.pending_jumps = g.pending_jumps /\ Targets(h) = Targets(g) /\ h.ops = g.ops
<1> DEFINE h == Renumbered(g, k)
<1>0. /\ Len(g.blocks) \in Nat /\ Len(g.blocks) <= Len(g.blocks) /\ Len(g.ops) <= Len(g.ops)
      /\ StackTop(g) \in Top /\ StackTop(g) <= StackTop(g)
  <2>1. StackTop(g) \in Nat BY RegularParts
  <2> QED BY <2>1, RegularParts DEF Regular
<1>1. Keeps(g, h, {"unique"}) /\ h.unique = g.unique + k
  <2>1. IsFunctionRecord(g) BY DEF Regular
  <2> QED BY <2>1 DEF IsFunctionRecord, Keeps, Renumbered
<1> HIDE DEF h
<1>2. /\ Keeps(g, h, {"alloc", "locals", "ops", "error", "unique"}) /\ h.ops = g.ops
      /\ Keeps(g, h, {"alloc", "ops", "error", "unique"})
      /\ h.blocks = g.blocks /\ h.locals = g.locals /\ h.error = g.error /\ h.alloc = g.alloc
      /\ h.pending_jumps = g.pending_jumps /\ h.jump_targets = g.jump_targets
  BY <1>1 DEF Keeps
<1>3. Regular(h) /\ StackTop(h) = StackTop(g)
  <2>1. Stacked(h.alloc, StackTop(g)) /\ h.ops \in Seq(Instrs) /\ Len(g.ops) <= Len(h.ops)
    BY <1>0, <1>2 DEF Regular
  <2> QED BY <1>0, <1>2, <2>1, RegularKept
<1>4. Beyond(g, h, Len(g.blocks), {}) BY <1>0, <1>2, <1>3, BeyondKept
<1> QED BY <1>1, <1>2, <1>3, <1>4 DEF Grown, Sound, Targets, h

(* The next construct may start here; jumps to the labels in L wait here for it. *)
Ready(g, o, at, n, L) ==
    /\ Regular(g) /\ Ok(g) /\ g.unique \in Nat
    /\ Held(g, o, at, n, Len(g.blocks)) /\ Bottom(g, 1) = g.fixed_params /\ o[n].at = "body"
    /\ Registered(g, o, n) /\ Distinct(o, n, g.unique)
    /\ \A l \in L : l \in UniqueLabels /\ l.id < g.unique /\ \A c \in 1..n : ~Awaits(o[c], l)
    /\ \A p \in g.pending_jumps : IsUnique(p) =>
          \/ p.target \in L /\ p.block_index = Len(g.blocks) /\ p.stack_top = StackTop(g)
          \/ \E c \in 1..n : Owner(p, o[c], at[c], g)

LEMMA ReadyFacts ==
    ASSUME NEW g, NEW o, NEW at, NEW n, NEW L, Ready(g, o, at, n, L)
    PROVE  /\ Regular(g) /\ Sound(g) /\ n \in Nat \ {0} /\ Len(g.blocks) \in Nat /\ Len(g.blocks) > 0
           /\ StackTop(g) \in Nat /\ g.unique \in Nat /\ Len(g.ops) \in Nat
           /\ \A i \in 1..Len(g.blocks) : Bottom(g, i) \in Nat /\ Bottom(g, i) <= StackTop(g)
<1>1. Regular(g) /\ Sound(g) /\ g.unique \in Nat BY DEF Ready, Sound, Ok
<1>2. n \in Nat \ {0} BY DEF Ready, Held
<1>3. at[n] \in Nat /\ at[n] < Len(g.blocks)
  <2>1. Held(g, o, at, n, Len(g.blocks)) BY DEF Ready
  <2> QED BY <2>1, HeldRange
<1> QED BY <1>1, <1>2, <1>3, RegularParts, BottomsRise

LEMMA FreshLabel ==
    ASSUME NEW g, NEW o, NEW at, NEW n, NEW L, Ready(g, o, at, n, L), NEW k \in Nat
    PROVE  /\ Unique(g.unique + k) \in UniqueLabels /\ Unique(g.unique + k) \in JumpLabels
           /\ Unique(g.unique + k).id = g.unique + k
           /\ \A p \in g.pending_jumps : p.target # Unique(g.unique + k)
<1> DEFINE l == Unique(g.unique + k)
<1>1. g.unique \in Nat BY ReadyFacts
<1>2. l \in UniqueLabels /\ l.id = g.unique + k /\ l.kind = "unique" BY <1>1 DEF UniqueLabels, Unique
<1>3. l \in JumpLabels BY <1>2, UniqueIsLabel
<1>4. ASSUME NEW p \in g.pending_jumps, p.target = l PROVE FALSE
  <2>1. IsUnique(p) BY <1>2, <1>4 DEF IsUnique
  <2>2. CASE p.target \in L BY <1>1, <1>2, <1>4, <2>2 DEF Ready
  <2>3. CASE \E c \in 1..n : Owner(p, o[c], at[c], g)
    <3>1. PICK c \in 1..n : Awaits(o[c], l) BY <1>4, <2>3 DEF Owner
    <3>2. l.id < g.unique BY <3>1 DEF Ready, Distinct
    <3> QED BY <1>1, <1>2, <3>2
  <2> QED BY <2>1, <2>2, <2>3 DEF Ready
<1> QED BY <1>2, <1>3, <1>4

LEMMA OpenLaid ==
    ASSUME NEW g, NEW o, NEW at, NEW n, NEW L, Ready(g, o, at, n, L),
           NEW h, Grown(g, h), NEW c1, Typed(c1), c1.kind # "chunk",
           NEW p, NEW as, OneMore(o, at, n, Len(g.blocks), p, as), p[n + 1] = c1,
           Fits(c1, Len(g.blocks), h), PrepWaits(c1, h.ops), Len(h.blocks) = Len(g.blocks) + BlocksOf(c1),
           Registered(h, p, n + 1), h.unique \in Nat, g.unique <= h.unique,
           \A l : Awaits(c1, l) =>
               l \in L \/ (l \in UniqueLabels /\ g.unique <= l.id /\ l.id < h.unique),
           \A l \in L : Awaits(c1, l) /\ c1.kind # "forin" /\ Bottom(h, Len(g.blocks) + 1) = StackTop(g),
           \A q \in h.pending_jumps :
               q \in g.pending_jumps \/ ~IsUnique(q) \/ Owner(q, c1, Len(g.blocks), h)
    PROVE  Laid(h, p, as, n + 1)
<1> DEFINE m == Len(g.blocks)
<1>1. /\ Regular(g) /\ n \in Nat \ {0} /\ m \in Nat /\ m > 0 /\ g.unique \in Nat /\ Regular(h)
      /\ Held(g, o, at, n, m)
  <2>1. Regular(g) /\ n \in Nat \ {0} /\ m \in Nat /\ m > 0 /\ g.unique \in Nat BY ReadyFacts
  <2> QED BY <2>1 DEF Ready, Grown
<1>2. \A i \in 1..m : Bottom(h, i) = Bottom(g, i) BY DEF Grown, Beyond, Bottom
<1>3. Held(h, o, at, n, m)
  <2>1. Beyond(g, h, m, {}) BY DEF Grown
  <2>2. o[n].at = "body" BY DEF Ready
  <2> QED BY <1>1, <2>1, <2>2, HeldKept
<1>4. Held(h, p, as, n + 1, Len(h.blocks))
  <2>1. o[n].at = "body" BY DEF Ready
  <2>2. /\ Fits(p[n + 1], m, h) /\ PrepWaits(p[n + 1], h.ops) /\ Typed(p[n + 1]) /\ p[n + 1].kind # "chunk"
        /\ Len(h.blocks) = m + BlocksOf(p[n + 1])
    BY DEF OneMore
  <2> HIDE DEF m
  <2>3. Held(h, p, as, n + 1, m + BlocksOf(p[n + 1])) BY <1>3, <2>1, <2>2, HeldLonger DEF m
  <2> QED BY <2>2, <2>3
<1>5. Bottom(h, 1) = h.fixed_params BY <1>1, <1>2 DEF Ready, Grown, Beyond
<1>6. n + 1 \in 1..n + 1 /\ (\A c \in 1..n : c \in 1..n + 1) /\ \A c \in 1..n + 1 : c \in 1..n \/ c = n + 1
  BY <1>1
<1>a. (\A c \in 1..n : p[c] = o[c] /\ as[c] = at[c]) /\ as[n + 1] = m BY DEF OneMore
<1>7. Owned(h, p, as, n + 1)
  <2> SUFFICES ASSUME NEW q \in h.pending_jumps, IsUnique(q)
               PROVE  \E c \in 1..n + 1 : Owner(q, p[c], as[c], h)
    BY DEF Owned
  <2>1. CASE Owner(q, c1, m, h) BY <2>1, <1>6, <1>a
  <2>2. CASE q \in g.pending_jumps /\ q.target \in L /\ q.block_index = m /\ q.stack_top = StackTop(g)
    BY <2>2, <1>6, <1>a DEF Owner
  <2>3. CASE \E c \in 1..n : Owner(q, o[c], at[c], g)
    <3>1. PICK c \in 1..n : Owner(q, o[c], at[c], g) BY <2>3
    <3>2. at[c] \in Nat /\ BlocksOf(o[c]) \in 1..3 /\ at[c] + BlocksOf(o[c]) <= m BY <1>1, HeldRange
    <3>3. at[c] + 1 \in 1..m BY <1>1, <3>2
    <3>4. Owner(q, o[c], at[c], h) BY <1>2, <3>1, <3>2, <3>3, OwnerSame
    <3> QED BY <1>6, <1>a, <3>4
  <2> QED BY <2>1, <2>2, <2>3 DEF Ready
<1>8. Distinct(p, n + 1, h.unique)
  <2>1. Distinct(o, n, g.unique) BY DEF Ready
  <2>2. \A l : Awaits(c1, l) => /\ l \in UniqueLabels /\ l.id < h.unique
                                /\ \A c \in 1..n : ~Awaits(o[c], l)
    <3>1. TAKE l
    <3>2. HAVE Awaits(c1, l)
    <3>3. CASE l \in L
      <4>1. l \in UniqueLabels /\ l.id < g.unique /\ \A c \in 1..n : ~Awaits(o[c], l) BY <3>3 DEF Ready
      <4>2. l.id \in Nat BY <4>1 DEF UniqueLabels
      <4> QED BY <1>1, <4>1, <4>2
    <3>4. CASE l \in UniqueLabels /\ g.unique <= l.id /\ l.id < h.unique
      <4>1. l.id \in Nat BY <3>4 DEF UniqueLabels
      <4>2. ~(l.id < g.unique) BY <1>1, <3>4, <4>1
      <4> QED BY <2>1, <3>4, <4>2 DEF Distinct
    <3> QED BY <3>2, <3>3, <3>4
  <2>3. ASSUME NEW c \in 1..n + 1, NEW l, Awaits(p[c], l) PROVE l \in UniqueLabels /\ l.id < h.unique
    <3>1. CASE c = n + 1 BY <2>2, <2>3, <3>1
    <3>2. CASE c \in 1..n
      <4>1. l \in UniqueLabels /\ l.id < g.unique BY <1>a, <2>1, <2>3, <3>2 DEF Distinct
      <4>2. l.id \in Nat BY <4>1 DEF UniqueLabels
      <4> QED BY <1>1, <4>1, <4>2
    <3> QED BY <1>6, <3>1, <3>2
  <2>4. ASSUME NEW c \in 1..n + 1, NEW d \in 1..n + 1, NEW l, Awaits(p[c], l), Awaits(p[d], l) PROVE c = d
    BY <1>6, <1>a, <2>1, <2>2, <2>4 DEF Distinct
  <2> QED BY <2>3, <2>4 DEF Distinct
<1> QED BY <1>1, <1>4, <1>5, <1>7, <1>8 DEF Laid

(* The blocks a construct opens before its body: c1 is the construct, p are all of them. *)
OwnBlocks(g, x, c1, p, n) ==
    LET m == Len(g.blocks)
    IN  /\ Grown(g, x) /\ g.unique <= x.unique /\ x.unique \in Nat
        /\ Len(x.blocks) = m + (IF HasState(c1) \/ c1.kind = "repeat" THEN 2 ELSE 1)
        /\ HasState(c1) =>
              /\ Bottom(x, m + 1) = c1.labels[1] + 3
              /\ \A i \in 1..m : Bottom(x, i) <= c1.labels[1]
              /\ \A y \in Items(x) : y.block_index <= m => y.stack_top <= c1.labels[1]
        /\ ~HasState(c1) => Bottom(x, m + 1) = StackTop(g)
        /\ HasState(c1) \/ c1.kind = "repeat" => Bottom(x, m + 2) = Bottom(x, m + 1)
        /\ c1.kind = "while" => StackTop(x) = StackTop(g)
        /\ c1.kind = "while" => \E t \in Targets(x) : t.label = c1.labels[1] /\ t.block_index = m
        /\ c1.kind = "repeat" => \E t \in Targets(x) : t.label = c1.labels[1] /\ t.block_index = m + 2
        /\ PrepWaits(c1, x.ops) /\ Registered(x, p, n + 1)
        /\ \A q \in x.pending_jumps : q \in g.pending_jumps \/ ~IsUnique(q) \/ Owner(q, c1, m, x)

(* h is x with the block of the body. *)
WithBody(x, h, c1) ==
    /\ Grown(x, h) /\ h.locals = x.locals /\ StackTop(h) = StackTop(x) /\ h.pending_jumps = x.pending_jumps
    /\ Targets(h) = Targets(x) /\ h.ops = x.ops /\ x.unique <= h.unique /\ h.unique \in Nat
    /\ c1.ret \/ c1.kind = "repeat" => Len(h.blocks) = Len(x.blocks)
    /\ ~(c1.ret \/ c1.kind = "repeat") => Len(h.blocks) = Len(x.blocks) + 1
    /\ \A i \in 1..Len(x.blocks) : Bottom(h, i) = Bottom(x, i)
    /\ ~(c1.ret \/ c1.kind = "repeat") => Bottom(h, Len(x.blocks) + 1) = StackTop(x)

(* The constructs p are those of o and c1; c1 awaits the labels in L and new ones. *)
Longer(o, n, p, c1) == (\A c \in 1..n : p[c] = o[c]) /\ p[n + 1] = c1
FreshIn(l, g, h) == l \in UniqueLabels /\ g.unique <= l.id /\ l.id < h.unique
AwaitsNew(c1, L, g, h) ==
    /\ \A l : Awaits(c1, l) => l \in L \/ FreshIn(l, g, h)
    /\ \A l \in L : Awaits(c1, l) /\ c1.kind # "forin"

LEMMA BodyLaid ==
    ASSUME NEW g, NEW o, NEW at, NEW n, NEW L, Ready(g, o, at, n, L),
           NEW c1, Typed(c1), c1.kind # "chunk", c1.at = "body",
           NEW p, NEW as, OneMore(o, at, n, Len(g.blocks), p, as), Longer(o, n, p, c1),
           NEW x, OwnBlocks(g, x, c1, p, n), NEW h, WithBody(x, h, c1),
           AwaitsNew(c1, L, g, h)
    PROVE  Laid(h, p, as, n + 1)
<1> DEFINE m == Len(g.blocks)
<1>1. /\ Regular(g) /\ Regular(x) /\ Regular(h) /\ m \in Nat /\ m > 0 /\ g.unique \in Nat /\ StackTop(g) \in Nat
      /\ Len(x.blocks) \in Nat
  BY ReadyFacts, RegularParts DEF OwnBlocks, WithBody, Grown
<1>2. Grown(g, h) BY <1>1, GrownTrans DEF OwnBlocks, WithBody
<1>3. /\ HasState(c1) \/ c1.kind = "repeat" => Len(x.blocks) = m + 2
      /\ ~(HasState(c1) \/ c1.kind = "repeat") => Len(x.blocks) = m + 1
  BY DEF OwnBlocks
<1>4. m + 1 \in 1..Len(x.blocks) /\ \A i \in 1..m : i \in 1..Len(x.blocks) BY <1>1, <1>3
<1>5. HasState(c1) \/ c1.kind = "repeat" => m + 2 \in 1..Len(x.blocks) BY <1>1, <1>3
<1>6. Len(h.blocks) = m + BlocksOf(c1)
  <2>1. /\ c1.ret \/ c1.kind = "repeat" => Len(h.blocks) = Len(x.blocks)
        /\ ~(c1.ret \/ c1.kind = "repeat") => Len(h.blocks) = Len(x.blocks) + 1
    BY <1>1 DEF WithBody
  <2>2. CASE c1.ret \/ c1.kind = "repeat"
    <3>1. /\ HasState(c1) \/ c1.kind = "repeat" => BlocksOf(c1) = 2
          /\ ~(HasState(c1) \/ c1.kind = "repeat") => BlocksOf(c1) = 1
      BY <2>2 DEF BlocksOf
    <3> QED BY <1>1, <1>3, <2>1, <2>2, <3>1
  <2>3. CASE ~(c1.ret \/ c1.kind = "repeat")
    <3>1. /\ HasState(c1) \/ c1.kind = "repeat" => BlocksOf(c1) = 3
          /\ ~(HasState(c1) \/ c1.kind = "repeat") => BlocksOf(c1) = 2
      BY <2>3 DEF BlocksOf
    <3> QED BY <1>1, <1>3, <2>1, <2>3, <3>1
  <2> QED BY <2>2, <2>3
<1>7. Bottom(h, m + 1) = Bottom(x, m + 1) /\ \A i \in 1..m : Bottom(h, i) = Bottom(x, i) BY <1>4 DEF WithBody
<1>8. HasState(c1) \/ c1.kind = "repeat" => Bottom(h, m + 2) = Bottom(h, m + 1)
  <2>1. HasState(c1) \/ c1.kind = "repeat" => Bottom(x, m + 2) = Bottom(x, m + 1) BY DEF OwnBlocks
  <2>2. HasState(c1) \/ c1.kind = "repeat" => Bottom(h, m + 2) = Bottom(x, m + 2) BY <1>5 DEF WithBody
  <2> QED BY <1>7, <2>1, <2>2
<1>9. Items(h) = Items(x) /\ Targets(h) = Targets(x) BY DEF WithBody, Items
<1>10. c1.kind = "while" => Bottom(h, m + 2) = Bottom(h, m + 1)
  <2>1. SUFFICES ASSUME c1.kind = "while" PROVE Bottom(h, m + 2) = Bottom(h, m + 1) OBVIOUS
  <2>2. ~HasState(c1) /\ ~(c1.ret \/ c1.kind = "repeat") BY <2>1 DEF HasState, Typed
  <2>3. Len(x.blocks) + 1 = m + 2 BY <1>1, <1>3, <2>1, <2>2
  <2>4. Bottom(h, m + 2) = StackTop(x) BY <2>2, <2>3 DEF WithBody
  <2>5. Bottom(x, m + 1) = StackTop(x) BY <2>1, <2>2 DEF OwnBlocks
  <2> QED BY <1>7, <2>4, <2>5
<1>11. Fits(c1, m, h)
  <2>1. HasState(c1) =>
          /\ Bottom(h, m + 1) = c1.labels[1] + 3
          /\ \A i \in 1..m : Bottom(h, i) <= c1.labels[1]
          /\ \A y \in Items(h) : y.block_index <= m => y.stack_top <= c1.labels[1]
    BY <1>7, <1>9 DEF OwnBlocks
  <2>2. c1.kind = "while" => \E t \in Targets(h) : t.label = c1.labels[1] /\ t.block_index = m
    BY <1>9 DEF OwnBlocks
  <2>3. c1.kind = "repeat" => \E t \in Targets(h) : t.label = c1.labels[1] /\ t.block_index = m + 2
    BY <1>9 DEF OwnBlocks
  <2> QED BY <1>8, <1>10, <2>1, <2>2, <2>3 DEF Fits
<1>12. PrepWaits(c1, h.ops) BY DEF WithBody, OwnBlocks
<1>13. Registered(h, p, n + 1) BY RegisteredKept DEF WithBody, OwnBlocks
<1>14. h.unique \in Nat /\ g.unique <= h.unique BY <1>1 DEF WithBody, OwnBlocks
<1>15. \A q \in h.pending_jumps : q \in g.pending_jumps \/ ~IsUnique(q) \/ Owner(q, c1, m, h)
  <2>1. \A q : Owner(q, c1, m, x) => Owner(q, c1, m, h) BY <1>1, <1>7, OwnerSame
  <2> QED BY <2>1 DEF WithBody, OwnBlocks
<1>16. \A l \in L : Awaits(c1, l) /\ c1.kind # "forin" /\ Bottom(h, m + 1) = StackTop(g)
  BY <1>7 DEF Awaits, HasState, OwnBlocks, AwaitsNew
<1> HIDE DEF m
<1>17. Len(g.blocks) = m BY DEF m
<1>18. \A l : Awaits(c1, l) => l \in L \/ (l \in UniqueLabels /\ g.unique <= l.id /\ l.id < h.unique)
  BY DEF AwaitsNew, FreshIn
<1>19. p[n + 1] = c1 BY DEF Longer
<1> QED BY <1>2, <1>6, <1>11, <1>12, <1>13, <1>14, <1>15, <1>16, <1>17, <1>18, <1>19, OpenLaid

(* Two functions with the same blocks, jumps and instructions. *)
SameCode(x, y) ==
    /\ Grown(x, y) /\ y.blocks = x.blocks /\ StackTop(y) = StackTop(x) /\ y.locals = x.locals
    /\ y.pending_jumps = x.pending_jumps /\ Targets(y) = Targets(x) /\ y.ops = x.ops
    /\ x.unique <= y.unique /\ y.unique \in Nat /\ y.error = x.error

LEMMA SameRenumbered ==
    ASSUME NEW x, Regular(x), Sound(x), x.unique \in Nat, NEW k \in Nat
    PROVE  SameCode(x, Renumbered(x, k))
<1>1. Renumbered(x, k).unique = x.unique + k BY GrownRenumber
<1>2. x.unique <= x.unique + k /\ x.unique + k \in Nat OBVIOUS
<1> QED BY <1>1, <1>2, GrownRenumber DEF SameCode

LEMMA SameSelf ==
    ASSUME NEW x, Regular(x), Sound(x), x.unique \in Nat
    PROVE  SameCode(x, x)
<1>1. Grown(x, x) BY BeyondSelf, RegularParts DEF Grown
<1> QED BY <1>1 DEF SameCode

(* The block of the body is entered, or there is none. *)
LEMMA BodyEntered ==
    ASSUME NEW x, Regular(x), Sound(x), NEW y, SameCode(x, y), NEW c1
    PROVE  /\ c1.ret \/ c1.kind = "repeat" => WithBody(x, y, c1)
           /\ ~(c1.ret \/ c1.kind = "repeat") => WithBody(x, EnterBlock(y), c1)
<1>1. Grown(x, y) /\ Regular(y) /\ Sound(y) BY DEF SameCode, Grown
<1>2. ASSUME c1.ret \/ c1.kind = "repeat" PROVE WithBody(x, y, c1)
  BY <1>2 DEF WithBody, SameCode, Bottom
<1>3. ASSUME ~(c1.ret \/ c1.kind = "repeat") PROVE WithBody(x, EnterBlock(y), c1)
  <2> DEFINE h == EnterBlock(y)
  <2>1. /\ Grown(y, h) /\ StackTop(h) = StackTop(y)
        /\ Len(h.blocks) = Len(y.blocks) + 1
        /\ \A i \in 1..Len(y.blocks) : Bottom(h, i) = Bottom(y, i)
        /\ Bottom(h, Len(y.blocks) + 1) = StackTop(y)
        /\ h.locals = y.locals /\ h.unique = y.unique
        /\ h.pending_jumps = y.pending_jumps /\ Targets(h) = Targets(y) /\ h.ops = y.ops
    BY <1>1, GrownEnter
  <2>2. Grown(x, h) BY <1>1, <2>1, GrownTrans
  <2>3. \A i : Bottom(y, i) = Bottom(x, i) BY DEF SameCode, Bottom
  <2> HIDE DEF h
  <2>4. WithBody(x, h, c1) BY <1>3, <2>1, <2>2, <2>3 DEF WithBody, SameCode
  <2> QED BY <2>4 DEF h
<1> QED BY <1>2, <1>3

(* A test, the jump over the body and the block of the construct. *)
LEMMA TestEntered ==
    ASSUME NEW y, Regular(y), Sound(y), Len(y.blocks) > 0, StackTop(y) < Registers, NEW label \in JumpLabels
    PROVE  LET x == EnterBlock(TestElse(y, label))
           IN  /\ Grown(y, x) /\ Len(x.blocks) = Len(y.blocks) + 1 /\ StackTop(x) = StackTop(y)
               /\ Bottom(x, Len(y.blocks) + 1) = StackTop(y)
               /\ x.locals = y.locals /\ x.unique = y.unique /\ x.error = y.error
               /\ \A q \in x.pending_jumps :
                     \/ q \in y.pending_jumps
                     \/ q.target = label /\ q.block_index = Len(y.blocks) /\ q.stack_top = StackTop(y)
<1> DEFINE t == WithTemp(y, Instr("test", {}))
           j == Jump(t, label)
           x == EnterBlock(j)
<1>1. /\ Grown(y, t) /\ t.blocks = y.blocks /\ StackTop(t) = StackTop(y) /\ t.locals = y.locals
      /\ t.unique = y.unique /\ t.error = y.error /\ t.pending_jumps = y.pending_jumps
  <2>1. Instr("test", {}) \in Instrs /\ Instr("test", {}).op # "jump" BY TestTyped
  <2> QED BY <2>1, GrownTemp
<1>2. Regular(t) /\ Sound(t) BY <1>1 DEF Grown
<1>3. /\ Grown(t, j) /\ j.blocks = t.blocks /\ StackTop(j) = StackTop(t)
      /\ j.locals = t.locals /\ j.unique = t.unique /\ j.error = t.error
      /\ \A p \in j.pending_jumps :
            \/ p \in t.pending_jumps
            \/ p.target = label /\ p.block_index = Len(t.blocks) /\ p.stack_top = StackTop(t)
  <2> HIDE DEF t
  <2> QED BY <1>1, <1>2, GrownJump
<1>4. Regular(j) /\ Sound(j) BY <1>3 DEF Grown
<1>5. /\ Grown(j, x) /\ StackTop(x) = StackTop(j)
      /\ Len(x.blocks) = Len(j.blocks) + 1
      /\ Bottom(x, Len(j.blocks) + 1) = StackTop(j)
      /\ x.locals = j.locals /\ x.unique = j.unique /\ x.error = j.error
      /\ x.pending_jumps = j.pending_jumps
  <2> HIDE DEF j
  <2> QED BY <1>4, GrownEnter
<1>6. x = EnterBlock(TestElse(y, label)) BY DEF TestElse
<1> HIDE DEF x, j, t
<1>7. Grown(y, x) BY <1>1, <1>2, <1>3, <1>5, GrownTrans
<1> QED BY <1>1, <1>3, <1>5, <1>6, <1>7

(* What the construct around declares stays registered. *)
LEMMA RegisteredStateless ==
    ASSUME NEW g, NEW o, NEW n \in Nat, Registered(g, o, n), NEW x, x.locals = g.locals, StackTop(x) = StackTop(g),
           NEW p, \A c \in 1..n : p[c] = o[c], ~HasState(p[n + 1])
    PROVE  Registered(x, p, n + 1)
BY RegisteredKept, RegisteredMore

LEMMA TargetStays ==
    ASSUME NEW y, Regular(y), NEW x, Grown(y, x), NEW t \in Targets(y)
    PROVE  t \in Targets(x)
<1>1. t.block_index <= Len(y.blocks)
  <2>1. t.block_index \in 1..Len(y.blocks) BY ItemsTyped DEF Items
  <2> QED BY <2>1
<1> QED BY <1>1 DEF Grown, Beyond

LEMMA PositionsExist ==
    ASSUME NEW o, NEW at, NEW n \in Nat, NEW m, NEW p, NEW c1, Longer(o, n, p, c1)
    PROVE  \E as : OneMore(o, at, n, m, p, as)
<1> DEFINE as == [c \in 1..n + 1 |-> IF c = n + 1 THEN m ELSE at[c]]
<1>1. \A c \in 1..n : c \in 1..n + 1 /\ c # n + 1 OBVIOUS
<1>2. n + 1 \in 1..n + 1 OBVIOUS
<1>3. (\A c \in 1..n : as[c] = at[c]) /\ as[n + 1] = m BY <1>1, <1>2
<1> HIDE DEF as
<1>4. OneMore(o, at, n, m, p, as) BY <1>3 DEF OneMore, Longer
<1> QED BY <1>4

(* The start of a construct that keeps no state, up to the block of its body. *)
StartsAs(g, x, c1) ==
    /\ Grown(g, x) /\ Len(x.blocks) = Len(g.blocks) + 1
    /\ Bottom(x, Len(g.blocks) + 1) = StackTop(g) /\ StackTop(x) = StackTop(g)
    /\ x.locals = g.locals /\ g.unique <= x.unique /\ x.unique \in Nat
    /\ c1.kind = "while" => \E t \in Targets(x) : t.label = c1.labels[1] /\ t.block_index = Len(g.blocks)
    /\ \A q \in x.pending_jumps :
          \/ q \in g.pending_jumps
          \/ Awaits(c1, q.target) /\ q.block_index = Len(g.blocks) /\ q.stack_top = StackTop(g)

LEMMA StartOwns ==
    ASSUME NEW g, NEW o, NEW at, NEW n, NEW L, Ready(g, o, at, n, L),
           NEW c1, ~HasState(c1), c1.kind # "repeat", NEW p, Longer(o, n, p, c1), NEW x, StartsAs(g, x, c1)
    PROVE  OwnBlocks(g, x, c1, p, n)
<1> DEFINE m == Len(g.blocks)
<1>1. n \in Nat /\ m \in Nat BY ReadyFacts
<1>2. c1.kind # "forin" /\ c1.kind # "for" BY DEF HasState
<1>3. Registered(x, p, n + 1)
  <2>1. Registered(g, o, n) BY DEF Ready
  <2>2. ~HasState(p[n + 1]) /\ \A c \in 1..n : p[c] = o[c] BY DEF Longer
  <2>3. x.locals = g.locals /\ StackTop(x) = StackTop(g) BY DEF StartsAs
  <2> QED BY <1>1, <2>1, <2>2, <2>3, RegisteredStateless
<1>4. ASSUME NEW q \in x.pending_jumps PROVE q \in g.pending_jumps \/ Owner(q, c1, m, x)
  <2>1. CASE q \in g.pending_jumps BY <2>1
  <2>2. CASE Awaits(c1, q.target) /\ q.block_index = m /\ q.stack_top = StackTop(g)
    <3>1. Bottom(x, m + 1) = StackTop(g) BY DEF StartsAs
    <3> QED BY <1>2, <2>2, <3>1 DEF Owner
  <2> QED BY <2>1, <2>2 DEF StartsAs
<1>5. PrepWaits(c1, x.ops) BY <1>2 DEF PrepWaits
<1> QED BY <1>3, <1>4, <1>5 DEF OwnBlocks, StartsAs

(* The construct is open: the walk goes on in its body. *)
Opening(g, h, p, n) ==
    /\ Sound(h)
    /\ Ok(h) => (\E as : Laid(h, p, as, n + 1)) /\ StackTop(h) <= StackTop(g) + 4

LEMMA StartOpens ==
    ASSUME NEW g, NEW o, NEW at, NEW n, NEW L, Ready(g, o, at, n, L),
           NEW c1, Typed(c1), c1.kind # "chunk", c1.at = "body",
           NEW p, Longer(o, n, p, c1), NEW x, OwnBlocks(g, x, c1, p, n), StackTop(x) <= StackTop(g) + 4,
           NEW y, SameCode(x, y),
           AwaitsNew(c1, L, g, y)
    PROVE  /\ c1.ret \/ c1.kind = "repeat" => Opening(g, y, p, n)
           /\ ~(c1.ret \/ c1.kind = "repeat") => Opening(g, EnterBlock(y), p, n)
<1>1. n \in Nat /\ Len(g.blocks) \in Nat BY ReadyFacts
<1>2. PICK as : OneMore(o, at, n, Len(g.blocks), p, as) BY <1>1, PositionsExist
<1>3. Regular(x) /\ Sound(x) BY DEF OwnBlocks, Grown
<1>5. ASSUME NEW h, WithBody(x, h, c1), h.unique = y.unique PROVE Opening(g, h, p, n)
  <2>1. AwaitsNew(c1, L, g, h) BY <1>5 DEF AwaitsNew, FreshIn
  <2>3. Laid(h, p, as, n + 1) BY <1>2, <1>5, <2>1, BodyLaid
  <2>4. Sound(h) /\ StackTop(h) = StackTop(x) BY <1>5 DEF WithBody, Grown
  <2> QED BY <2>3, <2>4 DEF Opening
<1>6. Regular(y) /\ Sound(y) BY DEF SameCode, Grown
<1>7. EnterBlock(y).unique = y.unique BY <1>6, GrownEnter
<1> QED BY <1>3, <1>5, <1>7, BodyEntered

LEMMA PlainStart ==
    ASSUME NEW g, NEW o, NEW at, NEW n, NEW L, Ready(g, o, at, n, L), NEW c1, c1.kind # "while"
    PROVE  StartsAs(g, EnterBlock(g), c1)
<1> DEFINE x == EnterBlock(g)
<1>1. Regular(g) /\ Sound(g) /\ g.unique \in Nat BY ReadyFacts
<1>2. /\ Grown(g, x) /\ StackTop(x) = StackTop(g) /\ Len(x.blocks) = Len(g.blocks) + 1
      /\ Bottom(x, Len(g.blocks) + 1) = StackTop(g)
      /\ x.locals = g.locals /\ x.unique = g.unique /\ x.pending_jumps = g.pending_jumps
  BY <1>1, GrownEnter
<1> HIDE DEF x
<1>3. g.unique <= x.unique /\ x.unique \in Nat BY <1>1, <1>2
<1>4. StartsAs(g, x, c1) BY <1>2, <1>3 DEF StartsAs
<1> QED BY <1>4 DEF x

(* The start of while and if: a label, a test, a jump to the end. *)
LEMMA TestStart ==
    ASSUME NEW g, NEW o, NEW at, NEW n, NEW L, Ready(g, o, at, n, L), StackTop(g) < Registers,
           NEW c1, Awaits(c1, Unique(g.unique + 1)), c1.kind = "while" => c1.labels[1] = Unique(g.unique)
    PROVE  LET x == EnterBlock(TestElse(JumpTarget(g, Unique(g.unique)), Unique(g.unique + 1)))
           IN  Sound(x) /\ Regular(x) /\ (Ok(x) => StartsAs(g, x, c1)) /\ x.unique = g.unique
<1> DEFINE start == Unique(g.unique)
           done == Unique(g.unique + 1)
           t == JumpTarget(g, start)
           x == EnterBlock(TestElse(t, done))
           m == Len(g.blocks)
<1>1. /\ Regular(g) /\ Sound(g) /\ g.unique \in Nat /\ m \in Nat /\ m > 0 /\ StackTop(g) \in Nat BY ReadyFacts
<1>2. /\ start \in JumpLabels /\ \A p \in g.pending_jumps : p.target # start
  <2>1. /\ Unique(g.unique + 0) \in JumpLabels /\ \A p \in g.pending_jumps : p.target # Unique(g.unique + 0)
    BY FreshLabel
  <2>2. g.unique + 0 = g.unique BY <1>1
  <2> QED BY <2>1, <2>2
<1>3. done \in JumpLabels BY FreshLabel
<1>4. Patchable(g, start) BY <1>2 DEF Patchable, Here, Resolves
<1> HIDE DEF start, done
<1>5. /\ Grown(g, t) /\ t.blocks = g.blocks /\ StackTop(t) = StackTop(g)
      /\ t.locals = g.locals /\ t.unique = g.unique
      /\ Ok(t) => /\ Ok(g) /\ t.pending_jumps \subseteq g.pending_jumps
                  /\ TargetAt(g, start) \in Targets(t)
  BY <1>1, <1>2, <1>4, GrownTarget
<1>6. Regular(t) /\ Sound(t) BY <1>5 DEF Grown
<1> HIDE DEF t
<1>7. /\ Grown(t, x) /\ Len(x.blocks) = Len(t.blocks) + 1 /\ StackTop(x) = StackTop(t)
      /\ Bottom(x, Len(t.blocks) + 1) = StackTop(t)
      /\ x.locals = t.locals /\ x.unique = t.unique /\ x.error = t.error
      /\ \A q \in x.pending_jumps :
            \/ q \in t.pending_jumps
            \/ q.target = done /\ q.block_index = Len(t.blocks) /\ q.stack_top = StackTop(t)
  BY <1>1, <1>3, <1>5, <1>6, TestEntered
<1> HIDE DEF x
<1>8. Grown(g, x) BY <1>1, <1>5, <1>7, GrownTrans
<1>9. ASSUME Ok(x) PROVE StartsAs(g, x, c1)
  <2>1. Ok(t) BY <1>7, <1>9 DEF Ok
  <2>2. TargetAt(g, start) \in Targets(x) BY <1>5, <1>6, <1>7, <2>1, TargetStays
  <2>3. TargetAt(g, start).label = start /\ TargetAt(g, start).block_index = m BY DEF TargetAt
  <2>4. c1.kind = "while" => \E u \in Targets(x) : u.label = c1.labels[1] /\ u.block_index = m
    BY <2>2, <2>3 DEF start
  <2>5. Awaits(c1, done) BY DEF done
  <2>6. g.unique <= x.unique /\ x.unique \in Nat BY <1>1, <1>5, <1>7
  <2> QED BY <1>5, <1>7, <1>8, <2>1, <2>4, <2>5, <2>6 DEF StartsAs
<1>10. Sound(x) /\ Regular(x) BY <1>8 DEF Grown
<1>11. x.unique = g.unique BY <1>5, <1>7
<1>12. Sound(x) /\ Regular(x) /\ (Ok(x) => StartsAs(g, x, c1)) /\ x.unique = g.unique BY <1>9, <1>10, <1>11
<1> QED BY <1>12 DEF x, t, start, done

(* The start of a loop that keeps state. *)
LoopVariable(g, i) == PushRegisters(EnterBlock(EnterBlock(Emit(PushRegisters(g, 3), i))), 1)
LoopState(g, i) == DeclareLocal(LoopVariable(g, i), StackTop(g) + 3)

LEMMA LoopVariableFacts ==
    ASSUME NEW g, Regular(g), Sound(g), NEW i \in Instrs, i.op # "jump", StackTop(g) + 4 < Registers
    PROVE  LET x == LoopVariable(g, i)
               m == Len(g.blocks)
           IN  /\ Grown(g, x) /\ Len(x.blocks) = m + 2 /\ StackTop(x) = StackTop(g) + 4
               /\ Bottom(x, m + 1) = StackTop(g) + 3 /\ Bottom(x, m + 2) = StackTop(g) + 3
               /\ x.locals = g.locals /\ x.unique = g.unique /\ x.error = g.error
               /\ x.pending_jumps = g.pending_jumps /\ Targets(x) = Targets(g)
               /\ x.ops = Append(g.ops, i)
<1> DEFINE m == Len(g.blocks)
           h == PushRegisters(g, 3)
           e == Emit(h, i)
           b == EnterBlock(e)
           c == EnterBlock(b)
           x == PushRegisters(c, 1)
<1>1. StackTop(g) \in Nat /\ m \in Nat /\ Registers \in Nat BY RegularParts, RegistersAssumption
<1>2. /\ Grown(g, h) /\ h.blocks = g.blocks /\ StackTop(h) = StackTop(g) + 3
      /\ h.locals = g.locals /\ h.unique = g.unique /\ h.error = g.error
      /\ h.pending_jumps = g.pending_jumps /\ h.jump_targets = g.jump_targets /\ h.ops = g.ops
  <2>1. 3 \in Nat \ {0} /\ StackTop(g) + 3 < Registers BY <1>1
  <2> QED BY <2>1, GrownPush
<1> HIDE DEF h
<1>3. /\ Grown(h, e) /\ e.blocks = h.blocks /\ StackTop(e) = StackTop(h)
      /\ e.locals = h.locals /\ e.unique = h.unique /\ e.error = h.error
      /\ e.pending_jumps = h.pending_jumps /\ e.ops = Append(h.ops, i) /\ e.jump_targets = h.jump_targets
  <2>1. Regular(h) /\ Sound(h) BY <1>2 DEF Grown
  <2> QED BY <2>1, GrownEmit
<1> HIDE DEF e
<1>4. /\ Grown(e, b) /\ StackTop(b) = StackTop(e)
      /\ Len(b.blocks) = Len(e.blocks) + 1
      /\ Bottom(b, Len(e.blocks) + 1) = StackTop(e)
      /\ b.locals = e.locals /\ b.unique = e.unique /\ b.error = e.error
      /\ b.pending_jumps = e.pending_jumps /\ Targets(b) = Targets(e) /\ b.ops = e.ops
  <2>1. Regular(e) /\ Sound(e) BY <1>3 DEF Grown
  <2> QED BY <2>1, GrownEnter
<1> HIDE DEF b
<1>5. /\ Grown(b, c) /\ StackTop(c) = StackTop(b)
      /\ Len(c.blocks) = Len(b.blocks) + 1
      /\ \A k \in 1..Len(b.blocks) : Bottom(c, k) = Bottom(b, k)
      /\ Bottom(c, Len(b.blocks) + 1) = StackTop(b)
      /\ c.locals = b.locals /\ c.unique = b.unique /\ c.error = b.error
      /\ c.pending_jumps = b.pending_jumps /\ Targets(c) = Targets(b) /\ c.ops = b.ops
  <2>1. Regular(b) /\ Sound(b) BY <1>4 DEF Grown
  <2> QED BY <2>1, GrownEnter
<1> HIDE DEF c
<1>6. Len(b.blocks) = m + 1 /\ Len(c.blocks) = m + 2 /\ Bottom(b, m + 1) = StackTop(g) + 3
      /\ Bottom(c, m + 2) = StackTop(g) + 3 /\ StackTop(c) = StackTop(g) + 3
  BY <1>1, <1>2, <1>3, <1>4, <1>5
<1>7. Bottom(c, m + 1) = StackTop(g) + 3
  <2>1. m + 1 \in 1..Len(b.blocks) BY <1>1, <1>6
  <2> QED BY <1>5, <1>6, <2>1
<1>8. /\ Grown(c, x) /\ x.blocks = c.blocks /\ StackTop(x) = StackTop(c) + 1
      /\ x.locals = c.locals /\ x.unique = c.unique /\ x.error = c.error
      /\ x.pending_jumps = c.pending_jumps /\ x.jump_targets = c.jump_targets /\ x.ops = c.ops
  <2>1. 1 \in Nat \ {0} /\ StackTop(c) + 1 < Registers BY <1>1, <1>6
  <2>2. Regular(c) /\ Sound(c) BY <1>5 DEF Grown
  <2> QED BY <2>1, <2>2, GrownPush
<1>9. Grown(g, x)
  <2>1. Grown(g, e) BY <1>2, <1>3, GrownTrans
  <2>2. Grown(g, b) BY <1>4, <2>1, GrownTrans
  <2>3. Grown(g, c) BY <1>5, <2>2, GrownTrans
  <2> QED BY <1>8, <2>3, GrownTrans
<1>10. x = LoopVariable(g, i) BY DEF LoopVariable, x, c, b, e, h
<1> HIDE DEF x
<1>11. Targets(x) = Targets(g)
  <2>1. Targets(x) = Targets(c) BY <1>8 DEF Targets
  <2>2. Targets(e) = Targets(g) BY <1>2, <1>3 DEF Targets
  <2> QED BY <1>4, <1>5, <2>1, <2>2
<1>12. StackTop(x) = StackTop(g) + 4 BY <1>1, <1>6, <1>8
<1>13. Len(x.blocks) = m + 2 /\ Bottom(x, m + 1) = StackTop(g) + 3 /\ Bottom(x, m + 2) = StackTop(g) + 3
  BY <1>6, <1>7, <1>8 DEF Bottom
<1>14. x.ops = Append(g.ops, i) BY <1>2, <1>3, <1>4, <1>5, <1>8
<1>15. /\ x.locals = g.locals /\ x.unique = g.unique /\ x.error = g.error
       /\ x.pending_jumps = g.pending_jumps
  BY <1>2, <1>3, <1>4, <1>5, <1>8
<1> QED BY <1>9, <1>10, <1>11, <1>12, <1>13, <1>14, <1>15

LEMMA LoopStateFacts ==
    ASSUME NEW g, Regular(g), Sound(g), NEW i \in Instrs, i.op # "jump", StackTop(g) + 4 < Registers
    PROVE  LET x == LoopState(g, i)
               m == Len(g.blocks)
           IN  /\ Grown(g, x) /\ Len(x.blocks) = m + 2 /\ StackTop(x) = StackTop(g) + 4
               /\ Bottom(x, m + 1) = StackTop(g) + 3 /\ Bottom(x, m + 2) = StackTop(g) + 3
               /\ x.unique = g.unique /\ x.error = g.error
               /\ x.pending_jumps = g.pending_jumps /\ Targets(x) = Targets(g)
               /\ x.ops = Append(g.ops, i)
               /\ \A s : IsLocal(x.locals, s) <=> (IsLocal(g.locals, s) \/ s = StackTop(g) + 3)
<1> DEFINE m == Len(g.blocks)
           y == LoopVariable(g, i)
           r == StackTop(g) + 3
           x == DeclareLocal(y, r)
<1>1. /\ Grown(g, y) /\ Len(y.blocks) = m + 2 /\ StackTop(y) = StackTop(g) + 4
      /\ Bottom(y, m + 1) = StackTop(g) + 3 /\ Bottom(y, m + 2) = StackTop(g) + 3
      /\ y.locals = g.locals /\ y.unique = g.unique /\ y.error = g.error
      /\ y.pending_jumps = g.pending_jumps /\ Targets(y) = Targets(g)
      /\ y.ops = Append(g.ops, i)
  BY LoopVariableFacts
<1> HIDE DEF y
<1>2. StackTop(g) \in Nat BY RegularParts
<1>3. \A k \in 1..Len(y.locals) : y.locals[k].reg < r
  <2>1. \A k \in 1..Len(g.locals) : g.locals[k].reg < StackTop(g) /\ g.locals[k].reg \in Nat
    BY RegularParts DEF Regular, Rising
  <2> QED BY <1>1, <1>2, <2>1
<1>12. \A p \in y.pending_jumps : p.stack_top <= r
  <2>1. \A p \in g.pending_jumps : p.stack_top <= StackTop(g) /\ p.stack_top \in Nat
    BY RegularParts DEF Regular, JumpsWait, Placed
  <2> QED BY <1>1, <1>2, <2>1
<1>4. r \in Nat /\ r < StackTop(y) BY <1>1, <1>2
<1>5. Regular(y) /\ Sound(y) BY <1>1 DEF Grown
<1>13. Behind(y)
  <2>1. \A j \in 1..Len(y.jump_targets) : \E k \in 1..Len(g.jump_targets) :
           y.jump_targets[j] = g.jump_targets[k]
    BY <1>1 DEF Targets
  <2> QED BY <1>1, <2>1, EmitBehind
<1> HIDE DEF r
<1>6. /\ Grown(y, x) /\ x.blocks = y.blocks /\ StackTop(x) = StackTop(y)
      /\ x.unique = y.unique /\ x.error = y.error
      /\ x.pending_jumps = y.pending_jumps /\ x.jump_targets = y.jump_targets /\ x.ops = y.ops
      /\ \A s : IsLocal(x.locals, s) <=> (IsLocal(y.locals, s) \/ s = r)
  BY <1>3, <1>4, <1>5, <1>12, <1>13, GrownDeclare
<1>7. x = LoopState(g, i) BY DEF LoopState, x, y, r
<1> HIDE DEF x
<1>8. Grown(g, x) BY <1>1, <1>6, GrownTrans
<1>9. Targets(x) = Targets(y) BY <1>6 DEF Targets
<1>10. Bottom(x, m + 1) = StackTop(g) + 3 /\ Bottom(x, m + 2) = StackTop(g) + 3 BY <1>1, <1>6 DEF Bottom
<1>11. \A s : IsLocal(x.locals, s) <=> (IsLocal(g.locals, s) \/ s = StackTop(g) + 3) BY <1>1, <1>6 DEF r
<1> QED BY <1>1, <1>6, <1>7, <1>8, <1>9, <1>10, <1>11

(* The registers of the state are the construct's, the variable is a local. *)
LEMMA LoopRegistered ==
    ASSUME NEW g, NEW o, NEW at, NEW n, NEW L, Ready(g, o, at, n, L),
           NEW c1, HasState(c1), c1.labels[1] = StackTop(g), NEW p, Longer(o, n, p, c1),
           NEW x, StackTop(x) = StackTop(g) + 4,
           \A s : IsLocal(x.locals, s) <=> (IsLocal(g.locals, s) \/ s = StackTop(g) + 3)
    PROVE  Registered(x, p, n + 1)
<1> DEFINE top == StackTop(g)
<1>1. /\ Regular(g) /\ top \in Nat /\ n \in Nat \ {0} /\ Len(g.blocks) \in Nat /\ Len(g.blocks) > 0 BY ReadyFacts
<1>2. Below(o, n, top)
  <2> DEFINE i == Len(g.blocks)
  <2>1. Held(g, o, at, n, Len(g.blocks)) /\ Regular(g) BY DEF Ready
  <2>2. i \in at[n] + 1..Len(g.blocks)
    <3>1. at[n] \in Nat /\ at[n] < Len(g.blocks) BY <2>1, HeldRange
    <3> QED BY <1>1, <3>1
  <2> HIDE DEF i
  <2>3. Below(o, n, Bottom(g, i)) /\ Bottom(g, i) \in Nat /\ Bottom(g, i) <= top BY <2>1, <2>2, HeldBelow
  <2> HIDE DEF top
  <2> QED BY <1>1, <2>3 DEF Below
<1>3. ASSUME NEW r, IsLocal(g.locals, r) PROVE r < top
  <2>1. \A k \in 1..Len(g.locals) : g.locals[k].reg < StackTop(g) BY <1>1 DEF Regular, Rising
  <2>2. PICK k \in 1..Len(g.locals) : g.locals[k].reg = r BY <1>3 DEF IsLocal
  <2> QED BY <2>1, <2>2
<1>4. Registered(g, o, n) BY DEF Ready
<1>5. ASSUME NEW r \in Nat PROVE Reserved(c1, r) <=> (top <= r /\ r < top + 3) BY DEF Reserved
<1>6. ASSUME NEW r \in Nat
      PROVE  (\E c \in 1..n + 1 : Reserved(p[c], r)) <=> (Reserved(c1, r) \/ \E c \in 1..n : Reserved(o[c], r))
  <2>1. \A c \in 1..n : c \in 1..n + 1 /\ p[c] = o[c] BY <1>1 DEF Longer
  <2>2. n + 1 \in 1..n + 1 /\ p[n + 1] = c1 BY <1>1 DEF Longer
  <2>3. \A c \in 1..n + 1 : c = n + 1 \/ c \in 1..n BY <1>1
  <2> QED BY <2>1, <2>2, <2>3
<1> HIDE DEF top
<1>7. ASSUME NEW r \in Nat, r < top + 4
      PROVE  IsLocal(x.locals, r) <=> ~\E c \in 1..n + 1 : Reserved(p[c], r)
  <2>1. IsLocal(x.locals, r) <=> (IsLocal(g.locals, r) \/ r = top + 3) BY DEF top
  <2>2. CASE r < top
    <3>1. ~Reserved(c1, r) /\ r # top + 3 BY <1>1, <1>5, <2>2
    <3>2. IsLocal(g.locals, r) <=> ~\E c \in 1..n : Reserved(o[c], r) BY <1>4, <2>2 DEF Registered, top
    <3> QED BY <1>6, <2>1, <3>1, <3>2
  <2>3. CASE top <= r /\ r < top + 3
    <3>1. Reserved(c1, r) /\ r # top + 3 /\ ~(r < top) BY <1>1, <1>5, <2>3
    <3> QED BY <1>3, <1>6, <2>1, <3>1
  <2>4. CASE r = top + 3
    <3>1. ~Reserved(c1, r) /\ ~(r < top) BY <1>1, <1>5, <2>4
    <3>2. \A c \in 1..n : ~Reserved(o[c], r) BY <1>2, <3>1 DEF Below
    <3> QED BY <1>6, <2>1, <2>4, <3>1, <3>2
  <2> QED BY <1>1, <1>7, <2>2, <2>3, <2>4
<1> QED BY <1>7 DEF Registered, top

(* x is the function after the first steps of the construct c1. *)
Begun(g, x, c1, p, n) ==
    /\ Regular(x) /\ Sound(x) /\ x.unique = g.unique
    /\ Ok(x) => OwnBlocks(g, x, c1, p, n) /\ StackTop(x) <= StackTop(g) + 4

LEMMA StartBegun ==
    ASSUME NEW g, NEW o, NEW at, NEW n, NEW L, Ready(g, o, at, n, L),
           NEW c1, ~HasState(c1), c1.kind # "repeat", NEW p, Longer(o, n, p, c1),
           NEW x, Regular(x), Sound(x), Ok(x) => StartsAs(g, x, c1), x.unique = g.unique
    PROVE  Begun(g, x, c1, p, n)
<1>1. StackTop(g) \in Nat BY ReadyFacts
<1>2. ASSUME Ok(x) PROVE OwnBlocks(g, x, c1, p, n) /\ StackTop(x) <= StackTop(g) + 4
  <2>1. StartsAs(g, x, c1) BY <1>2
  <2>2. OwnBlocks(g, x, c1, p, n) BY <2>1, StartOwns
  <2>3. StackTop(x) = StackTop(g) BY <2>1 DEF StartsAs
  <2> QED BY <1>1, <2>2, <2>3
<1> QED BY <1>2 DEF Begun

LEMMA RepeatBegun ==
    ASSUME NEW g, NEW o, NEW at, NEW n, NEW L, Ready(g, o, at, n, L),
           NEW c1, c1.kind = "repeat", c1.labels[1] = Unique(g.unique), NEW p, Longer(o, n, p, c1)
    PROVE  Begun(g, JumpTarget(EnterBlock(EnterBlock(g)), Unique(g.unique)), c1, p, n)
<1> DEFINE start == Unique(g.unique)
           b == EnterBlock(g)
           c == EnterBlock(b)
           x == JumpTarget(c, start)
           m == Len(g.blocks)
<1>1. /\ Regular(g) /\ Sound(g) /\ g.unique \in Nat /\ m \in Nat /\ m > 0 /\ StackTop(g) \in Nat /\ n \in Nat
  BY ReadyFacts
<1>2. start \in JumpLabels /\ \A p1 \in g.pending_jumps : p1.target # start
  <2>1. /\ Unique(g.unique + 0) \in JumpLabels /\ \A p1 \in g.pending_jumps : p1.target # Unique(g.unique + 0)
    BY FreshLabel
  <2>2. g.unique + 0 = g.unique BY <1>1
  <2> QED BY <2>1, <2>2
<1>3. /\ Grown(g, b) /\ StackTop(b) = StackTop(g) /\ Len(b.blocks) = m + 1
      /\ Bottom(b, m + 1) = StackTop(g)
      /\ b.locals = g.locals /\ b.unique = g.unique /\ b.error = g.error
      /\ b.pending_jumps = g.pending_jumps
  BY <1>1, GrownEnter
<1> HIDE DEF b
<1>4. /\ Grown(b, c) /\ StackTop(c) = StackTop(b) /\ Len(c.blocks) = Len(b.blocks) + 1
      /\ \A k \in 1..Len(b.blocks) : Bottom(c, k) = Bottom(b, k)
      /\ Bottom(c, Len(b.blocks) + 1) = StackTop(b)
      /\ c.locals = b.locals /\ c.unique = b.unique /\ c.error = b.error
      /\ c.pending_jumps = b.pending_jumps
  <2>1. Regular(b) /\ Sound(b) BY <1>3 DEF Grown
  <2> QED BY <2>1, GrownEnter
<1>5. Regular(c) /\ Sound(c) BY <1>4 DEF Grown
<1> HIDE DEF c, start
<1>6. Len(c.blocks) = m + 2 /\ Bottom(c, m + 2) = StackTop(g) /\ Bottom(c, m + 1) = StackTop(g)
  <2>1. m + 1 \in 1..Len(b.blocks) BY <1>1, <1>3
  <2> QED BY <1>1, <1>3, <1>4, <2>1
<1>7. Patchable(c, start) BY <1>2, <1>3, <1>4 DEF Patchable, Here, Resolves
<1>8. /\ Grown(c, x) /\ x.blocks = c.blocks /\ StackTop(x) = StackTop(c)
      /\ x.locals = c.locals /\ x.unique = c.unique
      /\ Ok(x) => /\ Ok(c) /\ x.pending_jumps \subseteq c.pending_jumps
                  /\ TargetAt(c, start) \in Targets(x)
  <2>1. Len(c.blocks) > 0 BY <1>1, <1>6
  <2> QED BY <1>2, <1>5, <1>7, <2>1, GrownTarget
<1> HIDE DEF x
<1>9. Grown(g, x) /\ Regular(x) /\ Sound(x)
  <2>1. Grown(g, c) BY <1>1, <1>3, <1>4, GrownTrans
  <2>2. Grown(g, x) BY <1>1, <1>8, <2>1, GrownTrans
  <2> QED BY <2>2 DEF Grown
<1>10. x.unique = g.unique /\ StackTop(x) = StackTop(g) /\ x.locals = g.locals BY <1>3, <1>4, <1>8
<1>11. ASSUME Ok(x) PROVE OwnBlocks(g, x, c1, p, n)
  <2>1. ~HasState(c1) BY DEF HasState
  <2>2. Len(x.blocks) = m + 2 BY <1>6, <1>8
  <2>3. Bottom(x, m + 1) = StackTop(g) /\ Bottom(x, m + 2) = StackTop(g) BY <1>6, <1>8 DEF Bottom
  <2>4. \E t \in Targets(x) : t.label = c1.labels[1] /\ t.block_index = m + 2
    <3>1. TargetAt(c, start).label = start /\ TargetAt(c, start).block_index = m + 2 BY <1>6 DEF TargetAt
    <3>2. TargetAt(c, start) \in Targets(x) BY <1>8, <1>11
    <3>3. c1.labels[1] = start BY DEF start
    <3> QED BY <3>1, <3>2, <3>3
  <2>5. Registered(x, p, n + 1)
    <3>1. Registered(g, o, n) /\ ~HasState(p[n + 1]) /\ \A k \in 1..n : p[k] = o[k] BY <2>1 DEF Ready, Longer
    <3> QED BY <1>1, <1>10, <3>1, RegisteredStateless
  <2>6. PrepWaits(c1, x.ops) BY DEF PrepWaits
  <2>7. \A q \in x.pending_jumps : q \in g.pending_jumps BY <1>3, <1>4, <1>8, <1>11
  <2>8. g.unique <= x.unique /\ x.unique \in Nat BY <1>1, <1>10
  <2>9. c1.kind # "while" OBVIOUS
  <2> QED BY <1>9, <2>1, <2>2, <2>3, <2>4, <2>5, <2>6, <2>7, <2>8, <2>9 DEF OwnBlocks
<1>12. StackTop(x) <= StackTop(g) + 4 BY <1>1, <1>10
<1>13. Begun(g, x, c1, p, n) BY <1>9, <1>10, <1>11, <1>12 DEF Begun
<1> QED BY <1>13 DEF x, c, b, start

(* What is common to both loops with state. *)
LEMMA LoopOwns ==
    ASSUME NEW g, NEW o, NEW at, NEW n, NEW L, Ready(g, o, at, n, L), StackTop(g) + 4 < Registers,
           NEW c1, HasState(c1), c1.labels[1] = StackTop(g), NEW p, Longer(o, n, p, c1),
           NEW i \in Instrs, i.op # "jump", NEW x, Grown(LoopState(g, i), x),
           x.blocks = LoopState(g, i).blocks, StackTop(x) = StackTop(LoopState(g, i)),
           x.locals = LoopState(g, i).locals, x.unique = LoopState(g, i).unique,
           Targets(x) = Targets(g), PrepWaits(c1, x.ops),
           \A q \in x.pending_jumps :
               q \in g.pending_jumps \/ (Owner(q, c1, Len(g.blocks), x) /\ q.block_index > Len(g.blocks))
    PROVE  Begun(g, x, c1, p, n)
<1> DEFINE m == Len(g.blocks)
           y == LoopState(g, i)
           top == StackTop(g)
<1>1. /\ Regular(g) /\ Sound(g) /\ g.unique \in Nat /\ m \in Nat /\ m > 0 /\ top \in Nat /\ n \in Nat
      /\ \A k \in 1..m : Bottom(g, k) \in Nat /\ Bottom(g, k) <= top
  BY ReadyFacts
<1>2. /\ Grown(g, y) /\ Len(y.blocks) = m + 2 /\ StackTop(y) = top + 4
      /\ Bottom(y, m + 1) = top + 3 /\ Bottom(y, m + 2) = top + 3
      /\ y.unique = g.unique
      /\ \A s : IsLocal(y.locals, s) <=> (IsLocal(g.locals, s) \/ s = top + 3)
  BY <1>1, LoopStateFacts
<1> HIDE DEF y
<1>3. Grown(g, x) /\ Regular(x) /\ Sound(x)
  <2>1. Grown(y, x) BY DEF y
  <2>2. Grown(g, x) BY <1>1, <1>2, <2>1, GrownTrans
  <2> QED BY <2>2 DEF Grown
<1>4. x.blocks = y.blocks /\ StackTop(x) = top + 4 /\ x.locals = y.locals /\ x.unique = g.unique
  BY <1>2 DEF y
<1>5. Len(x.blocks) = m + 2 /\ Bottom(x, m + 1) = top + 3 /\ Bottom(x, m + 2) = top + 3
  BY <1>2, <1>4 DEF Bottom
<1>6. Registered(x, p, n + 1) BY <1>2, <1>4, LoopRegistered
<1>7. ASSUME NEW k \in 1..m PROVE Bottom(x, k) <= top
  <2>1. Bottom(x, k) = Bottom(g, k) BY <1>3, <1>7 DEF Grown, Beyond, Bottom
  <2> QED BY <1>1, <1>7, <2>1
<1>8. ASSUME NEW z \in Items(x), z.block_index <= m PROVE z.stack_top <= top
  <2>1. z \in Items(g)
    <3>1. CASE z \in Targets(x) BY <3>1 DEF Items
    <3>2. CASE z \in x.pending_jumps
      <4>1. CASE z \in g.pending_jumps BY <4>1 DEF Items
      <4>2. CASE z.block_index > m
        <5>1. z.block_index \in Nat BY <1>3, <1>8, ItemsTyped
        <5> QED BY <1>1, <1>8, <4>2, <5>1
      <4> QED BY <3>2, <4>1, <4>2
    <3> QED BY <1>8, <3>1, <3>2 DEF Items
  <2> QED BY <1>1, <2>1, ItemsTyped
<1>9. c1.kind # "while" /\ c1.kind # "repeat" BY DEF HasState
<1>10. \A q \in x.pending_jumps : q \in g.pending_jumps \/ Owner(q, c1, m, x) OBVIOUS
<1>11. g.unique <= x.unique /\ x.unique \in Nat BY <1>1, <1>4
<1>12. c1.labels[1] = top OBVIOUS
<1> HIDE DEF top
<1>13. OwnBlocks(g, x, c1, p, n)
  BY <1>3, <1>5, <1>6, <1>7, <1>8, <1>9, <1>10, <1>11, <1>12 DEF OwnBlocks
<1>14. StackTop(x) <= StackTop(g) + 4 BY <1>1, <1>4 DEF top
<1> QED BY <1>3, <1>4, <1>13, <1>14 DEF Begun

LEMMA ForBegun ==
    ASSUME NEW g, NEW o, NEW at, NEW n, NEW L, Ready(g, o, at, n, L), StackTop(g) + 4 < Registers,
           NEW c1, c1.kind = "for", c1.labels = OpenFor(g).labels, NEW p, Longer(o, n, p, c1)
    PROVE  /\ Begun(g, OpenFor(g).now, c1, p, n)
           /\ c1.labels[1] = StackTop(g) /\ c1.labels[2] \in Nat
<1> DEFINE top == StackTop(g)
           i == Instr("forprep", top..(top + 2))
           j == LoopVariable(g, i)
           x == LoopState(g, i)
           m == Len(g.blocks)
<1>1. /\ Regular(g) /\ Sound(g) /\ Ok(g) /\ top \in Nat /\ Len(g.ops) \in Nat /\ m \in Nat
  BY ReadyFacts DEF Ready
<1>2. i \in Instrs /\ i.op # "jump" BY <1>1, TestTyped
<1>3. j.error = g.error BY <1>1, <1>2, LoopVariableFacts
<1>4. Ok(j) BY <1>1, <1>3 DEF Ok
<1>5. OpenFor(g).now = x
  <2>1. j = PushRegisters(EnterBlock(EnterBlock(Emit(PushRegisters(g, 3), Instr("forprep", top..(top + 2))))), 1)
    BY DEF LoopVariable
  <2>2. x = DeclareLocal(j, top + 3) BY DEF LoopState
  <2>3. OpenFor(g).now = IF Ok(j) THEN DeclareLocal(j, top + 3) ELSE j BY <2>1 DEF OpenFor
  <2> QED BY <1>4, <2>2, <2>3
<1>6. OpenFor(g).labels = <<top, Len(g.ops) + 1>>
  <2>1. PushRegisters(g, 3).ops = g.ops
    <3>1. 3 \in Nat \ {0} /\ top + 3 < Registers BY <1>1, RegistersAssumption
    <3> QED BY <1>1, <3>1, GrownPush
  <2> QED BY <2>1 DEF OpenFor, Pc
<1>7. c1.labels[1] = top /\ c1.labels[2] = Len(g.ops) + 1 BY <1>6
<1> HIDE DEF i
<1>8. /\ Grown(g, x) /\ x.pending_jumps = g.pending_jumps /\ Targets(x) = Targets(g) /\ x.ops = Append(g.ops, i)
  BY <1>1, <1>2, LoopStateFacts
<1>9. Regular(x) /\ Sound(x) BY <1>8 DEF Grown
<1> HIDE DEF x
<1>10. Grown(x, x) BY <1>9, BeyondSelf, RegularParts DEF Grown
<1>11. PrepWaits(c1, x.ops)
  <2>1. g.ops \in Seq(Instrs) BY <1>1 DEF Regular
  <2>2. /\ Len(x.ops) = Len(g.ops) + 1 /\ x.ops[Len(g.ops) + 1] = i BY <1>2, <1>8, <2>1, Appended
  <2>3. Len(g.ops) + 1 \in 1..Len(x.ops) BY <1>1, <2>2
  <2>4. i = Instr("forprep", c1.labels[1]..(c1.labels[1] + 2)) BY <1>7 DEF i
  <2> QED BY <1>7, <2>2, <2>3, <2>4 DEF PrepWaits
<1>12. HasState(c1) BY DEF HasState
<1>13. Begun(g, x, c1, p, n)
  <2>1. \A q \in x.pending_jumps :
            q \in g.pending_jumps \/ (Owner(q, c1, Len(g.blocks), x) /\ q.block_index > Len(g.blocks))
    BY <1>8
  <2>2. c1.labels[1] = StackTop(g) BY <1>7
  <2>3. Grown(LoopState(g, i), x) /\ x = LoopState(g, i) BY <1>10 DEF x
  <2> QED BY <1>2, <1>8, <1>11, <1>12, <2>1, <2>2, <2>3, LoopOwns
<1> QED BY <1>1, <1>5, <1>7, <1>13

LEMMA ForInBegun ==
    ASSUME NEW g, NEW o, NEW at, NEW n, NEW L, Ready(g, o, at, n, L), StackTop(g) + 4 < Registers,
           NEW c1, c1.kind = "forin", c1.labels = OpenForIn(g).labels, NEW p, Longer(o, n, p, c1)
    PROVE  /\ Begun(g, OpenForIn(g).now, c1, p, n)
           /\ c1.labels[1] = StackTop(g) /\ c1.labels[2] \in Nat /\ c1.labels[3] = Unique(g.unique)
<1> DEFINE top == StackTop(g)
           i == Instr("write", top..(top + 2))
           v == LoopVariable(g, i)
           y == LoopState(g, i)
           first == Unique(g.unique)
           x == Jump(y, first)
           m == Len(g.blocks)
<1>1. /\ Regular(g) /\ Sound(g) /\ Ok(g) /\ top \in Nat /\ g.unique \in Nat /\ m \in Nat
  BY ReadyFacts DEF Ready
<1>2. i \in Instrs /\ i.op # "jump" BY <1>1, TestTyped
<1>3. v.error = g.error BY <1>1, <1>2, LoopVariableFacts
<1>4. Ok(v) BY <1>1, <1>3 DEF Ok
<1>5. OpenForIn(g).now = x /\ OpenForIn(g).labels = <<top, Pc(x), first>>
  <2>1. v = PushRegisters(EnterBlock(EnterBlock(Emit(PushRegisters(g, 3), Instr("write", top..(top + 2))))), 1)
    BY DEF LoopVariable
  <2>2. y = DeclareLocal(v, top + 3) BY DEF LoopState
  <2>3. /\ OpenForIn(g).now = IF Ok(v) THEN Jump(DeclareLocal(v, top + 3), first) ELSE v
        /\ OpenForIn(g).labels = <<top, Pc(IF Ok(v) THEN Jump(DeclareLocal(v, top + 3), first) ELSE v), first>>
    BY <2>1 DEF OpenForIn
  <2>4. x = IF Ok(v) THEN Jump(DeclareLocal(v, top + 3), first) ELSE v BY <1>4, <2>2
  <2> HIDE DEF x, v, first, top
  <2> QED BY <2>3, <2>4
<1>6. c1.labels[1] = top /\ c1.labels[2] = Pc(x) /\ c1.labels[3] = first
  <2> HIDE DEF x, first, top
  <2> QED BY <1>5
<1>7. first \in JumpLabels
  <2>1. Unique(g.unique + 0) \in JumpLabels BY FreshLabel
  <2>2. g.unique + 0 = g.unique BY <1>1
  <2> QED BY <2>1, <2>2
<1>8. /\ Grown(g, y) /\ Len(y.blocks) = m + 2 /\ y.pending_jumps = g.pending_jumps /\ Targets(y) = Targets(g)
  <2> HIDE DEF i
  <2> QED BY <1>1, <1>2, LoopStateFacts
<1>9. Regular(y) /\ Sound(y) /\ Len(y.blocks) > 0 BY <1>1, <1>8 DEF Grown
<1> HIDE DEF first, y
<1>10. /\ Grown(y, x) /\ x.blocks = y.blocks /\ StackTop(x) = StackTop(y)
       /\ x.locals = y.locals /\ x.unique = y.unique
       /\ \A q \in x.pending_jumps :
             \/ q \in y.pending_jumps
             \/ q.target = first /\ q.block_index = Len(y.blocks) /\ q.stack_top = StackTop(y)
       /\ Targets(x) = Targets(y)
  BY <1>7, <1>9, GrownJump
<1> HIDE DEF x
<1>11. Pc(x) \in Nat
  <2>1. Len(x.ops) \in Nat BY <1>10, RegularParts DEF Grown
  <2> QED BY <2>1 DEF Pc
<1>12. HasState(c1) BY DEF HasState
<1>13. ASSUME NEW q \in x.pending_jumps
       PROVE  q \in g.pending_jumps \/ (Owner(q, c1, m, x) /\ q.block_index > m)
  <2>1. CASE q \in y.pending_jumps BY <1>8, <2>1
  <2>2. CASE q.target = first /\ q.block_index = Len(y.blocks)
    <3>1. q.block_index = m + 2 /\ q.block_index > m BY <1>1, <1>8, <2>2
    <3>2. Awaits(c1, q.target) BY <1>6, <2>2 DEF Awaits
    <3> QED BY <3>1, <3>2 DEF Owner
  <2> QED BY <1>10, <2>1, <2>2
<1>14. PrepWaits(c1, x.ops) BY DEF PrepWaits
<1>15. Begun(g, x, c1, p, n)
  <2>1. c1.labels[1] = StackTop(g) BY <1>6
  <2>2. /\ Grown(LoopState(g, i), x) /\ x.blocks = LoopState(g, i).blocks
        /\ StackTop(x) = StackTop(LoopState(g, i)) /\ x.locals = LoopState(g, i).locals
        /\ x.unique = LoopState(g, i).unique
    BY <1>10 DEF y
  <2>3. Targets(x) = Targets(g) BY <1>8, <1>10
  <2> HIDE DEF i
  <2> QED BY <1>2, <1>12, <1>13, <1>14, <2>1, <2>2, <2>3, LoopOwns
<1>16. c1.labels[1] = StackTop(g) /\ c1.labels[2] \in Nat /\ c1.labels[3] = Unique(g.unique)
  BY <1>6, <1>11 DEF first
<1> HIDE DEF top
<1> QED BY <1>5, <1>15, <1>16

LEMMA BegunOpens ==
    ASSUME NEW g, NEW o, NEW at, NEW n, NEW L, Ready(g, o, at, n, L),
           NEW c1, Typed(c1), c1.kind # "chunk", c1.at = "body",
           NEW p, Longer(o, n, p, c1), NEW x, Begun(g, x, c1, p, n), NEW y, SameCode(x, y),
           AwaitsNew(c1, L, g, y)
    PROVE  /\ ~Ok(y) \/ c1.ret \/ c1.kind = "repeat" => Opening(g, y, p, n)
           /\ ~Ok(y) \/ ~(c1.ret \/ c1.kind = "repeat") => Opening(g, EnterBlock(y), p, n)
<1>1. Regular(y) /\ Sound(y) BY DEF SameCode, Grown
<1>2. EnterBlock(y).error = y.error BY <1>1, GrownEnter
<1>3. CASE ~Ok(y)
  <2>1. Sound(EnterBlock(y)) /\ ~Ok(EnterBlock(y)) BY <1>1, <1>2, <1>3 DEF Ok, Sound
  <2> QED BY <1>1, <1>3, <2>1 DEF Opening
<1>4. CASE Ok(y)
  <2>1. Ok(x) BY <1>4 DEF SameCode, Ok
  <2>2. OwnBlocks(g, x, c1, p, n) /\ StackTop(x) <= StackTop(g) + 4 BY <2>1 DEF Begun
  <2>3. /\ c1.ret \/ c1.kind = "repeat" => Opening(g, y, p, n)
        /\ ~(c1.ret \/ c1.kind = "repeat") => Opening(g, EnterBlock(y), p, n)
    BY <2>2, StartOpens
  <2> QED BY <1>4, <2>3
<1> QED BY <1>3, <1>4

LEMMA NewLabels ==
    ASSUME NEW g, NEW o, NEW at, NEW n, NEW L, Ready(g, o, at, n, L), NEW y, y.unique = g.unique + 3, NEW c1,
           \A l : Awaits(c1, l) => l \in {Unique(g.unique), Unique(g.unique + 1), Unique(g.unique + 2)}
    PROVE  AwaitsNew(c1, {}, g, y)
<1>1. g.unique \in Nat BY ReadyFacts
<1>2. ASSUME NEW k \in {0, 1, 2} PROVE FreshIn(Unique(g.unique + k), g, y)
  <2>1. k \in Nat OBVIOUS
  <2>2. Unique(g.unique + k) \in UniqueLabels /\ Unique(g.unique + k).id = g.unique + k BY <2>1, FreshLabel
  <2>3. g.unique <= g.unique + k /\ g.unique + k < y.unique BY <1>1, <1>2
  <2> QED BY <2>2, <2>3 DEF FreshIn
<1>3. g.unique + 0 = g.unique BY <1>1
<1>4. FreshIn(Unique(g.unique), g, y) /\ FreshIn(Unique(g.unique + 1), g, y) /\ FreshIn(Unique(g.unique + 2), g, y)
  <2>1. FreshIn(Unique(g.unique + 0), g, y) BY <1>2
  <2>2. FreshIn(Unique(g.unique + 1), g, y) /\ FreshIn(Unique(g.unique + 2), g, y) BY <1>2
  <2> QED BY <1>3, <2>1, <2>2
<1> QED BY <1>4 DEF AwaitsNew

LEMMA ConstructFields ==
    ASSUME NEW kind, NEW ret, NEW labels
    PROVE  LET c == Construct(kind, ret, labels)
           IN  /\ c.kind = kind /\ c.ret = ret /\ c.labels = labels /\ c.at = "body" /\ ~c.afterLabel
               /\ kind \in SourceKinds \union {"chunk", "else"} /\ ret \in BOOLEAN =>
                    c \in [kind : SourceKinds \union {"chunk", "else"}, ret : BOOLEAN, labels : {c.labels},
                           at : {"body", "labels"}, afterLabel : BOOLEAN]
BY DEF Construct

(* Every construct begins; its labels are typed and new. *)
LEMMA ConstructBegins ==
    ASSUME NEW g, NEW o, NEW at, NEW n, Ready(g, o, at, n, {}), StackTop(g) + 4 < Registers,
           NEW kind \in SourceKinds, NEW ret \in BOOLEAN, ret => kind # "while",
           NEW c1, c1 = Construct(kind, ret, Opened(g, kind).labels), NEW p, Longer(o, n, p, c1)
    PROVE  /\ Typed(c1) /\ Begun(g, Opened(g, kind).now, c1, p, n)
           /\ \A l : Awaits(c1, l) => l \in {Unique(g.unique), Unique(g.unique + 1), Unique(g.unique + 2)}
<1> DEFINE labels == Opened(g, kind).labels
           x == Opened(g, kind).now
           u == g.unique
<1>1. /\ c1.kind = kind /\ c1.ret = ret /\ c1.labels = labels /\ c1.at = "body"
      /\ c1 \in [kind : SourceKinds \union {"chunk", "else"}, ret : BOOLEAN, labels : {c1.labels},
                 at : {"body", "labels"}, afterLabel : BOOLEAN]
  BY ConstructFields
<1>2. /\ Regular(g) /\ Sound(g) /\ u \in Nat /\ StackTop(g) \in Nat /\ Registers \in Nat
  BY ReadyFacts, RegistersAssumption
<1>3. /\ Unique(u) \in UniqueLabels /\ Unique(u + 1) \in UniqueLabels /\ Unique(u + 2) \in UniqueLabels
  <2>1. Unique(u + 0) \in UniqueLabels /\ u + 0 = u BY <1>2, FreshLabel
  <2> QED BY <2>1, FreshLabel
<1> HIDE DEF u
<1>4. CASE kind = "do"
  <2>1. x = EnterBlock(g) BY <1>4 DEF Opened
  <2>2. StartsAs(g, EnterBlock(g), c1) BY <1>1, <1>4, PlainStart
  <2>3. ~HasState(c1) /\ c1.kind # "repeat" BY <1>1, <1>4 DEF HasState
  <2>4. Regular(x) /\ Sound(x) /\ x.unique = g.unique
    <3>1. Grown(g, EnterBlock(g)) /\ EnterBlock(g).unique = g.unique BY <1>2, GrownEnter
    <3> QED BY <2>1, <3>1 DEF Grown
  <2>5. Begun(g, EnterBlock(g), c1, p, n) BY <2>1, <2>2, <2>3, <2>4, StartBegun
  <2>6. Typed(c1) BY <1>1, <1>4 DEF Typed, HasState
  <2> QED BY <1>1, <1>4, <2>1, <2>5, <2>6 DEF Awaits
<1>5. CASE kind = "while" \/ kind = "if"
  <2> DEFINE y == EnterBlock(TestElse(JumpTarget(g, Unique(g.unique)), Unique(g.unique + 1)))
  <2>1. x = y BY <1>5 DEF Opened, OpenWhile, OpenIf
  <2>2. /\ kind = "while" => labels = <<Unique(u), Unique(u + 1)>>
        /\ kind = "if" => labels = <<Unique(u + 1), Unique(u + 2)>>
    BY DEF Opened, OpenWhile, OpenIf, u
  <2>3. Awaits(c1, Unique(g.unique + 1))
    BY <1>1, <1>5, <2>2 DEF Awaits, u
  <2>4. c1.kind = "while" => c1.labels[1] = Unique(g.unique) BY <1>1, <2>2 DEF u
  <2>5. StackTop(g) < Registers BY <1>2
  <2>6. Sound(y) /\ Regular(y) /\ (Ok(y) => StartsAs(g, y, c1)) /\ y.unique = g.unique
    BY <2>3, <2>4, <2>5, TestStart
  <2> HIDE DEF y
  <2>7. ~HasState(c1) /\ c1.kind # "repeat" BY <1>1, <1>5 DEF HasState
  <2>8. Begun(g, y, c1, p, n) BY <2>6, <2>7, StartBegun
  <2>9. Typed(c1) BY <1>1, <1>3, <1>5, <2>2 DEF Typed, HasState
  <2>10. \A l : Awaits(c1, l) => l \in {Unique(u), Unique(u + 1), Unique(u + 2)}
    BY <1>1, <1>5, <2>2 DEF Awaits
  <2> QED BY <2>1, <2>8, <2>9, <2>10 DEF u
<1>6. CASE kind = "repeat"
  <2>1. x = JumpTarget(EnterBlock(EnterBlock(g)), Unique(g.unique)) /\ labels = <<Unique(g.unique)>>
    BY <1>6 DEF Opened, OpenRepeat
  <2>2. Begun(g, JumpTarget(EnterBlock(EnterBlock(g)), Unique(g.unique)), c1, p, n)
    <3>1. c1.kind = "repeat" /\ c1.labels[1] = Unique(g.unique) BY <1>1, <1>6, <2>1
    <3> QED BY <3>1, RepeatBegun
  <2>3. Typed(c1) BY <1>1, <1>3, <1>6, <2>1 DEF Typed, HasState, u
  <2>4. \A l : ~Awaits(c1, l) BY <1>1, <1>6 DEF Awaits
  <2> QED BY <2>1, <2>2, <2>3, <2>4
<1>7. CASE kind = "for"
  <2>1. x = OpenFor(g).now /\ labels = OpenFor(g).labels BY <1>7 DEF Opened
  <2>2. Begun(g, OpenFor(g).now, c1, p, n) /\ c1.labels[1] = StackTop(g) /\ c1.labels[2] \in Nat
    <3>1. c1.kind = "for" /\ c1.labels = OpenFor(g).labels BY <1>1, <1>7, <2>1
    <3> QED BY <3>1, ForBegun
  <2>3. Typed(c1) BY <1>1, <1>2, <1>7, <2>2 DEF Typed, HasState
  <2>4. \A l : ~Awaits(c1, l) BY <1>1, <1>7 DEF Awaits
  <2> QED BY <2>1, <2>2, <2>3, <2>4
<1>8. CASE kind = "forin"
  <2>1. x = OpenForIn(g).now /\ labels = OpenForIn(g).labels BY <1>8 DEF Opened
  <2>2. /\ Begun(g, OpenForIn(g).now, c1, p, n) /\ c1.labels[1] = StackTop(g) /\ c1.labels[2] \in Nat
        /\ c1.labels[3] = Unique(g.unique)
    <3>1. c1.kind = "forin" /\ c1.labels = OpenForIn(g).labels BY <1>1, <1>8, <2>1
    <3> QED BY <3>1, ForInBegun
  <2>3. Typed(c1) BY <1>1, <1>2, <1>3, <1>8, <2>2 DEF Typed, HasState, u
  <2>4. \A l : Awaits(c1, l) => l = Unique(g.unique) BY <1>1, <1>8, <2>2 DEF Awaits
  <2> QED BY <2>1, <2>2, <2>3, <2>4
<1> QED BY <1>4, <1>5, <1>6, <1>7, <1>8 DEF SourceKinds

LEMMA ConstructOpens ==
    ASSUME NEW g, NEW o, NEW at, NEW n, Ready(g, o, at, n, {}), StackTop(g) + 4 < Registers,
           NEW kind \in SourceKinds, NEW ret \in BOOLEAN, ret => kind # "while",
           NEW p, Longer(o, n, p, Construct(kind, ret, Opened(g, kind).labels))
    PROVE  LET y == Renumbered(Opened(g, kind).now, 3)
           IN  Opening(g, IF Ok(y) /\ kind # "repeat" THEN Body(y, ret) ELSE y, p, n)
<1> DEFINE x == Opened(g, kind).now
           y == Renumbered(x, 3)
           c1 == Construct(kind, ret, Opened(g, kind).labels)
<1>1. c1.kind = kind /\ c1.ret = ret /\ c1.at = "body" BY ConstructFields
<1>2. /\ Typed(c1) /\ Begun(g, x, c1, p, n)
      /\ \A l : Awaits(c1, l) => l \in {Unique(g.unique), Unique(g.unique + 1), Unique(g.unique + 2)}
  <2>1. c1 = Construct(kind, ret, Opened(g, kind).labels) OBVIOUS
  <2>2. Longer(o, n, p, c1) OBVIOUS
  <2> HIDE DEF c1
  <2> QED BY <2>1, <2>2, ConstructBegins
<1>3. Longer(o, n, p, c1) OBVIOUS
<1>4. Ready(g, o, at, n, {}) OBVIOUS
<1> HIDE DEF c1, x
<1>5. Regular(x) /\ Sound(x) /\ x.unique = g.unique BY <1>2 DEF Begun
<1>6. g.unique \in Nat BY ReadyFacts
<1>7. SameCode(x, y) BY <1>5, <1>6, SameRenumbered
<1>8. y.unique = g.unique + 3 BY <1>5, GrownRenumber
<1> HIDE DEF y
<1>9. AwaitsNew(c1, {}, g, y) BY <1>2, <1>8, NewLabels
<1>10. c1.kind # "chunk" BY <1>1 DEF SourceKinds
<1>11. /\ ~Ok(y) \/ c1.ret \/ c1.kind = "repeat" => Opening(g, y, p, n)
       /\ ~Ok(y) \/ ~(c1.ret \/ c1.kind = "repeat") => Opening(g, EnterBlock(y), p, n)
  BY <1>1, <1>2, <1>3, <1>7, <1>9, <1>10, BegunOpens
<1>12. Opening(g, IF Ok(y) /\ kind # "repeat" THEN Body(y, ret) ELSE y, p, n)
  BY <1>1, <1>11 DEF Body
<1> QED BY <1>12 DEF y, x

(* else and elseif. *)
(* A part of an if is over: its construct is gone, and the jumps to the end of the
   statement wait for the part that follows. *)
LEMMA PartReady ==
    ASSUME NEW f0, NEW o, NEW at, NEW n, Ending(f0, o, at, n), o[n].kind = "if",
           NEW g, PartEnded(f0, g, o, at, n), Ok(g)
    PROVE  Ready(g, o, at, n - 1, {o[n].labels[2]}) /\ n - 1 \in Nat
<1> DEFINE l1 == o[n].labels[1]
           l2 == o[n].labels[2]
<1>1. Laid(f0, o, at, n) /\ n > 1 BY DEF Ending
<1>2. Regular(f0) /\ Held(f0, o, at, n, Len(f0.blocks)) /\ Ranged(o, at, n) /\ n \in Nat
  BY <1>1, HeldRanged DEF Laid, Ranged
<1>3. Held(f0, o, at, n - 1, at[n]) /\ \A c \in 1..n - 1 : o[c].at = "body" BY <1>1, <1>2, HeldShorter
<1>4. /\ Mid(f0, g, o, at, n, {}) /\ Len(g.blocks) = at[n] /\ StackTop(g) = Bottom(f0, at[n] + 1)
      /\ Cleared(g, l1) /\ WaitsAt(g, l2, at[n], StackTop(g))
  BY DEF PartEnded
<1>5. Held(g, o, at, n - 1, at[n])
  <2>1. Beyond(f0, g, at[n], {}) BY <1>4 DEF Mid
  <2>2. o[n - 1].at = "body" BY <1>1, <1>2, <1>3
  <2>3. \A c \in 1..n - 1 : o[c].kind = "for" => o[c].labels[2] \notin {} OBVIOUS
  <2> QED BY <1>2, <1>3, <2>1, <2>2, <2>3, HeldKept
<1>6. Regular(g) /\ at[n] \in Nat /\ Len(g.blocks) > 0 /\ StackTop(g) \in Nat BY <1>2, <1>4, MidRegular
<1>7. Bottom(g, 1) = g.fixed_params BY <1>1, <1>4, <1>6 DEF Mid, Beyond, Laid
<1>8. Registered(g, o, n - 1)
  <2>1. ~HasState(o[n]) BY DEF HasState
  <2>2. \A r \in Nat : r < StackTop(g) => ~Reserved(o[n], r) BY <2>1 DEF Reserved
  <2>3. Registered(g, o, n) BY <1>4 DEF Mid
  <2> QED BY <1>1, <1>2, <2>2, <2>3, RegisteredLess
<1>9. g.unique = f0.unique /\ g.unique \in Nat /\ Distinct(o, n, g.unique) BY <1>1, <1>4 DEF Mid, Laid
<1>10. Distinct(o, n - 1, g.unique) BY <1>1, <1>2, <1>9, DistinctLess
<1>11. Awaits(o[n], l2) /\ \A l : Awaits(o[n], l) => l = l1 \/ l = l2 BY DEF Awaits
<1>12. l2 \in UniqueLabels /\ l2.id < g.unique /\ \A c \in 1..n - 1 : ~Awaits(o[c], l2)
  <2>1. n \in 1..n /\ \A c \in 1..n - 1 : c \in 1..n /\ c # n BY <1>1, <1>2
  <2> QED BY <1>9, <1>11, <2>1 DEF Distinct
<1>13. ASSUME NEW q \in g.pending_jumps, IsUnique(q)
       PROVE  \/ q.target \in {l2} /\ q.block_index = Len(g.blocks) /\ q.stack_top = StackTop(g)
              \/ \E c \in 1..n - 1 : Owner(q, o[c], at[c], g)
  <2>1. Others(g, o, at, n) BY <1>4 DEF Mid
  <2>2. CASE Awaits(o[n], q.target)
    <3>1. q.target = l2 BY <1>4, <1>11, <2>2 DEF Cleared
    <3> QED BY <1>4, <3>1 DEF WaitsAt
  <2> QED BY <1>13, <2>1, <2>2 DEF Others
<1>14. o[n - 1].at = "body" /\ n - 1 \in Nat BY <1>1, <1>2, <1>3
<1> HIDE DEF l2
<1>15. Ready(g, o, at, n - 1, {l2})
  BY <1>4, <1>5, <1>6, <1>7, <1>8, <1>9, <1>10, <1>12, <1>13, <1>14 DEF Ready
<1> QED BY <1>14, <1>15 DEF l2

IsPart(f0, o, n, g) == g = CloseIfPart(f0, o[n].labels, TRUE)

LEMMA PartFacts ==
    ASSUME NEW f0, NEW o, NEW at, NEW n, Ending(f0, o, at, n), o[n].kind = "if", NEW g, IsPart(f0, o, n, g)
    PROVE  /\ PartEnded(f0, g, o, at, n) /\ Regular(g) /\ Sound(g) /\ StackTop(g) \in Nat
           /\ StackTop(g) <= StackTop(f0) /\ g.unique \in Nat /\ Len(g.blocks) > 0
           /\ o[n].labels[2] \in UniqueLabels
<1>1. \A more \in BOOLEAN : PartEnded(f0, CloseIfPart(f0, o[n].labels, more), o, at, n) BY IfPartEnds
<1>2. PartEnded(f0, g, o, at, n) BY <1>1, Zenon DEF IsPart
<1>3. Laid(f0, o, at, n) /\ n > 1 BY DEF Ending
<1>4. Regular(f0) /\ Ranged(o, at, n) /\ f0.unique \in Nat BY <1>3, HeldRanged DEF Laid
<1>5. Mid(f0, g, o, at, n, {}) BY <1>2 DEF PartEnded
<1>6. Regular(g) /\ Sound(g) /\ Len(g.blocks) > 0 /\ StackTop(g) \in Nat BY <1>4, <1>5, MidRegular
<1>7. StackTop(g) <= StackTop(f0) /\ g.unique \in Nat BY <1>4, <1>5 DEF Mid
<1>8. Awaits(o[n], o[n].labels[2]) BY DEF Awaits
<1>9. o[n].labels[2] \in UniqueLabels BY <1>8, EndingWaits
<1> QED BY <1>2, <1>6, <1>7, <1>9

LEMMA ClauseFields ==
    ASSUME NEW kind \in {"else", "if"}, NEW ret \in BOOLEAN, NEW labels
    PROVE  LET c == Construct(kind, ret, labels)
           IN  /\ c.kind = kind /\ c.ret = ret /\ c.labels = labels /\ c.at = "body"
               /\ c \in [kind : SourceKinds \union {"chunk", "else"}, ret : BOOLEAN, labels : {c.labels},
                         at : {"body", "labels"}, afterLabel : BOOLEAN]
<1> DEFINE c == Construct(kind, ret, labels)
<1>1. c.kind = kind /\ c.labels = labels /\ c.at = "body" BY DEF Construct
<1>2. c.ret = ret BY DEF Construct
<1>3. kind \in SourceKinds \union {"chunk", "else"} BY DEF SourceKinds
<1>4. c \in [kind : SourceKinds \union {"chunk", "else"}, ret : BOOLEAN, labels : {c.labels},
             at : {"body", "labels"}, afterLabel : BOOLEAN]
  BY <1>3 DEF Construct
<1> QED BY <1>1, <1>2, <1>4

LEMMA ElseOpens ==
    ASSUME NEW f0, NEW o, NEW at, NEW n, Ending(f0, o, at, n), o[n].kind = "if",
           NEW g, IsPart(f0, o, n, g), NEW ret \in BOOLEAN,
           NEW p, Longer(o, n - 1, p, Construct("else", ret, o[n].labels))
    PROVE  Opening(g, Body(EnterBlock(g), ret), p, n - 1)
<1> DEFINE c1 == Construct("else", ret, o[n].labels)
           x == EnterBlock(g)
           l2 == o[n].labels[2]
<1>1. /\ PartEnded(f0, g, o, at, n) /\ Regular(g) /\ Sound(g) /\ StackTop(g) \in Nat
      /\ g.unique \in Nat /\ l2 \in UniqueLabels
  BY PartFacts
<1>2. Grown(g, x) /\ x.unique = g.unique /\ x.error = g.error BY <1>1, GrownEnter
<1>3. Regular(x) /\ Sound(x) BY <1>2 DEF Grown
<1>4. /\ c1.kind = "else" /\ c1.ret = ret /\ c1.labels = o[n].labels /\ c1.at = "body"
      /\ c1 \in [kind : SourceKinds \union {"chunk", "else"}, ret : BOOLEAN, labels : {c1.labels},
                 at : {"body", "labels"}, afterLabel : BOOLEAN]
  BY ClauseFields
<1>5. Longer(o, n - 1, p, c1) OBVIOUS
<1> HIDE DEF x, c1, l2
<1>6. (ret => Body(x, ret) = x) /\ (~ret => Body(x, ret) = EnterBlock(x)) BY DEF Body
<1>7. CASE ~Ok(g)
  <2>1. Grown(x, EnterBlock(x)) /\ EnterBlock(x).error = x.error BY <1>3, GrownEnter
  <2>2. Sound(EnterBlock(x)) /\ ~Ok(EnterBlock(x)) BY <1>2, <1>7, <2>1 DEF Grown, Ok
  <2>3. Sound(x) /\ ~Ok(x) BY <1>2, <1>3, <1>7 DEF Ok
  <2> QED BY <1>6, <2>2, <2>3 DEF Opening, x
<1>8. CASE Ok(g)
  <2>1. Ready(g, o, at, n - 1, {l2}) BY <1>1, <1>8, PartReady DEF l2
  <2>2. Typed(c1) BY <1>1, <1>4 DEF Typed, HasState, l2
  <2>3. StartsAs(g, x, c1)
    <3>1. c1.kind # "while" BY <1>4
    <3> QED BY <2>1, <3>1, PlainStart DEF x
  <2>4. ~HasState(c1) /\ c1.kind # "repeat" /\ c1.kind # "chunk" BY <1>4 DEF HasState
  <2>5. Begun(g, x, c1, p, n - 1) BY <1>2, <1>3, <1>5, <2>1, <2>3, <2>4, StartBegun
  <2>6. SameCode(x, x) BY <1>1, <1>2, <1>3, SameSelf
  <2>7. AwaitsNew(c1, {l2}, g, x)
    <3>1. \A l : Awaits(c1, l) <=> l = l2 BY <1>4 DEF Awaits, l2
    <3> QED BY <1>4, <3>1 DEF AwaitsNew
  <2>8. /\ ~Ok(x) \/ c1.ret \/ c1.kind = "repeat" => Opening(g, x, p, n - 1)
        /\ ~Ok(x) \/ ~(c1.ret \/ c1.kind = "repeat") => Opening(g, EnterBlock(x), p, n - 1)
    BY <1>4, <1>5, <2>1, <2>2, <2>4, <2>5, <2>6, <2>7, BegunOpens
  <2> QED BY <1>4, <1>6, <2>8 DEF x
<1> QED BY <1>7, <1>8

LEMMA ElseIfOpens ==
    ASSUME NEW f0, NEW o, NEW at, NEW n, Ending(f0, o, at, n), o[n].kind = "if", StackTop(f0) < Registers,
           NEW g, IsPart(f0, o, n, g), NEW next, next = Unique(g.unique), NEW ret \in BOOLEAN,
           NEW p, Longer(o, n - 1, p, Construct("if", ret, <<next, o[n].labels[2]>>))
    PROVE  Opening(g, Body(EnterBlock(TestElse(Renumbered(g, 1), next)), ret), p, n - 1)
<1> DEFINE c1 == Construct("if", ret, <<next, o[n].labels[2]>>)
           y == Renumbered(g, 1)
           x == EnterBlock(TestElse(y, next))
           l2 == o[n].labels[2]
<1>1. /\ PartEnded(f0, g, o, at, n) /\ Regular(g) /\ Sound(g) /\ StackTop(g) \in Nat
      /\ g.unique \in Nat /\ l2 \in UniqueLabels /\ StackTop(g) <= StackTop(f0) /\ Len(g.blocks) > 0
  BY PartFacts
<1>2. /\ Grown(g, y) /\ y.blocks = g.blocks /\ StackTop(y) = StackTop(g)
      /\ y.locals = g.locals /\ y.unique = g.unique + 1 /\ y.error = g.error
      /\ y.pending_jumps = g.pending_jumps
  BY <1>1, GrownRenumber
<1> HIDE DEF y
<1>3. Regular(y) /\ Sound(y) BY <1>2 DEF Grown
<1>4. next \in UniqueLabels /\ next \in JumpLabels /\ next.id = g.unique
  BY <1>1 DEF Unique, UniqueLabels, JumpLabels
<1>5. StackTop(y) < Registers
  <2>1. Registers \in Nat /\ StackTop(f0) \in Nat
    BY RegistersAssumption, RegularParts DEF Ending, Laid
  <2> QED BY <1>1, <1>2, <2>1
<1>6. /\ Grown(y, x) /\ Len(x.blocks) = Len(y.blocks) + 1 /\ StackTop(x) = StackTop(y)
      /\ Bottom(x, Len(y.blocks) + 1) = StackTop(y)
      /\ x.locals = y.locals /\ x.unique = y.unique /\ x.error = y.error
      /\ \A q \in x.pending_jumps :
            \/ q \in y.pending_jumps
            \/ q.target = next /\ q.block_index = Len(y.blocks) /\ q.stack_top = StackTop(y)
  BY <1>1, <1>2, <1>3, <1>4, <1>5, TestEntered
<1> HIDE DEF x
<1>7. Regular(x) /\ Sound(x) BY <1>6 DEF Grown
<1>8. /\ c1.kind = "if" /\ c1.ret = ret /\ c1.labels = <<next, l2>> /\ c1.at = "body"
      /\ c1 \in [kind : SourceKinds \union {"chunk", "else"}, ret : BOOLEAN, labels : {c1.labels},
                 at : {"body", "labels"}, afterLabel : BOOLEAN]
  BY ClauseFields
<1>9. Longer(o, n - 1, p, c1) OBVIOUS
<1> HIDE DEF c1, l2
<1>10. (ret => Body(x, ret) = x) /\ (~ret => Body(x, ret) = EnterBlock(x)) BY DEF Body
<1>11. CASE ~Ok(g)
  <2>1. Grown(x, EnterBlock(x)) /\ EnterBlock(x).error = x.error BY <1>7, GrownEnter
  <2>2. Sound(EnterBlock(x)) /\ ~Ok(EnterBlock(x)) BY <1>2, <1>6, <1>11, <2>1 DEF Grown, Ok
  <2>3. Sound(x) /\ ~Ok(x) BY <1>2, <1>6, <1>7, <1>11 DEF Ok
  <2> QED BY <1>10, <2>2, <2>3 DEF Opening, x, y
<1>12. CASE Ok(g)
  <2>1. Ready(g, o, at, n - 1, {l2}) BY <1>1, <1>12, PartReady DEF l2
  <2>2. Typed(c1) BY <1>1, <1>4, <1>8 DEF Typed, HasState
  <2>3. \A l : Awaits(c1, l) <=> l = next \/ l = l2 BY <1>8 DEF Awaits
  <2>4. StartsAs(g, x, c1)
    <3>1. Grown(g, x) BY <1>1, <1>2, <1>6, GrownTrans
    <3>2. g.unique <= x.unique /\ x.unique \in Nat BY <1>1, <1>2, <1>6
    <3>3. c1.kind # "while" BY <1>8
    <3>4. Awaits(c1, next) BY <2>3
    <3> QED BY <1>2, <1>6, <3>1, <3>2, <3>3, <3>4 DEF StartsAs
  <2>5. ~HasState(c1) /\ c1.kind # "repeat" /\ c1.kind # "chunk" /\ c1.kind # "forin" BY <1>8 DEF HasState
  <2>6. OwnBlocks(g, x, c1, p, n - 1) BY <1>9, <2>1, <2>4, <2>5, StartOwns
  <2>7. SameCode(x, x)
    <3>1. x.unique \in Nat BY <1>1, <1>2, <1>6
    <3> QED BY <1>7, <3>1, SameSelf
  <2>8. AwaitsNew(c1, {l2}, g, x)
    <3>1. g.unique <= next.id /\ next.id < x.unique BY <1>1, <1>2, <1>4, <1>6
    <3>2. FreshIn(next, g, x) BY <1>4, <3>1 DEF FreshIn
    <3> QED BY <2>3, <2>5, <3>2 DEF AwaitsNew
  <2>9. StackTop(x) <= StackTop(g) + 4 BY <1>1, <1>2, <1>6
  <2>10. /\ c1.ret \/ c1.kind = "repeat" => Opening(g, x, p, n - 1)
         /\ ~(c1.ret \/ c1.kind = "repeat") => Opening(g, EnterBlock(x), p, n - 1)
    BY <1>8, <1>9, <2>1, <2>2, <2>5, <2>6, <2>7, <2>8, <2>9, StartOpens
  <2> QED BY <1>8, <1>10, <2>10 DEF x, y
<1> QED BY <1>11, <1>12

(* Statements. *)
(* Two constructs that hold the same blocks. *)
Alike(c, d) == c.kind = d.kind /\ c.ret = d.ret /\ c.labels = d.labels /\ c.at = d.at

LEMMA LaidAlike ==
    ASSUME NEW g, NEW o, NEW at, NEW n, Laid(g, o, at, n), NEW p,
           \A c \in 1..n : Alike(o[c], p[c]) /\ Typed(p[c])
    PROVE  Laid(g, p, at, n)
<1>1. Held(g, o, at, n, Len(g.blocks)) BY DEF Laid
<1>2. ASSUME NEW c \in 1..n
      PROVE  /\ BlocksOf(p[c]) = BlocksOf(o[c])
             /\ HasState(p[c]) <=> HasState(o[c])
             /\ \A l : Awaits(p[c], l) <=> Awaits(o[c], l)
             /\ \A r : Reserved(p[c], r) <=> Reserved(o[c], r)
             /\ PrepWaits(p[c], g.ops) <=> PrepWaits(o[c], g.ops)
             /\ Fits(p[c], at[c], g) <=> Fits(o[c], at[c], g)
             /\ p[c].kind = o[c].kind /\ p[c].at = o[c].at
  <2>1. o[c].kind = p[c].kind /\ o[c].ret = p[c].ret /\ o[c].labels = p[c].labels /\ o[c].at = p[c].at
    BY DEF Alike
  <2>2. HasState(p[c]) <=> HasState(o[c]) BY <2>1 DEF HasState
  <2>3. BlocksOf(p[c]) = BlocksOf(o[c]) BY <2>1, <2>2 DEF BlocksOf
  <2>4. \A l : Awaits(p[c], l) <=> Awaits(o[c], l) BY <2>1 DEF Awaits
  <2>5. \A r : Reserved(p[c], r) <=> Reserved(o[c], r) BY <2>1, <2>2 DEF Reserved
  <2>6. PrepWaits(p[c], g.ops) <=> PrepWaits(o[c], g.ops) BY <2>1 DEF PrepWaits
  <2>7. Fits(p[c], at[c], g) <=> Fits(o[c], at[c], g) BY <2>1, <2>2 DEF Fits
  <2> QED BY <2>1, <2>2, <2>3, <2>4, <2>5, <2>6, <2>7
<1>3. Held(g, p, at, n, Len(g.blocks))
  <2>1. \A c \in 1..n : /\ at[c] \in Nat /\ Typed(p[c])
                        /\ at[c] + BlocksOf(p[c]) = (IF c = n THEN Len(g.blocks) ELSE at[c + 1])
                        /\ Fits(p[c], at[c], g) /\ PrepWaits(p[c], g.ops)
                        /\ p[c].kind = "chunk" <=> c = 1
                        /\ c < n => p[c].at = "body"
    BY <1>1, <1>2 DEF Held
  <2>2. \A c, d \in 1..n : c < d => at[c] + BlocksOf(p[c]) <= at[d] BY <1>1, <1>2 DEF Held
  <2> QED BY <1>1, <2>1, <2>2 DEF Held
<1>4. Registered(g, p, n) BY <1>2 DEF Laid, Registered
<1>5. Owned(g, p, at, n)
  <2>1. ASSUME NEW c \in 1..n, NEW q, Owner(q, o[c], at[c], g) PROVE Owner(q, p[c], at[c], g)
    BY <1>2, <2>1 DEF Owner
  <2> QED BY <2>1 DEF Laid, Owned
<1>6. Distinct(p, n, g.unique) BY <1>2 DEF Laid, Distinct
<1> QED BY <1>3, <1>4, <1>5, <1>6 DEF Laid

(* A step in the innermost block. *)
LEMMA LaidStep ==
    ASSUME NEW g, NEW o, NEW at, NEW n, Laid(g, o, at, n),
           NEW h, Beyond(g, h, Len(g.blocks), {}), Len(h.blocks) = Len(g.blocks),
           o[n].at = "body" \/ StackTop(h) = StackTop(g), Registered(h, o, n), h.unique = g.unique,
           \A q \in h.pending_jumps : q \in g.pending_jumps \/ ~IsUnique(q)
    PROVE  Laid(h, o, at, n)
<1> DEFINE m == Len(g.blocks)
<1>1. Regular(g) /\ Held(g, o, at, n, m) BY DEF Laid
<1>2. /\ m \in Nat /\ Regular(h) /\ h.fixed_params = g.fixed_params
      /\ \A i \in 1..m : Bottom(h, i) = Bottom(g, i)
  BY DEF Beyond, Bottom
<1>3. Held(h, o, at, n, m)
  <2>1. \A c \in 1..n : o[c].kind = "for" => o[c].labels[2] \notin {} OBVIOUS
  <2> QED BY <1>1, <2>1, HeldKept
<1>4. ASSUME NEW q \in h.pending_jumps, IsUnique(q) PROVE \E c \in 1..n : Owner(q, o[c], at[c], h)
  <2>1. q \in g.pending_jumps BY <1>4
  <2>2. PICK c \in 1..n : Owner(q, o[c], at[c], g) BY <1>4, <2>1 DEF Laid, Owned
  <2>3. at[c] \in Nat /\ at[c] + 1 \in 1..m
    <3>1. at[c] \in Nat /\ BlocksOf(o[c]) \in 1..3 /\ at[c] + BlocksOf(o[c]) <= m BY <1>1, HeldRange
    <3> QED BY <1>2, <3>1
  <2>4. Owner(q, o[c], at[c], h) BY <1>2, <2>2, <2>3, OwnerSame
  <2> QED BY <2>4
<1>5. Bottom(h, 1) = h.fixed_params
  <2>1. 1 \in 1..m
    <3>1. at[n] \in Nat /\ at[n] < m BY <1>1, HeldRange
    <3> QED BY <1>2, <3>1
  <2> QED BY <1>2, <2>1 DEF Laid
<1> QED BY <1>2, <1>3, <1>4, <1>5 DEF Laid, Owned

(* A statement that leaves registers and locals as they are. *)
LEMMA LaidQuiet ==
    ASSUME NEW g, NEW o, NEW at, NEW n, Laid(g, o, at, n),
           NEW h, Grown(g, h), h.blocks = g.blocks, StackTop(h) = StackTop(g), h.locals = g.locals,
           h.unique = g.unique, \A q \in h.pending_jumps : q \in g.pending_jumps \/ ~IsUnique(q)
    PROVE  Laid(h, o, at, n)
<1>1. Registered(g, o, n) BY DEF Laid
<1>2. Registered(h, o, n) BY <1>1, RegisteredKept
<1>3. Beyond(g, h, Len(g.blocks), {}) /\ Len(h.blocks) = Len(g.blocks) BY DEF Grown
<1> QED BY <1>2, <1>3, LaidStep

LEMMA JumpLaid ==
    ASSUME NEW g, NEW o, NEW at, NEW n, Laid(g, o, at, n), Sound(g), NEW label \in JumpLabels, label.kind # "unique"
    PROVE  /\ Laid(Jump(g, label), o, at, n) /\ Sound(Jump(g, label))
           /\ StackTop(Jump(g, label)) = StackTop(g)
<1> DEFINE h == Jump(g, label)
<1>1. Regular(g) /\ Held(g, o, at, n, Len(g.blocks)) BY DEF Laid
<1>2. Len(g.blocks) > 0
  <2>1. at[n] \in Nat /\ at[n] < Len(g.blocks) /\ Len(g.blocks) \in Nat BY <1>1, HeldRange
  <2> QED BY <2>1
<1>3. /\ Grown(g, h) /\ h.blocks = g.blocks /\ StackTop(h) = StackTop(g)
      /\ h.locals = g.locals /\ h.unique = g.unique
      /\ \A q \in h.pending_jumps :
            \/ q \in g.pending_jumps
            \/ q.target = label /\ q.block_index = Len(g.blocks) /\ q.stack_top = StackTop(g)
  BY <1>1, <1>2, GrownJump
<1> HIDE DEF h
<1>4. \A q \in h.pending_jumps : q \in g.pending_jumps \/ ~IsUnique(q) BY <1>3 DEF IsUnique
<1>5. Laid(h, o, at, n) BY <1>3, <1>4, LaidQuiet
<1> QED BY <1>3, <1>5 DEF h, Grown

LEMMA LabelLaid ==
    ASSUME NEW g, NEW o, NEW at, NEW n, Laid(g, o, at, n), Sound(g), NEW label \in JumpLabels, label.kind = "named"
    PROVE  LET h == JumpTarget(g, label)
           IN  /\ Sound(h) /\ StackTop(h) = StackTop(g)
               /\ Ok(h) => Laid(h, o, at, n)
<1> DEFINE h == JumpTarget(g, label)
<1>1. Regular(g) /\ Held(g, o, at, n, Len(g.blocks)) BY DEF Laid
<1>2. Len(g.blocks) > 0
  <2>1. at[n] \in Nat /\ at[n] < Len(g.blocks) /\ Len(g.blocks) \in Nat BY <1>1, HeldRange
  <2> QED BY <2>1
<1>3. Patchable(g, label) BY DEF Patchable
<1>4. /\ Grown(g, h) /\ h.blocks = g.blocks /\ StackTop(h) = StackTop(g)
      /\ h.locals = g.locals /\ h.unique = g.unique
      /\ Ok(h) => h.pending_jumps \subseteq g.pending_jumps
  BY <1>1, <1>2, <1>3, GrownTarget
<1> HIDE DEF h
<1>5. Ok(h) => Laid(h, o, at, n) BY <1>4, LaidQuiet
<1> QED BY <1>4, <1>5 DEF h, Grown

LEMMA EmitLaid ==
    ASSUME NEW g, NEW o, NEW at, NEW n, Laid(g, o, at, n), Sound(g), NEW i \in Instrs, i.op # "jump"
    PROVE  Laid(Emit(g, i), o, at, n) /\ Sound(Emit(g, i)) /\ StackTop(Emit(g, i)) = StackTop(g)
<1> DEFINE h == Emit(g, i)
<1>1. Regular(g) BY DEF Laid
<1>2. /\ Grown(g, h) /\ h.blocks = g.blocks /\ StackTop(h) = StackTop(g)
      /\ h.locals = g.locals /\ h.unique = g.unique /\ h.pending_jumps = g.pending_jumps
  BY <1>1, GrownEmit
<1> HIDE DEF h
<1>3. Laid(h, o, at, n) BY <1>2, LaidQuiet
<1> QED BY <1>2, <1>3 DEF h, Grown

DeclaredLocal(g) ==
    LET k == PushRegisters(g, 1)
        r == StackTop(g)
    IN  IF Ok(k) THEN DeclareLocal(Emit(k, Instr("write", {r})), r) ELSE k

LEMMA LocalLaid ==
    ASSUME NEW g, NEW o, NEW at, NEW n, Laid(g, o, at, n), Sound(g), Ok(g), o[n].at = "body",
           StackTop(g) + 1 < Registers
    PROVE  LET h == DeclaredLocal(g)
           IN  Laid(h, o, at, n) /\ Sound(h) /\ StackTop(h) = StackTop(g) + 1
<1> DEFINE k == PushRegisters(g, 1)
           r == StackTop(g)
           e == Emit(k, Instr("write", {r}))
           h == DeclareLocal(e, r)
<1>1. /\ Regular(g) /\ Held(g, o, at, n, Len(g.blocks)) /\ Registered(g, o, n) /\ r \in Nat BY RegularParts DEF Laid
<1>2. Instr("write", {r}) \in Instrs /\ Instr("write", {r}).op # "jump" BY <1>1, TestTyped
<1>3. /\ Grown(g, k) /\ k.blocks = g.blocks /\ StackTop(k) = r + 1
      /\ k.locals = g.locals /\ k.unique = g.unique /\ k.error = g.error
      /\ k.pending_jumps = g.pending_jumps
  BY <1>1, GrownPush
<1>4. DeclaredLocal(g) = h
  <2>1. Ok(k) BY <1>3 DEF Ok
  <2> QED BY <2>1 DEF DeclaredLocal
<1> HIDE DEF k
<1>5. /\ Grown(k, e) /\ e.blocks = k.blocks /\ StackTop(e) = StackTop(k)
      /\ e.locals = k.locals /\ e.unique = k.unique /\ e.pending_jumps = k.pending_jumps
      /\ Behind(e)
  <2>1. Regular(k) /\ Sound(k) BY <1>3 DEF Grown
  <2> DEFINE i == Instr("write", {r})
  <2>2. i \in Instrs /\ i.op # "jump" BY <1>2
  <2> HIDE DEF i
  <2>3. /\ Grown(k, Emit(k, i)) /\ Emit(k, i).blocks = k.blocks /\ StackTop(Emit(k, i)) = StackTop(k)
        /\ Emit(k, i).locals = k.locals /\ Emit(k, i).unique = k.unique
        /\ Emit(k, i).pending_jumps = k.pending_jumps
        /\ Emit(k, i).ops = Append(k.ops, i) /\ Emit(k, i).jump_targets = k.jump_targets
    BY <2>1, <2>2, GrownEmit
  <2>4. Behind(Emit(k, i)) BY <2>1, <2>2, <2>3, EmitBehind
  <2> QED BY <2>3, <2>4 DEF i
<1> HIDE DEF e
<1>6. \A i \in 1..Len(e.locals) : e.locals[i].reg < r BY <1>1, <1>3, <1>5 DEF Regular, Rising
<1>13. \A p \in e.pending_jumps : p.stack_top <= r
  BY <1>1, <1>3, <1>5, RegularParts DEF Regular, JumpsWait, Placed
<1> HIDE DEF r
<1>7. /\ Grown(e, h) /\ h.blocks = e.blocks /\ StackTop(h) = StackTop(e)
      /\ h.unique = e.unique /\ h.pending_jumps = e.pending_jumps
      /\ \A s : IsLocal(h.locals, s) <=> (IsLocal(e.locals, s) \/ s = r)
  <2>1. Regular(e) /\ Sound(e) BY <1>5 DEF Grown
  <2>2. r < StackTop(e) BY <1>1, <1>3, <1>5
  <2>3. Behind(e) BY <1>5
  <2> QED BY <1>1, <1>6, <1>13, <2>1, <2>2, <2>3, GrownDeclare
<1> HIDE DEF h
<1>8. Grown(g, h)
  <2>1. Grown(g, e) BY <1>1, <1>3, <1>5, GrownTrans
  <2> QED BY <1>1, <1>7, <2>1, GrownTrans
<1>9. h.blocks = g.blocks /\ StackTop(h) = r + 1 /\ h.unique = g.unique /\ h.pending_jumps = g.pending_jumps
  BY <1>3, <1>5, <1>7
<1>10. Below(o, n, r)
  <2>1. Len(g.blocks) \in at[n] + 1..Len(g.blocks)
    <3>1. at[n] \in Nat /\ at[n] < Len(g.blocks) /\ Len(g.blocks) \in Nat BY <1>1, HeldRange
    <3> QED BY <3>1
  <2>2. PICK i \in at[n] + 1..Len(g.blocks) : TRUE BY <2>1
  <2>3. Below(o, n, Bottom(g, i)) /\ Bottom(g, i) \in Nat /\ Bottom(g, i) <= r BY <1>1, <2>2, HeldBelow DEF r
  <2> QED BY <1>1, <2>3 DEF Below
<1>11. Registered(h, o, n)
  <2>1. ASSUME NEW s \in Nat, s < r + 1 PROVE IsLocal(h.locals, s) <=> ~\E c \in 1..n : Reserved(o[c], s)
    <3>1. IsLocal(h.locals, s) <=> (IsLocal(g.locals, s) \/ s = r) BY <1>3, <1>5, <1>7
    <3>2. CASE s = r
      <4>1. \A c \in 1..n : ~Reserved(o[c], s) BY <1>1, <1>10, <3>2 DEF Below
      <4> QED BY <3>1, <3>2, <4>1
    <3>3. CASE s # r
      <4>1. s < r BY <1>1, <2>1, <3>3
      <4>2. IsLocal(g.locals, s) <=> ~\E c \in 1..n : Reserved(o[c], s) BY <1>1, <4>1 DEF Registered, r
      <4> QED BY <3>1, <3>3, <4>2
    <3> QED BY <3>2, <3>3
  <2> QED BY <1>9, <2>1 DEF Registered
<1>12. Laid(h, o, at, n)
  <2>1. Beyond(g, h, Len(g.blocks), {}) BY <1>8 DEF Grown
  <2>2. Len(h.blocks) = Len(g.blocks) BY <1>9
  <2> QED BY <1>9, <1>11, <2>1, <2>2, LaidStep
<1> QED BY <1>4, <1>8, <1>9, <1>12 DEF Grown, r

(* The block that holds a captured variable is marked; a parameter is in none. *)
LEMMA MarkedFields ==
    ASSUME NEW g, Regular(g), NEW b \in 0..Len(g.blocks)
    PROVE  LET h == WithOwner(g, b)
           IN  /\ Keeps(g, h, {"blocks"})
               /\ h.blocks \in Seq(BlockDescriptors) /\ Len(h.blocks) = Len(g.blocks)
               /\ \A i \in 1..Len(g.blocks) :
                     /\ h.blocks[i].stack_bottom = g.blocks[i].stack_bottom
                     /\ h.blocks[i].bottom_jump_target = g.blocks[i].bottom_jump_target
<1>1. CASE b = 0
  <2>1. WithOwner(g, b) = g BY <1>1 DEF WithOwner
  <2>2. IsFunctionRecord(g) /\ g.blocks \in Seq(BlockDescriptors) BY DEF Regular, BlocksRise
  <2> QED BY <2>1, <2>2 DEF Keeps
<1>2. SUFFICES ASSUME b \in 1..Len(g.blocks)
               PROVE  LET h == WithOwner(g, b)
                      IN  /\ Keeps(g, h, {"blocks"})
                          /\ h.blocks \in Seq(BlockDescriptors) /\ Len(h.blocks) = Len(g.blocks)
                          /\ \A i \in 1..Len(g.blocks) :
                                /\ h.blocks[i].stack_bottom = g.blocks[i].stack_bottom
                                /\ h.blocks[i].bottom_jump_target = g.blocks[i].bottom_jump_target
  <2>1. b = 0 \/ b \in 1..Len(g.blocks) BY RegularParts
  <2> QED BY <1>1, <2>1
<1> DEFINE x == [g.blocks[b] EXCEPT !.owns_upvalues = TRUE]
           s == [g.blocks EXCEPT ![b] = x]
           h == [g EXCEPT !.blocks = s]
<1>3. IsFunctionRecord(g) /\ g.blocks \in Seq(BlockDescriptors) BY DEF Regular, BlocksRise
<1>4. g.blocks[b] \in BlockDescriptors BY <1>2, RegularParts
<1>5. /\ x \in BlockDescriptors /\ x.stack_bottom = g.blocks[b].stack_bottom
      /\ x.bottom_jump_target = g.blocks[b].bottom_jump_target
  BY <1>4 DEF BlockDescriptors
<1> HIDE DEF x
<1>6. /\ s \in Seq(BlockDescriptors) /\ Len(s) = Len(g.blocks)
      /\ s[b] = x /\ \A i \in 1..Len(g.blocks) : i # b => s[i] = g.blocks[i]
  BY <1>3, <1>5, <1>2
<1> HIDE DEF s
<1>7. Keeps(g, h, {"blocks"}) /\ h.blocks = s BY <1>3 DEF Keeps, IsFunctionRecord
<1>8. WithOwner(g, b) = h BY <1>2 DEF WithOwner, s, x
<1> HIDE DEF h
<1> QED BY <1>5, <1>6, <1>7, <1>8

LEMMA OwnerFound ==
    ASSUME NEW g, Regular(g), NEW r \in Nat
    PROVE  OwnerBlock(g, r) \in 0..Len(g.blocks)
<1> DEFINE I == {k \in 1..Len(g.blocks) : g.blocks[k].stack_bottom <= r}
<1>1. OwnerBlock(g, r) = IF I # {} THEN Max(I) ELSE 0 BY DEF OwnerBlock, SelectLastInSeq
<1>2. Len(g.blocks) \in Nat /\ I \in SUBSET (0..Len(g.blocks)) BY RegularParts
<1>3. CASE I = {} BY <1>1, <1>2, <1>3
<1>4. CASE I # {}
  <2>1. Max(I) \in I
    <3> HIDE DEF I
    <3> QED BY <1>2, <1>4, GreatestElement
  <2>2. Max(I) \in 0..Len(g.blocks) BY <1>2, <2>1
  <2> HIDE DEF I
  <2> QED BY <1>1, <1>4, <2>2
<1> QED BY <1>3, <1>4

LEMMA CaptureLaid ==
    ASSUME NEW g, NEW o, NEW at, NEW n, Laid(g, o, at, n), Sound(g), NEW r \in Nat, StackTop(g) < Registers
    PROVE  LET h == Capture(g, r)
           IN  Laid(h, o, at, n) /\ Sound(h) /\ StackTop(h) = StackTop(g)
<1> DEFINE b == OwnerBlock(g, r)
           k == WithOwner(g, b)
           i == [Instr("closure", {}) EXCEPT !.captures = r]
           h == WithTemp(k, i)
<1>1. Regular(g) /\ Held(g, o, at, n, Len(g.blocks)) BY DEF Laid
<1>2. Len(g.blocks) \in Nat /\ Len(g.blocks) > 0
  <2>1. at[n] \in Nat /\ at[n] < Len(g.blocks) /\ Len(g.blocks) \in Nat BY <1>1, HeldRange
  <2> QED BY <2>1
<1>3. b \in 0..Len(g.blocks) BY <1>1, OwnerFound
<1>4. h = Capture(g, r) BY DEF Capture
<1>5. i \in Instrs /\ i.op # "jump" BY DEF Instr, Instrs, None, NoTarget
<1> HIDE DEF b, i
<1>6. /\ Keeps(g, k, {"blocks"})
      /\ k.blocks \in Seq(BlockDescriptors) /\ Len(k.blocks) = Len(g.blocks)
      /\ \A j \in 1..Len(g.blocks) :
            /\ k.blocks[j].stack_bottom = g.blocks[j].stack_bottom
            /\ k.blocks[j].bottom_jump_target = g.blocks[j].bottom_jump_target
  BY <1>1, <1>3, MarkedFields
<1> HIDE DEF k
<1>7. Regular(k) /\ StackTop(k) = StackTop(g) BY <1>1, <1>6, MarkRegular
<1>8. /\ k.locals = g.locals /\ k.unique = g.unique /\ k.pending_jumps = g.pending_jumps
      /\ k.error = g.error /\ k.ops = g.ops /\ k.jump_targets = g.jump_targets /\ k.fixed_params = g.fixed_params
  BY <1>6 DEF Keeps
<1>9. Laid(k, o, at, n)
  <2>1. Targets(k) = Targets(g) /\ Items(k) = Items(g) BY <1>8 DEF Items, Targets
  <2>2. Beyond(g, k, Len(g.blocks), {})
    <3>1. Len(g.ops) \in Nat BY <1>1, RegularParts
    <3> QED BY <1>2, <1>6, <1>7, <1>8, <2>1, <3>1 DEF Beyond
  <2>3. Registered(k, o, n) BY <1>7, <1>8, RegisteredKept DEF Laid
  <2> QED BY <1>6, <1>7, <1>8, <2>2, <2>3, LaidStep
<1>10. Sound(k) BY <1>8 DEF Sound
<1>11. /\ Grown(k, h) /\ h.blocks = k.blocks /\ StackTop(h) = StackTop(k)
       /\ h.locals = k.locals /\ h.unique = k.unique /\ h.pending_jumps = k.pending_jumps
  BY <1>5, <1>7, <1>10, GrownTemp
<1> HIDE DEF h
<1>12. Laid(h, o, at, n) BY <1>9, <1>11, LaidQuiet
<1> QED BY <1>4, <1>7, <1>11, <1>12 DEF Grown

(* The end of a body and of the chunk. *)
(* p is o after the last statement of the innermost body. *)
Ended(o, n, p) ==
    /\ \A c \in 1..n - 1 : p[c] = o[c]
    /\ p[n].kind = o[n].kind /\ p[n].ret = o[n].ret /\ p[n].labels = o[n].labels /\ p[n].at = "labels"
    /\ Typed(p[n])

(* A body that ends in return is no block of its own. *)
LEMMA ReturnLaid ==
    ASSUME NEW g, NEW o, NEW at, NEW n, Laid(g, o, at, n), o[n].at = "body", o[n].ret,
           NEW p, Ended(o, n, p)
    PROVE  Laid(g, p, at, n)
<1>1. Held(g, o, at, n, Len(g.blocks)) BY DEF Laid
<1>2. n \in Nat \ {0} /\ n \in 1..n /\ Typed(o[n]) BY <1>1 DEF Held
<1>3. o[n].kind # "while" BY <1>2 DEF Typed
<1>4. ASSUME NEW c \in 1..n
      PROVE  /\ BlocksOf(p[c]) = BlocksOf(o[c])
             /\ HasState(p[c]) <=> HasState(o[c])
             /\ \A l : Awaits(p[c], l) <=> Awaits(o[c], l)
             /\ \A r : Reserved(p[c], r) <=> Reserved(o[c], r)
             /\ PrepWaits(p[c], g.ops) <=> PrepWaits(o[c], g.ops)
             /\ Fits(p[c], at[c], g) <=> Fits(o[c], at[c], g)
             /\ p[c].kind = o[c].kind /\ Typed(p[c]) /\ (c < n => p[c].at = o[c].at)
  <2>1. CASE c # n
    <3>1. c \in 1..n - 1 BY <1>2, <1>4, <2>1
    <3>2. p[c] = o[c] BY <3>1 DEF Ended
    <3>3. Typed(o[c]) BY <1>1 DEF Held
    <3> QED BY <3>2, <3>3
  <2>2. CASE c = n
    <3>1. o[c].kind = p[c].kind /\ o[c].ret = p[c].ret /\ o[c].labels = p[c].labels /\ Typed(p[c])
      BY <2>2 DEF Ended
    <3>2. HasState(p[c]) <=> HasState(o[c]) BY <3>1 DEF HasState
    <3>3. BlocksOf(p[c]) = BlocksOf(o[c])
      <4>1. p[c].ret /\ o[c].ret BY <2>2, <3>1
      <4> QED BY <3>1, <3>2, <4>1 DEF BlocksOf
    <3>4. \A l : Awaits(p[c], l) <=> Awaits(o[c], l) BY <3>1 DEF Awaits
    <3>5. \A r : Reserved(p[c], r) <=> Reserved(o[c], r) BY <3>1, <3>2 DEF Reserved
    <3>6. PrepWaits(p[c], g.ops) <=> PrepWaits(o[c], g.ops) BY <3>1 DEF PrepWaits
    <3>7. Fits(p[c], at[c], g) <=> Fits(o[c], at[c], g)
      <4>1. p[c].kind # "while" /\ o[c].kind # "while" BY <1>3, <2>2, <3>1
      <4> QED BY <3>1, <3>2, <4>1 DEF Fits
    <3> QED BY <1>4, <1>2, <2>2, <3>1, <3>2, <3>3, <3>4, <3>5, <3>6, <3>7
  <2> QED BY <2>1, <2>2
<1>5. Held(g, p, at, n, Len(g.blocks))
  <2>1. \A c \in 1..n : /\ at[c] \in Nat /\ Typed(p[c])
                        /\ at[c] + BlocksOf(p[c]) = (IF c = n THEN Len(g.blocks) ELSE at[c + 1])
                        /\ Fits(p[c], at[c], g) /\ PrepWaits(p[c], g.ops)
                        /\ p[c].kind = "chunk" <=> c = 1
                        /\ c < n => p[c].at = "body"
    BY <1>1, <1>4 DEF Held
  <2>2. \A c, d \in 1..n : c < d => at[c] + BlocksOf(p[c]) <= at[d] BY <1>1, <1>4 DEF Held
  <2> QED BY <1>1, <2>1, <2>2 DEF Held
<1>6. Registered(g, p, n) BY <1>4 DEF Laid, Registered
<1>7. Owned(g, p, at, n)
  <2>1. ASSUME NEW c \in 1..n, NEW q, Owner(q, o[c], at[c], g) PROVE Owner(q, p[c], at[c], g)
    BY <1>4, <2>1 DEF Owner
  <2> QED BY <2>1 DEF Laid, Owned
<1>8. Distinct(p, n, g.unique) BY <1>4 DEF Laid, Distinct
<1> QED BY <1>5, <1>6, <1>7, <1>8 DEF Laid

(* The block of the body is left. *)
LEMMA BodyEnds ==
    ASSUME NEW g, NEW o, NEW at, NEW n, Laid(g, o, at, n), Sound(g), o[n].at = "body", ~o[n].ret,
           o[n].kind # "repeat", NEW p, Ended(o, n, p)
    PROVE  LET h == ExitBlock(g)
           IN  /\ Laid(h, p, at, n) /\ Sound(h) /\ StackTop(h) <= StackTop(g) /\ h.error = g.error
<1> DEFINE m == Len(g.blocks)
           h == ExitBlock(g)
           pos == at[n]
           c1 == p[n]
<1>1. Held(g, o, at, n, m) /\ Regular(g) /\ g.unique \in Nat BY DEF Laid
<1>2. /\ n \in Nat \ {0} /\ n \in 1..n /\ Typed(o[n]) /\ pos \in Nat /\ pos + BlocksOf(o[n]) = m /\ m \in Nat
      /\ Fits(o[n], pos, g)
  BY <1>1, HeldRange DEF Held
<1>3. /\ c1.kind = o[n].kind /\ c1.ret = o[n].ret /\ c1.labels = o[n].labels /\ c1.at = "labels" /\ Typed(c1)
  BY DEF Ended
<1>4. HasState(c1) <=> HasState(o[n]) BY <1>3 DEF HasState
<1>5. BlocksOf(o[n]) = BlocksOf(c1) + 1 /\ BlocksOf(c1) \in {1, 2} /\ (HasState(c1) => BlocksOf(c1) = 2)
      /\ (c1.kind = "while" => BlocksOf(c1) = 1)
  <2>1. ~c1.ret /\ ~o[n].ret /\ o[n].at # "labels" BY <1>3
  <2>2. CASE HasState(c1)
    <3>1. BlocksOf(c1) = 2 BY <1>3, <2>2 DEF BlocksOf
    <3>2. BlocksOf(o[n]) = 3 BY <1>3, <1>4, <2>1, <2>2 DEF BlocksOf
    <3> QED BY <2>2, <3>1, <3>2 DEF HasState
  <2>3. CASE ~HasState(c1)
    <3>1. BlocksOf(c1) = 1 BY <1>3, <2>3 DEF BlocksOf
    <3>2. BlocksOf(o[n]) = 2 BY <1>3, <1>4, <2>1, <2>3 DEF BlocksOf
    <3> QED BY <2>3, <3>1, <3>2
  <2> QED BY <2>2, <2>3
<1>6. PICK k \in Nat \ {0} : k = pos + BlocksOf(c1)
  <2>1. pos + BlocksOf(c1) \in Nat \ {0} BY <1>2, <1>5
  <2> QED BY <2>1
<1>7. m = k + 1 /\ pos < k BY <1>2, <1>5, <1>6
<1>8. m \in pos + 1..m BY <1>2, <1>6, <1>7
<1>9. Below(o, n, Bottom(g, m)) /\ Bottom(g, m) \in Nat /\ Bottom(g, m) <= StackTop(g)
  BY <1>1, <1>8, HeldBelow
<1>10. OnlyLocals(g.locals, g.blocks[k + 1].stack_bottom, StackTop(g))
  <2>1. StackTop(g) \in Nat /\ Registered(g, o, n) BY <1>1, RegularParts DEF Laid
  <2>2. OnlyLocals(g.locals, Bottom(g, m), StackTop(g)) BY <1>9, <2>1, OnlyLocalsAbove
  <2> QED BY <1>7, <2>2 DEF Bottom
<1> HIDE DEF h
<1>11. Beyond(g, h, k, {}) /\ LeftTo(g, h, k) /\ Sound(h)
  <2>1. k <= k BY <1>6
  <2> QED BY <1>1, <1>7, <1>10, <2>1, BeyondExit DEF h
<1>12. /\ Regular(h) /\ Len(h.blocks) = k /\ StackTop(h) = Bottom(g, k + 1)
       /\ \A i \in 1..k : Bottom(h, i) = Bottom(g, i)
  BY <1>11 DEF Beyond, LeftTo, Bottom
<1>13. h.error = g.error /\ h.unique = g.unique BY <1>11 DEF LeftTo, Keeps
<1>14. StackTop(h) <= StackTop(g) /\ StackTop(h) \in Nat BY <1>7, <1>9, <1>12
<1>15. Fits(c1, pos, h)
  <2>1. pos + 1 \in 1..k /\ \A i \in 1..pos : i \in 1..k BY <1>2, <1>6, <1>7
  <2>2. ASSUME HasState(c1)
        PROVE  /\ Bottom(h, pos + 1) = c1.labels[1] + 3
               /\ \A i \in 1..pos : Bottom(h, i) <= c1.labels[1]
               /\ \A x \in Items(h) : x.block_index <= pos => x.stack_top <= c1.labels[1]
               /\ Bottom(h, pos + 2) = Bottom(h, pos + 1)
    <3>1. pos + 2 \in 1..k BY <1>2, <1>5, <1>6, <2>2
    <3>2. HasState(o[n]) BY <1>4, <2>2
    <3>3. /\ Bottom(g, pos + 1) = o[n].labels[1] + 3
          /\ \A i \in 1..pos : Bottom(g, i) <= o[n].labels[1]
          /\ \A x \in Items(g) : x.block_index <= pos => x.stack_top <= o[n].labels[1]
          /\ Bottom(g, pos + 2) = Bottom(g, pos + 1)
      BY <1>2, <3>2 DEF Fits
    <3>4. \A x \in Items(h) : x.block_index <= pos => x \in Items(g)
      <4>1. \A x \in Items(h) : x.block_index \in Nat BY <1>12, ItemsTyped
      <4>2. \A x \in Items(h) : x.block_index < k => x \in Items(g) BY <1>11 DEF Beyond
      <4> QED BY <1>2, <1>7, <4>1, <4>2
    <3> QED BY <1>3, <1>12, <2>1, <3>1, <3>3, <3>4
  <2>3. c1.kind # "repeat" BY <1>3
  <2>4. ASSUME c1.kind = "while"
        PROVE  /\ StackTop(h) = Bottom(h, pos + 1)
               /\ \E t \in Targets(h) : t.label = c1.labels[1] /\ t.block_index = pos
    <3>1. k = pos + 1 BY <1>5, <1>6, <2>4
    <3>2. Bottom(g, pos + 2) = Bottom(g, pos + 1) BY <1>2, <1>3, <2>4 DEF Fits
    <3>3. k + 1 = pos + 2 BY <1>2, <3>1
    <3>4. StackTop(h) = Bottom(h, pos + 1) BY <1>12, <2>1, <3>2, <3>3
    <3>5. PICK t \in Targets(g) : t.label = o[n].labels[1] /\ t.block_index = pos BY <1>2, <1>3, <2>4 DEF Fits
    <3>6. t \in Targets(h) BY <1>2, <1>7, <1>11, <3>5 DEF Beyond
    <3> QED BY <1>3, <3>4, <3>5, <3>6
  <2> QED BY <1>3, <2>2, <2>3, <2>4 DEF Fits
<1>16. ASSUME NEW c \in 1..n - 1
       PROVE  /\ p[c] = o[c] /\ c \in 1..n /\ c < n /\ Typed(o[c]) /\ at[c] \in Nat /\ o[c].at = "body"
              /\ at[c] + BlocksOf(o[c]) <= pos /\ BlocksOf(o[c]) \in 1..3
              /\ Fits(o[c], at[c], h) /\ PrepWaits(o[c], h.ops)
  <2>1. c \in 1..n /\ c < n /\ c # n BY <1>2, <1>16
  <2>2. Typed(o[c]) /\ at[c] \in Nat /\ o[c].at = "body" /\ Fits(o[c], at[c], g) /\ PrepWaits(o[c], g.ops)
    BY <1>1, <2>1 DEF Held
  <2>3. at[c] + BlocksOf(o[c]) <= pos /\ BlocksOf(o[c]) \in 1..3 BY <1>1, <2>1, HeldRange
  <2>4. at[c] + BlocksOf(o[c]) <= k BY <1>2, <1>7, <2>2, <2>3
  <2>5. Fits(o[c], at[c], h) BY <1>1, <1>11, <2>2, <2>4, FitsKept
  <2>6. PrepWaits(o[c], h.ops)
    <3>1. o[c].kind = "for" => o[c].labels[2] \notin {} OBVIOUS
    <3> QED BY <1>1, <1>11, <2>2, <3>1, PrepKept
  <2> QED BY <2>1, <2>2, <2>3, <2>5, <2>6 DEF Ended
<1>17. PrepWaits(c1, h.ops)
  <2>1. PrepWaits(o[n], g.ops) BY <1>1, <1>2 DEF Held
  <2>2. PrepWaits(c1, g.ops) BY <1>3, <2>1 DEF PrepWaits
  <2>3. c1.kind = "for" => c1.labels[2] \notin {} OBVIOUS
  <2> QED BY <1>1, <1>11, <2>2, <2>3, PrepKept
<1> HIDE DEF c1
<1>18. \A c \in 1..n : c = n \/ c \in 1..n - 1 BY <1>2
<1>19. Held(h, p, at, n, k)
  <2>1. ASSUME NEW c \in 1..n
        PROVE  /\ at[c] \in Nat /\ Typed(p[c])
               /\ at[c] + BlocksOf(p[c]) = (IF c = n THEN k ELSE at[c + 1])
               /\ Fits(p[c], at[c], h) /\ PrepWaits(p[c], h.ops)
               /\ p[c].kind = "chunk" <=> c = 1
               /\ c < n => p[c].at = "body"
    <3>1. CASE c = n
      <4>1. p[c] = c1 /\ at[c] = pos /\ (o[n].kind = "chunk" <=> n = 1) BY <1>1, <1>2, <3>1 DEF c1, Held
      <4> QED BY <1>2, <1>3, <1>6, <1>15, <1>17, <3>1, <4>1
    <3>2. CASE c \in 1..n - 1
      <4>1. /\ at[c] + BlocksOf(o[c]) = (IF c = n THEN m ELSE at[c + 1])
            /\ o[c].kind = "chunk" <=> c = 1
        BY <1>1 DEF Held
      <4>2. c # n BY <1>16, <3>2
      <4> QED BY <1>16, <3>2, <4>1, <4>2
    <3> QED BY <1>18, <3>1, <3>2
  <2>2. ASSUME NEW c \in 1..n, NEW d \in 1..n, c < d PROVE at[c] + BlocksOf(p[c]) <= at[d]
    <3>1. c \in 1..n - 1 BY <1>2, <2>2
    <3>2. at[c] + BlocksOf(o[c]) <= at[d] BY <1>1, <2>2 DEF Held
    <3> QED BY <1>16, <3>1, <3>2
  <2>3. k \in Nat /\ at[1] = 0 BY <1>1, <1>6 DEF Held
  <2> QED BY <1>2, <2>1, <2>2, <2>3 DEF Held
<1>20. ASSUME NEW c \in 1..n
       PROVE  /\ \A l : Awaits(p[c], l) <=> Awaits(o[c], l)
              /\ \A r : Reserved(p[c], r) <=> Reserved(o[c], r)
              /\ p[c].kind = o[c].kind
  <2>1. CASE c = n
    <3>1. p[c].kind = o[c].kind /\ p[c].labels = o[c].labels BY <1>3, <2>1 DEF c1
    <3> QED BY <3>1 DEF Awaits, Reserved, HasState
  <2>2. CASE c \in 1..n - 1 BY <1>16, <2>2
  <2> QED BY <1>18, <2>1, <2>2
<1>21. Registered(h, p, n)
  <2>1. StackTop(g) \in Nat /\ Registered(g, o, n) BY <1>1, RegularParts DEF Laid
  <2>2. Registered(h, o, n) BY <1>11, <1>14, <2>1, RegisteredExit
  <2> QED BY <1>20, <2>2 DEF Registered
<1>22. Distinct(p, n, h.unique) BY <1>13, <1>20 DEF Laid, Distinct
<1>23. ASSUME NEW q \in h.pending_jumps, IsUnique(q) PROVE \E c \in 1..n : Owner(q, p[c], at[c], h)
  <2>1. PICK r \in g.pending_jumps :
            /\ q.target = r.target /\ ((r.block_index <= k /\ q = r) \/ r.block_index = k + 1)
    BY <1>11 DEF LeftTo
  <2>2. IsUnique(r) BY <1>23, <2>1 DEF IsUnique
  <2>3. PICK c \in 1..n : Owner(r, o[c], at[c], g) BY <2>1, <2>2 DEF Laid, Owned
  <2>4. at[c] \in Nat /\ at[c] < k /\ (o[c].kind = "forin" => at[c] + 2 <= k)
    <3>1. CASE c = n
      <4>1. o[c].kind = "forin" => HasState(c1) BY <1>3, <3>1 DEF HasState
      <4> QED BY <1>2, <1>5, <1>6, <1>7, <3>1, <4>1
    <3>2. CASE c \in 1..n - 1
      <4>1. o[c].kind = "forin" => BlocksOf(o[c]) >= 2 BY <1>16, <3>2, BlocksOfIs DEF HasState
      <4> QED BY <1>2, <1>7, <1>16, <3>2, <4>1
    <3> QED BY <1>18, <3>1, <3>2
  <2>5. r.block_index <= k BY <1>6, <2>3, <2>4 DEF Owner
  <2>6. q = r
    <3>1. r.block_index \in Nat BY <1>1, <2>1, RegularParts
    <3> QED BY <1>6, <2>1, <2>5, <3>1
  <2>7. Bottom(h, at[c] + 1) = Bottom(g, at[c] + 1)
    <3>1. at[c] + 1 \in 1..k BY <1>6, <2>4
    <3> QED BY <1>12, <3>1
  <2>8. Owner(q, p[c], at[c], h) BY <1>20, <2>3, <2>6, <2>7 DEF Owner
  <2> QED BY <2>8
<1>24. Bottom(h, 1) = h.fixed_params
  <2>1. 1 \in 1..k BY <1>6
  <2>2. h.fixed_params = g.fixed_params BY <1>11 DEF Beyond
  <2> QED BY <1>12, <2>1, <2>2 DEF Laid
<1>25. Laid(h, p, at, n)
  <2>1. Owned(h, p, at, n) BY <1>23 DEF Owned
  <2> QED BY <1>1, <1>12, <1>13, <1>19, <1>21, <1>22, <1>24, <2>1 DEF Laid
<1> QED BY <1>11, <1>13, <1>14, <1>25 DEF h

(* No jump of the whole function enters the scope of a local it did not start in. *)
JumpsStayOut(g) ==
    \A i \in DOMAIN g.ops : g.ops[i].op = "jump" =>
        \A s \in g.scopes :
            s.from <= g.ops[i].target /\ g.ops[i].target < s.to => s.from <= i /\ i < s.to

(* What is dropped in two steps is dropped. *)
LEMMA DroppedTwice ==
    ASSUME NEW g, Regular(g), NEW e, NEW b \in Nat, NEW here, Dropped(g, e, b, here), NEW d, Dropped(e, d, 0, here)
    PROVE  Dropped(g, d, 0, here)
<1>1. Len(g.locals) \in Nat /\ \A i \in 1..Len(g.locals) : g.locals[i].reg \in Nat BY RegularParts
<1>2. /\ Len(e.locals) \in 0..Len(g.locals) /\ Len(d.locals) \in 0..Len(e.locals)
      /\ \A i \in 1..Len(e.locals) : i \in 1..Len(g.locals) /\ e.locals[i] = g.locals[i]
      /\ \A i \in 1..Len(d.locals) : i \in 1..Len(e.locals) /\ d.locals[i] = e.locals[i]
  BY <1>1 DEF Dropped
<1>3. Len(d.locals) \in 0..Len(g.locals) /\ \A i \in 1..Len(d.locals) : d.locals[i] = g.locals[i] BY <1>1, <1>2
<1>4. ASSUME NEW s \in d.scopes
      PROVE  \/ s \in g.scopes
             \/ \E k \in 1..Len(g.locals) : /\ 0 <= g.locals[k].reg
                                           /\ s = [reg |-> g.locals[k].reg, from |-> g.locals[k].from, to |-> here]
  <2>1. CASE s \in e.scopes BY <1>1, <2>1 DEF Dropped
  <2>2. CASE s \notin e.scopes BY <1>2, <2>2 DEF Dropped
  <2> QED BY <2>1, <2>2
<1>5. ASSUME NEW i \in 1..Len(g.locals) PROVE g.locals[i].reg < 0 <=> i <= Len(d.locals)
  <2>1. CASE i <= Len(e.locals)
    <3>1. i \in 1..Len(e.locals) BY <1>1, <1>2, <2>1
    <3> QED BY <1>2, <3>1 DEF Dropped
  <2>2. CASE ~(i <= Len(e.locals)) BY <1>1, <1>2, <2>2
  <2> QED BY <2>1, <2>2
<1>6. ASSUME NEW i \in 1..Len(g.locals)
      PROVE  [reg |-> g.locals[i].reg, from |-> g.locals[i].from, to |-> here] \in d.scopes
  <2>1. CASE i <= Len(e.locals)
    <3>1. i \in 1..Len(e.locals) /\ e.locals[i] = g.locals[i] /\ 0 <= e.locals[i].reg BY <1>1, <1>2, <2>1
    <3> QED BY <3>1 DEF Dropped
  <2>2. CASE ~(i <= Len(e.locals))
    <3>1. ~(g.locals[i].reg < b) BY <2>2 DEF Dropped
    <3>2. b <= g.locals[i].reg BY <1>1, <3>1
    <3> QED BY <3>2 DEF Dropped
  <2> QED BY <2>1, <2>2
<1>7. g.scopes \subseteq d.scopes BY DEF Dropped
<1> QED BY <1>3, <1>4, <1>5, <1>6, <1>7 DEF Dropped

(* The end of the last block leaves the parameters, and nothing else, in registers: with
   them the last ones are given back. *)
LEMMA ParametersLeft ==
    ASSUME NEW g, NEW o, NEW at, Laid(g, o, at, 1), o[1].at = "labels"
    PROVE  LET e == ExitBlock(g)
               d == FreeLocals(e, 0)
           IN  /\ Keeps(g, e, {"alloc", "locals", "blocks", "jump_targets", "pending_jumps", "ops", "scopes"})
               /\ Keeps(e, d, {"alloc", "locals", "scopes"})
               /\ Len(g.blocks) = 0 + 1 /\ Len(e.locals) = e.fixed_params /\ StackTop(d) = 0
               /\ Dropped(g, d, 0, Len(g.ops) + 1)
               /\ e.ops = g.ops /\ e.blocks = Front(g.blocks) /\ e.pending_jumps = g.pending_jumps
               /\ e.jump_targets = SubSeq(g.jump_targets, 1, g.blocks[0 + 1].bottom_jump_target)
<1> DEFINE e == ExitBlock(g)
           d == FreeLocals(e, 0)
           k == g.fixed_params
<1>1. Held(g, o, at, 1, Len(g.blocks)) /\ Regular(g) /\ Bottom(g, 1) = k /\ Registered(g, o, 1) BY DEF Laid
<1>2. at[1] = 0 /\ Typed(o[1]) /\ o[1].kind = "chunk" /\ at[1] + BlocksOf(o[1]) = Len(g.blocks)
  <2>1. 1 \in 1..1 OBVIOUS
  <2> QED BY <1>1, <2>1 DEF Held
<1>3. ~HasState(o[1]) BY <1>2 DEF HasState
<1>4. BlocksOf(o[1]) = 1 BY <1>2, <1>3 DEF BlocksOf
<1>5. Len(g.blocks) = 0 + 1 BY <1>2, <1>4
<1>6. g.blocks[0 + 1].stack_bottom = k BY <1>1 DEF Bottom
<1>7. k \in Nat /\ StackTop(g) \in Top /\ StackTop(g) \in Nat /\ k <= StackTop(g)
  <2>1. 1 \in 1..Len(g.blocks) BY <1>5
  <2>2. Bottom(g, 1) \in Nat /\ Bottom(g, 1) <= StackTop(g) BY <1>1, <2>1, BottomsRise
  <2> QED BY <1>1, <2>2, RegularParts DEF Regular
<1>8. \A r \in Nat : r < StackTop(g) => IsLocal(g.locals, r)
  <2>1. \A c \in 1..1 : \A r : ~Reserved(o[c], r) BY <1>3 DEF Reserved
  <2> QED BY <1>1, <2>1 DEF Registered
<1>9. OnlyLocals(g.locals, k, StackTop(g))
  <2>1. \A r \in k..StackTop(g) - 1 : r \in Nat /\ r < StackTop(g) BY <1>7
  <2> QED BY <1>8, <2>1 DEF OnlyLocals, IsLocal
<1> HIDE DEF e, k
<1>10. /\ Keeps(g, e, {"alloc", "locals", "blocks", "jump_targets", "pending_jumps", "ops", "scopes"})
       /\ Dropped(g, e, k, Len(g.ops) + 1)
       /\ Stacked(e.alloc, k) /\ Rising(e.locals, k)
       /\ \A r \in Nat : r < k => (IsLocal(e.locals, r) <=> IsLocal(g.locals, r))
       /\ e.ops = g.ops /\ e.blocks = Front(g.blocks)
       /\ e.jump_targets = SubSeq(g.jump_targets, 1, g.blocks[0 + 1].bottom_jump_target)
       /\ e.pending_jumps = Outward(g.pending_jumps, 0, k, g.blocks[0 + 1].owns_upvalues)
  <2>1. 0 \in Nat /\ ~(0 > 0) OBVIOUS
  <2> QED BY <1>1, <1>5, <1>6, <1>9, <2>1, ExitFields DEF e
<1>11. k \in Top BY <1>7, RegistersAssumption DEF Top
<1>12. OnlyLocals(e.locals, 0, k)
  <2>1. \A r \in 0..k - 1 : r \in Nat /\ r < k /\ r < StackTop(g) BY <1>7
  <2> QED BY <1>8, <1>10, <2>1 DEF OnlyLocals, IsLocal
<1>13. IsFunctionRecord(e) /\ e.fixed_params = k BY <1>10 DEF Keeps, k
<1>14. /\ Keeps(e, d, {"alloc", "locals", "scopes"}) /\ Dropped(e, d, 0, Pc(e)) /\ Stacked(d.alloc, 0)
  <2>1. 0 \in Nat /\ 0 <= k BY <1>7
  <2> QED BY <1>10, <1>11, <1>12, <1>13, <2>1, FreeLocalsFields
<1> HIDE DEF d
<1>15. Len(e.locals) = k
  <2>1. e.locals \in Seq(LocalDescriptors) BY <1>10 DEF Rising
  <2>2. Len(e.locals) \in Nat /\ \A i \in 1..Len(e.locals) : e.locals[i].reg \in Nat
    <3>1. Len(e.locals) \in Nat /\ \A i \in 1..Len(e.locals) : e.locals[i] \in LocalDescriptors
      BY <2>1, Elements
    <3> QED BY <3>1 DEF LocalDescriptors
  <2>3. \A i \in 1..Len(e.locals) : e.locals[i].reg < 0 <=> i <= 0 BY <2>2
  <2> QED BY <1>7, <1>10, <1>12, <2>2, <2>3, LocalsDownFromTop
<1>16. Dropped(g, d, 0, Len(g.ops) + 1)
  <2>1. Pc(e) = Len(g.ops) + 1 BY <1>10 DEF Pc
  <2> QED BY <1>1, <1>7, <1>10, <1>14, <2>1, DroppedTwice
<1>17. StackTop(d) = 0 /\ e.pending_jumps = g.pending_jumps BY <1>10, <1>14 DEF Stacked, StackTop, Outward
<1> QED BY <1>5, <1>10, <1>13, <1>14, <1>15, <1>16, <1>17 DEF d, e

(* At the end of the chunk everything was given back, and every scope has ended. *)
LEMMA ChunkEnds ==
    ASSUME NEW g, NEW o, NEW at, Laid(g, o, at, 1), Sound(g), o[1].at = "labels"
    PROVE  Sound(Finish(ExitBlock(g))) /\ JumpsStayOut(Finish(ExitBlock(g)))
<1> DEFINE x == ExitBlock(g)
           e == FreeLocals(x, 0)
           h == Emit(e, Instr("return", {}))
<1>1. Regular(g) BY DEF Laid
<1>2. /\ Keeps(g, x, {"alloc", "locals", "blocks", "jump_targets", "pending_jumps", "ops", "scopes"})
      /\ Keeps(x, e, {"alloc", "locals", "scopes"})
      /\ Len(g.blocks) = 0 + 1 /\ Len(x.locals) = x.fixed_params /\ StackTop(e) = 0
      /\ Dropped(g, e, 0, Len(g.ops) + 1)
      /\ x.ops = g.ops /\ x.blocks = Front(g.blocks) /\ x.pending_jumps = g.pending_jumps
      /\ x.jump_targets = SubSeq(g.jump_targets, 1, g.blocks[0 + 1].bottom_jump_target)
  BY ParametersLeft
<1> HIDE DEF x, e
<1>7. /\ Len(g.blocks) = 0 + 1 /\ e.ops = g.ops /\ e.pending_jumps = g.pending_jumps
      /\ e.jump_targets = SubSeq(g.jump_targets, 1, g.blocks[0 + 1].bottom_jump_target)
      /\ IsFunctionRecord(e) /\ e.error = g.error
  BY <1>2 DEF Keeps
<1>11. IsFunctionRecord(e) /\ e.error = g.error BY <1>7
<1>13. Keeps(e, h, {"ops"}) BY <1>11, EmitFields
<1>9. StackTop(h) = 0 BY <1>2, <1>13 DEF Keeps, StackTop
<1>12. Finish(x) = h \/ Finish(x) = Fail(h, "GotoInvalid") BY <1>2, <1>9 DEF Finish, e
<1>14. IsFunctionRecord(h) /\ h.error = g.error BY <1>11, <1>13 DEF Keeps
<1>15. Fail(h, "GotoInvalid").error = "GotoInvalid" BY <1>14, FailFields
<1>16. Sound(Finish(x)) BY <1>12, <1>14, <1>15 DEF Sound
<1>17. Scoped(e)
  <2>1. e.pending_jumps = g.pending_jumps BY <1>7
  <2>2. \A q \in e.pending_jumps : q.stack_top \in Nat /\ \E p \in g.pending_jumps :
           q.instruction = p.instruction /\ (q.stack_top = p.stack_top \/ q.stack_top <= p.stack_top)
    <3>1. \A q \in g.pending_jumps : q.stack_top \in Nat BY <1>1, RegularParts
    <3> QED BY <2>1, <3>1
  <2>3. Len(e.jump_targets) = 0
    <3> DEFINE T == g.jump_targets
               b == g.blocks[0 + 1].bottom_jump_target
    <3>1. 1 \in 1..Len(g.blocks) /\ TargetsPlaced(T, g.blocks, StackTop(g)) BY <1>1, <1>7 DEF Regular
    <3>2. b \in 0..Len(T) /\ \A k \in 1..Len(T) : T[k].block_index < 1 <=> k <= b BY <3>1 DEF TargetsPlaced
    <3>3. \A k \in 1..Len(T) : T[k].block_index \in 1..Len(g.blocks) BY <3>1 DEF TargetsPlaced, Placed
    <3>4. Len(T) \in Nat /\ T \in Seq(JumpTargets) BY <1>1, <3>1, RegularParts DEF TargetsPlaced
    <3>5. e.jump_targets = SubSeq(T, 1, b) BY <1>7
    <3> HIDE DEF T, b
    <3>6. ~(b > 0)
      <4> SUFFICES ASSUME b > 0 PROVE FALSE OBVIOUS
      <4>1. 1 \in 1..Len(T) /\ 1 <= b BY <3>2, <3>4
      <4>2. T[1].block_index \in 1..Len(g.blocks) /\ T[1].block_index < 1 BY <3>2, <3>3, <4>1
      <4> QED BY <4>2, <1>7
    <3>7. b = 0 BY <3>2, <3>4, <3>6
    <3> QED BY <3>4, <3>5, <3>7
  <2>4. 0 \in Nat /\ Dropped(g, e, 0, Len(g.ops) + 1) BY <1>2
  <2>5. \A j \in 1..Len(e.jump_targets) : \E k \in 1..Len(g.jump_targets) :
           e.jump_targets[j] = g.jump_targets[k] /\ g.jump_targets[k].stack_top <= 0
    BY <2>3
  <2> QED BY <1>1, <1>7, <2>2, <2>4, <2>5, ScopedExit
<1>18. Finish(x).ops = h.ops /\ Finish(x).scopes = h.scopes BY <1>12, <1>14, FailFields DEF Keeps
<1>19. h.scopes = e.scopes /\ h.ops = Append(e.ops, Instr("return", {})) BY <1>11, <1>13, EmitFields DEF Keeps
<1>20. e.ops \in Seq(Instrs)
  <2>1. g.ops \in Seq(Instrs) BY <1>1 DEF Regular
  <2> QED BY <1>7, <2>1
<1>21. JumpsStayOut(Finish(x))
  <2> SUFFICES ASSUME NEW i \in DOMAIN h.ops, h.ops[i].op = "jump", NEW s \in e.scopes
               PROVE  s.from <= h.ops[i].target /\ h.ops[i].target < s.to => s.from <= i /\ i < s.to
    BY <1>18, <1>19 DEF JumpsStayOut
  <2>1. Instr("return", {}) \in Instrs /\ Instr("return", {}).op # "jump" BY TestTyped
  <2>2. Len(e.ops) \in Nat BY <1>20, Elements
  <2>3. /\ DOMAIN h.ops = 1..Len(e.ops) + 1 /\ h.ops[Len(e.ops) + 1] = Instr("return", {})
        /\ \A j \in 1..Len(e.ops) : h.ops[j] = e.ops[j]
    BY <1>19, <1>20, <2>1, <2>2
  <2>4. i # Len(e.ops) + 1 BY <2>1, <2>3
  <2>5. i \in 1..Len(e.ops) /\ h.ops[i] = e.ops[i] BY <2>2, <2>3, <2>4
  <2> QED BY <1>17, <2>5 DEF Scoped, JumpsLand, Lands
<1> QED BY <1>16, <1>21 DEF x

(* The walk. *)
Sequence(o) == \E S : o \in Seq(S)

LEMMA SequenceFacts ==
    ASSUME NEW o, Sequence(o)
    PROVE  /\ Len(o) \in Nat
           /\ \A x : /\ Sequence(Append(o, x)) /\ Len(Append(o, x)) = Len(o) + 1
                     /\ \A c \in 1..Len(o) : Append(o, x)[c] = o[c]
                     /\ Append(o, x)[Len(o) + 1] = x
<1>1. PICK S : o \in Seq(S) BY DEF Sequence
<1>2. Len(o) \in Nat BY <1>1
<1>3. ASSUME NEW x
      PROVE  /\ Sequence(Append(o, x)) /\ Len(Append(o, x)) = Len(o) + 1
             /\ \A c \in 1..Len(o) : Append(o, x)[c] = o[c]
             /\ Append(o, x)[Len(o) + 1] = x
  <2> DEFINE U == S \union {x}
  <2>1. o \in Seq(U)
    <3>1. Len(o) \in Nat /\ o = [i \in 1..Len(o) |-> o[i]] /\ \A i \in 1..Len(o) : o[i] \in U BY <1>1
    <3> HIDE DEF U
    <3>2. [i \in 1..Len(o) |-> o[i]] \in [1..Len(o) -> U] BY <3>1
    <3> QED BY <3>1, <3>2, SeqDef
  <2>2. x \in U OBVIOUS
  <2> HIDE DEF U
  <2>3. /\ Append(o, x) \in Seq(U) /\ Len(Append(o, x)) = Len(o) + 1
        /\ \A i \in 1..Len(o) : Append(o, x)[i] = o[i]
        /\ Append(o, x)[Len(o) + 1] = x
    BY <2>1, <2>2, Appended
  <2> QED BY <2>3 DEF Sequence
<1> QED BY <1>2, <1>3

LEMMA FrontSequence ==
    ASSUME NEW o, Sequence(o), NEW n \in Nat, Len(o) = n + 1
    PROVE  /\ Sequence(Front(o)) /\ Len(Front(o)) = n
           /\ \A c \in 1..n : Front(o)[c] = o[c]
<1>1. PICK S : o \in Seq(S) BY DEF Sequence
<1>2. Front(o) \in Seq(S) /\ Len(Front(o)) = n /\ \A i \in 1..n : Front(o)[i] = o[i] BY <1>1, FrontIs
<1> QED BY <1>2 DEF Sequence

LEMMA ReplacedLast ==
    ASSUME NEW o, Sequence(o), NEW x, Len(o) > 0
    PROVE  LET p == [o EXCEPT ![Len(o)] = x]
           IN  /\ Sequence(p) /\ Len(p) = Len(o) /\ p[Len(o)] = x
               /\ \A c \in 1..Len(o) - 1 : p[c] = o[c]
<1> DEFINE p == [o EXCEPT ![Len(o)] = x]
<1>1. PICK S : o \in Seq(S) BY DEF Sequence
<1> DEFINE U == S \union {x}
<1>2. Len(o) \in Nat /\ DOMAIN o = 1..Len(o) /\ o = [i \in 1..Len(o) |-> o[i]] /\ \A i \in 1..Len(o) : o[i] \in U
  BY <1>1
<1>3. x \in U OBVIOUS
<1> HIDE DEF U
<1>4. o \in [1..Len(o) -> U] BY <1>2
<1>5. p \in [1..Len(o) -> U] /\ p[Len(o)] = x /\ \A c \in 1..Len(o) - 1 : p[c] = o[c] BY <1>2, <1>3, <1>4
<1> HIDE DEF p
<1>6. p \in Seq(U) BY <1>2, <1>5, SeqDef
<1>7. Len(p) = Len(o)
  <2>1. DOMAIN p = 1..Len(o) BY <1>5
  <2>2. Len(p) \in Nat /\ DOMAIN p = 1..Len(p) BY <1>6
  <2> QED BY <1>2, <2>1, <2>2
<1>8. Sequence(p) BY <1>6 DEF Sequence
<1> QED BY <1>5, <1>7, <1>8 DEF p

(* The function fits the constructs the walk is inside of. *)
Layout(g, o) == Sequence(o) /\ Len(o) \in Nat \ {0} /\ \E at : Laid(g, o, at, Len(o))

LEMMA LaidTyped ==
    ASSUME NEW g, NEW o, NEW at, NEW n, Laid(g, o, at, n)
    PROVE  n \in Nat \ {0} /\ n \in 1..n /\ \A c \in 1..n : Typed(o[c])
BY DEF Laid, Held

LEMMA LayoutMarked ==
    ASSUME NEW g, NEW o, NEW at, Sequence(o), Laid(g, o, at, Len(o)), NEW label \in BOOLEAN
    PROVE  LET p == [o EXCEPT ![Len(o)].afterLabel = label]
           IN  /\ Sequence(p) /\ Len(p) = Len(o) /\ Laid(g, p, at, Len(o))
               /\ p[Len(o)].at = o[Len(o)].at
<1> DEFINE n == Len(o)
           d == o[n]
           x == [d EXCEPT !.afterLabel = label]
           p == [o EXCEPT ![n] = x]
<1>1. n \in Nat \ {0} /\ n \in 1..n /\ \A c \in 1..n : Typed(o[c]) BY LaidTyped
<1>2. Typed(d) BY <1>1
<1> HIDE DEF d
<1>3. Alike(d, x) /\ Typed(x)
  <2>1. d \in [kind : SourceKinds \union {"chunk", "else"}, ret : BOOLEAN, labels : {d.labels},
               at : {"body", "labels"}, afterLabel : BOOLEAN]
    BY <1>2 DEF Typed
  <2>2. /\ x \in [kind : SourceKinds \union {"chunk", "else"}, ret : BOOLEAN, labels : {d.labels},
                  at : {"body", "labels"}, afterLabel : BOOLEAN]
        /\ d.kind = x.kind /\ d.ret = x.ret /\ d.labels = x.labels /\ d.at = x.at
    BY <2>1
  <2> HIDE DEF x
  <2>3. HasState(x) <=> HasState(d) BY <2>2 DEF HasState
  <2> QED BY <1>2, <2>2, <2>3 DEF Typed, Alike
<1> HIDE DEF x
<1>4. /\ Sequence(p) /\ Len(p) = n /\ p[n] = x /\ \A c \in 1..n - 1 : p[c] = o[c]
  BY <1>1, ReplacedLast
<1> HIDE DEF p
<1>5. ASSUME NEW c \in 1..n PROVE Alike(o[c], p[c]) /\ Typed(p[c])
  <2>1. CASE c = n BY <1>3, <1>4, <2>1 DEF d
  <2>2. CASE c # n
    <3>1. c \in 1..n - 1 BY <1>1, <2>2
    <3>2. p[c] = o[c] BY <1>4, <3>1
    <3> QED BY <1>1, <3>2 DEF Alike
  <2> QED BY <2>1, <2>2
<1>6. Laid(g, p, at, n) BY <1>5, LaidAlike
<1>7. p[n].at = o[n].at BY <1>1, <1>5 DEF Alike
<1>8. p = [o EXCEPT ![Len(o)].afterLabel = label] BY DEF p, x, d
<1> QED BY <1>4, <1>6, <1>7, <1>8

LEMMA LaidReady ==
    ASSUME NEW g, NEW o, NEW at, NEW n, Laid(g, o, at, n), Ok(g), o[n].at = "body"
    PROVE  Ready(g, o, at, n, {})
<1>1. \A l \in {} : l \in UniqueLabels /\ l.id < g.unique /\ \A c \in 1..n : ~Awaits(o[c], l) OBVIOUS
<1> QED BY <1>1 DEF Laid, Ready, Owned

(* The end of a body: the last construct goes on with labels only. *)
LEMMA MarkedEnded ==
    ASSUME NEW g, NEW o, NEW at, Sequence(o), Laid(g, o, at, Len(o)),
           o[Len(o)].kind # "repeat" \/ o[Len(o)].ret
    PROVE  LET p == [o EXCEPT ![Len(o)].at = "labels"]
           IN  /\ Sequence(p) /\ Len(p) = Len(o) /\ Ended(o, Len(o), p)
<1> DEFINE n == Len(o)
           d == o[n]
           x == [d EXCEPT !.at = "labels"]
           p == [o EXCEPT ![n] = x]
<1>1. n \in Nat \ {0} /\ n \in 1..n /\ \A c \in 1..n : Typed(o[c]) BY LaidTyped
<1>2. Typed(d) /\ (d.kind # "repeat" \/ d.ret) BY <1>1
<1> HIDE DEF d
<1>3. /\ x.kind = d.kind /\ x.ret = d.ret /\ x.labels = d.labels /\ x.at = "labels" /\ Typed(x)
  <2>1. d \in [kind : SourceKinds \union {"chunk", "else"}, ret : BOOLEAN, labels : {d.labels},
               at : {"body", "labels"}, afterLabel : BOOLEAN]
    BY <1>2 DEF Typed
  <2>2. /\ x \in [kind : SourceKinds \union {"chunk", "else"}, ret : BOOLEAN, labels : {d.labels},
                  at : {"body", "labels"}, afterLabel : BOOLEAN]
        /\ d.kind = x.kind /\ d.ret = x.ret /\ d.labels = x.labels /\ x.at = "labels"
    BY <2>1
  <2> HIDE DEF x
  <2>3. HasState(x) <=> HasState(d) BY <2>2 DEF HasState
  <2> QED BY <1>2, <2>2, <2>3 DEF Typed
<1> HIDE DEF x
<1>4. /\ Sequence(p) /\ Len(p) = n /\ p[n] = x /\ \A c \in 1..n - 1 : p[c] = o[c]
  <2>1. n > 0 BY <1>1
  <2> HIDE DEF n
  <2> QED BY <2>1, ReplacedLast, Zenon DEF n
<1>5. p = [o EXCEPT ![Len(o)].at = "labels"] BY DEF x, d
<1> HIDE DEF p
<1>6. Ended(o, n, p) BY <1>3, <1>4 DEF Ended, d
<1> QED BY <1>4, <1>5, <1>6

(* The function before the first statement: its parameters are in its first registers. *)
LEMMA StartRegular ==
    ASSUME NEW fixed \in Nat, fixed < Registers
    PROVE  LET g == StartFunction(fixed)
           IN  /\ Regular(g) /\ Sound(g) /\ StackTop(g) = fixed /\ g.fixed_params = fixed
               /\ g.blocks = <<>> /\ g.jump_targets = <<>> /\ g.pending_jumps = {} /\ g.ops = <<>>
               /\ g.unique = 0 /\ g.scopes = {}
               /\ Len(g.locals) = fixed /\ \A i \in 1..fixed : g.locals[i].reg = i - 1 /\ g.locals[i].from = 1
<1> DEFINE g == StartFunction(fixed)
           L == [i \in 1..fixed |-> [reg |-> i - 1, from |-> 1]]
           a == IF fixed = 0 THEN Empty ELSE Push(Empty, fixed)
<1>1. /\ g.alloc = a /\ g.locals = L /\ g.blocks = <<>> /\ g.jump_targets = <<>>
      /\ g.pending_jumps = {} /\ g.ops = <<>> /\ g.error = "none" /\ g.scopes = {} /\ g.unique = 0
      /\ g.fixed_params = fixed /\ IsFunctionRecord(g)
  BY DEF StartFunction, IsFunctionRecord
<1> HIDE DEF g
<1>3. Stacked(a, fixed) /\ fixed \in Top
  <2>1. Registers \in Nat \ {0} BY RegistersAssumption
  <2>2. Empty \in Allocators BY <2>1 DEF Empty, Allocators, Top, Register
  <2>3. \A r \in Register : r >= 0 /\ ~Empty.registers[r] BY <2>1 DEF Empty, Register
  <2>4. Empty.stack_top = 0 /\ Empty.first_free = 0 BY DEF Empty
  <2>5. 0 \in Top /\ fixed \in Top BY <2>1 DEF Top
  <2>6. \A r \in Register : Empty.registers[r] <=> r < 0 BY <2>1, <2>3 DEF Register
  <2>7. Stacked(Empty, 0) BY <2>2, <2>4, <2>5, <2>6 DEF Stacked
  <2>8. CASE fixed = 0 BY <2>5, <2>7, <2>8
  <2>9. CASE fixed # 0
    <3>1. 0 + fixed < Registers /\ fixed \in Nat \ {0} /\ 0 + fixed = fixed BY <2>9
    <3>2. Stacked(Push(Empty, fixed), fixed) BY <2>5, <2>7, <3>1, PushStacked
    <3> QED BY <2>5, <2>9, <3>2
  <2> QED BY <2>8, <2>9
<1> HIDE DEF a
<1>2. StackTop(g) = fixed BY <1>1, <1>3 DEF StackTop, Stacked
<1>4. Len(<<>>) = 0 /\ \A S : <<>> \in Seq(S) OBVIOUS
<1>14. /\ L \in Seq(LocalDescriptors) /\ Len(L) = fixed
       /\ \A i \in 1..fixed : L[i].reg = i - 1 /\ L[i].from = 1
  <2>1. \A i \in 1..fixed : [reg |-> i - 1, from |-> 1] \in LocalDescriptors BY DEF LocalDescriptors
  <2>2. L \in Seq(LocalDescriptors) /\ Len(L) = fixed BY <2>1
  <2> QED BY <2>2
<1> HIDE DEF L
<1>5. Rising(g.locals, fixed) BY <1>1, <1>14 DEF Rising
<1>6. BlocksRise(g.blocks, fixed) BY <1>1, <1>4 DEF BlocksRise
<1>7. TargetsPlaced(g.jump_targets, g.blocks, fixed) BY <1>1, <1>4 DEF TargetsPlaced
<1>8. JumpsWait(g.pending_jumps, g.blocks, fixed, g.ops) BY <1>1 DEF JumpsWait
<1>9. g.ops \in Seq(Instrs) BY <1>1, <1>4
<1>12. Scoped(g)
  <2>1. Len(g.ops) = 0 /\ Len(g.jump_targets) = 0 BY <1>1, <1>4
  <2>2. ScopesEnd(g.locals, g.scopes, Len(g.ops) + 1) BY <1>1, <1>14, <2>1 DEF ScopesEnd
  <2>3. JumpsLand(g.ops, g.locals, g.scopes) BY <2>1 DEF JumpsLand
  <2>4. WaitersWithin(g.pending_jumps, g.locals) BY <1>1 DEF WaitersWithin
  <2>5. TargetsOutside(g.jump_targets, g.locals, g.scopes, Len(g.ops) + 1) BY <2>1 DEF TargetsOutside
  <2> QED BY <2>2, <2>3, <2>4, <2>5 DEF Scoped
<1>10. Regular(g) BY <1>1, <1>2, <1>3, <1>5, <1>6, <1>7, <1>8, <1>9, <1>12 DEF Regular
<1>11. Sound(g) BY <1>1 DEF Sound
<1> QED BY <1>1, <1>2, <1>10, <1>11, <1>14 DEF g

LEMMA StartLaid ==
    ASSUME NEW fixed \in Nat, fixed < Registers, NEW ret \in BOOLEAN
    PROVE  LET g == Body(EnterBlock(StartFunction(fixed)), ret)
               o == <<Construct("chunk", ret, <<>>)>>
           IN  Layout(g, o) /\ Sound(g) /\ StackTop(g) = fixed
<1> DEFINE s == StartFunction(fixed)
           b == EnterBlock(s)
           g == Body(b, ret)
           c1 == Construct("chunk", ret, <<>>)
           o == <<c1>>
           at == <<0>>
<1>1. /\ Regular(s) /\ Sound(s) /\ s.blocks = <<>> /\ s.jump_targets = <<>> /\ s.fixed_params = fixed
      /\ s.pending_jumps = {} /\ s.unique = 0 /\ StackTop(s) = fixed
      /\ Len(s.locals) = fixed /\ \A i \in 1..fixed : s.locals[i].reg = i - 1
  BY StartRegular
<1> HIDE DEF s
<1>2. /\ Grown(s, b) /\ StackTop(b) = fixed /\ Len(b.blocks) = 1 /\ Bottom(b, 1) = fixed
      /\ b.locals = s.locals /\ b.unique = 0 /\ b.pending_jumps = {} /\ b.fixed_params = fixed
  <2>1. Len(s.blocks) = 0 BY <1>1
  <2>2. /\ Grown(s, b) /\ StackTop(b) = StackTop(s) /\ Len(b.blocks) = Len(s.blocks) + 1
        /\ Bottom(b, Len(s.blocks) + 1) = StackTop(s)
        /\ b.locals = s.locals /\ b.unique = s.unique /\ b.pending_jumps = s.pending_jumps
    BY <1>1, GrownEnter
  <2>3. Len(s.blocks) + 1 = 1 BY <2>1
  <2>4. b.fixed_params = s.fixed_params BY <2>2 DEF Grown, Beyond
  <2> QED BY <1>1, <2>2, <2>3, <2>4
<1> HIDE DEF b
<1>17. Regular(b) /\ Sound(b) BY <1>2 DEF Grown
<1>3. /\ Regular(g) /\ Sound(g) /\ StackTop(g) = fixed /\ Len(g.blocks) = (IF ret THEN 1 ELSE 2)
      /\ Bottom(g, 1) = fixed /\ g.fixed_params = fixed
      /\ g.locals = s.locals /\ g.unique = 0 /\ g.pending_jumps = {}
  <2>1. CASE ret
    <3>1. g = b BY <2>1 DEF Body
    <3> QED BY <1>2, <1>17, <2>1, <3>1
  <2>2. CASE ~ret
    <3>1. g = EnterBlock(b) BY <2>2 DEF Body
    <3>2. 1 \in 1..1 OBVIOUS
    <3>3. /\ Grown(b, g) /\ StackTop(g) = StackTop(b) /\ Len(g.blocks) = Len(b.blocks) + 1
          /\ \A i \in 1..Len(b.blocks) : Bottom(g, i) = Bottom(b, i)
          /\ g.locals = b.locals /\ g.unique = b.unique /\ g.pending_jumps = b.pending_jumps
      BY <1>17, <3>1, GrownEnter
    <3> QED BY <1>2, <2>2, <3>2, <3>3 DEF Grown, Beyond
  <2> QED BY <2>1, <2>2
<1> HIDE DEF g
<1>4. Regular(g) /\ Sound(g) BY <1>3
<1>5. /\ c1.kind = "chunk" /\ c1.ret = ret /\ c1.at = "body"
      /\ c1 \in [kind : SourceKinds \union {"chunk", "else"}, ret : BOOLEAN, labels : {c1.labels},
                 at : {"body", "labels"}, afterLabel : BOOLEAN]
  BY DEF Construct
<1>6. o[1] = c1 /\ at[1] = 0 /\ Len(o) = 1 /\ Sequence(o)
  <2>1. o \in Seq({c1}) OBVIOUS
  <2> QED BY <2>1 DEF Sequence
<1> HIDE DEF c1, o, at
<1>7. ~HasState(c1) /\ Typed(c1) BY <1>5 DEF HasState, Typed
<1>8. BlocksOf(c1) = (IF ret THEN 1 ELSE 2) BY <1>5, <1>7 DEF BlocksOf
<1>9. Fits(c1, 0, g) /\ PrepWaits(c1, g.ops) BY <1>5, <1>7 DEF Fits, PrepWaits
<1>10. \A c \in 1..1 : c = 1 OBVIOUS
<1>11. Held(g, o, at, 1, Len(g.blocks))
  <2>1. \A c \in 1..1 : /\ at[c] \in Nat /\ Typed(o[c])
                        /\ at[c] + BlocksOf(o[c]) = (IF c = 1 THEN Len(g.blocks) ELSE at[c + 1])
                        /\ Fits(o[c], at[c], g) /\ PrepWaits(o[c], g.ops)
                        /\ o[c].kind = "chunk" <=> c = 1
                        /\ c < 1 => o[c].at = "body"
    BY <1>3, <1>5, <1>6, <1>7, <1>8, <1>9, <1>10
  <2>2. \A c, d \in 1..1 : c < d => at[c] + BlocksOf(o[c]) <= at[d] BY <1>10
  <2>3. Len(g.blocks) \in Nat /\ 1 \in Nat \ {0} BY <1>3
  <2> QED BY <1>6, <2>1, <2>2, <2>3 DEF Held
<1>12. Registered(g, o, 1)
  <2>1. ASSUME NEW r \in Nat, r < fixed PROVE IsLocal(g.locals, r)
    <3>1. r + 1 \in 1..fixed /\ (r + 1) - 1 = r BY <2>1
    <3>2. g.locals[r + 1].reg = r BY <1>1, <1>3, <3>1
    <3> QED BY <1>1, <1>3, <3>1, <3>2 DEF IsLocal
  <2>2. \A c \in 1..1 : \A r : ~Reserved(o[c], r) BY <1>6, <1>7, <1>10 DEF Reserved
  <2> QED BY <1>3, <2>1, <2>2 DEF Registered
<1>13. Owned(g, o, at, 1) BY <1>3 DEF Owned
<1>14. Distinct(o, 1, g.unique)
  <2>1. \A l : ~Awaits(c1, l) BY <1>5 DEF Awaits
  <2> QED BY <1>6, <1>10, <2>1 DEF Distinct
<1>15. Laid(g, o, at, 1) BY <1>3, <1>4, <1>11, <1>12, <1>13, <1>14 DEF Laid
<1>16. Layout(g, o) BY <1>6, <1>15 DEF Layout
<1> QED BY <1>3, <1>4, <1>16 DEF g, b, s, o, c1

(* The invariant of the walk. *)
(* As many registers as the source text may ask for: one for a local, four for a loop. *)
Asked(s) == s["locals"] + 4 * s["constructs"]

(* The registers suffice for the next statement, whichever may follow, without the last
   one; they do for every text of a size that could not fill them. *)
RoomForNext ==
    Walking => /\ StackTop(f) < Registers
               /\ source["locals"] < MaxLocals => StackTop(f) + 1 < Registers
               /\ source["constructs"] < MaxConstructs => StackTop(f) + 4 < Registers
RegistersSuffice == MaxLocals + 4 * MaxConstructs < Registers

(* The source uses neither of the two features that do make an assertion fail. *)
SoundFeatures == "goto leaves for" \notin Features /\ "return ends while" \notin Features

SourceBounded ==
    /\ source \in [{"locals", "closures", "jumps", "labels", "constructs"} -> Nat]
    /\ source["locals"] <= MaxLocals /\ source["constructs"] <= MaxConstructs

CompilerInv ==
    /\ Sound(f) /\ SourceBounded
    /\ phase = "compile" /\ Ok(f) => Layout(f, open) /\ StackTop(f) <= Asked(source)

LEMMA BoundsTyped == MaxLocals \in Nat /\ MaxConstructs \in Nat /\ Registers \in Nat \ {0}
BY BoundsAssumption, RegistersAssumption

LEMMA AskedBounded ==
    ASSUME SourceBounded
    PROVE  Asked(source) \in Nat /\ Asked(source) <= MaxLocals + 4 * MaxConstructs
<1>1. source["locals"] \in Nat /\ source["constructs"] \in Nat BY DEF SourceBounded
<1> QED BY <1>1, BoundsTyped DEF Asked, SourceBounded

LEMMA SpentBounded ==
    ASSUME SourceBounded, NEW k \in {"locals", "closures", "jumps", "labels", "constructs"}, source' = Spent(k),
           k = "locals" => source["locals"] < MaxLocals, k = "constructs" => source["constructs"] < MaxConstructs
    PROVE  /\ SourceBounded' /\ Asked(source) <= Asked(source')
           /\ k = "locals" => Asked(source') = Asked(source) + 1 /\ Asked(source) + 1 <= MaxLocals + 4 * MaxConstructs
           /\ k = "constructs" => Asked(source') = Asked(source) + 4 /\ Asked(source) + 4 <= MaxLocals + 4 * MaxConstructs
<1> DEFINE K == {"locals", "closures", "jumps", "labels", "constructs"}
<1>1. source \in [K -> Nat] BY DEF SourceBounded
<1>2. source' = [source EXCEPT ![k] = source[k] + 1] BY DEF Spent
<1>3. source[k] + 1 \in Nat BY <1>1
<1>4. /\ source' \in [K -> Nat] /\ source'[k] = source[k] + 1 /\ \A j \in K : j # k => source'[j] = source[j]
  BY <1>1, <1>2, <1>3
<1>5. /\ source["locals"] \in Nat /\ source["constructs"] \in Nat
      /\ source["locals"] <= MaxLocals /\ source["constructs"] <= MaxConstructs
  BY DEF SourceBounded
<1>6. CASE k = "locals"
  <2>1. source'["locals"] = source["locals"] + 1 /\ source'["constructs"] = source["constructs"] BY <1>4, <1>6
  <2>2. k # "constructs" BY <1>6
  <2> QED BY <1>4, <1>5, <1>6, <2>1, <2>2, BoundsTyped DEF SourceBounded, Asked
<1>7. CASE k = "constructs"
  <2>1. source'["constructs"] = source["constructs"] + 1 /\ source'["locals"] = source["locals"] BY <1>4, <1>7
  <2>2. k # "locals" BY <1>7
  <2> QED BY <1>4, <1>5, <1>7, <2>1, <2>2, BoundsTyped DEF SourceBounded, Asked
<1>8. CASE k # "locals" /\ k # "constructs"
  <2>1. source'["constructs"] = source["constructs"] /\ source'["locals"] = source["locals"] BY <1>4, <1>8
  <2> QED BY <1>4, <1>5, <1>8, <2>1 DEF SourceBounded, Asked
<1> QED BY <1>6, <1>7, <1>8

(* What a step of the walk starts from. *)
LEMMA WalkFacts ==
    ASSUME CompilerInv, Walking
    PROVE  /\ Layout(f, open) /\ Sequence(open) /\ Sound(f) /\ Ok(f) /\ SourceBounded /\ phase = "compile"
           /\ StackTop(f) \in Nat /\ StackTop(f) <= Asked(source) /\ Asked(source) \in Nat
           /\ Len(open) \in Nat \ {0} /\ open # <<>> /\ Last(open) = open[Len(open)]
<1>1. Layout(f, open) /\ StackTop(f) <= Asked(source) /\ Sound(f) /\ Ok(f) /\ SourceBounded /\ phase = "compile"
  BY DEF CompilerInv, Walking
<1>2. PICK at : Laid(f, open, at, Len(open)) BY <1>1 DEF Layout
<1>3. StackTop(f) \in Nat BY <1>2, RegularParts DEF Laid
<1>4. Sequence(open) /\ Len(open) \in Nat \ {0} BY <1>1 DEF Layout
<1>5. open # <<>> BY <1>4
<1> QED BY <1>1, <1>3, <1>4, <1>5, AskedBounded DEF Last

(* A statement keeps the invariant when it keeps the layout. *)
LEMMA StatementKeeps ==
    ASSUME CompilerInv, Walking, NEW k \in {"locals", "closures", "jumps", "labels"}, source' = Spent(k),
           k = "locals" => source["locals"] < MaxLocals,
           NEW label \in BOOLEAN, open' = After(label), phase' = phase, Sound(f'),
           Ok(f') => /\ \A at : Laid(f, open, at, Len(open)) => Laid(f', open, at, Len(open))
                     /\ StackTop(f') <= StackTop(f) + (IF k = "locals" THEN 1 ELSE 0) /\ StackTop(f') \in Nat
    PROVE  CompilerInv'
<1>1. /\ Layout(f, open) /\ Sequence(open) /\ SourceBounded
      /\ StackTop(f) \in Nat /\ StackTop(f) <= Asked(source) /\ Asked(source) \in Nat
  BY WalkFacts
<1>2. /\ SourceBounded' /\ Asked(source) <= Asked(source')
      /\ k = "locals" => Asked(source') = Asked(source) + 1
  BY <1>1, SpentBounded
<1>3. Asked(source') \in Nat
  <2>1. source' \in [{"locals", "closures", "jumps", "labels", "constructs"} -> Nat] BY <1>2 DEF SourceBounded
  <2> QED BY <2>1 DEF Asked
<1>4. ASSUME Ok(f') PROVE Layout(f', open') /\ StackTop(f') <= Asked(source')
  <2>1. PICK at : Laid(f, open, at, Len(open)) BY <1>1 DEF Layout
  <2>2. Laid(f', open, at, Len(open)) BY <1>4, <2>1
  <2>3. /\ Sequence(open') /\ Len(open') = Len(open) /\ Laid(f', open', at, Len(open))
    BY <1>1, <2>2, LayoutMarked DEF After
  <2>4. Layout(f', open') BY <1>1, <2>3 DEF Layout
  <2>5. CASE k = "locals"
    <3>1. StackTop(f') <= StackTop(f) + 1 /\ StackTop(f') \in Nat BY <1>4, <2>5
    <3> QED BY <1>1, <1>2, <1>3, <2>4, <2>5, <3>1
  <2>6. CASE k # "locals"
    <3>1. StackTop(f') <= StackTop(f) + 0 /\ StackTop(f') \in Nat BY <1>4, <2>6
    <3> QED BY <1>1, <1>2, <1>3, <2>4, <3>1
  <2> QED BY <2>5, <2>6
<1> QED BY <1>2, <1>4 DEF CompilerInv

LEMMA LocalKeeps ==
    ASSUME RoomForNext, CompilerInv, LocalStatement
    PROVE  CompilerInv'
<1>1. /\ Walking /\ InBody /\ source["locals"] < MaxLocals
      /\ f' = DeclaredLocal(f) /\ open' = After(FALSE) /\ source' = Spent("locals") /\ phase' = phase
  BY DEF LocalStatement, Statement, Within, DeclaredLocal
<1>2. /\ Layout(f, open) /\ Sound(f) /\ Ok(f) /\ SourceBounded /\ StackTop(f) \in Nat /\ StackTop(f) <= Asked(source)
      /\ Asked(source) \in Nat /\ open[Len(open)].at = "body"
  BY <1>1, WalkFacts DEF InBody
<1>3. StackTop(f) + 1 < Registers BY <1>1 DEF RoomForNext
<1> DEFINE h == DeclaredLocal(f)
<1>4. ASSUME NEW at, Laid(f, open, at, Len(open))
      PROVE  Laid(h, open, at, Len(open)) /\ Sound(h) /\ StackTop(h) = StackTop(f) + 1
  BY <1>2, <1>3, <1>4, LocalLaid
<1> HIDE DEF h
<1>5. \E at : Laid(f, open, at, Len(open)) BY <1>2 DEF Layout
<1>6. Sound(h) /\ StackTop(h) = StackTop(f) + 1 BY <1>4, <1>5
<1>7. f' = h BY <1>1 DEF h
<1>8. Sound(f') /\ StackTop(f') <= StackTop(f) + 1 /\ StackTop(f') \in Nat BY <1>2, <1>6, <1>7
<1>9. \A at : Laid(f, open, at, Len(open)) => Laid(f', open, at, Len(open)) BY <1>4, <1>7
<1>10. FALSE \in BOOLEAN /\ "locals" \in {"locals", "closures", "jumps", "labels"} OBVIOUS
<1>11. StackTop(f') <= StackTop(f) + (IF "locals" = "locals" THEN 1 ELSE 0) BY <1>8
<1> QED BY <1>1, <1>8, <1>9, <1>10, <1>11, StatementKeeps

(* The other statements leave the top where it is. *)
LEMMA QuietKeeps ==
    ASSUME CompilerInv, Walking, NEW k \in {"closures", "jumps", "labels"}, source' = Spent(k),
           NEW label \in BOOLEAN, open' = After(label), phase' = phase,
           \A at : Laid(f, open, at, Len(open)) =>
                /\ Sound(f') /\ StackTop(f') = StackTop(f)
                /\ Ok(f') => Laid(f', open, at, Len(open))
    PROVE  CompilerInv'
<1>1. Layout(f, open) /\ StackTop(f) \in Nat BY WalkFacts
<1>2. \E at : Laid(f, open, at, Len(open)) BY <1>1 DEF Layout
<1>3. Sound(f') /\ StackTop(f') = StackTop(f) BY <1>2
<1>4. k \in {"locals", "closures", "jumps", "labels"} /\ k # "locals" OBVIOUS
<1>5. StackTop(f') <= StackTop(f) + (IF k = "locals" THEN 1 ELSE 0) /\ StackTop(f') \in Nat BY <1>1, <1>3, <1>4
<1> QED BY <1>3, <1>4, <1>5, StatementKeeps

LEMMA ClosureKeeps ==
    ASSUME RoomForNext, CompilerInv, ClosureStatement
    PROVE  CompilerInv'
<1>1. PICK v \in ToSet(f.locals) :
          f' = Capture(f, v.reg) /\ open' = After(FALSE) /\ source' = Spent("closures") /\ phase' = phase
  BY DEF ClosureStatement, Statement
<1>2. Walking BY DEF ClosureStatement
<1>3. /\ Layout(f, open) /\ Sound(f) /\ SourceBounded /\ StackTop(f) \in Nat /\ StackTop(f) <= Asked(source)
      /\ Asked(source) \in Nat
  BY <1>2, WalkFacts
<1>4. StackTop(f) < Registers BY <1>2 DEF RoomForNext
<1>5. v.reg \in Nat
  <2>1. PICK at : Laid(f, open, at, Len(open)) BY <1>3 DEF Layout
  <2>2. Regular(f) BY <2>1 DEF Laid
  <2>3. f.locals \in Seq(LocalDescriptors) BY <2>2 DEF Regular, Rising
  <2>4. PICK i \in 1..Len(f.locals) : v = f.locals[i] BY <2>3, Elements DEF ToSet
  <2> QED BY <2>2, <2>4, RegularParts
<1>6. \A at : Laid(f, open, at, Len(open)) =>
                /\ Sound(f') /\ StackTop(f') = StackTop(f)
                /\ Ok(f') => Laid(f', open, at, Len(open))
  BY <1>1, <1>3, <1>4, <1>5, CaptureLaid
<1>7. FALSE \in BOOLEAN /\ "closures" \in {"closures", "jumps", "labels"} OBVIOUS
<1> QED BY <1>1, <1>2, <1>6, <1>7, QuietKeeps

LEMMA JumpKeeps ==
    ASSUME CompilerInv, Walking, NEW label \in JumpLabels, label.kind # "unique",
           f' = Jump(f, label), open' = After(FALSE), source' = Spent("jumps"), phase' = phase
    PROVE  CompilerInv'
<1>1. Sound(f) BY WalkFacts
<1>2. \A at : Laid(f, open, at, Len(open)) =>
                /\ Sound(f') /\ StackTop(f') = StackTop(f)
                /\ Ok(f') => Laid(f', open, at, Len(open))
  BY <1>1, JumpLaid
<1>3. FALSE \in BOOLEAN /\ "jumps" \in {"closures", "jumps", "labels"} OBVIOUS
<1> QED BY <1>2, <1>3, QuietKeeps

LEMMA BreakKeeps ==
    ASSUME CompilerInv, BreakStatement
    PROVE  CompilerInv'
<1>1. Break \in JumpLabels /\ Break.kind # "unique" BY DEF Break, JumpLabels
<1>2. Walking /\ f' = Jump(f, Break) /\ open' = After(FALSE) /\ source' = Spent("jumps") /\ phase' = phase
  BY DEF BreakStatement, Statement
<1> QED BY <1>1, <1>2, JumpKeeps

LEMMA NamedIsLabel ==
    ASSUME NEW l \in Labels
    PROVE  Named(l) \in JumpLabels /\ Named(l).kind = "named"
BY DEF Named, JumpLabels

LEMMA GotoKeeps ==
    ASSUME CompilerInv, GotoStatement
    PROVE  CompilerInv'
<1>1. PICK l \in Labels :
          f' = Jump(f, Named(l)) /\ open' = After(FALSE) /\ source' = Spent("jumps") /\ phase' = phase
  BY DEF GotoStatement, Statement
<1>2. Walking BY DEF GotoStatement
<1>3. Named(l) \in JumpLabels /\ Named(l).kind # "unique" BY NamedIsLabel
<1> QED BY <1>1, <1>2, <1>3, JumpKeeps

LEMMA LabelKeeps ==
    ASSUME CompilerInv, LabelStatement
    PROVE  CompilerInv'
<1>1. PICK l \in Labels : f' = JumpTarget(f, Named(l)) BY DEF LabelStatement
<1>2. Walking /\ open' = After(TRUE) /\ source' = Spent("labels") /\ phase' = phase BY DEF LabelStatement
<1>3. Named(l) \in JumpLabels /\ Named(l).kind = "named" BY NamedIsLabel
<1>4. Sound(f) BY <1>2, WalkFacts
<1>5. \A at : Laid(f, open, at, Len(open)) =>
                /\ Sound(f') /\ StackTop(f') = StackTop(f)
                /\ Ok(f') => Laid(f', open, at, Len(open))
  BY <1>1, <1>3, <1>4, LabelLaid
<1>6. TRUE \in BOOLEAN /\ "labels" \in {"closures", "jumps", "labels"} OBVIOUS
<1> QED BY <1>2, <1>5, <1>6, QuietKeeps

LEMMA SourceKept ==
    ASSUME SourceBounded, UNCHANGED source
    PROVE  SourceBounded' /\ Asked(source') = Asked(source)
BY DEF SourceBounded, Asked

LEMMA EndBodyKeeps ==
    ASSUME CompilerInv, EndBody
    PROVE  CompilerInv'
<1> DEFINE n == Len(open)
           p == [open EXCEPT ![Len(open)].at = "labels"]
           h == ExitBlock(f)
<1>1. /\ Walking /\ open[n].at = "body" /\ ~open[n].ret /\ open[n].kind # "repeat"
      /\ f' = h /\ open' = p /\ UNCHANGED source /\ phase' = phase
  BY WalkFacts DEF EndBody, InBody
<1>2. /\ Layout(f, open) /\ Sequence(open) /\ Sound(f) /\ SourceBounded /\ StackTop(f) \in Nat
      /\ StackTop(f) <= Asked(source) /\ Asked(source) \in Nat /\ n \in Nat \ {0}
  BY <1>1, WalkFacts
<1>3. SourceBounded' /\ Asked(source') = Asked(source) BY <1>1, <1>2, SourceKept
<1>4. PICK at : Laid(f, open, at, n) BY <1>2 DEF Layout
<1>5. Sequence(p) /\ Len(p) = n /\ Ended(open, n, p) BY <1>1, <1>2, <1>4, MarkedEnded
<1> HIDE DEF p
<1>6. Laid(h, p, at, n) /\ Sound(h) /\ StackTop(h) <= StackTop(f) BY <1>1, <1>2, <1>4, <1>5, BodyEnds
<1>7. StackTop(h) \in Nat BY <1>6, RegularParts DEF Laid
<1> HIDE DEF h
<1>8. Layout(h, p) BY <1>2, <1>5, <1>6 DEF Layout
<1>9. StackTop(h) <= Asked(source) BY <1>2, <1>6, <1>7
<1> QED BY <1>1, <1>3, <1>6, <1>8, <1>9 DEF CompilerInv

LEMMA ReturnInstr == Instr("return", {}) \in Instrs /\ Instr("return", {}).op # "jump"
BY DEF Instr, Instrs, None, NoTarget

LEMMA ReturnKeeps ==
    ASSUME CompilerInv, ReturnStatement
    PROVE  CompilerInv'
<1> DEFINE n == Len(open)
           p == [open EXCEPT ![Len(open)].at = "labels"]
           h == Emit(f, Instr("return", {}))
<1>1. /\ Walking /\ open[n].at = "body" /\ open[n].ret
      /\ f' = h /\ open' = p /\ UNCHANGED source /\ phase' = phase
  BY WalkFacts DEF ReturnStatement, InBody
<1>2. /\ Layout(f, open) /\ Sequence(open) /\ Sound(f) /\ SourceBounded
      /\ StackTop(f) <= Asked(source) /\ n \in Nat \ {0}
  BY <1>1, WalkFacts
<1>3. SourceBounded' /\ Asked(source') = Asked(source) BY <1>1, <1>2, SourceKept
<1>4. PICK at : Laid(f, open, at, n) BY <1>2 DEF Layout
<1>6. Sequence(p) /\ Len(p) = n /\ Ended(open, n, p) BY <1>1, <1>2, <1>4, MarkedEnded
<1> HIDE DEF p
<1>7. Laid(h, open, at, n) /\ Sound(h) /\ StackTop(h) = StackTop(f) BY <1>2, <1>4, ReturnInstr, EmitLaid
<1> HIDE DEF h
<1>8. Laid(h, p, at, n) BY <1>1, <1>6, <1>7, ReturnLaid
<1>9. Layout(h, p) BY <1>2, <1>6, <1>8 DEF Layout
<1> QED BY <1>1, <1>2, <1>3, <1>7, <1>9 DEF CompilerInv

(* A construct can be closed. *)
LEMMA ClosableEnding ==
    ASSUME CompilerInv, Closable, Len(open) > 1, NEW at, Laid(f, open, at, Len(open))
    PROVE  Ending(f, open, at, Len(open))
<1>1. Walking /\ (Last(open).at = "labels" \/ Last(open).kind = "repeat") BY DEF Closable
<1>2. Sound(f) /\ Last(open) = open[Len(open)] BY <1>1, WalkFacts
<1> QED BY <1>1, <1>2 DEF Ending

(* Where the blocks of a loop with state begin. *)
LEMMA LoopStart ==
    ASSUME NEW g, NEW o, NEW at, NEW n, Ending(g, o, at, n), HasState(o[n])
    PROVE  at[n] = Len(g.blocks) - 2
<1>1. /\ n \in 1..n /\ at[n] \in Nat /\ at[n] + BlocksOf(o[n]) = Len(g.blocks)
      /\ Len(g.blocks) \in Nat
  <2>1. /\ n \in Nat \ {0} /\ at[n] \in Nat /\ at[n] + BlocksOf(o[n]) = Len(g.blocks)
        /\ Len(g.blocks) \in Nat
    BY EndingStart
  <2> QED BY <2>1
<1>2. o[n].at = "labels" BY DEF Ending, HasState
<1>3. BlocksOf(o[n]) = 2 BY <1>2 DEF BlocksOf
<1> QED BY <1>1, <1>3

LEMMA EndConstructKeeps ==
    ASSUME SoundFeatures, RoomForNext, CompilerInv, EndConstruct
    PROVE  CompilerInv'
<1> DEFINE n == Len(open)
           h == Closed(f, open[n].kind, open[n].labels)
<1>1. Closable /\ Walking /\ n > 1 BY DEF EndConstruct, Closable
<1>2. /\ Layout(f, open) /\ Sequence(open) /\ Sound(f) /\ SourceBounded /\ StackTop(f) \in Nat
      /\ StackTop(f) <= Asked(source) /\ Asked(source) \in Nat /\ n \in Nat \ {0} /\ Last(open) = open[n]
  BY <1>1, WalkFacts
<1>3. /\ f' = h /\ open' = Front(open) /\ UNCHANGED source /\ phase' = phase
      /\ \/ open[n].kind \notin {"for", "forin"}
         \/ \A p \in f.pending_jumps : p.target.kind = "named" => p.block_index <= Len(f.blocks) - 2
  BY <1>2 DEF EndConstruct, SoundFeatures
<1>4. SourceBounded' /\ Asked(source') = Asked(source) BY <1>2, <1>3, SourceKept
<1>5. PICK at : Laid(f, open, at, n) BY <1>2 DEF Layout
<1>6. Ending(f, open, at, n) BY <1>1, <1>5, ClosableEnding
<1>7. HasState(open[n]) => NoGotoLeaves(f, at[n])
  <2>1. HasState(open[n]) => at[n] = Len(f.blocks) - 2 BY <1>6, LoopStart
  <2>2. HasState(open[n]) => \A p \in f.pending_jumps : p.target.kind = "named" => p.block_index <= Len(f.blocks) - 2
    BY <1>3 DEF HasState
  <2> QED BY <2>1, <2>2 DEF NoGotoLeaves
<1>8. StackTop(f) < Registers BY <1>1 DEF RoomForNext
<1>9. CloseAs(f, h, open, at, n) BY <1>6, <1>7, <1>8, ConstructCloses, Zenon
<1> HIDE DEF h
<1>10. PICK m \in Nat \ {0} : n = m + 1
  <2>1. n - 1 \in Nat \ {0} /\ n = (n - 1) + 1 BY <1>1, <1>2
  <2> QED BY <2>1
<1>11. Sequence(Front(open)) /\ Len(Front(open)) = m /\ \A c \in 1..m : Front(open)[c] = open[c]
  BY <1>2, <1>10, FrontSequence
<1>12. ASSUME Ok(h) PROVE Layout(h, Front(open)) /\ StackTop(h) <= Asked(source)
  <2>1. Laid(h, open, at, n - 1) /\ StackTop(h) <= StackTop(f) BY <1>9, <1>12 DEF CloseAs
  <2>2. n - 1 = m BY <1>10
  <2>3. Laid(h, open, at, m) BY <2>1, <2>2
  <2>4. \A c \in 1..m : Typed(open[c]) BY <2>3, LaidTyped
  <2>5. \A c \in 1..m : Alike(open[c], Front(open)[c]) /\ Typed(Front(open)[c]) BY <1>11, <2>4 DEF Alike
  <2>6. Laid(h, Front(open), at, m) BY <2>3, <2>5, LaidAlike
  <2>7. Layout(h, Front(open)) BY <1>10, <1>11, <2>6 DEF Layout
  <2>8. StackTop(h) \in Nat BY <2>1, RegularParts DEF Laid
  <2> QED BY <1>2, <2>1, <2>7, <2>8
<1>13. Sound(h) BY <1>9 DEF CloseAs
<1> QED BY <1>3, <1>4, <1>12, <1>13 DEF CompilerInv

LEMMA EndChunkKeeps ==
    ASSUME CompilerInv, EndChunk
    PROVE  CompilerInv' /\ JumpsStayOut(f')
<1>1. Closable /\ Walking /\ Len(open) = 1 BY DEF EndChunk, Closable
<1>2. f' = Finish(ExitBlock(f)) /\ phase' = "run" /\ UNCHANGED source BY DEF EndChunk
<1>3. Layout(f, open) /\ Sound(f) /\ SourceBounded /\ Last(open) = open[1] BY <1>1, WalkFacts
<1>4. SourceBounded' BY <1>2, <1>3, SourceKept
<1>5. PICK at : Laid(f, open, at, 1) BY <1>1, <1>3 DEF Layout
<1>6. open[1].kind = "chunk"
  <2>1. 1 \in 1..1 OBVIOUS
  <2> QED BY <1>5, <2>1 DEF Laid, Held
<1>7. open[1].at = "labels" BY <1>1, <1>3, <1>6 DEF Closable
<1>8. Sound(f') /\ JumpsStayOut(f') BY <1>2, <1>3, <1>5, <1>7, ChunkEnds
<1> QED BY <1>2, <1>4, <1>8 DEF CompilerInv

(* A construct begins on the constructs p; its blocks and state are the last ones. *)
LEMMA OpeningKeeps ==
    ASSUME SourceBounded, NEW g, NEW p, Sequence(p), NEW n \in Nat, Len(p) = n, NEW c1,
           Opening(g, f', Append(p, c1), n), open' = Append(p, c1),
           StackTop(g) \in Nat, StackTop(g) <= Asked(source),
           source' = Spent("constructs"), source["constructs"] < MaxConstructs
    PROVE  CompilerInv'
<1>1. /\ SourceBounded' /\ Asked(source') = Asked(source) + 4 /\ Asked(source) \in Nat
  BY SpentBounded, AskedBounded
<1>2. Sequence(Append(p, c1)) /\ Len(Append(p, c1)) = n + 1 BY SequenceFacts
<1>3. Sound(f') BY DEF Opening
<1>4. ASSUME Ok(f') PROVE Layout(f', open') /\ StackTop(f') <= Asked(source')
  <2>1. PICK as : Laid(f', Append(p, c1), as, n + 1) BY <1>4 DEF Opening
  <2>2. StackTop(f') <= StackTop(g) + 4 BY <1>4 DEF Opening
  <2>3. StackTop(f') \in Nat BY <2>1, RegularParts DEF Laid
  <2>4. StackTop(f') <= Asked(source') BY <1>1, <2>2, <2>3
  <2>5. n + 1 \in Nat \ {0} OBVIOUS
  <2>6. Layout(f', open') BY <1>2, <2>1, <2>5 DEF Layout
  <2> QED BY <2>4, <2>6
<1> QED BY <1>1, <1>3, <1>4 DEF CompilerInv

LEMMA AppendLonger ==
    ASSUME NEW p, Sequence(p), NEW c1
    PROVE  Longer(p, Len(p), Append(p, c1), c1)
BY SequenceFacts DEF Longer

LEMMA BeginKeeps ==
    ASSUME SoundFeatures, RoomForNext, CompilerInv, BeginConstruct
    PROVE  CompilerInv'
<1>1. PICK kind \in Kinds, ret \in BOOLEAN :
          /\ ret /\ kind = "while" => "return ends while" \in Features
          /\ LET o == Opened(f, kind)
                 g == [o.now EXCEPT !.unique = @ + 3]
             IN  /\ f' = IF Ok(g) /\ kind # "repeat" THEN Body(g, ret) ELSE g
                 /\ open' = Append(After(FALSE), Construct(kind, ret, o.labels))
  BY DEF BeginConstruct
<1>2. /\ Walking /\ InBody /\ source' = Spent("constructs") /\ source["constructs"] < MaxConstructs
  BY DEF BeginConstruct, Within
<1> DEFINE y == Renumbered(Opened(f, kind).now, 3)
           c1 == Construct(kind, ret, Opened(f, kind).labels)
           p == After(FALSE)
<1>3. f' = (IF Ok(y) /\ kind # "repeat" THEN Body(y, ret) ELSE y) /\ open' = Append(p, c1)
  BY <1>1 DEF Renumbered
<1>4. kind \in SourceKinds BY ConstructsAssumption DEF SourceKinds
<1>5. ret => kind # "while" BY <1>1 DEF SoundFeatures
<1>6. /\ Layout(f, open) /\ Sequence(open) /\ Ok(f) /\ SourceBounded /\ StackTop(f) \in Nat
      /\ StackTop(f) <= Asked(source) /\ Asked(source) \in Nat /\ Len(open) \in Nat \ {0}
      /\ open[Len(open)].at = "body"
  BY <1>2, WalkFacts DEF InBody
<1>7. StackTop(f) + 4 < Registers BY <1>2 DEF RoomForNext
<1>8. PICK at : Laid(f, open, at, Len(open)) BY <1>6 DEF Layout
<1>9. /\ Sequence(p) /\ Len(p) = Len(open) /\ Laid(f, p, at, Len(open)) /\ p[Len(open)].at = "body"
  <2>1. FALSE \in BOOLEAN OBVIOUS
  <2> QED BY <1>6, <1>8, <2>1, LayoutMarked DEF After
<1> HIDE DEF p
<1>10. Ready(f, p, at, Len(open), {}) BY <1>6, <1>9, LaidReady
<1>11. Longer(p, Len(open), Append(p, c1), c1) BY <1>9, AppendLonger
<1>12. Opening(f, IF Ok(y) /\ kind # "repeat" THEN Body(y, ret) ELSE y, Append(p, c1), Len(open))
  BY <1>4, <1>5, <1>7, <1>10, <1>11, ConstructOpens
<1> HIDE DEF y, c1
<1>13. Opening(f, f', Append(p, c1), Len(open)) BY <1>3, <1>12
<1> QED BY <1>2, <1>3, <1>6, <1>9, <1>13, OpeningKeeps

LEMMA ElseKeeps ==
    ASSUME RoomForNext, CompilerInv, ElsePart
    PROVE  CompilerInv'
<1> DEFINE n == Len(open)
           labels == open[n].labels
           g == CloseIfPart(f, labels, TRUE)
           next == Unique(g.unique)
           p == Front(open)
<1>1. Closable /\ Walking /\ source' = Spent("constructs") /\ source["constructs"] < MaxConstructs
  BY DEF ElsePart, Closable, Within
<1>2. /\ Layout(f, open) /\ Sequence(open) /\ Sound(f) /\ SourceBounded /\ StackTop(f) \in Nat
      /\ StackTop(f) <= Asked(source) /\ Asked(source) \in Nat /\ n \in Nat \ {0} /\ Last(open) = open[n]
  BY <1>1, WalkFacts
<1>3. open[n].kind = "if" BY <1>2 DEF ElsePart
<1>17. PICK ret \in BOOLEAN :
          \/ /\ f' = Body(EnterBlock(g), ret)
             /\ open' = Append(p, Construct("else", ret, labels))
          \/ /\ f' = Body(EnterBlock(TestElse(Renumbered(g, 1), next)), ret)
             /\ open' = Append(p, Construct("if", ret, <<next, labels[2]>>))
  BY <1>2 DEF ElsePart, Renumbered
<1>4. PICK at : Laid(f, open, at, n) BY <1>2 DEF Layout
<1>5. n > 1
  <2>1. n \in 1..n BY <1>2
  <2>2. \A c \in 1..n : open[c].kind = "chunk" <=> c = 1 BY <1>4 DEF Laid, Held
  <2>3. n # 1
    <3>1. n = 1 => open[n].kind = "chunk" BY <2>1, <2>2
    <3> QED BY <1>3, <3>1
  <2> HIDE DEF n
  <2> QED BY <1>2, <2>3
<1>6. Ending(f, open, at, n) BY <1>1, <1>4, <1>5, ClosableEnding
<1>7. IsPart(f, open, n, g) BY Zenon DEF IsPart
<1>8. PICK m \in Nat \ {0} : n = m + 1
  <2>1. n - 1 \in Nat \ {0} /\ n = (n - 1) + 1 BY <1>2, <1>5
  <2> QED BY <2>1
<1>9. Sequence(p) /\ Len(p) = m /\ \A c \in 1..m : p[c] = open[c] BY <1>2, <1>8, FrontSequence
<1> HIDE DEF g, p
<1>10. StackTop(g) \in Nat /\ StackTop(g) <= StackTop(f) BY <1>3, <1>6, <1>7, PartFacts
<1>11. StackTop(g) <= Asked(source) BY <1>2, <1>10
<1>12. StackTop(f) < Registers BY <1>1 DEF RoomForNext
<1>13. ASSUME NEW c1 PROVE Longer(open, n - 1, Append(p, c1), c1)
  <2>1. Longer(p, m, Append(p, c1), c1) BY <1>9, AppendLonger
  <2>2. n - 1 = m BY <1>8
  <2>3. Longer(open, m, Append(p, c1), c1) BY <1>9, <2>1 DEF Longer
  <2> QED BY <2>2, <2>3
<1>14. n - 1 = m BY <1>8
<1>15. CASE /\ f' = Body(EnterBlock(g), ret)
            /\ open' = Append(p, Construct("else", ret, labels))
  <2> DEFINE c1 == Construct("else", ret, labels)
  <2>1. Opening(g, Body(EnterBlock(g), ret), Append(p, c1), n - 1) BY <1>3, <1>6, <1>7, <1>13, ElseOpens
  <2> HIDE DEF c1
  <2>2. Opening(g, f', Append(p, c1), m) BY <1>14, <1>15, <2>1
  <2>3. open' = Append(p, c1) BY <1>15 DEF c1
  <2> QED BY <1>1, <1>2, <1>9, <1>10, <1>11, <2>2, <2>3, OpeningKeeps
<1>16. CASE /\ f' = Body(EnterBlock(TestElse(Renumbered(g, 1), next)), ret)
            /\ open' = Append(p, Construct("if", ret, <<next, labels[2]>>))
  <2> DEFINE c1 == Construct("if", ret, <<next, labels[2]>>)
  <2>1. Opening(g, Body(EnterBlock(TestElse(Renumbered(g, 1), next)), ret), Append(p, c1), n - 1)
    BY <1>3, <1>6, <1>7, <1>12, <1>13, ElseIfOpens
  <2> HIDE DEF c1
  <2>2. Opening(g, f', Append(p, c1), m) BY <1>14, <1>16, <2>1
  <2>3. open' = Append(p, c1) BY <1>16 DEF c1
  <2> QED BY <1>1, <1>2, <1>9, <1>10, <1>11, <2>2, <2>3, OpeningKeeps
<1> QED BY <1>15, <1>16, <1>17

LEMMA StartKeeps ==
    ASSUME ScopeInit
    PROVE  CompilerInv
<1>1. PICK fixed \in 0..MaxLocals, ret \in BOOLEAN :
          /\ fixed < Registers
          /\ f = Body(EnterBlock(StartFunction(fixed)), ret) /\ open = <<Construct("chunk", ret, <<>>)>>
          /\ source = [k \in {"locals", "closures", "jumps", "labels", "constructs"} |->
                          IF k = "locals" THEN fixed ELSE 0]
  BY DEF ScopeInit
<1>6. fixed \in Nat /\ fixed <= MaxLocals BY BoundsTyped
<1>7. Layout(f, open) /\ Sound(f) /\ StackTop(f) = fixed BY <1>1, <1>6, StartLaid
<1>2. source \in [{"locals", "closures", "jumps", "labels", "constructs"} -> Nat] BY <1>1, <1>6
<1>3. source["locals"] = fixed /\ source["constructs"] = 0 BY <1>1
<1>4. SourceBounded BY <1>2, <1>3, <1>6, BoundsTyped DEF SourceBounded
<1>5. Asked(source) = fixed BY <1>3, <1>6 DEF Asked
<1> QED BY <1>4, <1>5, <1>6, <1>7 DEF CompilerInv

LEMMA RunKeeps ==
    ASSUME CompilerInv, UNCHANGED <<f, open, source>>, phase' = phase \/ phase' # "compile"
    PROVE  CompilerInv'
<1>1. Sound(f) /\ SourceBounded BY DEF CompilerInv
<1>2. SourceBounded' /\ Asked(source') = Asked(source) BY <1>1, SourceKept
<1>3. Sound(f') BY <1>1
<1> QED BY <1>2, <1>3 DEF CompilerInv

(* A text that could not fill the registers leaves room for the next statement. *)
LEMMA RoomSuffices ==
    ASSUME RegistersSuffice, CompilerInv
    PROVE  RoomForNext
<1> SUFFICES ASSUME Walking
             PROVE  /\ StackTop(f) < Registers
                    /\ source["locals"] < MaxLocals => StackTop(f) + 1 < Registers
                    /\ source["constructs"] < MaxConstructs => StackTop(f) + 4 < Registers
  BY DEF RoomForNext
<1>1. SourceBounded /\ StackTop(f) \in Nat /\ StackTop(f) <= Asked(source) BY WalkFacts
<1>2. source["locals"] \in Nat /\ source["constructs"] \in Nat BY <1>1 DEF SourceBounded
<1>3. source["locals"] <= MaxLocals /\ source["constructs"] <= MaxConstructs BY <1>1 DEF SourceBounded
<1> QED BY <1>1, <1>2, <1>3, BoundsTyped DEF Asked, RegistersSuffice

(* Every step keeps the invariant. *)
LEMMA CompilerStep ==
    ASSUME SoundFeatures, RoomForNext, CompilerInv, [ScopeNext]_scopeVars
    PROVE  CompilerInv'
<1>1. CASE LocalStatement BY <1>1, LocalKeeps
<1>2. CASE ClosureStatement BY <1>2, ClosureKeeps
<1>3. CASE BreakStatement BY <1>3, BreakKeeps
<1>4. CASE GotoStatement BY <1>4, GotoKeeps
<1>5. CASE LabelStatement BY <1>5, LabelKeeps
<1>6. CASE BeginConstruct BY <1>6, BeginKeeps
<1>7. CASE EndBody BY <1>7, EndBodyKeeps
<1>8. CASE ReturnStatement BY <1>8, ReturnKeeps
<1>9. CASE EndConstruct BY <1>9, EndConstructKeeps
<1>10. CASE ElsePart BY <1>10, ElseKeeps
<1>11. CASE EndChunk BY <1>11, EndChunkKeeps
<1>12. CASE Execute
  <2>1. UNCHANGED <<f, open, source>> /\ phase' = phase BY <1>12 DEF Execute
  <2> QED BY <2>1, RunKeeps
<1>13. CASE Return
  <2>1. UNCHANGED <<f, open, source>> /\ phase' # "compile" BY <1>13 DEF Return
  <2> QED BY <2>1, RunKeeps
<1>14. CASE UNCHANGED scopeVars
  <2>1. UNCHANGED <<f, open, source>> /\ phase' = phase BY <1>14 DEF scopeVars
  <2> QED BY <2>1, RunKeeps
<1> QED BY <1>1, <1>2, <1>3, <1>4, <1>5, <1>6, <1>7, <1>8, <1>9, <1>10, <1>11, <1>12, <1>13, <1>14
        DEF ScopeNext

(* No assertion of the compiler fails, whatever the source text: of any size and nesting,
   as long as there are registers for the next statement, and without the two features
   that do make one fail, a goto out of a for loop and a while body that ends in return. *)
THEOREM CompilerSound ==
    ASSUME SoundFeatures
    PROVE  ScopeSpec /\ []RoomForNext => []CompilerNeverPanics
<1>1. ScopeInit => CompilerInv BY StartKeeps
<1>2. CompilerInv /\ RoomForNext /\ [ScopeNext]_scopeVars => CompilerInv' BY CompilerStep
<1>3. CompilerInv => CompilerNeverPanics BY DEF CompilerInv, Sound, CompilerNeverPanics
<1> QED BY <1>1, <1>2, <1>3, PTL DEF ScopeSpec

(* The same of a text of bounded size, which needs nothing to be assumed of its steps. *)
THEOREM BoundedCompilerSound ==
    ASSUME SoundFeatures, RegistersSuffice
    PROVE  ScopeSpec => []CompilerNeverPanics
<1>1. ScopeInit => CompilerInv BY StartKeeps
<1>2. CompilerInv /\ [ScopeNext]_scopeVars => CompilerInv' BY CompilerStep, RoomSuffices
<1>3. CompilerInv => CompilerNeverPanics BY DEF CompilerInv, Sound, CompilerNeverPanics
<1> QED BY <1>1, <1>2, <1>3, PTL DEF ScopeSpec

(* Code that runs is the code of a whole function. *)
Landed == phase = "run" => JumpsStayOut(f)

LEMMA LandedStep ==
    ASSUME CompilerInv, Landed, [ScopeNext]_scopeVars
    PROVE  Landed'
<1>1. CASE EndChunk
  <2>1. JumpsStayOut(f') BY <1>1, EndChunkKeeps
  <2> QED BY <2>1 DEF Landed
<1>2. CASE Walking /\ phase' = phase
  <2>1. phase' # "run" BY <1>2 DEF Walking
  <2> QED BY <2>1 DEF Landed
<1>3. CASE UNCHANGED f /\ (phase' = phase \/ phase' # "run")
  BY <1>3 DEF Landed
<1>4. LocalStatement \/ ClosureStatement \/ BreakStatement \/ GotoStatement => Walking /\ phase' = phase
  BY DEF LocalStatement, ClosureStatement, BreakStatement, GotoStatement, Statement
<1>5. LabelStatement \/ BeginConstruct \/ EndBody \/ ReturnStatement => Walking /\ phase' = phase
  BY DEF LabelStatement, BeginConstruct, EndBody, ReturnStatement
<1>6. EndConstruct \/ ElsePart => Walking /\ phase' = phase
  BY DEF EndConstruct, ElsePart, Closable
<1>7. Execute \/ Return \/ UNCHANGED scopeVars => UNCHANGED f /\ (phase' = phase \/ phase' # "run")
  BY DEF Execute, Return, scopeVars
<1> QED BY <1>1, <1>2, <1>3, <1>4, <1>5, <1>6, <1>7 DEF ScopeNext

LEMMA LandedOutside ==
    ASSUME Landed
    PROVE  NoJumpIntoScope
BY DEF Landed, JumpsStayOut, NoJumpIntoScope

LEMMA StartLanded ==
    ASSUME ScopeInit
    PROVE  Landed
BY DEF ScopeInit, Landed

(* However labels, gotos, breaks, loops and blocks are nested, and to whatever depth, no
   jump of the code that runs leads into the scope of a local it did not start in: a
   one-pass compiler has only the register tops of the waiting jumps to tell. *)
THEOREM JumpsStayOutOfScopes ==
    ASSUME SoundFeatures
    PROVE  ScopeSpec /\ []RoomForNext => []NoJumpIntoScope
<1>1. ScopeInit => CompilerInv /\ Landed BY StartKeeps, StartLanded
<1>2. CompilerInv /\ Landed /\ RoomForNext /\ [ScopeNext]_scopeVars => CompilerInv' /\ Landed'
  BY CompilerStep, LandedStep
<1>3. Landed => NoJumpIntoScope BY LandedOutside
<1> QED BY <1>1, <1>2, <1>3, PTL DEF ScopeSpec

(* The same of a text of bounded size, which needs nothing to be assumed of its steps. *)
THEOREM BoundedJumpsStayOut ==
    ASSUME SoundFeatures, RegistersSuffice
    PROVE  ScopeSpec => []NoJumpIntoScope
<1>1. ScopeInit => CompilerInv /\ Landed BY StartKeeps, StartLanded
<1>2. CompilerInv /\ Landed /\ [ScopeNext]_scopeVars => CompilerInv' /\ Landed'
  BY CompilerStep, LandedStep, RoomSuffices
<1>3. Landed => NoJumpIntoScope BY LandedOutside
<1> QED BY <1>1, <1>2, <1>3, PTL DEF ScopeSpec
====
