---- MODULE LuaScopes ----
(* How the compiler (piccolo, compiler/compiler.rs) turns blocks, loops, gotos and
   closures of one function into jumps, and what those jumps do when the code
   runs.  The compiler works in one pass: a jump is emitted before the compiler
   knows which variables the rest of the block will capture.

   While phase = "compile" every action is one step of the parser's walk over a
   source text that is chosen as it goes: the next statement, the end of a body,
   the end of a construct.  `f` is the function under compilation
   (CompilerFunction), `open` the constructs the walk is inside of.  The operators
   that build `f` are the compiler's methods; each keeps the first error.

   When the chunk is closed the same variables are run: `pc` is the next
   instruction and `captured` the registers that hold an open upvalue.  A test may
   go either way.

   Expressions leave no trace but a temporary register (its value is left out);
   a closure matters for the local it captures. *)
EXTENDS RegisterAllocator, Sequences, SequencesExt

CONSTANTS
    Kinds,          \* the constructs the source may use
    Labels,         \* the names of goto labels
    Features,       \* what else the source may do, see below
    MaxConstructs, MaxLocals, MaxJumps, MaxClosures, MaxLabels, \* bounds on the
    MaxStatements,  \* source text
    MaxReturns      \* bodies that end in return, one within the other

(* Three uses of jumps the compiler gets wrong; a run names the ones it includes.
   "goto back": a goto to a label already placed; "goto leaves for": a label
   outside the for loop the goto is in; "return ends while": a while body whose
   last statement is return. *)
ASSUME FeaturesAssumption == Features \subseteq {"goto back", "goto leaves for", "return ends while"}
ASSUME ConstructsAssumption == Kinds \subseteq {"do", "while", "repeat", "if", "for", "forin"}
ASSUME BoundsAssumption ==
    {MaxConstructs, MaxLocals, MaxJumps, MaxClosures, MaxLabels, MaxStatements, MaxReturns} \subseteq Nat

VARIABLES phase, f, open, source, pc, captured
scopeVars == <<phase, f, open, source, pc, captured>>

Unique(n) == [kind |-> "unique", id |-> n]
Named(l) == [kind |-> "named", id |-> l]
Break == [kind |-> "break", id |-> 0]

(* An instruction: where it jumps, from which register it closes upvalues, which
   registers it writes, which register it captures. *)
NoTarget == 0
Instr(op, writes) ==
    [op |-> op, target |-> NoTarget, close |-> None, writes |-> writes, captures |-> None]

Pc(g) == Len(g.ops) + 1
StackTop(g) == g.alloc.stack_top
Fail(g, e) == [g EXCEPT !.error = e]
Emit(g, i) == [g EXCEPT !.ops = Append(@, i)]
Ok(g) == g.error = "none"

(* A function of that many parameters: they are its first locals, outside every block. *)
StartFunction(fixed) ==
    [alloc |-> IF fixed = 0 THEN Empty ELSE Push(Empty, fixed),
     locals |-> [i \in 1..fixed |-> [reg |-> i - 1, from |-> 1]],
     fixed_params |-> fixed, blocks |-> <<>>, jump_targets |-> <<>>,
     pending_jumps |-> {}, ops |-> <<>>, unique |-> 0, error |-> "none",
     scopes |-> {}]

(* Registers that stay: local variables and the state of a for loop. *)
PushRegisters(g, n) ==
    IF CanPush(g.alloc, n) THEN [g EXCEPT !.alloc = Push(@, n)] ELSE Fail(g, "Registers")

(* A temporary that one instruction writes and the statement gives back. *)
WithTemp(g, i) ==
    IF ~CanAllocate(g.alloc) THEN Fail(g, "Registers")
    ELSE LET r == g.alloc.first_free
         IN  Emit([g EXCEPT !.alloc = Free(Allocate(@), r)], [i EXCEPT !.writes = {r}])

(* local v: the register becomes a local; scopes remembers where it is in scope. *)
DeclareLocal(g, r) ==
    [g EXCEPT !.locals = Append(@, [reg |-> r, from |-> Pc(g)])]

EnterBlock(g) ==
    [g EXCEPT !.blocks = Append(@, [stack_bottom |-> StackTop(g),
                                    bottom_jump_target |-> Len(g.jump_targets),
                                    owns_upvalues |-> FALSE])]

(* exit_block drops the locals whose registers are in the block, the last one first;
   free asserts that a register was allocated. *)
Outer(g, bottom) == SelectLastInSeq(g.locals, LAMBDA v : v.reg < bottom)

FreeDownTo(g, kept) ==
    LET last == Len(g.locals)
        dropped == {g.locals[i] : i \in kept + 1..last}
        freed[n \in 0..last - kept] ==
            IF n = 0 THEN g.alloc ELSE Free(freed[n - 1], g.locals[last + 1 - n].reg)
        h == [g EXCEPT
                !.alloc = freed[last - kept],
                !.locals = SubSeq(@, 1, kept),
                !.scopes = @ \union {[reg |-> v.reg, from |-> v.from, to |-> Pc(g)] : v \in dropped}]
    IN  IF \E v \in dropped : ~g.alloc.registers[v.reg] THEN Fail(h, "panic") ELSE h

FreeLocals(g, bottom) == FreeDownTo(g, Outer(g, bottom))

(* What is left of the block that was the last one: an instruction that closes its
   upvalues, the jump targets before it, and pending jumps of the block around it. *)
CloseUpvalues(g, block) ==
    IF block.owns_upvalues /\ g.blocks # <<>>
    THEN Emit(g, [Instr("jump", {}) EXCEPT !.target = Pc(g) + 1, !.close = block.stack_bottom])
    ELSE g

(* Mutant: the top of a jump that leaves the block is not lowered. *)
LeaveBlockUnlifted(g, block) ==
    LET n == Len(g.blocks)
        leaving == {p \in g.pending_jumps : n > 0 /\ p.block_index > n}
        Lift(p) == [p EXCEPT !.block_index = n, !.close_upvalues = @ \/ block.owns_upvalues]
    IN  [g EXCEPT !.jump_targets = SubSeq(@, 1, block.bottom_jump_target),
                  !.pending_jumps = (@ \ leaving) \union {Lift(p) : p \in leaving}]

LeaveBlock(g, block) ==
    LET n == Len(g.blocks)
        leaving == {p \in g.pending_jumps : n > 0 /\ p.block_index > n}
        Lift(p) == [p EXCEPT !.block_index = n, !.stack_top = StackTop(g),
                             !.close_upvalues = @ \/ block.owns_upvalues]
        k == [g EXCEPT !.jump_targets = SubSeq(@, 1, block.bottom_jump_target),
                       !.pending_jumps = (@ \ leaving) \union {Lift(p) : p \in leaving}]
    IN  IF \E p \in leaving : p.stack_top < StackTop(g) THEN Fail(k, "panic") ELSE k

WithoutBlock(g) == FreeLocals([g EXCEPT !.blocks = Front(@)], Last(g.blocks).stack_bottom)

(* Mutant: the instruction that closes the block's upvalues is left out. *)
ExitBlockUnclosed(g) == LeaveBlock(WithoutBlock(g), Last(g.blocks))

ExitBlock(g) == LeaveBlock(CloseUpvalues(WithoutBlock(g), Last(g.blocks)), Last(g.blocks))

(* The target of a jump back: the last one placed with this label. *)
TargetOf(g, label) == SelectLastInSeq(g.jump_targets, LAMBDA t : t.label = label)

Jump(g, label) ==
    IF ~Ok(g) THEN g
    ELSE LET b == Len(g.blocks)
             t == g.jump_targets[TargetOf(g, label)]
             leaves == /\ t.stack_top < StackTop(g)
                       /\ \E i \in t.block_index..b : g.blocks[i].owns_upvalues
             back == [Instr("jump", {}) EXCEPT !.target = t.instruction,
                                               !.close = IF leaves THEN t.stack_top ELSE None]
             pending == [target |-> label, instruction |-> Pc(g), block_index |-> b,
                         stack_top |-> StackTop(g), close_upvalues |-> FALSE]
         IN  IF TargetOf(g, label) = 0
             THEN Emit([g EXCEPT !.pending_jumps = @ \union {pending}], Instr("jump", {}))
             ELSE IF t.stack_top > StackTop(g) \/ t.block_index > b THEN Fail(g, "panic")
             ELSE Emit(g, back)

Resolves(g, p, label) == p.block_index = Len(g.blocks) /\ p.target = label

(* A pending jump that meets its label: it jumps here, and closes what the blocks it left owned. *)
Patched(g, jumps) ==
    LET Closes(i) == \E p \in jumps : p.instruction = i /\ p.close_upvalues
        At(i) == [g.ops[i] EXCEPT !.target = Pc(g), !.close = IF Closes(i) THEN StackTop(g) ELSE None]
    IN  [g EXCEPT !.ops = [i \in DOMAIN @ |->
                               IF \E p \in jumps : p.instruction = i THEN At(i) ELSE @[i]]]

(* Mutant: a label accepts a jump from above a local declared since. *)
JumpTargetIntoScope(g, label) ==
    IF ~Ok(g) THEN g
    ELSE LET target == [label |-> label, instruction |-> Pc(g), stack_top |-> StackTop(g),
                        block_index |-> Len(g.blocks)]
             here == {p \in g.pending_jumps : Resolves(g, p, label)}
         IN  Patched([g EXCEPT !.jump_targets = Append(@, target),
                      !.pending_jumps = @ \ here], here)

JumpTarget(g, label) ==
    IF ~Ok(g) THEN g
    ELSE LET b == Len(g.blocks)
             target == [label |-> label, instruction |-> Pc(g), stack_top |-> StackTop(g),
                        block_index |-> b]
             here == {p \in g.pending_jumps : Resolves(g, p, label)}
             placed == [g EXCEPT !.jump_targets = Append(@, target),
                                 !.pending_jumps = @ \ here]
         IN  IF \E t \in ToSet(g.jump_targets) : t.block_index >= b /\ t.label = label
             THEN Fail(g, "DuplicateLabel")
             ELSE IF \E p \in g.pending_jumps : p.block_index > b THEN Fail(g, "panic")
             ELSE IF \E p \in here : p.stack_top > StackTop(g) THEN Fail(g, "panic")
             ELSE IF \E p \in here : p.stack_top < StackTop(g)
                  THEN Fail(placed, IF label.kind = "named" THEN "JumpLocal" ELSE "BreakRejected")
             ELSE IF \E p \in here : g.ops[p.instruction] # Instr("jump", {}) THEN Fail(placed, "panic")
             ELSE Patched(placed, here)

(* A variable of this function is captured: its block owns an upvalue from now on.  A
   parameter lies below every block. *)
OwnerBlock(g, r) == SelectLastInSeq(g.blocks, LAMBDA b : b.stack_bottom <= r)
WithOwner(g, b) == IF b = 0 THEN g ELSE [g EXCEPT !.blocks[b].owns_upvalues = TRUE]

(* Mutant: the block is not marked. *)
CaptureUnmarked(g, r) == WithTemp(g, [Instr("closure", {}) EXCEPT !.captures = r])

Capture(g, r) == WithTemp(WithOwner(g, OwnerBlock(g, r)), [Instr("closure", {}) EXCEPT !.captures = r])

(* Mutant: the last instruction is left out. *)
FinishUnreturned(g) == IF g.pending_jumps # {} THEN Fail(g, "GotoInvalid") ELSE g

Finish(g) ==
    LET h == Emit(FreeLocals(g, 0), Instr("return", {}))
    IN  IF Len(g.locals) # g.fixed_params \/ StackTop(h) # 0 THEN Fail(h, "panic")
        ELSE IF g.pending_jumps # {} THEN Fail(h, "GotoInvalid") ELSE h

(* expr_test and the jump over the body. *)
TestElse(g, label) == Jump(WithTemp(g, Instr("test", {})), label)

(* The body of a construct: a body that does not end in return is a block of its
   own, so that labels at its end lie behind its locals. *)
Body(g, ret) == IF ret THEN g ELSE EnterBlock(g)

OpenWhile(g) ==
    [now |-> EnterBlock(TestElse(JumpTarget(g, Unique(g.unique)), Unique(g.unique + 1))),
     labels |-> <<Unique(g.unique), Unique(g.unique + 1)>>]
CloseWhile(g, labels) ==
    JumpTarget(ExitBlock(JumpTarget(Jump(g, labels[1]), Break)), labels[2])

OpenRepeat(g) ==
    [now |-> JumpTarget(EnterBlock(EnterBlock(g)), Unique(g.unique)),
     labels |-> <<Unique(g.unique)>>]
CloseRepeat(g, labels) ==
    ExitBlock(JumpTarget(ExitBlock(TestElse(g, labels[1])), Break))

OpenIf(g) ==
    [now |-> EnterBlock(TestElse(JumpTarget(g, Unique(g.unique)), Unique(g.unique + 1))),
     labels |-> <<Unique(g.unique + 1), Unique(g.unique + 2)>>]
CloseIfPart(g, labels, more) ==
    JumpTarget(ExitBlock(IF more THEN Jump(g, labels[2]) ELSE g), labels[1])

(* for: three registers of state, one variable, a jump to the test at the end. *)
OpenFor(g) ==
    LET h == PushRegisters(g, 3)
        base == StackTop(g)
        prep == Emit(h, Instr("forprep", base..(base + 2)))
        j == PushRegisters(EnterBlock(EnterBlock(prep)), 1)
    IN  [now |-> IF Ok(j) THEN DeclareLocal(j, base + 3) ELSE j, labels |-> <<base, Pc(h)>>]
CloseFor(g, labels) ==
    LET h == ExitBlock(g)
        prep == labels[2]
        loop == [Instr("forloop", {labels[1], labels[1] + 3}) EXCEPT !.target = prep + 1]
        j == IF h.ops[prep] = Instr("forprep", labels[1]..(labels[1] + 2))
             THEN [Emit(h, loop) EXCEPT !.ops[prep].target = Pc(h)] ELSE Fail(h, "panic")
        k == ExitBlock(JumpTarget(j, Break))
    IN  [k EXCEPT !.alloc = PopTo(@, labels[1])]

(* for ... in: the jump to the call of the iterator is a pending one. *)
OpenForIn(g) ==
    LET h == PushRegisters(g, 3)
        base == StackTop(g)
        state == Emit(h, Instr("write", base..(base + 2)))
        j == PushRegisters(EnterBlock(EnterBlock(state)), 1)
        k == IF Ok(j) THEN Jump(DeclareLocal(j, base + 3), Unique(g.unique)) ELSE j
    IN  [now |-> k, labels |-> <<base, Pc(k), Unique(g.unique)>>]
CloseForIn(g, labels) ==
    LET h == JumpTarget(ExitBlock(g), labels[3])
        call == Emit(h, Instr("write", {labels[1] + 3}))
        loop == [Instr("forloop", {labels[1] + 2}) EXCEPT !.target = labels[2]]
        j == ExitBlock(JumpTarget(Emit(call, loop), Break))
    IN  [j EXCEPT !.alloc = PopTo(@, labels[1])]

Loops == {"while", "repeat", "for", "forin"}

Opened(g, kind) ==
    CASE kind = "do" -> [now |-> EnterBlock(g), labels |-> <<>>]
      [] kind = "while" -> OpenWhile(g)
      [] kind = "repeat" -> OpenRepeat(g)
      [] kind = "if" -> OpenIf(g)
      [] kind = "for" -> OpenFor(g)
      [] kind = "forin" -> OpenForIn(g)

Closed(g, kind, labels) ==
    CASE kind = "do" -> ExitBlock(g)
      [] kind = "while" -> CloseWhile(g, labels)
      [] kind = "repeat" -> CloseRepeat(g, labels)
      [] kind = "if" -> JumpTarget(CloseIfPart(g, labels, FALSE), labels[2])
      [] kind = "else" -> JumpTarget(ExitBlock(g), labels[2])
      [] kind = "for" -> CloseFor(g, labels)
      [] kind = "forin" -> CloseForIn(g, labels)

(* The walk over the source. *)

Walking == phase = "compile" /\ Ok(f)
InBody == open # <<>> /\ Last(open).at = "body"
Construct(kind, ret, labels) ==
    [kind |-> kind, ret |-> ret, labels |-> labels, at |-> "body", afterLabel |-> FALSE]
Within(k, max) == source[k] < max /\ SumFunction(source) < MaxStatements
ReturnsIn(o) == Len(SelectSeq(o, LAMBDA c : c.ret))
Spent(k) == [source EXCEPT ![k] = @ + 1]
After(label) == [open EXCEPT ![Len(open)].afterLabel = label]

Statement(g, k) ==
    /\ f' = g
    /\ open' = After(FALSE)
    /\ source' = Spent(k)
    /\ UNCHANGED <<phase, pc, captured>>

LocalStatement ==
    /\ Walking /\ InBody /\ Within("locals", MaxLocals)
    /\ LET g == PushRegisters(f, 1)
           r == StackTop(f)
       IN  Statement(IF Ok(g) THEN DeclareLocal(Emit(g, Instr("write", {r})), r) ELSE g, "locals")

ClosureStatement ==
    /\ Walking /\ InBody /\ Within("closures", MaxClosures)
    /\ \E v \in ToSet(f.locals) : Statement(Capture(f, v.reg), "closures")

BreakStatement ==
    /\ Walking /\ InBody /\ Within("jumps", MaxJumps)
    /\ \E c \in ToSet(open) : c.kind \in Loops
    /\ Statement(Jump(f, Break), "jumps")

GotoStatement ==
    /\ Walking /\ InBody /\ Within("jumps", MaxJumps)
    /\ \E l \in Labels :
          /\ "goto back" \in Features \/ TargetOf(f, Named(l)) = 0
          /\ Statement(Jump(f, Named(l)), "jumps")

LabelStatement ==
    /\ Walking /\ open # <<>> /\ Within("labels", MaxLabels)
    /\ ~(Last(open).ret /\ ~InBody)
    /\ \E l \in Labels : f' = JumpTarget(f, Named(l))
    /\ open' = After(TRUE)
    /\ source' = Spent("labels")
    /\ UNCHANGED <<phase, pc, captured>>

BeginConstruct ==
    /\ Walking /\ InBody /\ Within("constructs", MaxConstructs)
    /\ \E kind \in Kinds, ret \in BOOLEAN :
          /\ ret => ReturnsIn(open) < MaxReturns
          /\ ret /\ kind = "while" => "return ends while" \in Features
          /\ LET o == Opened(f, kind)
                 g == [o.now EXCEPT !.unique = @ + 3]
             IN  /\ f' = IF Ok(g) /\ kind # "repeat" THEN Body(g, ret) ELSE g
                 /\ open' = Append(After(FALSE), Construct(kind, ret, o.labels))
    /\ source' = Spent("constructs")
    /\ UNCHANGED <<phase, pc, captured>>

(* The last statement of a body was compiled; what follows it are labels only. *)
EndBody ==
    /\ Walking /\ InBody
    /\ ~Last(open).ret /\ Last(open).kind # "repeat" /\ ~Last(open).afterLabel
    /\ f' = ExitBlock(f)
    /\ open' = [open EXCEPT ![Len(open)].at = "labels"]
    /\ UNCHANGED <<phase, source, pc, captured>>

ReturnStatement ==
    /\ Walking /\ InBody /\ Last(open).ret
    /\ f' = Emit(f, Instr("return", {}))
    /\ open' = [open EXCEPT ![Len(open)].at = "labels"]
    /\ UNCHANGED <<phase, source, pc, captured>>

Closable ==
    /\ Walking /\ open # <<>>
    /\ Last(open).at = "labels" \/ (Last(open).kind = "repeat" /\ ~Last(open).ret)

EndConstruct ==
    /\ Closable /\ Len(open) > 1
    /\ \/ Last(open).kind \notin {"for", "forin"} \/ "goto leaves for" \in Features
       \/ \A p \in f.pending_jumps : p.target.kind = "named" => p.block_index <= Len(f.blocks) - 2
    /\ f' = Closed(f, Last(open).kind, Last(open).labels)
    /\ open' = Front(open)
    /\ UNCHANGED <<phase, source, pc, captured>>

(* else and elseif: the part ends with a jump to the end of the whole statement. *)
ElsePart ==
    /\ Closable /\ Last(open).kind = "if" /\ Within("constructs", MaxConstructs)
    /\ LET c == Last(open)
           g == CloseIfPart(f, c.labels, TRUE)
           next == Unique(g.unique)
       IN  \E ret \in BOOLEAN :
              /\ ret => ReturnsIn(Front(open)) < MaxReturns
              /\ \/ /\ f' = Body(EnterBlock(g), ret)
                    /\ open' = Append(Front(open), Construct("else", ret, c.labels))
                 \/ /\ f' = Body(EnterBlock(TestElse([g EXCEPT !.unique = @ + 1], next)), ret)
                    /\ open' = Append(Front(open), Construct("if", ret, <<next, c.labels[2]>>))
    /\ source' = Spent("constructs")
    /\ UNCHANGED <<phase, pc, captured>>

EndChunk ==
    /\ Closable /\ Len(open) = 1
    /\ f' = Finish(ExitBlock(f))
    /\ open' = <<>>
    /\ phase' = "run"
    /\ UNCHANGED <<source, pc, captured>>

(* The code runs: registers written, upvalues opened and closed. *)

Fetch == f.ops[pc]
Closing(r) == IF r = None THEN captured ELSE {c \in captured : c < r}

Successors(i) ==
    CASE i.op = "test" -> {pc + 1, pc + 2}
      [] i.op \in {"jump", "forprep"} -> {i.target}
      [] i.op = "forloop" -> {i.target, pc + 1}
      [] OTHER -> {pc + 1}

Execute ==
    /\ phase = "run" /\ Ok(f) /\ Fetch.op # "return"
    /\ pc' \in Successors(Fetch)
    /\ captured' = Closing(Fetch.close)
                   \union (IF Fetch.captures = None THEN {} ELSE {Fetch.captures})
    /\ UNCHANGED <<phase, f, open, source>>

Return ==
    /\ phase = "run" /\ Ok(f) /\ Fetch.op = "return"
    /\ phase' = "returned"
    /\ captured' = {}
    /\ UNCHANGED <<f, open, source, pc>>

ScopeInit ==
    /\ phase = "compile"
    /\ \E fixed \in 0..MaxLocals, ret \in BOOLEAN :
          /\ fixed < Registers /\ (ret => MaxReturns > 0)
          /\ f = Body(EnterBlock(StartFunction(fixed)), ret)
          /\ open = <<Construct("chunk", ret, <<>>)>>
          /\ source = [k \in {"locals", "closures", "jumps", "labels", "constructs"} |->
                          IF k = "locals" THEN fixed ELSE 0]
    /\ pc = 1 /\ captured = {}

ScopeNext ==
    \/ LocalStatement \/ ClosureStatement \/ BreakStatement \/ GotoStatement
    \/ LabelStatement \/ BeginConstruct \/ EndBody \/ ReturnStatement
    \/ EndConstruct \/ ElsePart \/ EndChunk \/ Execute \/ Return

ScopeSpec == ScopeInit /\ [][ScopeNext]_scopeVars

Errors == {"none", "Registers", "DuplicateLabel", "GotoInvalid", "JumpLocal", "BreakRejected", "panic"}

ScopesTypeOK ==
    /\ phase \in {"compile", "run", "returned"}
    /\ f.alloc \in Allocators /\ f.error \in Errors
    /\ phase = "run" /\ Ok(f) => pc \in 1..Len(f.ops)
    /\ captured \subseteq Register

(* A variable that a closure holds is never overwritten by anything but itself: a
   register with an open upvalue is not written by the declaration of a new local,
   by the next round of a loop, by a temporary.  If it were, two variables of the
   source would be one ("Real closures with proper upvalue handling", README). *)
UpvalueNotOverwritten ==
    phase = "run" /\ Ok(f) => Fetch.writes \intersect captured = {}

(* No jump enters the scope of a local it did not start in, be it at the first
   instruction after its declaration, whichever way labels, trailing labels, breaks and
   loops are nested. *)
NoJumpIntoScope ==
    phase = "run" /\ Ok(f) =>
        \A i \in DOMAIN f.ops : f.ops[i].op = "jump" =>
            \A s \in f.scopes :
                s.from <= f.ops[i].target /\ f.ops[i].target < s.to => s.from <= i /\ i < s.to

(* None of the assertions of the compiler fails: tops and block indices of pending
   jumps only shrink, locals and registers are all given back at the end.  And only a
   goto is ever refused for jumping into the scope of a local ("jump into scope of new
   local variable"); a break always finds the end of its loop. *)
CompilerNeverPanics == f.error \notin {"panic", "BreakRejected"}
====
