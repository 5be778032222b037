---- MODULE UpvalueProofs ----
(* Upvalues, for every number of registers and whatever the source text: what the walk of
   LuaScopes keeps so that the code it emits never writes a register that holds an open
   upvalue (UpvaluesStayIntact).  On CompilerInv of CompilerProofs rest a second invariant
   of the walk, and one of the run:
     - Guarded(g, b): scopes, captures, the marks on blocks and on pending jumps fit the
       code emitted so far, and each method of the compiler keeps them so;
     - Fenced(g, o, n): this, and what the loops and labels of the constructs under way
       rest on; each construct keeps it at its start and its end (ConstructFences,
       ConstructFenced);
     - Guards: the above for every state of the walk, as long as no goto goes back;
     - Sealed(g): what is left of it in the code of a whole function;
     - Running: every open upvalue is that of a local in scope, or is about to close. *)
EXTENDS CompilerProofs

(* Control may pass from the instruction x at i to t. *)
Leads(x, i, t) ==
    \/ x.op \in {"jump", "forprep"} /\ x.target # NoTarget /\ t = x.target
    \/ x.op = "forloop" /\ t \in {x.target, i + 1}
    \/ x.op = "test" /\ t \in {i + 1, i + 2}
    \/ x.op \in {"closure", "write"} /\ t = i + 1

(* The variable v is captured before `to`. *)
Used(ops, v, to) == \E j \in 1..Len(ops) : v.from <= j /\ j < to /\ ops[j].captures = v.reg
(* An instruction that closes the upvalues from a register on closes that of r. *)
Cuts(x, r) == x.close # None /\ x.close <= r
(* At t the code ends, or closes the upvalue of r. *)
Shuts(ops, t, r) == t \in 1..Len(ops) /\ (ops[t].op = "return" \/ Cuts(ops[t], r))

(* Only jumps that have their target close upvalues, only closures capture, and control
   stays within the code; behind a test another instruction follows. *)
Proper(x, i, last) ==
    /\ x.op \in {"jump", "return"} => x.writes = {}
    /\ x.close # None => x.op = "jump" /\ x.target # NoTarget
    /\ x.captures # None => x.op = "closure"
    /\ \A t \in Int : Leads(x, i, t) => 1 <= t /\ (t <= last + 1 \/ (x.op = "test" /\ i = last))
(* Every instruction is a proper one. *)
ProperCode(ops) == \A i \in 1..Len(ops) : Proper(ops[i], i, Len(ops))

(* No instruction in the scope of a local writes its register. *)
WritesApart(ops, locals, scopes) ==
    \A i \in 1..Len(ops) :
        /\ \A s \in scopes : s.from <= i /\ i < s.to => s.reg \notin ops[i].writes
        /\ \A k \in 1..Len(locals) : locals[k].from <= i => locals[k].reg \notin ops[i].writes

(* A closure captures a local that is in scope where it is made. *)
CapturesLocals(ops, locals, scopes) ==
    \A j \in 1..Len(ops) : ops[j].captures # None =>
        \/ \E s \in scopes : s.reg = ops[j].captures /\ s.from <= j /\ j < s.to
        \/ \E k \in 1..Len(locals) : locals[k].reg = ops[j].captures /\ locals[k].from <= j

(* The innermost block that holds a captured local owns an upvalue. *)
OwnersMarked(ops, locals, blocks) ==
    \A k \in 1..Len(locals), b \in 1..Len(blocks) :
        /\ Used(ops, locals[k], Len(ops) + 1)
        /\ blocks[b].stack_bottom <= locals[k].reg
        /\ \A c \in 1..Len(blocks) : b < c => locals[k].reg < blocks[c].stack_bottom
        => blocks[b].owns_upvalues

(* Whichever way control leaves the scope of a captured local, its upvalue is closed. *)
LeavesClosed(ops, scopes) ==
    \A s \in scopes : \A i \in 1..Len(ops) : \A t \in Int :
        /\ s.from <= i /\ i < s.to
        /\ Leads(ops[i], i, t)
        /\ ~(s.from <= t /\ t < s.to)
        /\ Used(ops, s, s.to)
        => \/ Cuts(ops[i], s.reg)
           \/ t = s.to /\ Shuts(ops, t, s.reg)

(* Control does not leave the scope of a local that is still there, but for one at or above
   b: nothing has captured it, or its upvalue is closed. *)
StaysInside(ops, locals, b) ==
    \A k \in 1..Len(locals) : \A i \in 1..Len(ops) : \A t \in Int :
        /\ locals[k].from <= i
        /\ Leads(ops[i], i, t)
        => \/ locals[k].from <= t
           \/ b <= locals[k].reg /\ (Cuts(ops[i], locals[k].reg) \/ ~Used(ops, locals[k], Len(ops) + 1))

(* A pending jump knows what it left: its top is below the locals that are gone, and it
   closes when one of them was captured. *)
WaitersClose(P, ops, locals, scopes) ==
    \A p \in P :
        /\ \A s \in scopes : s.from <= p.instruction /\ p.instruction < s.to =>
              p.stack_top <= s.reg /\ (Used(ops, s, s.to) => p.close_upvalues)
        /\ \A k \in 1..Len(locals) : locals[k].from <= p.instruction => locals[k].reg < p.stack_top

(* The locals below the top of a target were there when it was placed. *)
TargetsBehind(T, locals) ==
    \A j \in 1..Len(T) :
        /\ 1 <= T[j].instruction
        /\ \A k \in 1..Len(locals) : T[j].instruction < locals[k].from => T[j].stack_top <= locals[k].reg

(* A jump without target is one that waits. *)
OpenJumpsWait(P, ops) ==
    \A i \in 1..Len(ops) : ops[i].op = "jump" /\ ops[i].target = NoTarget => \E p \in P : p.instruction = i

(* What keeps upvalues apart from the registers that are written, while locals from b on
   may be left without being closed, as a jump back out of the scope of them does. *)
Guarded(g, b) ==
    /\ ProperCode(g.ops)
    /\ WritesApart(g.ops, g.locals, g.scopes)
    /\ CapturesLocals(g.ops, g.locals, g.scopes)
    /\ OwnersMarked(g.ops, g.locals, g.blocks)
    /\ LeavesClosed(g.ops, g.scopes)
    /\ StaysInside(g.ops, g.locals, b)
    /\ WaitersClose(g.pending_jumps, g.ops, g.locals, g.scopes)
    /\ TargetsBehind(g.jump_targets, g.locals)
    /\ OpenJumpsWait(g.pending_jumps, g.ops)

(* The code does not end with a test, which would skip what follows. *)
Settled(g) == \A i \in 1..Len(g.ops) : i = Len(g.ops) => g.ops[i].op # "test"


(* What every part of a regular function is made of. *)
LEMMA GuardTypes ==
    ASSUME NEW g, Regular(g)
    PROVE  /\ g.ops \in Seq(Instrs) /\ Len(g.ops) \in Nat /\ Len(g.locals) \in Nat /\ StackTop(g) \in Nat
           /\ \A i \in 1..Len(g.ops) : /\ g.ops[i] \in Instrs /\ g.ops[i].target \in Int /\ g.ops[i].close \in Int
                                       /\ g.ops[i].writes \in SUBSET Int /\ g.ops[i].captures \in Int
           /\ \A k \in 1..Len(g.locals) : /\ g.locals[k].reg \in Nat /\ g.locals[k].from \in Nat
                                          /\ g.locals[k].from <= Len(g.ops) + 1
                                          /\ g.locals[k].reg < StackTop(g)
           /\ \A s \in g.scopes : s.reg \in Nat /\ s.from \in Nat /\ s.to \in Nat /\ s.to <= Len(g.ops) + 1
           /\ \A p \in g.pending_jumps : /\ p.stack_top \in Nat /\ p.instruction \in 1..Len(g.ops)
                                         /\ p.instruction \in Nat /\ p.block_index \in Nat
                                         /\ g.ops[p.instruction] = Placeholder
           /\ \A j \in 1..Len(g.jump_targets) : /\ g.jump_targets[j].instruction \in Nat
                                                /\ g.jump_targets[j].instruction <= Len(g.ops) + 1
                                                /\ g.jump_targets[j].stack_top \in Nat
                                                /\ g.jump_targets[j].stack_top <= StackTop(g)
<1>1. g.ops \in Seq(Instrs) /\ ScopesEnd(g.locals, g.scopes, Len(g.ops) + 1) /\ Rising(g.locals, StackTop(g))
  BY DEF Regular, Scoped
<1>2. \A i \in 1..Len(g.ops) : /\ g.ops[i] \in Instrs /\ g.ops[i].target \in Int /\ g.ops[i].close \in Int
                               /\ g.ops[i].writes \in SUBSET Int /\ g.ops[i].captures \in Int
  BY RegularParts DEF Instrs
<1>3. \A k \in 1..Len(g.locals) : /\ g.locals[k].reg \in Nat /\ g.locals[k].from \in Nat
                                  /\ g.locals[k].from <= Len(g.ops) + 1 /\ g.locals[k].reg < StackTop(g)
  <2>1. \A k \in 1..Len(g.locals) : g.locals[k] \in LocalDescriptors BY RegularParts
  <2> QED BY <1>1, <2>1 DEF ScopesEnd, Rising, LocalDescriptors
<1>4. \A s \in g.scopes : s.reg \in Nat /\ s.from \in Nat /\ s.to \in Nat /\ s.to <= Len(g.ops) + 1
  BY <1>1 DEF ScopesEnd, ScopeDescriptors
<1>5. \A p \in g.pending_jumps : p.instruction \in 1..Len(g.ops) /\ g.ops[p.instruction] = Placeholder
  BY DEF Regular, JumpsWait
<1>6. \A j \in 1..Len(g.jump_targets) : /\ g.jump_targets[j].instruction \in Nat
                                        /\ g.jump_targets[j].instruction <= Len(g.ops) + 1
                                        /\ g.jump_targets[j].stack_top <= StackTop(g)
  <2>1. \A j \in 1..Len(g.jump_targets) : g.jump_targets[j] \in JumpTargets BY RegularParts
  <2>2. TargetsOutside(g.jump_targets, g.locals, g.scopes, Len(g.ops) + 1) BY DEF Regular, Scoped
  <2>3. \A j \in 1..Len(g.jump_targets) : g.jump_targets[j].stack_top <= StackTop(g)
    BY DEF Regular, TargetsPlaced, Placed
  <2> QED BY <2>1, <2>2, <2>3 DEF TargetsOutside, JumpTargets
<1> QED BY <1>1, <1>2, <1>3, <1>4, <1>5, <1>6, RegularParts

(* Only six fields matter to it. *)
LEMMA SameGuarded ==
    ASSUME NEW g, NEW b, Guarded(g, b), NEW h, h.ops = g.ops, h.locals = g.locals, h.scopes = g.scopes,
           h.blocks = g.blocks, h.jump_targets = g.jump_targets, h.pending_jumps = g.pending_jumps
    PROVE  Guarded(h, b)
BY DEF Guarded

(* With no local from b on, nothing may be left. *)
LEMMA StrongGuarded ==
    ASSUME NEW g, Regular(g), NEW b, Guarded(g, b), \A k \in 1..Len(g.locals) : ~(b <= g.locals[k].reg), NEW c
    PROVE  Guarded(g, c)
<1>1. StaysInside(g.ops, g.locals, c) BY DEF StaysInside, Guarded
<1> QED BY <1>1 DEF Guarded

(* enter_block keeps it: a new block holds no local. *)
LEMMA EnterGuarded ==
    ASSUME NEW g, Regular(g), NEW b, Guarded(g, b)
    PROVE  Guarded(EnterBlock(g), b)
<1> DEFINE h == EnterBlock(g)
           n == Len(g.blocks)
<1>1. /\ h.ops = g.ops /\ h.locals = g.locals /\ h.scopes = g.scopes
      /\ h.jump_targets = g.jump_targets /\ h.pending_jumps = g.pending_jumps
      /\ Len(h.blocks) = n + 1 /\ (\A i \in 1..n : h.blocks[i] = g.blocks[i])
      /\ h.blocks[n + 1].stack_bottom = StackTop(g) /\ n \in Nat
  BY EnterRegular, RegularParts DEF Keeps
<1> HIDE DEF h
<1>2. OwnersMarked(h.ops, h.locals, h.blocks)
  <2> SUFFICES ASSUME NEW k \in 1..Len(g.locals), NEW i \in 1..n + 1, Used(g.ops, g.locals[k], Len(g.ops) + 1),
                      h.blocks[i].stack_bottom <= g.locals[k].reg,
                      \A c \in 1..n + 1 : i < c => g.locals[k].reg < h.blocks[c].stack_bottom
               PROVE  h.blocks[i].owns_upvalues
    BY <1>1 DEF OwnersMarked
  <2>1. i # n + 1 BY <1>1, GuardTypes
  <2>2. i \in 1..n BY <1>1, <2>1
  <2>3. \A c \in 1..n : i < c => g.locals[k].reg < g.blocks[c].stack_bottom BY <1>1
  <2> QED BY <1>1, <2>2, <2>3 DEF Guarded, OwnersMarked
<1> QED BY <1>1, <1>2 DEF Guarded, h

(* So does the declaration of a local: nothing has captured it, and no jump that waits and no
   target is above its register. *)
LEMMA DeclareGuarded ==
    ASSUME NEW g, Regular(g), NEW b, Guarded(g, b), NEW r \in Nat,
           \A p \in g.pending_jumps : p.stack_top <= r,
           \A j \in 1..Len(g.jump_targets) : g.jump_targets[j].stack_top <= r
    PROVE  Guarded(DeclareLocal(g, r), b)
<1> DEFINE h == DeclareLocal(g, r)
           L == g.locals
           m == Len(g.ops) + 1
           v == [reg |-> r, from |-> m]
           n == Len(L)
<1>1. /\ h.ops = g.ops /\ h.blocks = g.blocks /\ h.scopes = g.scopes
      /\ h.jump_targets = g.jump_targets /\ h.pending_jumps = g.pending_jumps
      /\ h.locals = Append(L, v)
  BY DeclareFields DEF Keeps, Regular, Pc
<1>2. L \in Seq(LocalDescriptors) /\ v \in LocalDescriptors /\ m \in Nat /\ n \in Nat
  BY GuardTypes DEF Regular, Rising, LocalDescriptors
<1>3. /\ Len(h.locals) = n + 1 /\ (\A k \in 1..n : h.locals[k] = L[k]) /\ h.locals[n + 1] = v
      /\ \A k \in 1..n + 1 : k \in 1..n \/ k = n + 1
  BY <1>1, <1>2, Appended
<1>4. v.reg = r /\ v.from = m OBVIOUS
<1> HIDE DEF h, v
<1>5. WritesApart(g.ops, h.locals, g.scopes)
  <2>1. \A i \in 1..Len(g.ops), k \in 1..n + 1 : h.locals[k].from <= i => k \in 1..n
    BY <1>2, <1>3, <1>4, GuardTypes
  <2> QED BY <1>3, <2>1 DEF Guarded, WritesApart
<1>6. CapturesLocals(g.ops, h.locals, g.scopes)
  <2>1. \A k \in 1..n : k \in 1..n + 1 BY <1>2
  <2> QED BY <1>3, <2>1 DEF Guarded, CapturesLocals
<1>7. ~Used(g.ops, v, m) BY <1>2, <1>4, GuardTypes DEF Used
<1>8. OwnersMarked(g.ops, h.locals, g.blocks) BY <1>3, <1>7 DEF Guarded, OwnersMarked
<1>9. StaysInside(g.ops, h.locals, b)
  <2>1. \A i \in 1..Len(g.ops), k \in 1..n + 1 : h.locals[k].from <= i => k \in 1..n
    BY <1>2, <1>3, <1>4, GuardTypes
  <2> QED BY <1>3, <2>1 DEF Guarded, StaysInside
<1>10. WaitersClose(g.pending_jumps, g.ops, h.locals, g.scopes)
  <2>1. \A p \in g.pending_jumps, k \in 1..n + 1 : h.locals[k].from <= p.instruction => k \in 1..n
    BY <1>2, <1>3, <1>4, GuardTypes
  <2> QED BY <1>3, <2>1 DEF Guarded, WaitersClose
<1>11. TargetsBehind(g.jump_targets, h.locals) BY <1>3, <1>4 DEF Guarded, TargetsBehind
<1> QED BY <1>1, <1>5, <1>6, <1>8, <1>9, <1>10, <1>11 DEF Guarded, h

(* Another instruction only adds its own capture to those before. *)
Extends(g, x, ops) ==
    LET m == Len(g.ops) + 1
    IN  /\ Len(ops) = m /\ m \in Nat /\ ops \in Seq(Instrs)
        /\ \A i \in 1..Len(g.ops) : ops[i] = g.ops[i]
        /\ ops[m] = x /\ \A i \in 1..m : i \in 1..Len(g.ops) \/ i = m
        /\ \A s \in g.scopes : Used(ops, s, s.to) <=> Used(g.ops, s, s.to)
        /\ \A v : Used(ops, v, m + 1) => Used(g.ops, v, m) \/ x.captures = v.reg

(* An instruction more captures at most its own register. *)
LEMMA UsedAppended ==
    ASSUME NEW g, Regular(g), NEW x \in Instrs
    PROVE  Extends(g, x, Append(g.ops, x))
<1> DEFINE m == Len(g.ops) + 1
           ops == Append(g.ops, x)
<1>1. /\ Len(ops) = m /\ m \in Nat /\ ops \in Seq(Instrs) /\ Len(g.ops) \in Nat
      /\ \A i \in 1..Len(g.ops) : ops[i] = g.ops[i]
      /\ ops[m] = x
  BY GuardTypes, Appended
<1>2. \A i \in 1..m : i \in 1..Len(g.ops) \/ i = m BY <1>1
<1>3. \A i \in 1..Len(g.ops) : i \in 1..m /\ i < m BY <1>1
<1>4. \A s \in g.scopes : s.to \in Nat /\ s.to <= m BY GuardTypes
<1> HIDE DEF m, ops
<1>5. \A s \in g.scopes : Used(ops, s, s.to) <=> Used(g.ops, s, s.to)
  <2> TAKE s \in g.scopes
  <2>1. \A j \in 1..m : j < s.to => j \in 1..Len(g.ops) BY <1>1, <1>2, <1>4
  <2> QED BY <1>1, <1>3, <2>1 DEF Used
<1>6. \A v : Used(ops, v, m + 1) => Used(g.ops, v, m) \/ x.captures = v.reg
  BY <1>1, <1>2, <1>3 DEF Used
<1> QED BY <1>1, <1>2, <1>5, <1>6 DEF m, ops, Extends

(* And it does not change what closes. *)
LEMMA ShutsAppended ==
    ASSUME NEW g, Regular(g), NEW x \in Instrs, NEW t, NEW r, Shuts(g.ops, t, r)
    PROVE  Shuts(Append(g.ops, x), t, r)
<1>1. t \in 1..Len(g.ops) BY DEF Shuts
<1>2. t \in 1..Len(Append(g.ops, x)) /\ Append(g.ops, x)[t] = g.ops[t] BY <1>1, UsedAppended DEF Extends
<1> QED BY <1>2 DEF Shuts

(* An instruction that leads out of no local below c. *)
Follows(g, x, locals, ops, c) ==
    LET m == Len(g.ops) + 1
    IN  \A k \in 1..Len(locals) : \A t \in Int : Leads(x, m, t) =>
            \/ locals[k].from <= t
            \/ c <= locals[k].reg /\ (Cuts(x, locals[k].reg) \/ ~Used(ops, locals[k], m + 1))

(* An instruction more keeps it when it writes no local, captures only a local whose owner is
   marked, and leads no further out than the locals from c on. *)
LEMMA AppendGuarded ==
    ASSUME NEW g, Regular(g), NEW b \in Int, Guarded(g, b), NEW x \in Instrs,
           NEW h, h.ops = Append(g.ops, x), h.locals = g.locals, h.scopes = g.scopes,
           h.jump_targets = g.jump_targets, OwnersMarked(h.ops, h.locals, h.blocks),
           Proper(x, Len(g.ops) + 1, Len(g.ops) + 1),
           \A k \in 1..Len(g.locals) : g.locals[k].reg \notin x.writes,
           x.captures # None => \E k \in 1..Len(g.locals) : g.locals[k].reg = x.captures,
           NEW c \in Int,
           \/ c <= b /\ \A k \in 1..Len(g.locals) : g.locals[k].reg # x.captures
           \/ \A k \in 1..Len(g.locals) : g.locals[k].reg < b,
           Follows(g, x, g.locals, h.ops, c),
           x.op = "jump" /\ x.target = NoTarget => \E p \in h.pending_jumps : p.instruction = Len(g.ops) + 1,
           \A p \in g.pending_jumps : p \in h.pending_jumps,
           \A p \in h.pending_jumps :
              \/ p \in g.pending_jumps
              \/ p.instruction = Len(g.ops) + 1 /\ \A k \in 1..Len(g.locals) : g.locals[k].reg < p.stack_top
    PROVE  Guarded(h, c)
<1> DEFINE n == Len(g.ops)
           m == n + 1
           L == g.locals
<1>0. /\ n \in Nat /\ m \in Nat /\ Len(L) \in Nat
      /\ \A i \in 1..n : /\ g.ops[i] \in Instrs /\ g.ops[i].target \in Int /\ g.ops[i].close \in Int
                         /\ g.ops[i].writes \in SUBSET Int /\ g.ops[i].captures \in Int
      /\ \A k \in 1..Len(L) : L[k].reg \in Nat /\ L[k].from \in Nat /\ L[k].from <= m
      /\ \A s \in g.scopes : s.reg \in Nat /\ s.from \in Nat /\ s.to \in Nat /\ s.to <= m
  BY GuardTypes
<1>1. /\ Len(h.ops) = m /\ m = n + 1
      /\ \A i \in 1..n : h.ops[i] = g.ops[i]
      /\ h.ops[m] = x /\ \A i \in 1..m : i \in 1..n \/ i = m
      /\ \A s \in g.scopes : Used(h.ops, s, s.to) <=> Used(g.ops, s, s.to)
      /\ \A v : Used(h.ops, v, m + 1) => Used(g.ops, v, m) \/ x.captures = v.reg
  <2>1. Extends(g, x, h.ops) BY UsedAppended
  <2> QED BY <2>1 DEF Extends
<1>2. \A i \in 1..n : i \in 1..m /\ i < m BY <1>0
<1>3. \A s \in g.scopes : ~(m < s.to) BY <1>0
<1>4. /\ ProperCode(g.ops) /\ WritesApart(g.ops, L, g.scopes) /\ CapturesLocals(g.ops, L, g.scopes)
      /\ LeavesClosed(g.ops, g.scopes) /\ StaysInside(g.ops, L, b)
      /\ WaitersClose(g.pending_jumps, g.ops, L, g.scopes) /\ TargetsBehind(g.jump_targets, L)
      /\ OpenJumpsWait(g.pending_jumps, g.ops)
  BY DEF Guarded
<1> HIDE DEF n, m
<1>5. ProperCode(h.ops)
  <2>1. ASSUME NEW i \in 1..n PROVE Proper(g.ops[i], i, m)
    <3>1. Proper(g.ops[i], i, n) BY <1>4 DEF ProperCode, n
    <3>2. \A t \in Int : Leads(g.ops[i], i, t) => 1 <= t /\ t <= m + 1
      <4> SUFFICES ASSUME NEW t \in Int, Leads(g.ops[i], i, t) PROVE 1 <= t /\ t <= m + 1 OBVIOUS
      <4>1. 1 <= t /\ (t <= n + 1 \/ (g.ops[i].op = "test" /\ i = n)) BY <3>1 DEF Proper
      <4>2. CASE g.ops[i].op = "test" BY <1>0, <1>1, <1>2, <4>1, <4>2 DEF Leads
      <4> QED BY <1>0, <1>1, <4>1, <4>2
    <3> QED BY <3>1, <3>2 DEF Proper
  <2>2. Proper(x, m, m) BY DEF m, n
  <2> QED BY <1>1, <2>1, <2>2 DEF ProperCode
<1>6. WritesApart(h.ops, L, g.scopes)
  <2>1. \A i \in 1..m : /\ \A s \in g.scopes : s.from <= i /\ i < s.to => s.reg \notin h.ops[i].writes
                        /\ \A k \in 1..Len(L) : L[k].from <= i => L[k].reg \notin h.ops[i].writes
    <3> TAKE i \in 1..m
    <3>1. CASE i \in 1..n
      <4>1. h.ops[i] = g.ops[i] BY <1>1, <3>1
      <4> QED BY <1>4, <3>1, <4>1 DEF WritesApart, n
    <3>2. CASE i = m BY <1>1, <1>3, <3>2
    <3> QED BY <1>1, <3>1, <3>2
  <2> QED BY <1>1, <2>1 DEF WritesApart
<1>7. CapturesLocals(h.ops, L, g.scopes)
  <2> SUFFICES ASSUME NEW j \in 1..m, h.ops[j].captures # None
               PROVE  \/ \E s \in g.scopes : s.reg = h.ops[j].captures /\ s.from <= j /\ j < s.to
                      \/ \E k \in 1..Len(L) : L[k].reg = h.ops[j].captures /\ L[k].from <= j
    BY <1>1 DEF CapturesLocals
  <2>1. CASE j \in 1..n
    <3>1. h.ops[j] = g.ops[j] BY <1>1, <2>1
    <3> QED BY <1>4, <2>1, <3>1 DEF CapturesLocals, n
  <2>2. CASE j = m BY <1>0, <1>1, <2>2
  <2> QED BY <1>1, <2>1, <2>2
<1>8. LeavesClosed(h.ops, g.scopes)
  <2> SUFFICES ASSUME NEW s \in g.scopes, NEW i \in 1..m, NEW t \in Int, s.from <= i, i < s.to,
                      Leads(h.ops[i], i, t), ~(s.from <= t /\ t < s.to), Used(h.ops, s, s.to)
               PROVE  Cuts(h.ops[i], s.reg) \/ (t = s.to /\ Shuts(h.ops, t, s.reg))
    BY <1>1 DEF LeavesClosed
  <2>1. i \in 1..n /\ h.ops[i] = g.ops[i] /\ Used(g.ops, s, s.to) BY <1>1, <1>3
  <2>2. Cuts(g.ops[i], s.reg) \/ (t = s.to /\ Shuts(g.ops, t, s.reg)) BY <1>4, <2>1 DEF LeavesClosed, n
  <2> QED BY <2>1, <2>2, ShutsAppended
<1>9. StaysInside(h.ops, L, c)
  <2> SUFFICES ASSUME NEW k \in 1..Len(L), NEW i \in 1..m, NEW t \in Int, L[k].from <= i, Leads(h.ops[i], i, t)
               PROVE  \/ L[k].from <= t
                      \/ c <= L[k].reg /\ (Cuts(h.ops[i], L[k].reg) \/ ~Used(h.ops, L[k], m + 1))
    BY <1>1 DEF StaysInside
  <2>1. CASE i = m BY <1>1, <2>1 DEF Follows, m, n
  <2>2. CASE i \in 1..n
    <3>1. h.ops[i] = g.ops[i] BY <1>1, <2>2
    <3>2. \/ L[k].from <= t
          \/ b <= L[k].reg /\ (Cuts(g.ops[i], L[k].reg) \/ ~Used(g.ops, L[k], m))
      BY <1>4, <2>2, <3>1 DEF StaysInside, m, n
    <3>3. CASE b <= L[k].reg
      <4>1. ~(L[k].reg < b) BY <1>0, <3>3
      <4>2. c <= b /\ L[k].reg # x.captures BY <4>1
      <4>3. c <= L[k].reg BY <1>0, <3>3, <4>2
      <4>4. ~Used(g.ops, L[k], m) => ~Used(h.ops, L[k], m + 1) BY <1>1, <4>2
      <4> QED BY <3>1, <3>2, <4>3, <4>4
    <3> QED BY <3>2, <3>3
  <2> QED BY <1>1, <2>1, <2>2
<1>10. WaitersClose(h.pending_jumps, h.ops, L, g.scopes)
  <2> SUFFICES ASSUME NEW p \in h.pending_jumps
               PROVE  /\ \A s \in g.scopes : s.from <= p.instruction /\ p.instruction < s.to =>
                            p.stack_top <= s.reg /\ (Used(h.ops, s, s.to) => p.close_upvalues)
                      /\ \A k \in 1..Len(L) : L[k].from <= p.instruction => L[k].reg < p.stack_top
    BY DEF WaitersClose
  <2>1. CASE p \in g.pending_jumps BY <1>1, <1>4, <2>1 DEF WaitersClose
  <2>2. CASE p.instruction = m /\ \A k \in 1..Len(L) : L[k].reg < p.stack_top BY <1>3, <2>2
  <2> QED BY <2>1, <2>2 DEF m, n
<1>11. OpenJumpsWait(h.pending_jumps, h.ops)
  <2> SUFFICES ASSUME NEW i \in 1..m, h.ops[i].op = "jump", h.ops[i].target = NoTarget
               PROVE  \E p \in h.pending_jumps : p.instruction = i
    BY <1>1 DEF OpenJumpsWait
  <2>1. CASE i \in 1..n
    <3>1. h.ops[i] = g.ops[i] BY <1>1, <2>1
    <3> QED BY <1>4, <2>1, <3>1 DEF OpenJumpsWait, n
  <2>2. CASE i = m BY <1>1, <2>2 DEF m, n
  <2> QED BY <1>1, <2>1, <2>2
<1> QED BY <1>4, <1>5, <1>6, <1>7, <1>8, <1>9, <1>10, <1>11 DEF Guarded

(* The rest of the function stays as it is while instructions are added. *)
SameBut(g, h, ops) ==
    /\ h.ops = ops /\ h.locals = g.locals /\ h.scopes = g.scopes /\ h.blocks = g.blocks
    /\ h.jump_targets = g.jump_targets /\ h.pending_jumps = g.pending_jumps

(* An instruction that is no jump and no closure, and leads no further back than where
   every local is in scope. *)
Harmless(g, x) ==
    /\ x.op # "jump" /\ x.captures = None /\ x.close = None
    /\ x.op = "return" => x.writes = {}
    /\ \A k \in 1..Len(g.locals) : g.locals[k].reg \notin x.writes
    /\ x.op = "forprep" => x.target = NoTarget
    /\ x.op = "forloop" => /\ 1 <= x.target /\ x.target <= Len(g.ops) + 1
                           /\ \A k \in 1..Len(g.locals) : g.locals[k].from <= x.target

(* An instruction that neither jumps away nor captures keeps it. *)
LEMMA PlainGuarded ==
    ASSUME NEW g, Regular(g), NEW b \in Int, Guarded(g, b), NEW x \in Instrs, Harmless(g, x),
           NEW h, SameBut(g, h, Append(g.ops, x))
    PROVE  Guarded(h, b)
<1> DEFINE n == Len(g.ops)
           m == n + 1
           L == g.locals
<1>1. /\ n \in Nat /\ m \in Nat /\ Len(L) \in Nat /\ x.target \in Int
      /\ \A k \in 1..Len(L) : L[k].reg \in Nat /\ L[k].from \in Nat /\ L[k].from <= m
  BY GuardTypes DEF Instrs
<1>2. Extends(g, x, h.ops) BY UsedAppended DEF SameBut
<1>3. \A k \in 1..Len(L) : L[k].reg # x.captures BY <1>1 DEF Harmless, None
<1>4. OwnersMarked(h.ops, h.locals, h.blocks)
  <2>1. \A k \in 1..Len(L) : Used(h.ops, L[k], Len(h.ops) + 1) => Used(g.ops, L[k], Len(g.ops) + 1)
    BY <1>2, <1>3 DEF Extends
  <2> QED BY <2>1 DEF OwnersMarked, Guarded, SameBut
<1>5. Proper(x, m, m)
  <2>1. \A t \in Int : Leads(x, m, t) => 1 <= t /\ (t <= m + 1 \/ (x.op = "test" /\ m = m))
    <3> SUFFICES ASSUME NEW t \in Int, Leads(x, m, t) PROVE 1 <= t /\ (t <= m + 1 \/ x.op = "test") OBVIOUS
    <3>1. \/ x.op = "forloop" /\ t \in {x.target, m + 1}
          \/ x.op = "test" /\ t \in {m + 1, m + 2}
          \/ t = m + 1
      BY DEF Leads, Harmless
    <3>2. x.op = "forloop" => 1 <= x.target /\ x.target <= m BY DEF Harmless
    <3> HIDE DEF m
    <3> QED BY <1>1, <3>1, <3>2
  <2> QED BY <2>1 DEF Proper, Harmless
<1>6. Follows(g, x, L, h.ops, b)
  <2> SUFFICES ASSUME NEW k \in 1..Len(L), NEW t \in Int, Leads(x, m, t) PROVE L[k].from <= t BY DEF Follows
  <2>1. \/ x.op = "forloop" /\ t \in {x.target, m + 1}
        \/ t \in {m + 1, m + 2}
    BY DEF Leads, Harmless
  <2>2. x.op = "forloop" => L[k].from <= x.target BY DEF Harmless
  <2> HIDE DEF m
  <2> QED BY <1>1, <2>1, <2>2
<1>7. /\ x.op = "jump" /\ x.target = NoTarget => \E p \in h.pending_jumps : p.instruction = Len(g.ops) + 1
      /\ x.captures # None => \E k \in 1..Len(g.locals) : g.locals[k].reg = x.captures
      /\ \A k \in 1..Len(g.locals) : g.locals[k].reg \notin x.writes
  BY DEF Harmless
<1>8. h.locals = g.locals /\ h.scopes = g.scopes /\ h.jump_targets = g.jump_targets
      /\ h.pending_jumps = g.pending_jumps /\ h.ops = Append(g.ops, x)
  BY DEF SameBut
<1>9. b <= b OBVIOUS
<1> QED BY <1>3, <1>4, <1>5, <1>6, <1>7, <1>8, <1>9, AppendGuarded

(* A pending jump leads nowhere yet. *)
LEMMA WaitingGuarded ==
    ASSUME NEW g, Regular(g), NEW b \in Int, Guarded(g, b),
           NEW p, p.instruction = Len(g.ops) + 1, p.stack_top = StackTop(g),
           NEW h, h.ops = Append(g.ops, Placeholder), h.locals = g.locals, h.scopes = g.scopes,
           h.blocks = g.blocks, h.jump_targets = g.jump_targets,
           h.pending_jumps = g.pending_jumps \union {p}
    PROVE  Guarded(h, b)
<1> DEFINE x == Placeholder
           m == Len(g.ops) + 1
<1>1. x \in Instrs /\ x.op = "jump" /\ x.target = NoTarget /\ x.captures = None /\ x.close = None /\ x.writes = {}
  BY PlaceholderTyped DEF Placeholder, Instr
<1>2. \A k \in 1..Len(g.locals) : g.locals[k].reg \in Nat /\ g.locals[k].reg < p.stack_top BY GuardTypes
<1> HIDE DEF x
<1>3. \A k \in 1..Len(g.locals) : g.locals[k].reg # x.captures BY <1>1, <1>2 DEF None
<1>4. OwnersMarked(h.ops, h.locals, h.blocks)
  <2>1. Extends(g, x, h.ops) BY <1>1, UsedAppended DEF x
  <2>2. \A k \in 1..Len(g.locals) : Used(h.ops, g.locals[k], Len(h.ops) + 1) => Used(g.ops, g.locals[k], Len(g.ops) + 1)
    BY <1>3, <2>1 DEF Extends
  <2> QED BY <2>2 DEF OwnersMarked, Guarded
<1>5. \A t : ~Leads(x, m, t) BY <1>1 DEF Leads
<1>6. Proper(x, m, m) BY <1>1, <1>5 DEF Proper
<1>7. Follows(g, x, g.locals, h.ops, b) BY <1>5 DEF Follows
<1>8. b <= b OBVIOUS
<1>9. \A k \in 1..Len(g.locals) : g.locals[k].reg \notin x.writes BY <1>1
<1>10. h.ops = Append(g.ops, x) BY DEF x
<1>11. \E q \in h.pending_jumps : q.instruction = Len(g.ops) + 1 OBVIOUS
<1>12. \A q \in g.pending_jumps : q \in h.pending_jumps OBVIOUS
<1>13. \A q \in h.pending_jumps :
              \/ q \in g.pending_jumps
              \/ q.instruction = Len(g.ops) + 1 /\ \A k \in 1..Len(g.locals) : g.locals[k].reg < q.stack_top
  BY <1>2
<1>14. x.captures # None => \E k \in 1..Len(g.locals) : g.locals[k].reg = x.captures BY <1>1
<1> QED BY <1>1, <1>3, <1>4, <1>6, <1>7, <1>8, <1>9, <1>10, <1>11, <1>12, <1>13, <1>14, AppendGuarded

(* Above the bottom of a block there is an innermost block for each register. *)
LEMMA InnermostBlock ==
    ASSUME NEW g, Regular(g), NEW r \in Nat, NEW i \in 1..Len(g.blocks), g.blocks[i].stack_bottom <= r
    PROVE  \E b \in 1..Len(g.blocks) :
              /\ i <= b /\ g.blocks[b].stack_bottom <= r
              /\ \A c \in 1..Len(g.blocks) : b < c => r < g.blocks[c].stack_bottom
<1> DEFINE n == Len(g.blocks)
           S == {b \in 1..n : g.blocks[b].stack_bottom <= r}
<1>1. n \in Nat /\ \A c \in 1..n : g.blocks[c].stack_bottom \in Nat BY RegularParts
<1>2. S \in SUBSET (0..n) /\ i \in S BY <1>1
<1> HIDE DEF n
<1>3. Max(S) \in S /\ \A y \in S : y <= Max(S)
  <2>1. S # {} BY <1>2
  <2> HIDE DEF S
  <2> QED BY <1>1, <1>2, <2>1, GreatestElement
<1>4. PICK b \in S : \A y \in S : y <= b BY <1>3
<1>5. b \in 1..n /\ g.blocks[b].stack_bottom <= r /\ i <= b BY <1>2, <1>4
<1>6. ASSUME NEW c \in 1..n, b < c PROVE r < g.blocks[c].stack_bottom
  <2>1. c \notin S BY <1>1, <1>4, <1>5, <1>6
  <2> QED BY <1>1, <1>6, <2>1
<1> QED BY <1>5, <1>6 DEF n

(* A jump back closes the upvalues of the locals it leaves. *)
LeavesBack(g, t) ==
    t.stack_top < StackTop(g) /\ \E i \in t.block_index..Len(g.blocks) : g.blocks[i].owns_upvalues
(* The jump back to a target already placed. *)
BackJump(g, t) ==
    [Instr("jump", {}) EXCEPT !.target = t.instruction,
                              !.close = IF LeavesBack(g, t) THEN t.stack_top ELSE None]

(* It closes from the top of the target on when a block it leaves owns an upvalue. *)
LEMMA BackJumpFields ==
    ASSUME NEW g, Regular(g), NEW t \in Targets(g)
    PROVE  LET x == BackJump(g, t)
           IN  /\ x \in Instrs /\ x.op = "jump" /\ x.writes = {} /\ x.captures = None
               /\ x.target = t.instruction /\ t.stack_top \in Nat /\ t.block_index \in Nat
               /\ x.close = IF LeavesBack(g, t) THEN t.stack_top ELSE None
               /\ t.stack_top <= StackTop(g) /\ t.block_index \in 1..Len(g.blocks)
               /\ g.blocks[t.block_index].stack_bottom <= t.stack_top
               /\ t.instruction \in Nat /\ t.instruction <= Len(g.ops) + 1
<1> DEFINE close == IF LeavesBack(g, t) THEN t.stack_top ELSE None
<1>1. PICK j \in 1..Len(g.jump_targets) : t = g.jump_targets[j] BY DEF Targets
<1>2. t.stack_top \in Nat /\ t.instruction \in Nat /\ t.instruction <= Len(g.ops) + 1 /\ t.block_index \in Nat
  BY <1>1, GuardTypes, RegularParts
<1>3. Placed(t, g.blocks, StackTop(g)) BY <1>1 DEF Regular, TargetsPlaced
<1>4. close \in Int
  <2> HIDE DEF LeavesBack
  <2> QED BY <1>2 DEF None
<1> DEFINE to == t.instruction
<1>5. to \in Int BY <1>2
<1>6. BackJump(g, t) = [Placeholder EXCEPT !.target = to, !.close = close] BY DEF BackJump, Placeholder
<1>7. Placeholder.op = "jump" /\ Placeholder.writes = {} /\ Placeholder.captures = None
      /\ Placeholder = [op |-> "jump", target |-> NoTarget, close |-> None, writes |-> {}, captures |-> None]
  BY DEF Placeholder, Instr
<1> HIDE DEF close, to
<1>8. [Placeholder EXCEPT !.target = to, !.close = close] \in Instrs BY <1>4, <1>5, PlaceholderTyped, JumpTyped, Zenon
<1>9. LET x == [Placeholder EXCEPT !.target = to, !.close = close]
      IN  x.op = "jump" /\ x.writes = {} /\ x.captures = None /\ x.target = to /\ x.close = close
  BY <1>7
<1> QED BY <1>2, <1>3, <1>6, <1>8, <1>9 DEF Placed, to, close

(* Behind a jump back, the locals above the top of its target may have been left: their
   upvalues were closed if there were any. *)
LEMMA BackGuarded ==
    ASSUME NEW g, Regular(g), Guarded(g, StackTop(g)), NEW t \in Targets(g),
           NEW h, SameBut(g, h, Append(g.ops, BackJump(g, t)))
    PROVE  Guarded(h, t.stack_top)
<1> DEFINE x == BackJump(g, t)
           m == Len(g.ops) + 1
           L == g.locals
           c == t.stack_top
           b == StackTop(g)
<1>1. /\ x \in Instrs /\ x.op = "jump" /\ x.writes = {} /\ x.captures = None
      /\ x.target = t.instruction /\ c \in Nat /\ t.block_index \in Nat
      /\ x.close = IF LeavesBack(g, t) THEN c ELSE None
      /\ c <= b /\ t.block_index \in 1..Len(g.blocks)
      /\ g.blocks[t.block_index].stack_bottom <= c
      /\ t.instruction \in Nat /\ t.instruction <= m
  BY BackJumpFields
<1>2. /\ m \in Nat /\ b \in Nat /\ Len(g.blocks) \in Nat /\ \A i \in 1..Len(g.blocks) : g.blocks[i].stack_bottom \in Nat
      /\ \A k \in 1..Len(L) : L[k].reg \in Nat /\ L[k].from \in Nat /\ L[k].reg < b
  BY GuardTypes, RegularParts
<1>3. 1 <= t.instruction /\ \A k \in 1..Len(L) : t.instruction < L[k].from => c <= L[k].reg
  <2>1. PICK j \in 1..Len(g.jump_targets) : t = g.jump_targets[j] BY DEF Targets
  <2> QED BY <2>1 DEF Guarded, TargetsBehind
<1>4. Extends(g, x, h.ops) BY <1>1, UsedAppended DEF SameBut
<1> HIDE DEF x
<1>5. \A k \in 1..Len(L) : L[k].reg # x.captures BY <1>1, <1>2 DEF None
<1>6. \A k \in 1..Len(L) : Used(h.ops, L[k], Len(h.ops) + 1) => Used(g.ops, L[k], Len(g.ops) + 1)
  BY <1>4, <1>5 DEF Extends
<1>7. OwnersMarked(h.ops, h.locals, h.blocks) BY <1>6 DEF OwnersMarked, Guarded, SameBut
<1>8. x.target # NoTarget BY <1>1, <1>3 DEF NoTarget
<1>9. \A u : Leads(x, m, u) => u = t.instruction BY <1>1 DEF Leads
<1>10. Proper(x, m, m) BY <1>1, <1>2, <1>3, <1>8, <1>9 DEF Proper
<1>11. Follows(g, x, L, h.ops, c)
  <2> SUFFICES ASSUME NEW k \in 1..Len(L), ~(L[k].from <= t.instruction), Used(h.ops, L[k], m + 1)
               PROVE  c <= L[k].reg /\ Cuts(x, L[k].reg)
    <3> SUFFICES ASSUME NEW k \in 1..Len(L), NEW u \in Int, Leads(x, m, u)
                 PROVE  \/ L[k].from <= u
                        \/ c <= L[k].reg /\ (Cuts(x, L[k].reg) \/ ~Used(h.ops, L[k], m + 1))
      BY DEF Follows
    <3>1. u = t.instruction BY <1>9
    <3>2. CASE L[k].from <= t.instruction BY <3>1, <3>2
    <3>3. CASE ~(L[k].from <= t.instruction)
      <4>1. c <= L[k].reg BY <1>2, <1>1, <1>3, <3>3
      <4> QED BY <3>3, <4>1
    <3> QED BY <3>2, <3>3
  <2>1. c <= L[k].reg BY <1>1, <1>2, <1>3
  <2>2. g.blocks[t.block_index].stack_bottom <= L[k].reg
    <3>1. g.blocks[t.block_index].stack_bottom \in Nat BY <1>1, <1>2
    <3>2. L[k].reg \in Nat /\ c \in Nat /\ g.blocks[t.block_index].stack_bottom <= c BY <1>1, <1>2
    <3> QED BY <2>1, <3>1, <3>2
  <2>3. PICK i \in 1..Len(g.blocks) :
              /\ t.block_index <= i /\ g.blocks[i].stack_bottom <= L[k].reg
              /\ \A j \in 1..Len(g.blocks) : i < j => L[k].reg < g.blocks[j].stack_bottom
    BY <1>1, <1>2, <2>2, InnermostBlock
  <2>4. Len(h.ops) = m BY <1>4 DEF Extends
  <2>5. Used(g.ops, L[k], Len(g.ops) + 1) BY <1>6, <2>4
  <2>6. g.blocks[i].owns_upvalues BY <2>3, <2>5 DEF Guarded, OwnersMarked
  <2>7. c < b BY <1>1, <1>2, <2>1
  <2>8. i \in t.block_index..Len(g.blocks) BY <1>1, <1>2, <2>3
  <2>9. LeavesBack(g, t) BY <2>6, <2>7, <2>8 DEF LeavesBack
  <2>10. x.close = c BY <1>1, <2>9
  <2> QED BY <1>1, <2>1, <2>10 DEF Cuts, None
<1>12. \A k \in 1..Len(g.locals) : g.locals[k].reg \notin x.writes BY <1>1
<1>13. x.captures # None => \E k \in 1..Len(g.locals) : g.locals[k].reg = x.captures BY <1>1
<1>14. x.op = "jump" /\ x.target = NoTarget => \E p \in h.pending_jumps : p.instruction = Len(g.ops) + 1 BY <1>8
<1>15. h.locals = g.locals /\ h.scopes = g.scopes /\ h.jump_targets = g.jump_targets
      /\ h.pending_jumps = g.pending_jumps /\ h.ops = Append(g.ops, x)
  BY DEF SameBut, x
<1>16. c \in Int /\ b \in Int /\ Guarded(g, b) BY <1>1, <1>2
<1> HIDE DEF b, c
<1>17. Guarded(h, c)
  BY <1>1, <1>2, <1>5, <1>7, <1>10, <1>11, <1>12, <1>13, <1>14, <1>15, <1>16, AppendGuarded
<1> QED BY <1>17 DEF c

(* One instruction more, nothing else. *)
LongerBy(g, h, op) ==
    /\ h.locals = g.locals /\ h.scopes = g.scopes /\ h.blocks = g.blocks /\ h.jump_targets = g.jump_targets
    /\ \E x \in Instrs : x.op = op /\ h.ops = Append(g.ops, x)

(* The code does not end with a test when the last instruction is none. *)
LEMMA LongerSettled ==
    ASSUME NEW g, Regular(g), NEW h, NEW op, LongerBy(g, h, op), op # "test"
    PROVE  Settled(h)
<1>1. PICK x \in Instrs : x.op = op /\ h.ops = Append(g.ops, x) BY DEF LongerBy
<1>2. Len(h.ops) = Len(g.ops) + 1 /\ h.ops[Len(g.ops) + 1] = x
  <2>1. Extends(g, x, h.ops) BY <1>1, UsedAppended
  <2> QED BY <2>1 DEF Extends
<1> QED BY <1>1, <1>2 DEF Settled

(* A jump keeps it, whether it waits or goes back. *)
LEMMA JumpGuarded ==
    ASSUME NEW g, Regular(g), Ok(g), Len(g.blocks) > 0, NEW label \in JumpLabels, Guarded(g, StackTop(g))
    PROVE  /\ LongerBy(g, Jump(g, label), "jump")
           /\ (\A t \in Targets(g) : t.label # label) => Guarded(Jump(g, label), StackTop(g))
           /\ (\E t \in Targets(g) : t.label = label) =>
                 \E t \in Targets(g) : t.label = label /\ Guarded(Jump(g, label), t.stack_top)
<1> DEFINE h == Jump(g, label)
           k == TargetOf(g, label)
           t == g.jump_targets[k]
           b == Len(g.blocks)
           p == PendingAt(g, label)
<1>1. IsFunctionRecord(g) /\ g.ops \in Seq(Instrs) /\ StackTop(g) \in Nat /\ StackTop(g) \in Int
  BY RegularParts DEF Regular
<1>2. CASE k # 0
  <2>1. k \in 1..Len(g.jump_targets) /\ t.label = label BY <1>2, TargetFound, RegularParts
  <2>2. t \in Targets(g) BY <2>1 DEF Targets
  <2>3. t.stack_top \in Nat /\ t.block_index \in 1..b /\ t.stack_top <= StackTop(g) /\ BackJump(g, t) \in Instrs
        /\ BackJump(g, t).op = "jump"
    BY <2>2, BackJumpFields
  <2>4. ~(t.stack_top > StackTop(g) \/ t.block_index > b) BY <1>1, <2>3, RegularParts
  <2>5. h = Emit(g, BackJump(g, t)) BY <1>2, <2>4 DEF Jump, BackJump, LeavesBack
  <2> HIDE DEF t, h
  <2>6. Keeps(g, h, {"ops"}) /\ h.ops = Append(g.ops, BackJump(g, t)) BY <1>1, <2>5, EmitFields
  <2>7. SameBut(g, h, Append(g.ops, BackJump(g, t))) BY <2>6 DEF Keeps, SameBut
  <2>8. Guarded(h, t.stack_top) BY <2>2, <2>7, BackGuarded
  <2>9. LongerBy(g, h, "jump") BY <2>3, <2>7 DEF LongerBy, SameBut
  <2>10. t.label = label BY <2>1 DEF t
  <2> QED BY <2>2, <2>8, <2>9, <2>10 DEF h
<1>3. CASE k = 0
  <2> DEFINE e == [g EXCEPT !.pending_jumps = @ \union {p}]
  <2>1. h = Emit(e, Placeholder) BY <1>3 DEF Jump, PendingAt, Placeholder, Pc
  <2>2. Keeps(g, e, {"pending_jumps"}) /\ e.pending_jumps = g.pending_jumps \union {p}
    BY <1>1 DEF IsFunctionRecord, Keeps
  <2> HIDE DEF e, h
  <2>3. Keeps(e, h, {"ops"}) /\ h.ops = Append(e.ops, Placeholder) BY <2>1, <2>2, EmitFields DEF Keeps
  <2>4. /\ h.locals = g.locals /\ h.scopes = g.scopes /\ h.blocks = g.blocks /\ h.jump_targets = g.jump_targets
        /\ h.ops = Append(g.ops, Placeholder) /\ h.pending_jumps = g.pending_jumps \union {p}
    BY <2>2, <2>3 DEF Keeps
  <2>5. p.instruction = Len(g.ops) + 1 /\ p.stack_top = StackTop(g) BY DEF PendingAt
  <2> HIDE DEF p
  <2>6. Guarded(h, StackTop(g)) BY <1>1, <2>4, <2>5, WaitingGuarded
  <2>7. LongerBy(g, h, "jump") BY <2>4, PlaceholderTyped DEF LongerBy
  <2>8. \A u \in Targets(g) : u.label # label BY <1>3, TargetFound DEF Targets
  <2> QED BY <2>6, <2>7, <2>8 DEF h
<1> QED BY <1>2, <1>3

(* A test writes its temporary register, which is above every local. *)
LEMMA TestGuarded ==
    ASSUME NEW g, Regular(g), StackTop(g) < Registers, Guarded(g, StackTop(g))
    PROVE  LET h == WithTemp(g, Instr("test", {}))
           IN  Guarded(h, StackTop(g)) /\ LongerBy(g, h, "test") /\ h.pending_jumps = g.pending_jumps
<1> DEFINE i == Instr("test", {})
           top == StackTop(g)
           x == [i EXCEPT !.writes = {top}]
           h == WithTemp(g, i)
<1>1. top \in Top /\ top < Registers /\ IsFunctionRecord(g) /\ Stacked(g.alloc, top) /\ top \in Nat
  BY RegularParts DEF Regular
<1> HIDE DEF top
<1>2. Keeps(g, h, {"alloc", "ops"}) /\ h.ops = Append(g.ops, x) BY <1>1, TempFields
<1>3. x = [op |-> "test", target |-> NoTarget, close |-> None, writes |-> {top}, captures |-> None]
  BY DEF Instr
<1>4. x \in Instrs /\ x.op = "test" /\ x.writes = {top} /\ x.captures = None /\ x.close = None
  BY <1>1, <1>3 DEF Instrs, NoTarget, None
<1> HIDE DEF x, h
<1>5. Harmless(g, x)
  <2>1. \A k \in 1..Len(g.locals) : g.locals[k].reg \in Nat /\ g.locals[k].reg < top BY GuardTypes DEF top
  <2>2. \A k \in 1..Len(g.locals) : g.locals[k].reg \notin x.writes BY <1>1, <1>4, <2>1
  <2> QED BY <1>4, <2>2 DEF Harmless
<1>6. SameBut(g, h, Append(g.ops, x)) BY <1>2 DEF Keeps, SameBut
<1>7. Guarded(h, top) BY <1>1, <1>4, <1>5, <1>6, PlainGuarded DEF top
<1>8. LongerBy(g, h, "test") BY <1>4, <1>6 DEF LongerBy, SameBut
<1> QED BY <1>6, <1>7, <1>8 DEF h, top, SameBut

(* The block that owns a register is the innermost one whose bottom is not above it. *)
LEMMA OwnerIs ==
    ASSUME NEW g, Regular(g), NEW r \in Nat, NEW b \in 1..Len(g.blocks), g.blocks[b].stack_bottom <= r,
           \A c \in 1..Len(g.blocks) : b < c => r < g.blocks[c].stack_bottom
    PROVE  OwnerBlock(g, r) = b
<1> DEFINE n == Len(g.blocks)
           I == {k \in 1..n : g.blocks[k].stack_bottom <= r}
<1>1. OwnerBlock(g, r) = IF I # {} THEN Max(I) ELSE 0 BY DEF OwnerBlock, SelectLastInSeq
<1>2. n \in Nat /\ \A c \in 1..n : g.blocks[c].stack_bottom \in Nat BY RegularParts
<1>3. I \in SUBSET (0..n) /\ b \in I BY <1>2
<1>4. \A c \in I : c <= b BY <1>2
<1> HIDE DEF n
<1>5. I # {} BY <1>3
<1>6. Max(I) \in I /\ \A y \in I : y <= Max(I)
  <2> HIDE DEF I
  <2> QED BY <1>2, <1>3, <1>5, GreatestElement
<1>7. Max(I) <= b /\ b <= Max(I) /\ Max(I) \in Int /\ b \in Int
  <2>1. \A y \in I : y \in Int BY <1>2
  <2> HIDE DEF I
  <2> QED BY <1>3, <1>4, <1>6, <2>1
<1> HIDE DEF I
<1>8. Max(I) = b BY <1>7
<1> QED BY <1>1, <1>5, <1>8

(* A capture keeps it: the block that owns the local is marked. *)
LEMMA CaptureGuarded ==
    ASSUME NEW g, Regular(g), Guarded(g, StackTop(g)), StackTop(g) < Registers, NEW v \in 1..Len(g.locals)
    PROVE  LET h == Capture(g, g.locals[v].reg)
           IN  /\ Guarded(h, StackTop(g)) /\ h.locals = g.locals /\ h.scopes = g.scopes /\ h.unique = g.unique
               /\ h.jump_targets = g.jump_targets /\ Len(h.blocks) = Len(g.blocks)
               /\ \A i \in 1..Len(g.blocks) : h.blocks[i].stack_bottom = g.blocks[i].stack_bottom
               /\ \E x \in Instrs : x.op = "closure" /\ h.ops = Append(g.ops, x)
<1> DEFINE r == g.locals[v].reg
           o == OwnerBlock(g, r)
           e == WithOwner(g, o)
           i == [Instr("closure", {}) EXCEPT !.captures = r]
           top == StackTop(g)
           x == [i EXCEPT !.writes = {top}]
           h == WithTemp(e, i)
           L == g.locals
           m == Len(g.ops) + 1
<1>1. /\ top \in Top /\ top < Registers /\ top \in Nat /\ m \in Nat
      /\ \A k \in 1..Len(L) : L[k].reg \in Nat /\ L[k].from \in Nat /\ L[k].reg < top /\ L[k].from <= m
  BY GuardTypes DEF Regular
<1>2. r \in Nat BY <1>1
<1>3. o \in 0..Len(g.blocks) BY <1>2, OwnerFound
<1>4. h = Capture(g, r) BY DEF Capture
<1> HIDE DEF r, o, top
<1>5. i \in Instrs /\ i.op = "closure" /\ i.captures = r /\ i.close = None
  BY <1>2 DEF Instr, Instrs, NoTarget, None
<1>6. x \in Instrs /\ x.op = "closure" /\ x.writes = {top} /\ x.captures = r /\ x.close = None
  <2> DEFINE w == {top}
  <2>1. w \in SUBSET Int BY <1>1
  <2> HIDE DEF w, i
  <2>2. LET y == [i EXCEPT !.writes = w] IN y \in Instrs /\ y.op = i.op /\ y.captures = i.captures /\ y.close = i.close /\ y.writes = w
    BY <1>5, <2>1 DEF Instrs
  <2> QED BY <1>5, <2>2 DEF w
<1> HIDE DEF x
<1> HIDE DEF i
<1>7. /\ Keeps(g, e, {"blocks"}) /\ Regular(e) /\ StackTop(e) = top /\ Len(e.blocks) = Len(g.blocks)
      /\ \A j \in 1..Len(g.blocks) : e.blocks[j].stack_bottom = g.blocks[j].stack_bottom
  BY <1>3, MarkedFields, MarkRegular DEF top
<1>8. \A j \in 1..Len(g.blocks) : e.blocks[j].owns_upvalues <=> (j = o \/ g.blocks[j].owns_upvalues)
  <2>1. CASE o = 0
    <3>1. e = g BY <2>1 DEF WithOwner
    <3>2. Len(g.blocks) \in Nat BY RegularParts
    <3>3. \A j \in 1..Len(g.blocks) : j # o BY <2>1, <3>2
    <3> HIDE DEF e
    <3> QED BY <3>1, <3>3
  <2>2. SUFFICES ASSUME o \in 1..Len(g.blocks)
                 PROVE  \A j \in 1..Len(g.blocks) : e.blocks[j].owns_upvalues <=> (j = o \/ g.blocks[j].owns_upvalues)
    <3>1. Len(g.blocks) \in Nat BY RegularParts
    <3> HIDE DEF e
    <3> QED BY <1>3, <2>1, <3>1
  <2>3. o # 0
    <3>1. Len(g.blocks) \in Nat BY RegularParts
    <3> QED BY <2>2, <3>1
  <2>4. /\ g.blocks \in Seq(BlockDescriptors) /\ DOMAIN g.blocks = 1..Len(g.blocks) /\ IsFunctionRecord(g)
        /\ \A j \in 1..Len(g.blocks) : g.blocks[j] \in BlockDescriptors
    BY RegularParts, Elements DEF Regular, BlocksRise
  <2>5. e.blocks = [g.blocks EXCEPT ![o].owns_upvalues = TRUE] BY <2>4, <2>3 DEF WithOwner, IsFunctionRecord
  <2>6. \A j \in 1..Len(g.blocks) : j # o => e.blocks[j] = g.blocks[j] BY <2>4, <2>5
  <2>7. e.blocks[o] = [g.blocks[o] EXCEPT !.owns_upvalues = TRUE] BY <2>2, <2>4, <2>5
  <2>8. e.blocks[o].owns_upvalues BY <2>2, <2>4, <2>7 DEF BlockDescriptors
  <2> QED BY <2>6, <2>8
<1>9. /\ e.ops = g.ops /\ e.locals = L /\ e.scopes = g.scopes /\ e.jump_targets = g.jump_targets /\ e.unique = g.unique
      /\ e.pending_jumps = g.pending_jumps
  BY <1>7 DEF Keeps
<1>10. OwnersMarked(e.ops, e.locals, e.blocks)
  BY <1>7, <1>8, <1>9 DEF Guarded, OwnersMarked
<1>11. Guarded(e, top) BY <1>9, <1>10 DEF Guarded, top
<1>12. IsFunctionRecord(e) /\ Stacked(e.alloc, top) BY <1>7 DEF Regular
<1> HIDE DEF e
<1>13. Keeps(e, h, {"alloc", "ops"}) /\ h.ops = Append(e.ops, x)
  <2> HIDE DEF h
  <2>1. h = WithTemp(e, i) BY DEF h
  <2> QED BY <1>1, <1>12, <2>1, TempFields DEF x
<1>14. /\ h.locals = L /\ h.scopes = g.scopes /\ h.jump_targets = g.jump_targets /\ h.blocks = e.blocks
       /\ h.pending_jumps = g.pending_jumps /\ h.ops = Append(g.ops, x) /\ h.unique = g.unique
  BY <1>9, <1>13 DEF Keeps
<1> HIDE DEF h
<1>15. Extends(g, x, h.ops) BY <1>6, <1>14, UsedAppended
<1>16. OwnersMarked(h.ops, h.locals, h.blocks)
  <2> SUFFICES ASSUME NEW k \in 1..Len(L), NEW j \in 1..Len(g.blocks), Used(h.ops, L[k], Len(h.ops) + 1),
                      g.blocks[j].stack_bottom <= L[k].reg,
                      \A c \in 1..Len(g.blocks) : j < c => L[k].reg < g.blocks[c].stack_bottom
               PROVE  e.blocks[j].owns_upvalues
    BY <1>7, <1>14 DEF OwnersMarked
  <2>1. Used(g.ops, L[k], m) \/ r = L[k].reg BY <1>6, <1>15 DEF Extends
  <2>2. CASE Used(g.ops, L[k], m) BY <1>8, <2>2 DEF Guarded, OwnersMarked
  <2>3. CASE r = L[k].reg
    <3>1. OwnerBlock(g, L[k].reg) = j BY <1>1, OwnerIs
    <3> QED BY <1>8, <2>3, <3>1 DEF o
  <2> QED BY <2>1, <2>2, <2>3
<1>17. Proper(x, m, m)
  <2>1. \A t : Leads(x, m, t) => t = m + 1 BY <1>6 DEF Leads
  <2> QED BY <1>1, <1>6, <2>1 DEF Proper
<1>18. Follows(g, x, L, h.ops, top)
  <2>1. \A t : Leads(x, m, t) => t = m + 1 BY <1>6 DEF Leads
  <2>2. \A k \in 1..Len(L) : L[k].from <= m + 1 BY <1>1
  <2> QED BY <2>1, <2>2 DEF Follows
<1>19. \A k \in 1..Len(g.locals) : g.locals[k].reg \notin x.writes BY <1>1, <1>6
<1>20. x.captures # None => \E k \in 1..Len(g.locals) : g.locals[k].reg = x.captures BY <1>6 DEF r
<1>21. \A k \in 1..Len(g.locals) : g.locals[k].reg < top BY <1>1
<1>22. Guarded(g, top) /\ top \in Int BY <1>1 DEF top
<1>23. ~(x.op = "jump" /\ x.target = NoTarget) BY <1>6
<1>24. Guarded(h, top)
  BY <1>6, <1>14, <1>16, <1>17, <1>18, <1>19, <1>20, <1>21, <1>22, <1>23, AppendGuarded
<1>25. h = Capture(g, r) BY <1>4
<1>26. h.locals = g.locals /\ h.scopes = g.scopes
               /\ h.jump_targets = g.jump_targets /\ Len(h.blocks) = Len(g.blocks)
               /\ \A j \in 1..Len(g.blocks) : h.blocks[j].stack_bottom = g.blocks[j].stack_bottom
  BY <1>7, <1>14
<1> QED BY <1>6, <1>14, <1>24, <1>25, <1>26 DEF r, top

(* The code after the jumps at the places I were patched. *)
PatchedCode(g, h, label) ==
    /\ Len(h.ops) = Len(g.ops)
    /\ \A i \in 1..Len(g.ops) :
          /\ h.ops[i].op = g.ops[i].op /\ h.ops[i].writes = g.ops[i].writes
          /\ h.ops[i].captures = g.ops[i].captures
          /\ \/ h.ops[i] = g.ops[i] /\ \A p \in Here(g, label) : p.instruction # i
             \/ \E p \in Here(g, label) :
                   /\ p.instruction = i /\ g.ops[i] = Placeholder
                   /\ h.ops[i].target = Pc(g)
                   /\ h.ops[i].close \in {StackTop(g), None}
                   /\ p.close_upvalues => h.ops[i].close = StackTop(g)

(* A label completes the jumps that wait for it here, and changes nothing else of the code. *)
LEMMA PatchedCodeIs ==
    ASSUME NEW g, Regular(g), NEW label \in JumpLabels, Ok(JumpTarget(g, label))
    PROVE  /\ Ok(g) /\ PatchedCode(g, JumpTarget(g, label), label)
           /\ \A p \in Here(g, label) : p.stack_top = StackTop(g)
           /\ JumpTarget(g, label).locals = g.locals /\ JumpTarget(g, label).scopes = g.scopes
           /\ JumpTarget(g, label).blocks = g.blocks
           /\ JumpTarget(g, label).pending_jumps = g.pending_jumps \ Here(g, label)
           /\ JumpTarget(g, label).jump_targets = Append(g.jump_targets, TargetAt(g, label))
<1> DEFINE h == JumpTarget(g, label)
           here == Here(g, label)
           top == StackTop(g)
           b == Len(g.blocks)
           placed == [g EXCEPT !.jump_targets = Append(@, TargetAt(g, label)), !.pending_jumps = @ \ here]
           k == Patched(placed, here)
<1>1. IsFunctionRecord(g) /\ top \in Nat /\ g.ops \in Seq(Instrs) /\ DOMAIN g.ops = 1..Len(g.ops)
  BY RegularParts, Elements DEF Regular
<1>2. Ok(g) BY DEF JumpTarget
<1>3. /\ ~\E u \in ToSet(g.jump_targets) : u.block_index >= b /\ u.label = label
      /\ ~\E p \in g.pending_jumps : p.block_index > b
      /\ ~\E p \in here : p.stack_top > top
      /\ ~\E p \in here : p.stack_top < top
      /\ ~\E p \in here : g.ops[p.instruction] # Placeholder
      /\ h = k
  <2>1. CASE \E u \in ToSet(g.jump_targets) : u.block_index >= b /\ u.label = label
    <3>1. h = Fail(g, "DuplicateLabel") BY <1>2, <2>1 DEF JumpTarget
    <3> HIDE DEF h
    <3> QED BY <1>1, <3>1, FailFields DEF Ok, h
  <2>2. CASE ~(\E u \in ToSet(g.jump_targets) : u.block_index >= b /\ u.label = label)
             /\ \E p \in g.pending_jumps : p.block_index > b
    <3>1. h = Fail(g, "panic") BY <1>2, <2>2 DEF JumpTarget
    <3> HIDE DEF h
    <3> QED BY <1>1, <3>1, FailFields DEF Ok, h
  <2>3. CASE ~(\E u \in ToSet(g.jump_targets) : u.block_index >= b /\ u.label = label)
             /\ ~(\E p \in g.pending_jumps : p.block_index > b)
    <3> DEFINE e == IF label.kind = "named" THEN "JumpLocal" ELSE "BreakRejected"
    <3>1. h = IF \E p \in here : p.stack_top > top THEN Fail(g, "panic")
              ELSE IF \E p \in here : p.stack_top < top THEN Fail(placed, e)
              ELSE IF \E p \in here : g.ops[p.instruction] # Placeholder THEN Fail(placed, "panic")
              ELSE k
      BY <1>2, <2>3 DEF JumpTarget, TargetAt, Here, Placeholder
    <3>2. Fail(placed, e).error = e /\ Fail(placed, "panic").error = "panic" /\ Fail(g, "panic").error = "panic"
      BY <1>1 DEF Fail, IsFunctionRecord
    <3>3. e # "none" OBVIOUS
    <3> HIDE DEF k, placed, e, here
    <3>4. Ok(h) OBVIOUS
    <3> HIDE DEF h
    <3> QED BY <2>3, <3>1, <3>2, <3>3, <3>4 DEF Ok
  <2> QED BY <2>1, <2>2, <2>3
<1>4. \A p \in here : p.stack_top \in Nat /\ p \in g.pending_jumps BY RegularParts DEF Here
<1>5. \A p \in here : p.stack_top = top BY <1>1, <1>3, <1>4
<1>6. /\ Keeps(g, placed, {"jump_targets", "pending_jumps"})
      /\ placed.jump_targets = Append(g.jump_targets, TargetAt(g, label))
      /\ placed.pending_jumps = g.pending_jumps \ here
  BY <1>1 DEF IsFunctionRecord, Keeps
<1> HIDE DEF placed
<1>7. /\ placed.locals = g.locals /\ placed.scopes = g.scopes /\ placed.blocks = g.blocks /\ placed.ops = g.ops
      /\ StackTop(placed) = top /\ Pc(placed) = Pc(g) /\ IsFunctionRecord(placed)
  BY <1>6 DEF Keeps, StackTop, Pc
<1> DEFINE Shutting(i) == \E p \in here : p.instruction = i /\ p.close_upvalues
           At(i) == [g.ops[i] EXCEPT !.target = Pc(g), !.close = IF Shutting(i) THEN top ELSE None]
           New(i) == IF \E p \in here : p.instruction = i THEN At(i) ELSE g.ops[i]
           ops == [i \in 1..Len(g.ops) |-> New(i)]
<1>8. k = [placed EXCEPT !.ops = ops]
  BY <1>1, <1>7 DEF Patched
<1>9. \A i \in 1..Len(g.ops) : g.ops[i] \in Instrs BY RegularParts
<1>10. \A i \in 1..Len(g.ops) : At(i).op = g.ops[i].op /\ At(i).writes = g.ops[i].writes
                               /\ At(i).captures = g.ops[i].captures
                               /\ At(i).target = Pc(g) /\ At(i).close = IF Shutting(i) THEN top ELSE None
  <2> HIDE DEF Shutting, top
  <2> QED BY <1>9 DEF Instrs
<1> HIDE DEF At, Shutting
<1>11. \A i \in 1..Len(g.ops) : ops[i] = New(i)
  <2> HIDE DEF New
  <2> QED OBVIOUS
<1>13. ops \in [1..Len(g.ops) -> {New(i) : i \in 1..Len(g.ops)}]
  <2> HIDE DEF New
  <2> QED OBVIOUS
<1> HIDE DEF ops
<1>14. Len(ops) = Len(g.ops) /\ Len(g.ops) \in Nat BY <1>13, RegularParts
<1>15. k.ops = ops /\ Keeps(placed, k, {"ops"})
  <2> HIDE DEF New
  <2> QED BY <1>7, <1>8 DEF IsFunctionRecord, Keeps
<1> HIDE DEF k
<1>16. PatchedCode(g, k, label)
  <2> SUFFICES ASSUME NEW i \in 1..Len(g.ops)
               PROVE  /\ ops[i].op = g.ops[i].op /\ ops[i].writes = g.ops[i].writes
                      /\ ops[i].captures = g.ops[i].captures
                      /\ \/ ops[i] = g.ops[i] /\ \A p \in here : p.instruction # i
                         \/ \E p \in here :
                               /\ p.instruction = i /\ g.ops[i] = Placeholder
                               /\ ops[i].target = Pc(g)
                               /\ ops[i].close \in {top, None}
                               /\ p.close_upvalues => ops[i].close = top
    BY <1>14, <1>15 DEF PatchedCode
  <2>1. CASE \A p \in here : p.instruction # i
    <3>1. ops[i] = g.ops[i] BY <1>11, <2>1
    <3> QED BY <2>1, <3>1
  <2>2. ASSUME NEW p \in here, p.instruction = i
        PROVE  /\ ops[i].op = g.ops[i].op /\ ops[i].writes = g.ops[i].writes
               /\ ops[i].captures = g.ops[i].captures
               /\ p.instruction = i /\ g.ops[i] = Placeholder
               /\ ops[i].target = Pc(g)
               /\ ops[i].close \in {top, None}
               /\ p.close_upvalues => ops[i].close = top
    <3>1. ops[i] = At(i) BY <1>11, <2>2
    <3>2. p.close_upvalues => Shutting(i) BY <2>2 DEF Shutting
    <3>3. g.ops[i] = Placeholder BY <1>3, <2>2
    <3> HIDE DEF here, top
    <3> QED BY <1>10, <2>2, <3>1, <3>2, <3>3
  <2> HIDE DEF here, top
  <2> QED BY <2>1, <2>2
<1>17. /\ k.locals = g.locals /\ k.scopes = g.scopes /\ k.blocks = g.blocks
       /\ k.pending_jumps = g.pending_jumps \ here
       /\ k.jump_targets = Append(g.jump_targets, TargetAt(g, label))
  BY <1>6, <1>7, <1>15 DEF Keeps
<1> QED BY <1>2, <1>3, <1>5, <1>16, <1>17

(* A label keeps it: the jumps it completes left no local but those they close. *)
LEMMA TargetGuarded ==
    ASSUME NEW g, Regular(g), NEW label \in JumpLabels, Ok(JumpTarget(g, label)), Guarded(g, StackTop(g))
    PROVE  /\ Guarded(JumpTarget(g, label), StackTop(g))
           /\ Settled(g) => Settled(JumpTarget(g, label))
<1> DEFINE h == JumpTarget(g, label)
           here == Here(g, label)
           n == Len(g.ops)
           m == n + 1
           L == g.locals
           top == StackTop(g)
           Was(i) == h.ops[i] = g.ops[i] /\ \A p \in here : p.instruction # i
           Now(i, p) == /\ p.instruction = i /\ g.ops[i] = Placeholder
                        /\ h.ops[i].target = m
                        /\ p.close_upvalues => h.ops[i].close = top
<1>1. /\ PatchedCode(g, h, label)
      /\ \A p \in here : p.stack_top = top
      /\ h.locals = L /\ h.scopes = g.scopes /\ h.blocks = g.blocks
      /\ h.pending_jumps = g.pending_jumps \ here
      /\ h.jump_targets = Append(g.jump_targets, TargetAt(g, label))
  BY PatchedCodeIs
<1>2. /\ n \in Nat /\ m \in Nat /\ top \in Nat
      /\ \A i \in 1..n : g.ops[i] \in Instrs
      /\ \A k \in 1..Len(L) : L[k].reg \in Nat /\ L[k].from \in Nat /\ L[k].from <= m /\ L[k].reg < top
      /\ \A s \in g.scopes : s.reg \in Nat /\ s.from \in Nat /\ s.to \in Nat /\ s.to <= m
  BY GuardTypes
<1>3. /\ Placeholder.op = "jump" /\ Placeholder.writes = {} /\ Placeholder.captures = None /\ Placeholder.close = None
      /\ Placeholder.target = NoTarget
  BY DEF Placeholder, Instr
<1>4. /\ Len(h.ops) = n
      /\ \A i \in 1..n : /\ h.ops[i].op = g.ops[i].op /\ h.ops[i].writes = g.ops[i].writes
                         /\ h.ops[i].captures = g.ops[i].captures
                         /\ Was(i) \/ \E p \in here : Now(i, p)
  BY <1>1 DEF PatchedCode, Pc
<1>5. \A i \in 1..n : (\E p \in here : Now(i, p)) =>
         /\ h.ops[i].op = "jump" /\ h.ops[i].writes = {} /\ h.ops[i].captures = None /\ h.ops[i].target = m
         /\ g.ops[i].op = "jump" /\ g.ops[i].close = None
  BY <1>3, <1>4
<1>6. here \subseteq g.pending_jumps BY DEF Here
<1> HIDE DEF h, here, n, m, L
<1>7. \A v, to : Used(h.ops, v, to) <=> Used(g.ops, v, to) BY <1>4 DEF Used, n
<1>8. \A t, r : Shuts(g.ops, t, r) => Shuts(h.ops, t, r)
  <2> SUFFICES ASSUME NEW t, NEW r, Shuts(g.ops, t, r) PROVE Shuts(h.ops, t, r) OBVIOUS
  <2>1. t \in 1..n /\ (g.ops[t].op = "return" \/ Cuts(g.ops[t], r)) BY DEF Shuts, n
  <2>2. ~\E p \in here : Now(t, p) BY <1>5, <2>1 DEF Cuts
  <2>3. h.ops[t] = g.ops[t] BY <1>4, <2>1, <2>2
  <2> QED BY <1>4, <2>1, <2>3 DEF Shuts
<1>9. \A i \in 1..n, p \in here, t \in Int : Now(i, p) /\ Leads(h.ops[i], i, t) => t = m
  BY <1>5 DEF Leads
<1>10. /\ ProperCode(g.ops) /\ WritesApart(g.ops, L, g.scopes) /\ CapturesLocals(g.ops, L, g.scopes)
       /\ OwnersMarked(g.ops, L, g.blocks) /\ LeavesClosed(g.ops, g.scopes) /\ StaysInside(g.ops, L, top)
       /\ WaitersClose(g.pending_jumps, g.ops, L, g.scopes) /\ TargetsBehind(g.jump_targets, L)
       /\ OpenJumpsWait(g.pending_jumps, g.ops)
  BY DEF Guarded, L
<1>11. ProperCode(h.ops)
  <2> SUFFICES ASSUME NEW i \in 1..n PROVE Proper(h.ops[i], i, n) BY <1>4 DEF ProperCode
  <2>1. Proper(g.ops[i], i, n) BY <1>10 DEF ProperCode, n
  <2>2. CASE h.ops[i] = g.ops[i] BY <2>1, <2>2
  <2>3. ASSUME NEW p \in here, Now(i, p) PROVE Proper(h.ops[i], i, n)
    <3>1. /\ h.ops[i].op = "jump" /\ h.ops[i].writes = {} /\ h.ops[i].captures = None /\ h.ops[i].target = m
      BY <1>5, <2>3
    <3>2. m # NoTarget /\ 1 <= m /\ m <= n + 1 BY <1>2 DEF m, NoTarget
    <3>3. \A t \in Int : Leads(h.ops[i], i, t) => t = m BY <1>9, <2>3
    <3> QED BY <3>1, <3>2, <3>3 DEF Proper
  <2> QED BY <1>4, <2>2, <2>3
<1>12. WritesApart(h.ops, L, g.scopes) BY <1>4, <1>10 DEF WritesApart, n
<1>13. CapturesLocals(h.ops, L, g.scopes) BY <1>4, <1>10 DEF CapturesLocals, n
<1>14. OwnersMarked(h.ops, L, g.blocks) BY <1>4, <1>7, <1>10 DEF OwnersMarked, n
<1>15. LeavesClosed(h.ops, g.scopes)
  <2> SUFFICES ASSUME NEW s \in g.scopes, NEW i \in 1..n, NEW t \in Int, s.from <= i, i < s.to,
                      Leads(h.ops[i], i, t), ~(s.from <= t /\ t < s.to), Used(g.ops, s, s.to)
               PROVE  Cuts(h.ops[i], s.reg) \/ (t = s.to /\ Shuts(h.ops, t, s.reg))
    BY <1>4, <1>7 DEF LeavesClosed
  <2>1. CASE h.ops[i] = g.ops[i]
    <3>1. Cuts(g.ops[i], s.reg) \/ (t = s.to /\ Shuts(g.ops, t, s.reg)) BY <1>10, <2>1 DEF LeavesClosed, n
    <3> QED BY <1>8, <2>1, <3>1
  <2>2. ASSUME NEW p \in here, Now(i, p) PROVE Cuts(h.ops[i], s.reg)
    <3>1. p.stack_top <= s.reg /\ p.close_upvalues BY <1>6, <1>10, <2>2 DEF WaitersClose
    <3>2. h.ops[i].close = top /\ p.stack_top = top BY <1>1, <2>2, <3>1
    <3> QED BY <1>2, <3>1, <3>2 DEF Cuts, None
  <2> QED BY <1>4, <2>1, <2>2
<1>16. StaysInside(h.ops, L, top)
  <2> SUFFICES ASSUME NEW k \in 1..Len(L), NEW i \in 1..n, NEW t \in Int, L[k].from <= i, Leads(h.ops[i], i, t)
               PROVE  L[k].from <= t
    BY <1>4 DEF StaysInside
  <2>1. CASE h.ops[i] = g.ops[i]
    <3>1. ~(top <= L[k].reg) BY <1>2
    <3> QED BY <1>10, <2>1, <3>1 DEF StaysInside, n
  <2>2. ASSUME NEW p \in here, Now(i, p) PROVE L[k].from <= t BY <1>2, <1>9, <2>2
  <2> QED BY <1>4, <2>1, <2>2
<1>17. WaitersClose(h.pending_jumps, h.ops, L, g.scopes)
  BY <1>1, <1>7, <1>10 DEF WaitersClose
<1>18. TargetsBehind(h.jump_targets, L)
  <2> DEFINE T == g.jump_targets
             u == TargetAt(g, label)
  <2>1. T \in Seq(JumpTargets) BY DEF Regular, TargetsPlaced
  <2>2. u.instruction = m /\ u.stack_top = top BY DEF TargetAt, Pc, m, n
  <2>3. u \in JumpTargets BY <1>2, RegularParts DEF TargetAt, JumpTargets, Pc, m, n
  <2> HIDE DEF u
  <2>4. /\ Len(Append(T, u)) = Len(T) + 1 /\ Len(T) \in Nat
        /\ (\A k \in 1..Len(T) : Append(T, u)[k] = T[k]) /\ Append(T, u)[Len(T) + 1] = u
    BY <2>1, <2>3, Appended
  <2>5. h.jump_targets = Append(T, u) BY <1>1 DEF u
  <2>6. 1 <= m /\ \A k \in 1..Len(L) : ~(m < L[k].from) BY <1>2 DEF m
  <2>7. \A j \in 1..Len(T) + 1 : j \in 1..Len(T) \/ j = Len(T) + 1 BY <2>4
  <2> QED BY <1>10, <2>2, <2>4, <2>5, <2>6, <2>7 DEF TargetsBehind
<1>19. OpenJumpsWait(h.pending_jumps, h.ops)
  <2> SUFFICES ASSUME NEW i \in 1..n, h.ops[i].op = "jump", h.ops[i].target = NoTarget
               PROVE  \E p \in h.pending_jumps : p.instruction = i
    BY <1>4 DEF OpenJumpsWait
  <2>1. ~\E p \in here : Now(i, p) BY <1>2, <1>5 DEF NoTarget, m
  <2>2. Was(i) BY <1>4, <2>1
  <2>3. PICK p \in g.pending_jumps : p.instruction = i BY <1>10, <2>2 DEF OpenJumpsWait, n
  <2>4. p \notin here BY <2>2, <2>3
  <2> QED BY <1>1, <2>3, <2>4
<1>20. Settled(g) => Settled(h) BY <1>4 DEF Settled, n
<1>21. Guarded(h, top)
  BY <1>1, <1>11, <1>12, <1>13, <1>14, <1>15, <1>16, <1>17, <1>18, <1>19 DEF Guarded
<1> QED BY <1>20, <1>21 DEF h

(* The block that begins at bottom was left: x ends it, or nothing did and nothing of it was
   captured. *)
Ends(x, m, bottom) == Closes(x, m, bottom) \/ (x.op = "return" /\ x.close = None /\ x.writes = {} /\ x.captures = None)
(* A block ends with an instruction that closes what was captured in it, or with none if
   nothing was. *)
EndedBy(g, h, bottom) ==
    \/ /\ h.ops = g.ops
       /\ \A k \in 1..Len(g.locals) : bottom <= g.locals[k].reg => ~Used(g.ops, g.locals[k], Len(g.ops) + 1)
    \/ \E x \in Instrs : h.ops = Append(g.ops, x) /\ Ends(x, Len(g.ops) + 1, bottom)
(* A jump that waits and left the block closes what was captured there. *)
Brought(g, q, p, bottom) ==
    /\ q.instruction = p.instruction
    /\ \/ q = p /\ p.stack_top <= bottom
       \/ /\ q.stack_top = bottom /\ bottom <= p.stack_top
          /\ p.close_upvalues => q.close_upvalues
          /\ \A k \in 1..Len(g.locals) :
                bottom <= g.locals[k].reg /\ Used(g.ops, g.locals[k], Len(g.ops) + 1) => q.close_upvalues

(* What the end of a block leaves of the code. *)
EndedFacts(g, h, bottom) ==
    LET m == Len(g.ops) + 1
    IN  /\ \A i \in 1..Len(g.ops) : h.ops[i] = g.ops[i] /\ i \in 1..Len(h.ops)
        /\ Len(h.ops) = Len(g.ops) \/ (Len(h.ops) = m /\ m \in 1..Len(h.ops) /\ Ends(h.ops[m], m, bottom))
        /\ \A i \in 1..Len(h.ops) : i \in 1..Len(g.ops) \/ (i = m /\ Len(h.ops) = m)
        /\ \A v : \A to \in Nat : to <= m => (Used(h.ops, v, to) <=> Used(g.ops, v, to))
        /\ \A v : v.reg \in Nat => (Used(h.ops, v, Len(h.ops) + 1) => Used(g.ops, v, m))
        /\ \A t, r : Shuts(g.ops, t, r) => Shuts(h.ops, t, r)

(* It leaves the code as it was, but for that instruction. *)
LEMMA EndedFactsHold ==
    ASSUME NEW g, Regular(g), NEW bottom \in Nat, NEW h, EndedBy(g, h, bottom)
    PROVE  EndedFacts(g, h, bottom)
<1> DEFINE n == Len(g.ops)
           m == n + 1
<1>1. n \in Nat /\ m \in Nat /\ \A i \in 1..n : i < m BY GuardTypes
<1>2. CASE h.ops = g.ops
  BY <1>1, <1>2 DEF EndedFacts
<1>3. ASSUME NEW x \in Instrs, h.ops = Append(g.ops, x), Ends(x, m, bottom)
      PROVE  EndedFacts(g, h, bottom)
  <2>1. /\ Len(h.ops) = m /\ \A i \in 1..n : h.ops[i] = g.ops[i]
        /\ h.ops[m] = x /\ \A i \in 1..m : i \in 1..n \/ i = m
        /\ \A v : Used(h.ops, v, m + 1) => Used(g.ops, v, m) \/ x.captures = v.reg
    <3>1. Extends(g, x, h.ops) BY <1>3, UsedAppended
    <3> QED BY <3>1 DEF Extends
  <2>2. x.captures = None BY <1>3 DEF Ends, Closes
  <2> HIDE DEF n, m
  <2>3. \A i \in 1..n : i \in 1..m /\ i < m BY <1>1 DEF m
  <2>4. m \in 1..m BY <1>1 DEF m
  <2>5. \A v : \A to \in Nat : to <= m => (Used(h.ops, v, to) <=> Used(g.ops, v, to))
    <3> SUFFICES ASSUME NEW v, NEW to \in Nat, to <= m PROVE Used(h.ops, v, to) <=> Used(g.ops, v, to) OBVIOUS
    <3>1. Used(g.ops, v, to) => Used(h.ops, v, to) BY <2>1, <2>3 DEF Used, n
    <3>2. ASSUME NEW j \in 1..m, v.from <= j, j < to, h.ops[j].captures = v.reg PROVE Used(g.ops, v, to)
      <4>1. CASE j \in 1..n BY <2>1, <3>2, <4>1 DEF Used, n
      <4>2. CASE j = m
        <5>1. m < to /\ to <= m BY <3>2, <4>2
        <5> QED BY <1>1, <5>1
      <4> QED BY <2>1, <4>1, <4>2
    <3> QED BY <2>1, <3>1, <3>2 DEF Used
  <2>6. \A v : v.reg \in Nat => (Used(h.ops, v, m + 1) => Used(g.ops, v, m))
    BY <2>1, <2>2 DEF None
  <2>7. \A t, r : Shuts(g.ops, t, r) => Shuts(h.ops, t, r) BY <1>3, ShutsAppended
  <2> QED BY <1>3, <2>1, <2>3, <2>4, <2>5, <2>6, <2>7 DEF EndedFacts, n, m
<1> QED BY <1>2, <1>3 DEF EndedBy

(* The locals of a block go and their scopes end: every way out of these scopes is closed, by
   the last instruction, by the jump itself, or by the mark on a jump that waits. *)
LEMMA DroppedGuarded ==
    ASSUME NEW g, Regular(g), NEW b \in Int, Guarded(g, b), Settled(g),
           NEW bottom \in Nat, bottom <= b,
           NEW h, Dropped(g, h, bottom, Len(g.ops) + 1), EndedBy(g, h, bottom),
           \A j \in 1..Len(h.jump_targets) : \E k \in 1..Len(g.jump_targets) : h.jump_targets[j] = g.jump_targets[k],
           \A q \in h.pending_jumps : \E p \in g.pending_jumps : Brought(g, q, p, bottom),
           \A p \in g.pending_jumps : \E q \in h.pending_jumps : q.instruction = p.instruction,
           \A i \in 1..Len(h.blocks) : i \in 1..Len(g.blocks) /\ h.blocks[i] = g.blocks[i],
           \A i \in 1..Len(g.blocks) : i \in 1..Len(h.blocks) \/ bottom <= g.blocks[i].stack_bottom
    PROVE  Guarded(h, bottom) /\ Settled(h)
<1> DEFINE n == Len(g.ops)
           m == n + 1
           L == g.locals
           M == h.locals
           Gone(s) == \E k \in 1..Len(L) : /\ bottom <= L[k].reg
                                           /\ s = [reg |-> L[k].reg, from |-> L[k].from, to |-> m]
<1>1. /\ n \in Nat /\ m \in Nat
      /\ \A i \in 1..n : g.ops[i] \in Instrs /\ g.ops[i].target \in Int
      /\ \A k \in 1..Len(L) : L[k].reg \in Nat /\ L[k].from \in Nat /\ L[k].from <= m
      /\ \A s \in g.scopes : s.reg \in Nat /\ s.from \in Nat /\ s.to \in Nat /\ s.to <= m
      /\ \A p \in g.pending_jumps : p.instruction \in 1..n /\ p.stack_top \in Nat /\ p.instruction \in Nat
  BY GuardTypes
<1>2. /\ \A k \in 1..Len(M) : k \in 1..Len(L) /\ M[k] = L[k] /\ L[k].reg < bottom
      /\ \A k \in 1..Len(L) : bottom <= L[k].reg \/ k \in 1..Len(M)
      /\ \A s \in h.scopes : s \in g.scopes \/ Gone(s)
      /\ g.scopes \subseteq h.scopes
      /\ \A k \in 1..Len(L) : bottom <= L[k].reg => [reg |-> L[k].reg, from |-> L[k].from, to |-> m] \in h.scopes
  <2>1. Len(L) \in Nat /\ Len(M) \in 0..Len(L) BY GuardTypes DEF Dropped
  <2> QED BY <1>1, <2>1 DEF Dropped
<1>3. /\ \A i \in 1..n : h.ops[i] = g.ops[i] /\ i \in 1..Len(h.ops)
      /\ Len(h.ops) = n \/ (Len(h.ops) = m /\ m \in 1..Len(h.ops) /\ Ends(h.ops[m], m, bottom))
      /\ \A i \in 1..Len(h.ops) : i \in 1..n \/ (i = m /\ Len(h.ops) = m)
      /\ \A v : \A to \in Nat : to <= m => (Used(h.ops, v, to) <=> Used(g.ops, v, to))
      /\ \A v : v.reg \in Nat => (Used(h.ops, v, Len(h.ops) + 1) => Used(g.ops, v, m))
      /\ \A t, r : Shuts(g.ops, t, r) => Shuts(h.ops, t, r)
  BY EndedFactsHold DEF EndedFacts
<1>4. /\ ProperCode(g.ops) /\ WritesApart(g.ops, L, g.scopes) /\ CapturesLocals(g.ops, L, g.scopes)
      /\ OwnersMarked(g.ops, L, g.blocks)
      /\ LeavesClosed(g.ops, g.scopes) /\ StaysInside(g.ops, L, b)
      /\ WaitersClose(g.pending_jumps, g.ops, L, g.scopes) /\ TargetsBehind(g.jump_targets, L)
      /\ OpenJumpsWait(g.pending_jumps, g.ops)
  BY DEF Guarded
<1>5. \A k \in 1..Len(L) : bottom <= L[k].reg /\ Used(g.ops, L[k], m) => Len(h.ops) = m
  <2>1. CASE h.ops = g.ops BY <2>1 DEF EndedBy
  <2>2. ASSUME NEW x \in Instrs, h.ops = Append(g.ops, x) PROVE Len(h.ops) = m
    BY <2>2, UsedAppended DEF Extends
  <2> QED BY <2>1, <2>2 DEF EndedBy
<1>6. Len(h.ops) = m =>
         /\ h.ops[m].op \in {"jump", "return"} /\ h.ops[m].writes = {} /\ h.ops[m].captures = None
         /\ h.ops[m].op = "jump" => h.ops[m].target = m + 1 /\ h.ops[m].close = bottom
         /\ h.ops[m].op = "return" => h.ops[m].close = None
         /\ \A t \in Int : Leads(h.ops[m], m, t) => t = m + 1
         /\ m \in 1..Len(h.ops)
  <2> SUFFICES ASSUME Len(h.ops) = m
               PROVE  /\ h.ops[m].op \in {"jump", "return"} /\ h.ops[m].writes = {} /\ h.ops[m].captures = None
                      /\ h.ops[m].op = "jump" => h.ops[m].target = m + 1 /\ h.ops[m].close = bottom
                      /\ h.ops[m].op = "return" => h.ops[m].close = None
                      /\ \A t \in Int : Leads(h.ops[m], m, t) => t = m + 1
                      /\ m \in 1..Len(h.ops)
    OBVIOUS
  <2>1. Ends(h.ops[m], m, bottom) /\ m \in 1..Len(h.ops) BY <1>1, <1>3
  <2> QED BY <2>1 DEF Ends, Closes, Leads
<1> HIDE DEF n, m, L, M, Gone
<1>7. \A i \in 1..n : i < m BY <1>1 DEF m
<1>8. ProperCode(h.ops)
  <2> SUFFICES ASSUME NEW i \in 1..Len(h.ops) PROVE Proper(h.ops[i], i, Len(h.ops)) BY DEF ProperCode
  <2>1. CASE i \in 1..n
    <3>1. h.ops[i] = g.ops[i] /\ Proper(g.ops[i], i, n) BY <1>3, <1>4, <2>1 DEF ProperCode, n
    <3>2. i = n => g.ops[i].op # "test" BY <2>1 DEF Settled, n
    <3>3. n <= Len(h.ops) /\ Len(h.ops) \in Nat BY <1>1, <1>3 DEF m
    <3>4. \A t \in Int : Leads(g.ops[i], i, t) => 1 <= t /\ t <= Len(h.ops) + 1
      BY <1>1, <3>1, <3>2, <3>3 DEF Proper
    <3> QED BY <3>1, <3>4 DEF Proper
  <2>2. CASE i = m /\ Len(h.ops) = m
    <3>1. m + 1 # NoTarget /\ 1 <= m + 1 /\ m + 1 <= Len(h.ops) + 1 BY <1>1, <2>2 DEF NoTarget
    <3>2. h.ops[m].close # None => h.ops[m].op = "jump" BY <1>6, <2>2
    <3> QED BY <1>6, <2>2, <3>1, <3>2 DEF Proper
  <2> QED BY <1>3, <2>1, <2>2
<1>9. WritesApart(h.ops, M, h.scopes)
  <2> SUFFICES ASSUME NEW i \in 1..Len(h.ops)
               PROVE  /\ \A s \in h.scopes : s.from <= i /\ i < s.to => s.reg \notin h.ops[i].writes
                      /\ \A k \in 1..Len(M) : M[k].from <= i => M[k].reg \notin h.ops[i].writes
    BY DEF WritesApart
  <2>1. CASE i \in 1..n
    <3>1. h.ops[i] = g.ops[i] BY <1>3, <2>1
    <3>2. /\ \A s \in g.scopes : s.from <= i /\ i < s.to => s.reg \notin g.ops[i].writes
          /\ \A k \in 1..Len(L) : L[k].from <= i => L[k].reg \notin g.ops[i].writes
      BY <1>4, <2>1 DEF WritesApart, n
    <3>3. \A s : Gone(s) => (s.from <= i => s.reg \notin g.ops[i].writes) BY <3>2 DEF Gone
    <3> QED BY <1>2, <3>1, <3>2, <3>3
  <2>2. CASE i = m /\ Len(h.ops) = m BY <1>6, <2>2
  <2> QED BY <1>3, <2>1, <2>2
<1>10. CapturesLocals(h.ops, M, h.scopes)
  <2> SUFFICES ASSUME NEW j \in 1..Len(h.ops), h.ops[j].captures # None
               PROVE  \/ \E s \in h.scopes : s.reg = h.ops[j].captures /\ s.from <= j /\ j < s.to
                      \/ \E k \in 1..Len(M) : M[k].reg = h.ops[j].captures /\ M[k].from <= j
    BY DEF CapturesLocals
  <2>1. j \in 1..n /\ h.ops[j] = g.ops[j] BY <1>3, <1>6
  <2>2. CASE \E s \in g.scopes : s.reg = h.ops[j].captures /\ s.from <= j /\ j < s.to BY <1>2, <2>2
  <2>3. ASSUME NEW k \in 1..Len(L), L[k].reg = h.ops[j].captures, L[k].from <= j
        PROVE  \/ \E s \in h.scopes : s.reg = h.ops[j].captures /\ s.from <= j /\ j < s.to
               \/ \E l \in 1..Len(M) : M[l].reg = h.ops[j].captures /\ M[l].from <= j
    <3>1. CASE k \in 1..Len(M) BY <1>2, <2>3, <3>1
    <3>2. CASE bottom <= L[k].reg
      <4> DEFINE s == [reg |-> L[k].reg, from |-> L[k].from, to |-> m]
      <4>1. s \in h.scopes /\ s.reg = L[k].reg /\ s.from = L[k].from /\ s.to = m BY <1>2, <3>2
      <4> HIDE DEF s
      <4> QED BY <1>7, <2>1, <2>3, <4>1
    <3> QED BY <1>2, <3>1, <3>2
  <2>4. \/ \E s \in g.scopes : s.reg = h.ops[j].captures /\ s.from <= j /\ j < s.to
        \/ \E k \in 1..Len(L) : L[k].reg = h.ops[j].captures /\ L[k].from <= j
    BY <1>4, <2>1 DEF CapturesLocals, n
  <2> QED BY <2>2, <2>3, <2>4
<1>11. OwnersMarked(h.ops, M, h.blocks)
  <2> SUFFICES ASSUME NEW k \in 1..Len(M), NEW i \in 1..Len(h.blocks), Used(h.ops, M[k], Len(h.ops) + 1),
                      h.blocks[i].stack_bottom <= M[k].reg,
                      \A c \in 1..Len(h.blocks) : i < c => M[k].reg < h.blocks[c].stack_bottom
               PROVE  h.blocks[i].owns_upvalues
    BY DEF OwnersMarked
  <2>1. k \in 1..Len(L) /\ M[k] = L[k] /\ L[k].reg < bottom /\ L[k].reg \in Nat BY <1>1, <1>2
  <2>2. Used(g.ops, L[k], m) BY <1>3, <2>1
  <2>3. i \in 1..Len(g.blocks) /\ h.blocks[i] = g.blocks[i] OBVIOUS
  <2>4. \A c \in 1..Len(g.blocks) : g.blocks[c].stack_bottom \in Nat BY RegularParts
  <2>5. \A c \in 1..Len(g.blocks) : i < c => L[k].reg < g.blocks[c].stack_bottom
    <3> TAKE c \in 1..Len(g.blocks)
    <3>1. CASE c \in 1..Len(h.blocks) BY <2>1, <3>1
    <3>2. CASE bottom <= g.blocks[c].stack_bottom BY <2>1, <2>4, <3>2
    <3> QED BY <3>1, <3>2
  <2> QED BY <1>4, <2>1, <2>2, <2>3, <2>5 DEF OwnersMarked, m, n
<1>12. LeavesClosed(h.ops, h.scopes)
  <2> SUFFICES ASSUME NEW s \in h.scopes, NEW i \in 1..Len(h.ops), NEW t \in Int, s.from <= i, i < s.to,
                      Leads(h.ops[i], i, t), ~(s.from <= t /\ t < s.to), Used(h.ops, s, s.to)
               PROVE  Cuts(h.ops[i], s.reg) \/ (t = s.to /\ Shuts(h.ops, t, s.reg))
    BY DEF LeavesClosed
  <2>1. s.to \in Nat /\ s.to <= m BY <1>1, <1>2 DEF Gone
  <2>2. i \in 1..n /\ h.ops[i] = g.ops[i] BY <1>1, <1>3, <2>1
  <2>3. Used(g.ops, s, s.to) BY <1>3, <2>1
  <2>4. CASE s \in g.scopes
    <3>1. Cuts(g.ops[i], s.reg) \/ (t = s.to /\ Shuts(g.ops, t, s.reg)) BY <1>4, <2>2, <2>3, <2>4 DEF LeavesClosed, n
    <3> QED BY <1>3, <2>2, <3>1
  <2>5. ASSUME NEW k \in 1..Len(L), bottom <= L[k].reg, s = [reg |-> L[k].reg, from |-> L[k].from, to |-> m]
        PROVE  Cuts(h.ops[i], s.reg) \/ (t = s.to /\ Shuts(h.ops, t, s.reg))
    <3>1. s.reg = L[k].reg /\ s.from = L[k].from /\ s.to = m BY <2>5
    <3>2. Used(g.ops, L[k], m) BY <2>3, <3>1 DEF Used
    <3>3. CASE L[k].from <= t
      <4>1. m <= t BY <1>1, <3>1, <3>3
      <4>2. i = n => g.ops[i].op # "test" BY <2>2 DEF Settled, n
      <4>3. t <= m
        <5>1. Proper(g.ops[i], i, n) BY <1>4, <2>2 DEF ProperCode, n
        <5> QED BY <2>2, <4>2, <5>1 DEF Proper, m
      <4>4. t = m BY <1>1, <4>1, <4>3
      <4>5. Len(h.ops) = m BY <1>5, <2>5, <3>2
      <4>6. h.ops[m].op = "return" \/ Cuts(h.ops[m], L[k].reg)
        <5>1. bottom # None BY DEF None
        <5> QED BY <1>6, <2>5, <4>5, <5>1 DEF Cuts
      <4>7. m \in 1..Len(h.ops) BY <1>6, <4>5
      <4>8. Shuts(h.ops, m, L[k].reg) BY <4>6, <4>7 DEF Shuts
      <4> QED BY <3>1, <4>4, <4>8
    <3>4. CASE ~(L[k].from <= t)
      <4>1. Cuts(g.ops[i], L[k].reg) BY <1>4, <2>2, <3>1, <3>2, <3>4 DEF StaysInside, m, n
      <4> QED BY <2>2, <3>1, <4>1
    <3> QED BY <3>3, <3>4
  <2> QED BY <1>2, <2>4, <2>5 DEF Gone
<1>13. StaysInside(h.ops, M, bottom)
  <2> SUFFICES ASSUME NEW k \in 1..Len(M), NEW i \in 1..Len(h.ops), NEW t \in Int, M[k].from <= i, Leads(h.ops[i], i, t)
               PROVE  M[k].from <= t
    BY DEF StaysInside
  <2>1. k \in 1..Len(L) /\ M[k] = L[k] /\ L[k].reg < bottom /\ L[k].reg \in Nat /\ L[k].from \in Nat /\ L[k].from <= m
    BY <1>1, <1>2
  <2>2. CASE i \in 1..n
    <3>1. h.ops[i] = g.ops[i] /\ ~(b <= L[k].reg) BY <1>3, <2>1, <2>2
    <3> QED BY <1>4, <2>1, <2>2, <3>1 DEF StaysInside, n
  <2>3. CASE i = m /\ Len(h.ops) = m BY <1>1, <1>6, <2>1, <2>3
  <2> QED BY <1>3, <2>2, <2>3
<1>14. WaitersClose(h.pending_jumps, h.ops, M, h.scopes)
  <2> SUFFICES ASSUME NEW q \in h.pending_jumps
               PROVE  /\ \A s \in h.scopes : s.from <= q.instruction /\ q.instruction < s.to =>
                            q.stack_top <= s.reg /\ (Used(h.ops, s, s.to) => q.close_upvalues)
                      /\ \A k \in 1..Len(M) : M[k].from <= q.instruction => M[k].reg < q.stack_top
    BY DEF WaitersClose
  <2>1. PICK p \in g.pending_jumps : Brought(g, q, p, bottom) OBVIOUS
  <2>2. /\ q.instruction = p.instruction /\ q.stack_top \in Nat /\ p.stack_top \in Nat
        /\ q.stack_top <= p.stack_top /\ q.stack_top <= bottom
        /\ q.stack_top = p.stack_top \/ q.stack_top = bottom
        /\ p.close_upvalues => q.close_upvalues
    BY <1>1, <2>1 DEF Brought
  <2>3. ASSUME NEW s \in g.scopes, s.from <= q.instruction, q.instruction < s.to
        PROVE  q.stack_top <= s.reg /\ (Used(h.ops, s, s.to) => q.close_upvalues)
    <3>1. p.stack_top <= s.reg /\ (Used(g.ops, s, s.to) => p.close_upvalues)
      BY <1>4, <2>2, <2>3 DEF WaitersClose
    <3>2. s.reg \in Nat /\ s.to \in Nat /\ s.to <= m BY <1>1
    <3> QED BY <1>3, <2>2, <3>1, <3>2
  <2>4. \A k \in 1..Len(L) : L[k].from <= q.instruction => L[k].reg < p.stack_top
    BY <1>4, <2>2 DEF WaitersClose
  <2>5. ASSUME NEW s, NEW k \in 1..Len(L), bottom <= L[k].reg, s = [reg |-> L[k].reg, from |-> L[k].from, to |-> m],
               s.from <= q.instruction
        PROVE  q.stack_top <= s.reg /\ (Used(h.ops, s, s.to) => q.close_upvalues)
    <3>1. s.reg = L[k].reg /\ s.from = L[k].from /\ s.to = m BY <2>5
    <3>2. L[k].reg < p.stack_top /\ L[k].reg \in Nat BY <1>1, <2>4, <2>5, <3>1
    <3>3. ~(p.stack_top <= bottom) BY <2>2, <2>5, <3>2
    <3>4. q.stack_top <= s.reg BY <1>1, <2>2, <2>5, <3>1
    <3>5. Used(h.ops, s, s.to) => Used(g.ops, L[k], m)
      <4>1. Used(h.ops, s, s.to) => Used(g.ops, s, s.to) BY <1>1, <1>3, <3>1
      <4> QED BY <3>1, <4>1 DEF Used
    <3> QED BY <2>1, <2>5, <3>3, <3>4, <3>5 DEF Brought, m, n, L
  <2>6. \A k \in 1..Len(M) : M[k].from <= q.instruction => M[k].reg < q.stack_top
    BY <1>1, <1>2, <2>2, <2>4
  <2> QED BY <1>2, <2>3, <2>5, <2>6 DEF Gone
<1>15. TargetsBehind(h.jump_targets, M)
  <2> SUFFICES ASSUME NEW j \in 1..Len(h.jump_targets)
               PROVE  /\ 1 <= h.jump_targets[j].instruction
                      /\ \A k \in 1..Len(M) : h.jump_targets[j].instruction < M[k].from =>
                            h.jump_targets[j].stack_top <= M[k].reg
    BY DEF TargetsBehind
  <2>1. PICK c \in 1..Len(g.jump_targets) : h.jump_targets[j] = g.jump_targets[c] OBVIOUS
  <2> QED BY <1>2, <1>4, <2>1 DEF TargetsBehind
<1>16. OpenJumpsWait(h.pending_jumps, h.ops)
  <2> SUFFICES ASSUME NEW i \in 1..Len(h.ops), h.ops[i].op = "jump", h.ops[i].target = NoTarget
               PROVE  \E p \in h.pending_jumps : p.instruction = i
    BY DEF OpenJumpsWait
  <2>1. i # m \/ Len(h.ops) # m BY <1>1, <1>6 DEF NoTarget
  <2>2. i \in 1..n /\ h.ops[i] = g.ops[i] BY <1>3, <2>1
  <2>3. \E p \in g.pending_jumps : p.instruction = i BY <1>4, <2>2 DEF OpenJumpsWait, n
  <2> QED BY <2>3
<1>17. Settled(h)
  <2> SUFFICES ASSUME NEW i \in 1..Len(h.ops), i = Len(h.ops) PROVE h.ops[i].op # "test" BY DEF Settled
  <2>1. CASE i = m /\ Len(h.ops) = m BY <1>6, <2>1
  <2>2. CASE i \in 1..n
    <3>1. Len(h.ops) = n BY <1>1, <1>3, <1>7, <2>2
    <3> QED BY <1>3, <2>2, <3>1 DEF Settled, n
  <2> QED BY <1>3, <2>1, <2>2
<1> QED
  BY <1>8, <1>9, <1>10, <1>11, <1>12, <1>13, <1>14, <1>15, <1>16, <1>17 DEF Guarded, M

(* A jump that leaves a block has its top lowered, and closes when the block owned an upvalue. *)
LEMMA LiftedCloses ==
    ASSUME NEW p \in PendingJumps, NEW n \in Nat, NEW top \in Nat, NEW owns \in BOOLEAN
    PROVE  LET q == Lifted(p, n, top, owns)
           IN  /\ q.instruction = p.instruction /\ q.stack_top = top
               /\ q.close_upvalues = (p.close_upvalues \/ owns)
<1> DEFINE c == p.close_upvalues \/ owns
           p1 == [p EXCEPT !.block_index = n]
           p2 == [p1 EXCEPT !.stack_top = top]
           p3 == [p2 EXCEPT !.close_upvalues = c]
<1>1. Lifted(p, n, top, owns) = p3 BY Zenon DEF Lifted
<1>2. c \in BOOLEAN OBVIOUS
<1> HIDE DEF c
<1>3. p1 \in PendingJumps /\ p1.instruction = p.instruction BY DEF PendingJumps
<1> HIDE DEF p1
<1>4. p2 \in PendingJumps /\ p2.instruction = p1.instruction /\ p2.stack_top = top BY <1>3 DEF PendingJumps
<1> HIDE DEF p2
<1>5. p3.instruction = p2.instruction /\ p3.stack_top = p2.stack_top /\ p3.close_upvalues = c
  BY <1>2, <1>4 DEF PendingJumps
<1> HIDE DEF p3
<1>6. Lifted(p, n, top, owns).close_upvalues = c BY <1>1, <1>5
<1>7. Lifted(p, n, top, owns).instruction = p.instruction /\ Lifted(p, n, top, owns).stack_top = top
  BY <1>1, <1>3, <1>4, <1>5
<1> QED BY <1>6, <1>7 DEF c

(* What exit_block leaves. *)
ExitLeft(g, h, bottom) ==
    /\ Guarded(h, bottom) /\ Settled(h) /\ StackTop(h) = bottom
    /\ Dropped(g, h, bottom, Len(g.ops) + 1) /\ EndedFacts(g, h, bottom)

(* exit_block keeps it. *)
LEMMA ExitGuarded ==
    ASSUME NEW g, Regular(g), NEW n \in Nat \ {0}, Len(g.blocks) = n + 1, NEW b \in Int,
           Bottom(g, n + 1) <= b, Guarded(g, b), Settled(g),
           OnlyLocals(g.locals, g.blocks[n + 1].stack_bottom, StackTop(g))
    PROVE  ExitLeft(g, ExitBlock(g), Bottom(g, n + 1))
<1> DEFINE h == ExitBlock(g)
           block == g.blocks[n + 1]
           bottom == block.stack_bottom
           owns == block.owns_upvalues
           m == Len(g.ops) + 1
<1>0. n \in Nat /\ n # 0 /\ n > 0 OBVIOUS
<1>1. /\ Dropped(g, h, bottom, m)
      /\ Stacked(h.alloc, bottom) /\ bottom \in Nat
      /\ h.blocks = Front(g.blocks)
      /\ h.jump_targets = SubSeq(g.jump_targets, 1, block.bottom_jump_target)
      /\ h.pending_jumps = Outward(g.pending_jumps, n, bottom, owns)
      /\ \/ h.ops = g.ops /\ ~(owns /\ n > 0)
         \/ \E x \in Instrs : h.ops = Append(g.ops, x) /\ Closes(x, m, bottom)
  BY <1>0, ExitFields
<1>2. StackTop(h) = bottom BY <1>1 DEF Stacked, StackTop
<1>3. /\ n + 1 \in 1..Len(g.blocks) /\ owns \in BOOLEAN /\ m \in Nat
      /\ \A k \in 1..Len(g.locals) : g.locals[k].reg \in Nat
      /\ \A i \in 1..Len(g.blocks) : g.blocks[i].stack_bottom \in Nat
      /\ \A p \in g.pending_jumps : p \in PendingJumps /\ p.stack_top \in Nat /\ p.block_index \in Nat
  <2>1. n + 1 \in 1..Len(g.blocks) BY <1>0
  <2>2. /\ Len(g.ops) \in Nat
        /\ \A k \in 1..Len(g.locals) : g.locals[k].reg \in Nat
        /\ \A i \in 1..Len(g.blocks) : g.blocks[i] \in BlockDescriptors /\ g.blocks[i].stack_bottom \in Nat
        /\ \A p \in g.pending_jumps : p \in PendingJumps /\ p.stack_top \in Nat /\ p.block_index \in Nat
    BY RegularParts
  <2>3. owns \in BOOLEAN BY <2>1, <2>2 DEF BlockDescriptors
  <2> QED BY <2>1, <2>2, <2>3
<1>4. /\ Len(h.blocks) = n /\ \A i \in 1..n : h.blocks[i] = g.blocks[i] /\ i \in 1..Len(g.blocks)
  <2>1. g.blocks \in Seq(BlockDescriptors) BY DEF Regular, BlocksRise
  <2>2. /\ Len(Front(g.blocks)) = n /\ \A i \in 1..n : Front(g.blocks)[i] = g.blocks[i]
    BY <1>0, <2>1, FrontIs
  <2> QED BY <1>0, <1>1, <2>2
<1> HIDE DEF h, owns, bottom, m
<1>5. \A k \in 1..Len(g.locals) : bottom <= g.locals[k].reg /\ Used(g.ops, g.locals[k], m) => owns
  <2> SUFFICES ASSUME NEW k \in 1..Len(g.locals), bottom <= g.locals[k].reg, Used(g.ops, g.locals[k], m)
               PROVE  owns
    OBVIOUS
  <2>1. \A c \in 1..Len(g.blocks) : n + 1 < c => g.locals[k].reg < g.blocks[c].stack_bottom BY <1>0
  <2>2. OwnersMarked(g.ops, g.locals, g.blocks) BY DEF Guarded
  <2> QED BY <1>3, <2>1, <2>2 DEF OwnersMarked, owns, bottom, m
<1>6. EndedBy(g, h, bottom)
  <2>1. CASE h.ops = g.ops /\ ~(owns /\ n > 0) BY <1>0, <1>5, <2>1 DEF EndedBy, m
  <2>2. CASE \E x \in Instrs : h.ops = Append(g.ops, x) /\ Closes(x, m, bottom)
    BY <2>2 DEF EndedBy, Ends, m
  <2> QED BY <1>1, <2>1, <2>2
<1>7. h.pending_jumps = {p \in g.pending_jumps : p.block_index <= n}
                        \union {Lifted(p, n, bottom, owns) : p \in {q \in g.pending_jumps : q.block_index > n}}
  BY <1>0, <1>1 DEF Outward
<1>8. \A p \in g.pending_jumps :
         /\ p.block_index <= n => p.stack_top <= bottom
         /\ p.block_index > n => bottom <= p.stack_top
  <2> TAKE p \in g.pending_jumps
  <2>1. Placed(p, g.blocks, StackTop(g)) /\ p.block_index \in Nat BY <1>3 DEF Regular, JumpsWait
  <2>2. p.block_index <= n => p.block_index < n + 1 BY <1>0, <2>1
  <2>3. p.block_index > n => p.block_index = n + 1 BY <1>0, <2>1 DEF Placed
  <2> QED BY <1>3, <2>1, <2>2, <2>3 DEF Placed, bottom
<1>9. \A p \in g.pending_jumps : LET q == Lifted(p, n, bottom, owns)
         IN  /\ q.instruction = p.instruction /\ q.stack_top = bottom
             /\ q.close_upvalues = (p.close_upvalues \/ owns)
  BY <1>0, <1>1, <1>3, LiftedCloses
<1>10. \A q \in h.pending_jumps : \E p \in g.pending_jumps : Brought(g, q, p, bottom)
  <2> TAKE q \in h.pending_jumps
  <2>1. CASE q \in g.pending_jumps /\ q.block_index <= n BY <1>8, <2>1 DEF Brought
  <2>2. ASSUME NEW p \in g.pending_jumps, p.block_index > n, q = Lifted(p, n, bottom, owns)
        PROVE  Brought(g, q, p, bottom)
    <3>1. q.instruction = p.instruction /\ q.stack_top = bottom /\ q.close_upvalues = (p.close_upvalues \/ owns)
      BY <1>9, <2>2
    <3> QED BY <1>5, <1>8, <2>2, <3>1 DEF Brought, m
  <2> QED BY <1>7, <2>1, <2>2
<1>11. \A p \in g.pending_jumps : \E q \in h.pending_jumps : q.instruction = p.instruction
  <2> TAKE p \in g.pending_jumps
  <2>1. CASE p.block_index <= n BY <1>7, <2>1
  <2>2. CASE p.block_index > n
    <3>1. Lifted(p, n, bottom, owns) \in h.pending_jumps BY <1>7, <2>2
    <3> QED BY <1>9, <3>1
  <2> QED BY <1>0, <1>3, <2>1, <2>2
<1>12. \A j \in 1..Len(h.jump_targets) : \E k \in 1..Len(g.jump_targets) : h.jump_targets[j] = g.jump_targets[k]
  <2>1. block.bottom_jump_target \in 0..Len(g.jump_targets) /\ g.jump_targets \in Seq(JumpTargets)
    BY <1>3 DEF Regular, TargetsPlaced
  <2>2. Len(g.jump_targets) \in Nat BY RegularParts
  <2>3. /\ Len(h.jump_targets) = block.bottom_jump_target
        /\ \A i \in 1..block.bottom_jump_target : h.jump_targets[i] = g.jump_targets[i]
    BY <1>1, <2>1, FirstOfSeq
  <2> HIDE DEF block
  <2> QED BY <2>1, <2>2, <2>3
<1>13. \A i \in 1..Len(g.blocks) : i \in 1..Len(h.blocks) \/ bottom <= g.blocks[i].stack_bottom
  <2> TAKE i \in 1..Len(g.blocks)
  <2>1. i \in 1..n \/ i = n + 1 BY <1>0
  <2> QED BY <1>1, <1>3, <1>4, <2>1 DEF bottom
<1>14. bottom <= b BY DEF bottom, Bottom
<1>15. Guarded(h, bottom) /\ Settled(h)
  <2>1. Dropped(g, h, bottom, Len(g.ops) + 1) BY <1>1 DEF m
  <2>2. \A i \in 1..Len(h.blocks) : i \in 1..Len(g.blocks) /\ h.blocks[i] = g.blocks[i] BY <1>4
  <2> QED BY <1>1, <1>6, <1>10, <1>11, <1>12, <1>13, <1>14, <2>1, <2>2, DroppedGuarded
<1>16. EndedFacts(g, h, bottom) BY <1>1, <1>6, EndedFactsHold
<1> QED BY <1>1, <1>2, <1>15, <1>16 DEF ExitLeft, h, bottom, Bottom, m

(* The jump of a for to its test is completed: it leaves no scope. *)
LEMMA RetargetGuarded ==
    ASSUME NEW g, Regular(g), NEW b \in Int, Guarded(g, b), NEW i \in 1..Len(g.ops),
           g.ops[i].op = "forprep", NEW t \in Nat, i <= t, t <= Len(g.ops),
           \A s \in g.scopes : ~(s.from <= i /\ i < s.to)
    PROVE  LET h == Retargeted(g, i, t)
           IN  /\ Guarded(h, b) /\ (Settled(g) => Settled(h))
               /\ h.ops[i].target = t /\ h.locals = g.locals /\ h.scopes = g.scopes
               /\ h.jump_targets = g.jump_targets /\ Len(h.ops) = Len(g.ops)
               /\ \A j \in 1..Len(g.ops) : j # i => h.ops[j] = g.ops[j]
<1> DEFINE h == Retargeted(g, i, t)
           n == Len(g.ops)
           L == g.locals
           x == [g.ops[i] EXCEPT !.target = t]
<1>1. /\ n \in Nat /\ i \in Nat /\ t \in Int /\ g.ops[i] \in Instrs
      /\ \A k \in 1..Len(L) : L[k].reg \in Nat /\ L[k].from \in Nat
  <2>1. n \in Nat BY GuardTypes
  <2> QED BY <2>1, GuardTypes
<1>2. Keeps(g, h, {"ops"}) /\ Len(h.ops) = n /\ \A j \in 1..n : j # i => h.ops[j] = g.ops[j]
  BY <1>1, RetargetedFields
<1>3. /\ h.locals = L /\ h.scopes = g.scopes /\ h.blocks = g.blocks
      /\ h.jump_targets = g.jump_targets /\ h.pending_jumps = g.pending_jumps
  BY <1>2 DEF Keeps
<1>4. h.ops = [g.ops EXCEPT ![i] = x]
  <2>1. g.ops \in Seq(Instrs) BY DEF Regular
  <2> QED BY <2>1 DEF Retargeted, Regular, IsFunctionRecord
<1>5. /\ x.op = "forprep" /\ x.target = t /\ x.writes = g.ops[i].writes /\ x.captures = g.ops[i].captures
      /\ x.close = g.ops[i].close
  BY <1>1 DEF Instrs
<1>6. h.ops[i] = x BY <1>1, <1>4, GuardTypes
<1> HIDE DEF h, n, L, x
<1>7. \A j \in 1..n : /\ h.ops[j].op = g.ops[j].op /\ h.ops[j].writes = g.ops[j].writes
                      /\ h.ops[j].captures = g.ops[j].captures /\ h.ops[j].close = g.ops[j].close
                      /\ h.ops[j] = g.ops[j] \/ j = i
  BY <1>2, <1>5, <1>6
<1>8. \A v, to : Used(h.ops, v, to) <=> Used(g.ops, v, to) BY <1>2, <1>7 DEF Used, n
<1>9. \A u, r : Shuts(g.ops, u, r) <=> Shuts(h.ops, u, r) BY <1>2, <1>7 DEF Shuts, Cuts, n
<1>10. /\ ProperCode(g.ops) /\ WritesApart(g.ops, L, g.scopes) /\ CapturesLocals(g.ops, L, g.scopes)
       /\ OwnersMarked(g.ops, L, g.blocks) /\ LeavesClosed(g.ops, g.scopes) /\ StaysInside(g.ops, L, b)
       /\ WaitersClose(g.pending_jumps, g.ops, L, g.scopes) /\ TargetsBehind(g.jump_targets, L)
       /\ OpenJumpsWait(g.pending_jumps, g.ops)
  BY DEF Guarded, L
<1>11. \A u \in Int : Leads(x, i, u) => u = t BY <1>5 DEF Leads
<1>12. ProperCode(h.ops)
  <2> SUFFICES ASSUME NEW j \in 1..n PROVE Proper(h.ops[j], j, n) BY <1>2 DEF ProperCode
  <2>1. Proper(g.ops[j], j, n) BY <1>10 DEF ProperCode, n
  <2>2. CASE j = i
    <3>1. 1 <= t /\ t <= n + 1 BY <1>1 DEF n
    <3>2. \A u \in Int : Leads(h.ops[j], j, u) => 1 <= u /\ u <= n + 1 BY <1>6, <1>11, <2>2, <3>1
    <3>3. h.ops[j].op = "forprep" /\ g.ops[j].op = "forprep" BY <1>5, <1>6, <2>2
    <3>4. h.ops[j].close = g.ops[j].close /\ h.ops[j].captures = g.ops[j].captures BY <1>7
    <3> QED BY <2>1, <3>2, <3>3, <3>4 DEF Proper
  <2> QED BY <1>7, <2>1, <2>2
<1>13. WritesApart(h.ops, L, g.scopes) BY <1>2, <1>7, <1>10 DEF WritesApart, n
<1>14. CapturesLocals(h.ops, L, g.scopes) BY <1>2, <1>7, <1>10 DEF CapturesLocals, n
<1>15. OwnersMarked(h.ops, L, g.blocks) BY <1>2, <1>8, <1>10 DEF OwnersMarked, n
<1>16. LeavesClosed(h.ops, g.scopes)
  <2> SUFFICES ASSUME NEW s \in g.scopes, NEW j \in 1..n, NEW u \in Int, s.from <= j, j < s.to,
                      Leads(h.ops[j], j, u), ~(s.from <= u /\ u < s.to), Used(g.ops, s, s.to)
               PROVE  Cuts(h.ops[j], s.reg) \/ (u = s.to /\ Shuts(h.ops, u, s.reg))
    BY <1>2, <1>8 DEF LeavesClosed
  <2>1. j # i OBVIOUS
  <2>2. h.ops[j] = g.ops[j] BY <1>7, <2>1
  <2> QED BY <1>9, <1>10, <2>2 DEF LeavesClosed, n
<1>17. StaysInside(h.ops, L, b)
  <2> SUFFICES ASSUME NEW k \in 1..Len(L), NEW j \in 1..n, NEW u \in Int, L[k].from <= j, Leads(h.ops[j], j, u)
               PROVE  \/ L[k].from <= u
                      \/ b <= L[k].reg /\ (Cuts(h.ops[j], L[k].reg) \/ ~Used(g.ops, L[k], n + 1))
    BY <1>2, <1>8 DEF StaysInside
  <2>1. CASE j = i BY <1>1, <1>6, <1>11, <2>1
  <2>2. CASE j # i
    <3>1. h.ops[j] = g.ops[j] BY <1>7, <2>2
    <3> QED BY <1>10, <3>1 DEF StaysInside, n
  <2> QED BY <2>1, <2>2
<1>18. WaitersClose(g.pending_jumps, h.ops, L, g.scopes) BY <1>8, <1>10 DEF WaitersClose
<1>19. OpenJumpsWait(g.pending_jumps, h.ops)
  <2> SUFFICES ASSUME NEW j \in 1..n, h.ops[j].op = "jump", h.ops[j].target = NoTarget
               PROVE  \E p \in g.pending_jumps : p.instruction = j
    BY <1>2 DEF OpenJumpsWait
  <2>1. h.ops[j] = g.ops[j] BY <1>5, <1>6, <1>7
  <2> QED BY <1>10, <2>1 DEF OpenJumpsWait, n
<1>20. Settled(g) => Settled(h) BY <1>2, <1>7 DEF Settled, n
<1>21. Guarded(h, b)
  BY <1>3, <1>10, <1>12, <1>13, <1>14, <1>15, <1>16, <1>17, <1>18, <1>19 DEF Guarded
<1> QED BY <1>2, <1>3, <1>5, <1>6, <1>20, <1>21 DEF h, n, L

(* The loops under way: the jump to the test of a for waits to be completed, in the scope
   of every local below its state and of no other. *)
LoopsWait(g, o, n) ==
    /\ \A i \in 1..Len(g.ops) : g.ops[i].op = "forprep" /\ g.ops[i].target = NoTarget =>
          \E c \in 1..n : o[c].kind = "for" /\ o[c].labels[2] = i
    /\ \A c \in 1..n : HasState(o[c]) =>
          /\ 1 <= o[c].labels[2] /\ o[c].labels[2] <= Len(g.ops) + 1
          /\ \A k \in 1..Len(g.locals) : g.locals[k].reg < o[c].labels[1] + 3 => g.locals[k].from <= o[c].labels[2]
    /\ \A c \in 1..n : o[c].kind = "for" =>
          /\ \A k \in 1..Len(g.locals) : g.locals[k].from <= o[c].labels[2] => g.locals[k].reg < o[c].labels[1]
          /\ \A s \in g.scopes : s.from <= o[c].labels[2] /\ o[c].labels[2] < s.to => FALSE

(* A label is placed once: a break meets no label, nor does a jump to a label that a
   construct awaits. *)
Labelled(g, o, n) ==
    /\ \A t \in Targets(g) : /\ t.label # Break
                             /\ t.label.kind = "unique" => t.label.id < g.unique
    /\ \A c \in 1..n : \A t \in Targets(g) : ~Awaits(o[c], t.label)
    /\ \A c \in 1..n :
          /\ o[c].kind = "if" => o[c].labels[1] # o[c].labels[2]
          /\ o[c].kind \in {"while", "repeat"} =>
                /\ \A t, u \in Targets(g) : t.label = o[c].labels[1] /\ u.label = o[c].labels[1] => t = u
                /\ \A t \in Targets(g) : t.label = o[c].labels[1] /\ o[c].kind = "while" =>
                      Bottom(g, t.block_index + 1) <= t.stack_top

(* All that the walk keeps of upvalues, inside of the constructs o. *)
Fenced(g, o, n) ==
    /\ Guarded(g, StackTop(g)) /\ Settled(g)
    /\ LoopsWait(g, o, n)
    /\ Labelled(g, o, n)

(* The first jump of a for loop, before the test it leads to is there. *)
Unprepared(x) == x.op = "forprep" /\ x.target = NoTarget

(* No loop loses the test its first jump leads to. *)
Prepares(g, h) ==
    /\ Len(g.ops) <= Len(h.ops)
    /\ \A i \in 1..Len(h.ops) : Unprepared(h.ops[i]) => i \in 1..Len(g.ops) /\ Unprepared(g.ops[i])

(* The labels that construct n places when it ends. *)
Places(o, at, n, label, index) == Awaits(o[n], label) \/ (label = Break /\ index = at[n] + 1)

(* While a construct ends: locals go, with the scopes they had, and only its labels are
   placed. *)
Track(f0, g, o, at, n) ==
    /\ \A k \in 1..Len(g.locals) : k \in 1..Len(f0.locals) /\ g.locals[k] = f0.locals[k]
    /\ \A s \in g.scopes :
          s \in f0.scopes
          \/ \E k \in 1..Len(f0.locals) : Bottom(f0, at[n] + 1) <= f0.locals[k].reg /\ s.from = f0.locals[k].from
    /\ Len(f0.ops) <= Len(g.ops)
    /\ \A i \in 1..Len(g.ops) : Unprepared(g.ops[i]) => i \in 1..Len(f0.ops) /\ Unprepared(f0.ops[i])
    /\ \A t \in Targets(g) : t \in Targets(f0) \/ Places(o, at, n, t.label, t.block_index)

(* At the start nothing has gone. *)
LEMMA TrackSelf ==
    ASSUME NEW g, Regular(g), NEW o, NEW at, NEW n
    PROVE  Track(g, g, o, at, n)
<1>1. Len(g.ops) \in Nat BY RegularParts
<1> QED BY <1>1 DEF Track

(* A step that drops no local keeps the track. *)
LEMMA TrackStep ==
    ASSUME NEW f0, Regular(f0), NEW g, Regular(g), NEW o, NEW at, NEW n, Track(f0, g, o, at, n),
           NEW h, Regular(h), h.locals = g.locals, h.scopes = g.scopes, Len(g.ops) <= Len(h.ops),
           \A i \in 1..Len(h.ops) : Unprepared(h.ops[i]) => i \in 1..Len(g.ops) /\ Unprepared(g.ops[i]),
           \A t \in Targets(h) : t \in Targets(g) \/ Places(o, at, n, t.label, t.block_index)
    PROVE  Track(f0, h, o, at, n)
<1>1. Len(f0.ops) \in Nat /\ Len(g.ops) \in Nat /\ Len(h.ops) \in Nat BY RegularParts
<1>2. Len(f0.ops) <= Len(h.ops) BY <1>1 DEF Track
<1> QED BY <1>2 DEF Track

(* While construct n ends: where the walk is, what keeps upvalues apart, and what has gone. *)
Safe(f0, g, o, at, n, X, b) ==
    /\ Mid(f0, g, o, at, n, X) /\ Ok(g)
    /\ Guarded(g, b) /\ Settled(g) /\ Track(f0, g, o, at, n)

(* What every step of the end of construct n starts from. *)
Context(f0, o, at, n) ==
    Regular(f0) /\ Ranged(o, at, n) /\ Held(f0, o, at, n, Len(f0.blocks))

(* A label of the construct is placed. *)
LEMMA SafeTarget ==
    ASSUME NEW f0, NEW o, NEW at, NEW n, Context(f0, o, at, n), NEW X, NEW g,
           Safe(f0, g, o, at, n, X, StackTop(g)), NEW label \in JumpLabels,
           Places(o, at, n, label, Len(g.blocks)), Ok(JumpTarget(g, label))
    PROVE  LET h == JumpTarget(g, label)
           IN  Safe(f0, h, o, at, n, X, StackTop(h)) /\ h.blocks = g.blocks /\ StackTop(h) = StackTop(g)
               /\ Prepares(g, h)
<1> DEFINE h == JumpTarget(g, label)
<1>1. Regular(f0) /\ Ranged(o, at, n) /\ Mid(f0, g, o, at, n, X) BY DEF Context, Safe
<1>2. Regular(g) /\ Len(g.blocks) > 0 BY <1>1, MidRegular
<1>3. /\ Ok(g) /\ PatchedCode(g, h, label)
      /\ \A p \in Here(g, label) : p.stack_top = StackTop(g)
      /\ h.locals = g.locals /\ h.scopes = g.scopes /\ h.blocks = g.blocks
  BY <1>2, PatchedCodeIs
<1>4. Patchable(g, label) BY <1>3 DEF Patchable
<1>5. /\ Mid(f0, h, o, at, n, X) /\ h.blocks = g.blocks /\ StackTop(h) = StackTop(g)
      /\ Targets(h) = Targets(g) \union {TargetAt(g, label)}
  BY <1>1, <1>4, MidTarget
<1>6. Regular(h) BY <1>1, <1>5, MidRegular
<1>7. Guarded(h, StackTop(g)) /\ Settled(h) BY <1>2, TargetGuarded DEF Safe
<1>8. TargetAt(g, label).label = label /\ TargetAt(g, label).block_index = Len(g.blocks) BY DEF TargetAt
<1> HIDE DEF h
<1>9. /\ Len(h.ops) = Len(g.ops) /\ Len(g.ops) \in Nat
      /\ \A i \in 1..Len(h.ops) : Unprepared(h.ops[i]) => i \in 1..Len(g.ops) /\ Unprepared(g.ops[i])
  <2>1. Placeholder.op = "jump" BY PlaceholderTyped
  <2> QED BY <1>2, <1>3, <2>1, RegularParts DEF PatchedCode, Unprepared
<1>10. Track(f0, h, o, at, n) BY <1>1, <1>2, <1>3, <1>5, <1>6, <1>8, <1>9, TrackStep DEF Safe
<1>11. Prepares(g, h) BY <1>9 DEF Prepares
<1> QED BY <1>5, <1>7, <1>10, <1>11 DEF Safe, h

(* A block of the construct ends. *)
LEMMA SafeExit ==
    ASSUME NEW f0, NEW o, NEW at, NEW n, Context(f0, o, at, n), NEW X, NEW g, NEW b \in Int,
           Safe(f0, g, o, at, n, X, b),
           NEW k \in Nat, k # 0, Len(g.blocks) = k + 1, at[n] <= k, Bottom(g, k + 1) <= b
    PROVE  LET h == ExitBlock(g)
           IN  /\ Safe(f0, h, o, at, n, X, StackTop(h)) /\ Len(h.blocks) = k /\ StackTop(h) = Bottom(f0, k + 1)
               /\ Targets(h) \subseteq Targets(g) /\ Prepares(g, h)
<1> DEFINE h == ExitBlock(g)
<1>1. /\ Regular(f0) /\ Ranged(o, at, n) /\ Mid(f0, g, o, at, n, X) /\ Held(f0, o, at, n, Len(f0.blocks)) /\ k \in Nat
      /\ Ok(g) /\ Guarded(g, b) /\ Settled(g) /\ Track(f0, g, o, at, n)
  BY DEF Context, Safe
<1>2. Regular(g) /\ Len(g.blocks) > 0 /\ at[n] \in Nat /\ StackTop(g) \in Nat BY <1>1, MidRegular
<1>3. /\ Mid(f0, h, o, at, n, X) /\ LeftTo(g, h, k) /\ h.error = g.error
      /\ Len(h.blocks) = k /\ StackTop(h) = Bottom(f0, k + 1)
  BY <1>1, MidExit
<1>4. OnlyLocals(g.locals, Bottom(g, k + 1), StackTop(g))
  <2>1. Registered(g, o, n) /\ Len(f0.blocks) \in Nat /\ k + 1 \in at[n] + 1..Len(f0.blocks)
    BY <1>1, <1>2, RegularParts DEF Mid
  <2>2. Below(o, n, Bottom(f0, k + 1)) /\ Bottom(f0, k + 1) \in Nat BY <1>1, <2>1, HeldBelow
  <2>3. Bottom(g, k + 1) = Bottom(f0, k + 1)
    <3>1. k + 1 \in 1..Len(g.blocks) BY <1>1
    <3> QED BY <1>1, <3>1 DEF Mid
  <2> QED BY <1>2, <2>1, <2>2, <2>3, OnlyLocalsAbove
<1>5. ExitLeft(g, h, Bottom(g, k + 1)) BY <1>1, <1>2, <1>4, ExitGuarded DEF Bottom
<1>6. Regular(h) BY <1>1, <1>3, MidRegular
<1> HIDE DEF h
<1>7. Targets(h) \subseteq Targets(g) BY <1>3 DEF LeftTo
<1>8. /\ \A i \in 1..Len(h.locals) : i \in 1..Len(g.locals) /\ h.locals[i] = g.locals[i]
      /\ \A s \in h.scopes :
            \/ s \in g.scopes
            \/ \E c \in 1..Len(g.locals) : Bottom(g, k + 1) <= g.locals[c].reg /\ s.from = g.locals[c].from
  <2>1. Len(g.locals) \in Nat BY <1>2, RegularParts
  <2>2. Dropped(g, h, Bottom(g, k + 1), Len(g.ops) + 1) BY <1>5 DEF ExitLeft
  <2> HIDE DEF Bottom
  <2> QED BY <2>1, <2>2 DEF Dropped
<1>9. /\ Len(g.ops) <= Len(h.ops)
      /\ \A i \in 1..Len(h.ops) : Unprepared(h.ops[i]) => i \in 1..Len(g.ops) /\ Unprepared(g.ops[i])
  <2>1. EndedFacts(g, h, Bottom(g, k + 1)) BY <1>5 DEF ExitLeft
  <2>2. Len(g.ops) \in Nat BY <1>2, RegularParts
  <2>3. \A x, m, d : Ends(x, m, d) => ~Unprepared(x) BY DEF Ends, Closes, Unprepared
  <2> QED BY <2>1, <2>2, <2>3 DEF EndedFacts
<1>10. Bottom(f0, at[n] + 1) <= Bottom(g, k + 1)
  <2>1. Bottom(g, k + 1) = Bottom(f0, k + 1)
    <3>1. k + 1 \in 1..Len(g.blocks) BY <1>1
    <3> QED BY <1>1, <3>1 DEF Mid
  <2>2. at[n] + 1 \in 1..Len(f0.blocks) /\ k + 1 \in 1..Len(f0.blocks) /\ at[n] + 1 <= k + 1
    <3>1. k + 1 <= Len(f0.blocks) /\ Len(f0.blocks) \in Nat BY <1>1, RegularParts DEF Mid
    <3>2. at[n] \in Nat BY <1>2
    <3> QED BY <3>1, <3>2
  <2> QED BY <1>1, <2>1, <2>2, BottomsRise
<1>11. Bottom(f0, at[n] + 1) \in Int /\ Bottom(g, k + 1) \in Int /\ \A c \in 1..Len(f0.locals) : f0.locals[c].reg \in Nat
  <2>1. k + 1 \in 1..Len(g.blocks) /\ at[n] + 1 \in 1..Len(f0.blocks)
    <3>1. k + 1 <= Len(f0.blocks) /\ Len(f0.blocks) \in Nat BY <1>1, RegularParts DEF Mid
    <3>2. at[n] \in Nat BY <1>2
    <3> QED BY <3>1, <3>2
  <2>2. \A i \in 1..Len(g.blocks) : g.blocks[i].stack_bottom \in Nat BY <1>2, RegularParts
  <2>3. /\ \A i \in 1..Len(f0.blocks) : f0.blocks[i].stack_bottom \in Nat
        /\ \A c \in 1..Len(f0.locals) : f0.locals[c].reg \in Nat
    BY <1>1, RegularParts
  <2>4. Bottom(g, k + 1) \in Int BY <2>1, <2>2 DEF Bottom
  <2>5. Bottom(f0, at[n] + 1) \in Int BY <2>1, <2>3 DEF Bottom
  <2> QED BY <2>3, <2>4, <2>5
<1>12. Track(f0, h, o, at, n)
  <2>1. \A i \in 1..Len(h.locals) : i \in 1..Len(f0.locals) /\ h.locals[i] = f0.locals[i] BY <1>1, <1>8 DEF Track
  <2>2. \A s \in h.scopes :
          s \in f0.scopes
          \/ \E c \in 1..Len(f0.locals) : Bottom(f0, at[n] + 1) <= f0.locals[c].reg /\ s.from = f0.locals[c].from
    <3> TAKE s \in h.scopes
    <3>1. CASE s \in g.scopes BY <1>1, <3>1 DEF Track
    <3>2. ASSUME NEW c \in 1..Len(g.locals), Bottom(g, k + 1) <= g.locals[c].reg, s.from = g.locals[c].from
          PROVE  \E d \in 1..Len(f0.locals) : Bottom(f0, at[n] + 1) <= f0.locals[d].reg /\ s.from = f0.locals[d].from
      <4>1. c \in 1..Len(f0.locals) /\ g.locals[c] = f0.locals[c] BY <1>1 DEF Track
      <4>2. Bottom(f0, at[n] + 1) <= f0.locals[c].reg BY <1>10, <1>11, <3>2, <4>1
      <4> QED BY <3>2, <4>1, <4>2
    <3> QED BY <1>8, <3>1, <3>2
  <2>3. Len(f0.ops) <= Len(h.ops)
    <3>1. Len(f0.ops) \in Nat /\ Len(g.ops) \in Nat /\ Len(h.ops) \in Nat BY <1>1, <1>2, <1>6, RegularParts
    <3> QED BY <1>1, <1>9, <3>1 DEF Track
  <2> QED BY <1>1, <1>7, <1>9, <2>1, <2>2, <2>3 DEF Track
<1>13. Guarded(h, StackTop(h)) /\ Settled(h) BY <1>5 DEF ExitLeft
<1>14. Ok(h) BY <1>1, <1>3 DEF Ok
<1>15. Prepares(g, h) BY <1>9 DEF Prepares
<1> QED BY <1>3, <1>7, <1>12, <1>13, <1>14, <1>15 DEF Safe, h

(* An instruction more keeps the track. *)
LEMMA LongerTrack ==
    ASSUME NEW f0, Regular(f0), NEW g, Regular(g), NEW o, NEW at, NEW n, Track(f0, g, o, at, n),
           NEW h, Regular(h), NEW op, op # "forprep", LongerBy(g, h, op)
    PROVE  Track(f0, h, o, at, n)
<1>1. PICK x \in Instrs : x.op = op /\ h.ops = Append(g.ops, x) BY DEF LongerBy
<1>2. /\ Len(h.ops) = Len(g.ops) + 1 /\ Len(g.ops) \in Nat
      /\ \A i \in 1..Len(g.ops) : h.ops[i] = g.ops[i]
      /\ h.ops[Len(g.ops) + 1] = x
  BY <1>1, Appended DEF Regular
<1>3. \A i \in 1..Len(h.ops) : i \in 1..Len(g.ops) \/ i = Len(g.ops) + 1 BY <1>2
<1>4. \A i \in 1..Len(h.ops) : Unprepared(h.ops[i]) => i \in 1..Len(g.ops) /\ Unprepared(g.ops[i])
  BY <1>1, <1>2, <1>3 DEF Unprepared
<1>5. Targets(h) = Targets(g) BY DEF LongerBy, Targets
<1>6. Len(g.ops) <= Len(h.ops) BY <1>2
<1> QED BY <1>4, <1>5, <1>6, TrackStep DEF LongerBy

(* A forward jump of the construct, before its label is placed. *)
LEMMA SafeForward ==
    ASSUME NEW f0, NEW o, NEW at, NEW n, Context(f0, o, at, n), NEW X, NEW g,
           Safe(f0, g, o, at, n, X, StackTop(g)), NEW label \in JumpLabels, Awaits(o[n], label),
           \A t \in Targets(g) : t.label # label
    PROVE  LET h == Jump(g, label)
           IN  Safe(f0, h, o, at, n, X, StackTop(h)) /\ h.blocks = g.blocks /\ StackTop(h) = StackTop(g)
<1> DEFINE h == Jump(g, label)
<1>1. /\ Regular(f0) /\ Ranged(o, at, n) /\ Mid(f0, g, o, at, n, X) /\ Ok(g) /\ Guarded(g, StackTop(g))
      /\ Track(f0, g, o, at, n)
  BY DEF Context, Safe
<1>2. Regular(g) /\ Len(g.blocks) > 0 BY <1>1, MidRegular
<1>3. Mid(f0, h, o, at, n, X) /\ h.blocks = g.blocks /\ StackTop(h) = StackTop(g) /\ h.error = g.error
  BY <1>1, MidJump
<1>4. LongerBy(g, h, "jump") /\ Guarded(h, StackTop(g)) BY <1>1, <1>2, JumpGuarded
<1>5. Settled(h) BY <1>2, <1>4, LongerSettled
<1>6. Regular(h) BY <1>1, <1>3, MidRegular
<1> HIDE DEF h
<1>7. Track(f0, h, o, at, n) BY <1>1, <1>2, <1>4, <1>6, LongerTrack
<1> QED BY <1>1, <1>3, <1>4, <1>5, <1>7 DEF Safe, Ok, h

(* As Safe, but the last instruction may be a test. *)
Near(f0, g, o, at, n, X, b) ==
    Mid(f0, g, o, at, n, X) /\ Ok(g) /\ Guarded(g, b) /\ Track(f0, g, o, at, n)

(* A jump back, to the only target with its label. *)
LEMMA SafeBack ==
    ASSUME NEW f0, NEW o, NEW at, NEW n, Context(f0, o, at, n), NEW X, NEW g,
           Near(f0, g, o, at, n, X, StackTop(g)), NEW label \in JumpLabels,
           NEW t \in Targets(g), t.label = label, \A u \in Targets(g) : u.label = label => u = t
    PROVE  LET h == Jump(g, label)
           IN  Safe(f0, h, o, at, n, X, t.stack_top) /\ h.blocks = g.blocks /\ StackTop(h) = StackTop(g)
               /\ Targets(h) = Targets(g) /\ h.error = g.error
<1> DEFINE h == Jump(g, label)
<1>1. /\ Regular(f0) /\ Ranged(o, at, n) /\ Mid(f0, g, o, at, n, X) /\ Ok(g) /\ Guarded(g, StackTop(g))
      /\ Track(f0, g, o, at, n)
  BY DEF Context, Near
<1>2. Regular(g) /\ Len(g.blocks) > 0 BY <1>1, MidRegular
<1>3. Mid(f0, h, o, at, n, X) /\ h.blocks = g.blocks /\ StackTop(h) = StackTop(g) /\ h.error = g.error
  BY <1>1, MidJump
<1>4. LongerBy(g, h, "jump") /\ Guarded(h, t.stack_top) BY <1>1, <1>2, JumpGuarded
<1>5. Settled(h) BY <1>2, <1>4, LongerSettled
<1>6. Regular(h) BY <1>1, <1>3, MidRegular
<1> HIDE DEF h
<1>7. Track(f0, h, o, at, n) BY <1>1, <1>2, <1>4, <1>6, LongerTrack
<1>8. Targets(h) = Targets(g) BY <1>4 DEF LongerBy, Targets
<1> QED BY <1>1, <1>3, <1>4, <1>5, <1>7, <1>8 DEF Safe, Ok, h

(* A test is emitted, and something has to follow it. *)
LEMMA NearTest ==
    ASSUME NEW f0, NEW o, NEW at, NEW n, Context(f0, o, at, n), NEW X, NEW g,
           Safe(f0, g, o, at, n, X, StackTop(g)), StackTop(g) < Registers
    PROVE  LET h == WithTemp(g, Instr("test", {}))
           IN  Near(f0, h, o, at, n, X, StackTop(h)) /\ h.blocks = g.blocks /\ StackTop(h) = StackTop(g)
               /\ Targets(h) = Targets(g) /\ h.error = g.error
<1> DEFINE h == WithTemp(g, Instr("test", {}))
<1>1. /\ Regular(f0) /\ Ranged(o, at, n) /\ Mid(f0, g, o, at, n, X) /\ Ok(g) /\ Guarded(g, StackTop(g))
      /\ Track(f0, g, o, at, n)
  BY DEF Context, Safe
<1>2. Regular(g) BY <1>1, MidRegular
<1>3. Instr("test", {}) \in Instrs /\ Instr("test", {}).op # "jump" BY TestTyped
<1>4. /\ Mid(f0, h, o, at, n, X) /\ h.blocks = g.blocks /\ StackTop(h) = StackTop(g)
      /\ h.error = g.error /\ Targets(h) = Targets(g)
  BY <1>1, <1>3, MidTemp
<1>5. Guarded(h, StackTop(g)) /\ LongerBy(g, h, "test") BY <1>1, <1>2, TestGuarded
<1>6. Regular(h) BY <1>1, <1>4, MidRegular
<1> HIDE DEF h
<1>7. Track(f0, h, o, at, n) BY <1>1, <1>2, <1>5, <1>6, LongerTrack
<1> QED BY <1>1, <1>4, <1>5, <1>7 DEF Near, Ok, h

(* An instruction that neither jumps away nor captures is emitted. *)
LEMMA SafePlain ==
    ASSUME NEW f0, NEW o, NEW at, NEW n, Context(f0, o, at, n), NEW X, NEW g,
           Safe(f0, g, o, at, n, X, StackTop(g)),
           NEW i \in Instrs, i.op \in {"write", "forloop"}, Harmless(g, i)
    PROVE  LET h == Emit(g, i)
           IN  Safe(f0, h, o, at, n, X, StackTop(h)) /\ h.blocks = g.blocks /\ StackTop(h) = StackTop(g)
               /\ Targets(h) = Targets(g) /\ h.locals = g.locals /\ h.scopes = g.scopes
               /\ h.ops = Append(g.ops, i)
<1> DEFINE h == Emit(g, i)
<1>1. /\ Regular(f0) /\ Ranged(o, at, n) /\ Mid(f0, g, o, at, n, X) /\ Ok(g) /\ Guarded(g, StackTop(g))
      /\ Track(f0, g, o, at, n)
  BY DEF Context, Safe
<1>2. Regular(g) /\ StackTop(g) \in Int /\ IsFunctionRecord(g) BY <1>1, MidRegular DEF Regular
<1>3. /\ Mid(f0, h, o, at, n, X) /\ h.blocks = g.blocks /\ StackTop(h) = StackTop(g)
      /\ h.error = g.error /\ Targets(h) = Targets(g)
  BY <1>1, MidEmit
<1>4. Keeps(g, h, {"ops"}) /\ h.ops = Append(g.ops, i) BY <1>2, EmitFields
<1> HIDE DEF h
<1>5. SameBut(g, h, Append(g.ops, i)) BY <1>4 DEF Keeps, SameBut
<1>6. Guarded(h, StackTop(g)) BY <1>1, <1>2, <1>5, PlainGuarded
<1>7. LongerBy(g, h, i.op) BY <1>5 DEF SameBut, LongerBy
<1>8. Settled(h) BY <1>2, <1>7, LongerSettled
<1>9. Regular(h) BY <1>1, <1>3, MidRegular
<1>10. Track(f0, h, o, at, n) BY <1>1, <1>2, <1>7, <1>9, LongerTrack
<1> QED BY <1>1, <1>3, <1>4, <1>5, <1>6, <1>8, <1>10 DEF Safe, Ok, SameBut, h

(* The first jump of a for loop gets its target, the test. *)
LEMMA SafeRetarget ==
    ASSUME NEW f0, NEW o, NEW at, NEW n, Context(f0, o, at, n), NEW X, NEW g,
           Safe(f0, g, o, at, n, X, StackTop(g)), NEW i \in X, i \in 1..Len(g.ops), g.ops[i].op = "forprep",
           NEW t \in Nat, i <= t, t <= Len(g.ops), \A s \in g.scopes : ~(s.from <= i /\ i < s.to)
    PROVE  LET h == Retargeted(g, i, t)
           IN  Safe(f0, h, o, at, n, X, StackTop(h)) /\ h.blocks = g.blocks /\ StackTop(h) = StackTop(g)
               /\ i \in 1..Len(h.ops) /\ ~Unprepared(h.ops[i])
<1> DEFINE h == Retargeted(g, i, t)
<1>1. /\ Regular(f0) /\ Ranged(o, at, n) /\ Mid(f0, g, o, at, n, X) /\ Ok(g) /\ Guarded(g, StackTop(g))
      /\ Settled(g) /\ Track(f0, g, o, at, n)
  BY DEF Context, Safe
<1>2. Regular(g) /\ Len(g.ops) \in Nat /\ StackTop(g) \in Int BY <1>1, MidRegular, RegularParts
<1>3. g.ops[i] # Placeholder /\ g.ops[i].op # "jump" /\ t \in Int BY PlaceholderTyped
<1>4. /\ Mid(f0, h, o, at, n, X) /\ h.blocks = g.blocks /\ StackTop(h) = StackTop(g) /\ h.error = g.error
  BY <1>1, <1>3, MidRetarget
<1>5. /\ Guarded(h, StackTop(g)) /\ Settled(h)
      /\ h.ops[i].target = t /\ h.locals = g.locals /\ h.scopes = g.scopes
      /\ h.jump_targets = g.jump_targets /\ Len(h.ops) = Len(g.ops)
      /\ \A j \in 1..Len(g.ops) : j # i => h.ops[j] = g.ops[j]
  BY <1>1, <1>2, RetargetGuarded
<1>6. Regular(h) BY <1>1, <1>4, MidRegular
<1> HIDE DEF h
<1>7. i \in 1..Len(h.ops) /\ ~Unprepared(h.ops[i]) BY <1>2, <1>5 DEF Unprepared, NoTarget
<1>8. Track(f0, h, o, at, n)
  <2>1. \A j \in 1..Len(h.ops) : Unprepared(h.ops[j]) => j \in 1..Len(g.ops) /\ Unprepared(g.ops[j])
    BY <1>5, <1>7
  <2>2. Targets(h) = Targets(g) BY <1>5 DEF Targets
  <2>3. Len(g.ops) <= Len(h.ops) BY <1>2, <1>5
  <2> QED BY <1>1, <1>2, <1>5, <1>6, <2>1, <2>2, <2>3, TrackStep
<1> QED BY <1>1, <1>4, <1>5, <1>7, <1>8 DEF Safe, Ok, h

(* No scope has ended around the first jump of a for loop. *)
LEMMA NoScopeAround ==
    ASSUME NEW f0, NEW o, NEW at, NEW n, Ending(f0, o, at, n), LoopsWait(f0, o, n),
           NEW h, Track(f0, h, o, at, n), NEW c \in 1..n, o[c].kind = "for"
    PROVE  \A s \in h.scopes : s.from <= o[c].labels[2] /\ o[c].labels[2] < s.to => FALSE
<1>1. /\ n \in Nat /\ n # 0 /\ Ranged(o, at, n) /\ Regular(f0) /\ at[n] \in Nat /\ Held(f0, o, at, n, Len(f0.blocks))
      /\ at[n] < Len(f0.blocks) /\ Len(f0.blocks) \in Nat
  <2>1. n \in Nat \ {0} /\ Ranged(o, at, n) /\ Regular(f0) /\ Held(f0, o, at, n, Len(f0.blocks)) BY EndingStart
  <2> QED BY <2>1, HeldRange
<1>2. /\ \A k \in 1..Len(f0.locals) : f0.locals[k].from <= o[c].labels[2] => f0.locals[k].reg < o[c].labels[1]
      /\ \A s \in f0.scopes : s.from <= o[c].labels[2] /\ o[c].labels[2] < s.to => FALSE
  BY DEF LoopsWait
<1>3. o[c].labels[1] \in Nat /\ Bottom(f0, at[c] + 1) = o[c].labels[1] + 3 /\ at[c] \in Nat
  BY <1>1 DEF Held, Typed, Fits, HasState
<1>4. at[c] + 1 \in 1..Len(f0.blocks) /\ at[n] + 1 \in 1..Len(f0.blocks) /\ at[c] + 1 <= at[n] + 1
  <2>1. CASE c = n BY <1>1, <2>1
  <2>2. CASE c # n
    <3>1. c \in 1..n - 1 BY <1>1, <2>2
    <3> QED BY <1>1, <1>3, <3>1 DEF Ranged
  <2> QED BY <2>1, <2>2
<1>5. Bottom(f0, at[c] + 1) <= Bottom(f0, at[n] + 1) /\ Bottom(f0, at[n] + 1) \in Nat BY <1>1, <1>4, BottomsRise
<1>6. \A k \in 1..Len(f0.locals) : f0.locals[k].reg \in Nat BY <1>1, RegularParts
<1> SUFFICES ASSUME NEW s \in h.scopes, s.from <= o[c].labels[2], o[c].labels[2] < s.to PROVE FALSE
  OBVIOUS
<1>7. s \notin f0.scopes BY <1>2
<1>8. PICK k \in 1..Len(f0.locals) : Bottom(f0, at[n] + 1) <= f0.locals[k].reg /\ s.from = f0.locals[k].from
  BY <1>7 DEF Track
<1>9. f0.locals[k].reg < o[c].labels[1] BY <1>2, <1>8
<1> HIDE DEF Bottom
<1> QED BY <1>3, <1>5, <1>6, <1>8, <1>9

(* The loops around the construct that ended still wait. *)
LEMMA ClosedLoopsWait ==
    ASSUME NEW f0, NEW o, NEW at, NEW n, Ending(f0, o, at, n), LoopsWait(f0, o, n),
           NEW h, Regular(h), Track(f0, h, o, at, n),
           o[n].kind = "for" => \A i \in 1..Len(h.ops) : i = o[n].labels[2] => ~Unprepared(h.ops[i])
    PROVE  LoopsWait(h, o, n - 1)
<1>1. /\ n \in Nat /\ n # 0 /\ Ranged(o, at, n) /\ Regular(f0) /\ at[n] \in Nat /\ Held(f0, o, at, n, Len(f0.blocks))
      /\ at[n] < Len(f0.blocks) /\ Len(f0.blocks) \in Nat
  <2>1. n \in Nat \ {0} /\ Ranged(o, at, n) /\ Regular(f0) /\ Held(f0, o, at, n, Len(f0.blocks)) BY EndingStart
  <2> QED BY <2>1, HeldRange
<1>2. Len(f0.ops) \in Nat /\ Len(h.ops) \in Nat /\ Len(f0.ops) <= Len(h.ops) BY <1>1, RegularParts DEF Track
<1>3. \A c \in 1..n - 1 : c \in 1..n /\ c # n BY <1>1
<1>4. \A i \in 1..Len(h.ops) : h.ops[i].op = "forprep" /\ h.ops[i].target = NoTarget =>
          \E c \in 1..n - 1 : o[c].kind = "for" /\ o[c].labels[2] = i
  <2> TAKE i \in 1..Len(h.ops)
  <2> HAVE h.ops[i].op = "forprep" /\ h.ops[i].target = NoTarget
  <2>1. Unprepared(h.ops[i]) BY DEF Unprepared
  <2>2. i \in 1..Len(f0.ops) /\ Unprepared(f0.ops[i]) BY <2>1 DEF Track
  <2>3. PICK c \in 1..n : o[c].kind = "for" /\ o[c].labels[2] = i BY <2>2 DEF LoopsWait, Unprepared
  <2>4. c # n BY <2>1, <2>3
  <2>5. c \in 1..n - 1 BY <1>1, <2>4
  <2> QED BY <2>3, <2>5
<1>5. \A c \in 1..n - 1 : HasState(o[c]) =>
          /\ 1 <= o[c].labels[2] /\ o[c].labels[2] <= Len(h.ops) + 1
          /\ \A k \in 1..Len(h.locals) : h.locals[k].reg < o[c].labels[1] + 3 => h.locals[k].from <= o[c].labels[2]
  <2> TAKE c \in 1..n - 1
  <2> HAVE HasState(o[c])
  <2>1. /\ 1 <= o[c].labels[2] /\ o[c].labels[2] <= Len(f0.ops) + 1
        /\ \A k \in 1..Len(f0.locals) : f0.locals[k].reg < o[c].labels[1] + 3 => f0.locals[k].from <= o[c].labels[2]
    BY <1>3 DEF LoopsWait
  <2>2. o[c].labels[2] \in Nat
    <3>1. Typed(o[c]) BY <1>1, <1>3 DEF Held
    <3> QED BY <3>1 DEF Typed
  <2>3. o[c].labels[2] <= Len(h.ops) + 1 BY <1>2, <2>1, <2>2
  <2>4. \A k \in 1..Len(h.locals) : k \in 1..Len(f0.locals) /\ h.locals[k] = f0.locals[k] BY DEF Track
  <2> QED BY <2>1, <2>3, <2>4
<1>6. ASSUME NEW c \in 1..n - 1, o[c].kind = "for"
      PROVE  /\ \A k \in 1..Len(h.locals) : h.locals[k].from <= o[c].labels[2] => h.locals[k].reg < o[c].labels[1]
             /\ \A s \in h.scopes : s.from <= o[c].labels[2] /\ o[c].labels[2] < s.to => FALSE
  <2>1. /\ \A k \in 1..Len(f0.locals) : f0.locals[k].from <= o[c].labels[2] => f0.locals[k].reg < o[c].labels[1]
        /\ \A s \in f0.scopes : s.from <= o[c].labels[2] /\ o[c].labels[2] < s.to => FALSE
    BY <1>3, <1>6 DEF LoopsWait
  <2>2. \A s \in h.scopes : s.from <= o[c].labels[2] /\ o[c].labels[2] < s.to => FALSE
    BY <1>3, <1>6, NoScopeAround
  <2> QED BY <2>1, <2>2 DEF Track
<1> QED BY <1>4, <1>5, <1>6 DEF LoopsWait

(* And their labels are still to be placed. *)
LEMMA ClosedLabelled ==
    ASSUME NEW f0, NEW o, NEW at, NEW n, Ending(f0, o, at, n), Labelled(f0, o, n),
           NEW h, Regular(h), Track(f0, h, o, at, n), Len(h.blocks) = at[n], h.unique = f0.unique,
           \A i \in 1..Len(h.blocks) : Bottom(h, i) = Bottom(f0, i)
    PROVE  Labelled(h, o, n - 1)
<1>1. /\ n \in Nat /\ n # 0 /\ Ranged(o, at, n) /\ Regular(f0) /\ at[n] \in Nat /\ Held(f0, o, at, n, Len(f0.blocks))
      /\ n \in 1..n
  BY EndingStart
<1>2. Distinct(o, n, f0.unique) BY DEF Ending, Laid
<1>3. \A c \in 1..n - 1 : c \in 1..n /\ c # n /\ at[c] \in Nat /\ at[c] + 1 <= at[n] BY <1>1 DEF Ranged
<1>4. \A t \in Targets(h) : t \in Targets(f0) \/ (t.label \in UniqueLabels /\ t.label.id < f0.unique /\ Awaits(o[n], t.label))
  <2> TAKE t \in Targets(h)
  <2>1. t \in Items(h) BY DEF Items
  <2>2. t.block_index \in 1..at[n] BY <2>1, ItemsTyped
  <2>3. t.block_index # at[n] + 1 BY <1>1, <2>2
  <2>4. t \in Targets(f0) \/ Awaits(o[n], t.label) BY <2>3 DEF Track, Places
  <2> QED BY <1>1, <1>2, <2>4 DEF Distinct
<1>5. Break.kind # "unique" BY DEF Break
<1>6. \A l \in UniqueLabels : l # Break /\ l.kind = "unique" BY <1>5, UniqueIsLabel
<1>7. \A t \in Targets(h) : /\ t.label # Break
                            /\ t.label.kind = "unique" => t.label.id < h.unique
  BY <1>4, <1>6 DEF Labelled
<1>8. \A c \in 1..n - 1 : \A t \in Targets(h) : ~Awaits(o[c], t.label)
  BY <1>1, <1>2, <1>3, <1>4 DEF Labelled, Distinct
<1>9. ASSUME NEW c \in 1..n - 1
      PROVE  /\ o[c].kind = "if" => o[c].labels[1] # o[c].labels[2]
             /\ o[c].kind \in {"while", "repeat"} =>
                   /\ \A t, u \in Targets(h) : t.label = o[c].labels[1] /\ u.label = o[c].labels[1] => t = u
                   /\ \A t \in Targets(h) : t.label = o[c].labels[1] /\ o[c].kind = "while" =>
                         Bottom(h, t.block_index + 1) <= t.stack_top
  <2>1. o[c].kind = "if" => o[c].labels[1] # o[c].labels[2] BY <1>3 DEF Labelled
  <2>2. ASSUME o[c].kind \in {"while", "repeat"}
        PROVE  /\ \A t, u \in Targets(h) : t.label = o[c].labels[1] /\ u.label = o[c].labels[1] => t = u
               /\ \A t \in Targets(h) : t.label = o[c].labels[1] /\ o[c].kind = "while" =>
                     Bottom(h, t.block_index + 1) <= t.stack_top
    <3>1. PICK v \in Targets(f0) : v.label = o[c].labels[1] /\ (o[c].kind = "while" => v.block_index = at[c])
      <4>1. Fits(o[c], at[c], f0) BY <1>1, <1>3 DEF Held
      <4> QED BY <2>2, <4>1 DEF Fits
    <3>2. ~Awaits(o[n], o[c].labels[1]) BY <1>1, <3>1 DEF Labelled
    <3>3. \A t \in Targets(h) : t.label = o[c].labels[1] => t \in Targets(f0) BY <1>4, <3>2
    <3>4. /\ \A t, u \in Targets(f0) : t.label = o[c].labels[1] /\ u.label = o[c].labels[1] => t = u
          /\ \A t \in Targets(f0) : t.label = o[c].labels[1] /\ o[c].kind = "while" =>
                Bottom(f0, t.block_index + 1) <= t.stack_top
      BY <1>3, <2>2 DEF Labelled
    <3>5. \A t \in Targets(h) : t.label = o[c].labels[1] => t = v BY <3>1, <3>3, <3>4
    <3>6. o[c].kind = "while" => v.block_index + 1 \in 1..Len(h.blocks) BY <1>1, <1>3, <3>1
    <3>7. o[c].kind = "while" => Bottom(h, v.block_index + 1) = Bottom(f0, v.block_index + 1) BY <3>6
    <3>8. o[c].kind = "while" => Bottom(f0, v.block_index + 1) <= v.stack_top BY <3>1, <3>4
    <3> QED BY <3>5, <3>7, <3>8
  <2> QED BY <2>1, <2>2
<1> QED BY <1>7, <1>8, <1>9 DEF Labelled

(* After the last step of its end a construct is gone. *)
LEMMA ClosedFenced ==
    ASSUME NEW f0, NEW o, NEW at, NEW n, Ending(f0, o, at, n), Fenced(f0, o, n),
           NEW X, NEW g, Safe(f0, g, o, at, n, X, StackTop(g)), Len(g.blocks) = at[n],
           NEW h, Regular(h), Keeps(g, h, {"alloc"}),
           o[n].kind = "for" => \A i \in 1..Len(g.ops) : i = o[n].labels[2] => ~Unprepared(g.ops[i])
    PROVE  Fenced(h, o, n - 1)
<1>1. Regular(f0) /\ Ranged(o, at, n) /\ Mid(f0, g, o, at, n, X) /\ Track(f0, g, o, at, n) BY EndingStart DEF Safe
<1>2. Regular(g) BY <1>1, MidRegular
<1>3. /\ h.ops = g.ops /\ h.locals = g.locals /\ h.scopes = g.scopes /\ h.blocks = g.blocks
      /\ h.jump_targets = g.jump_targets /\ h.pending_jumps = g.pending_jumps /\ h.unique = g.unique
  BY DEF Keeps
<1>4. h.unique = f0.unique /\ \A i \in 1..Len(h.blocks) : Bottom(h, i) = Bottom(f0, i)
  BY <1>1, <1>3 DEF Mid, Bottom
<1>5. Targets(h) = Targets(g) BY <1>3 DEF Targets
<1>6. Track(f0, h, o, at, n)
  <2>1. Len(g.ops) <= Len(h.ops) BY <1>2, <1>3, RegularParts
  <2> QED BY <1>1, <1>2, <1>3, <1>5, <2>1, TrackStep
<1>7. LoopsWait(h, o, n - 1) BY <1>3, <1>6, ClosedLoopsWait DEF Fenced
<1>8. Labelled(h, o, n - 1) BY <1>3, <1>4, <1>6, ClosedLabelled DEF Fenced
<1>9. Guarded(h, StackTop(h)) /\ Settled(h)
  <2>1. \A k \in 1..Len(h.locals) : ~(StackTop(g) <= h.locals[k].reg)
    BY <1>2, <1>3, GuardTypes
  <2>2. Guarded(h, StackTop(g)) BY <1>3, SameGuarded DEF Safe
  <2> QED BY <1>3, <2>1, <2>2, StrongGuarded DEF Safe, Settled
<1> QED BY <1>7, <1>8, <1>9 DEF Fenced

(* So it is when registers stay as they are. *)
LEMMA ClosedSame ==
    ASSUME NEW f0, NEW o, NEW at, NEW n, Ending(f0, o, at, n), Fenced(f0, o, n), o[n].kind # "for",
           NEW X, NEW g, Safe(f0, g, o, at, n, X, StackTop(g)), Len(g.blocks) = at[n]
    PROVE  Fenced(g, o, n - 1)
<1>1. Regular(g) BY EndingStart, MidRegular DEF Safe
<1>2. Keeps(g, g, {"alloc"}) BY <1>1 DEF Keeps, Regular
<1> QED BY <1>1, <1>2, ClosedFenced

(* What the end of a construct starts from. *)
LEMMA SafeStart ==
    ASSUME NEW g, NEW o, NEW at, NEW n, Ending(g, o, at, n), Fenced(g, o, n), Ok(g), NEW X
    PROVE  Safe(g, g, o, at, n, X, StackTop(g)) /\ Context(g, o, at, n)
<1>1. Mid(g, g, o, at, n, X) /\ Ranged(o, at, n) /\ Regular(g) /\ Held(g, o, at, n, Len(g.blocks)) BY EndingStart
<1>2. Track(g, g, o, at, n) BY <1>1, TrackSelf
<1> QED BY <1>1, <1>2 DEF Safe, Context, Fenced

(* A label is placed only in a function without error. *)
LEMMA TargetOk ==
    ASSUME NEW g, NEW label, Ok(JumpTarget(g, label))
    PROVE  Ok(g)
BY DEF JumpTarget

(* What the block that a break leaves leaves behind. *)
BreakLeft(f0, g, h, o, at, n, X, k) ==
    /\ Safe(f0, h, o, at, n, X, StackTop(h)) /\ Len(h.blocks) = k /\ StackTop(h) = Bottom(f0, k + 1)
    /\ Prepares(g, h)

(* The block that a break leaves ends. *)
LEMMA BreakEnds ==
    ASSUME NEW f0, NEW o, NEW at, NEW n, Context(f0, o, at, n), NEW X, NEW g,
           Safe(f0, g, o, at, n, X, StackTop(g)), NEW k \in Nat, k # 0, at[n] = k, Len(g.blocks) = k + 1,
           StackTop(g) = Bottom(f0, k + 1), Ok(ExitBlock(JumpTarget(g, Break)))
    PROVE  BreakLeft(f0, g, ExitBlock(JumpTarget(g, Break)), o, at, n, X, k)
<1> DEFINE e == JumpTarget(g, Break)
           h == ExitBlock(e)
<1>1. Regular(f0) /\ Ranged(o, at, n) /\ Mid(f0, g, o, at, n, X) /\ Held(f0, o, at, n, Len(f0.blocks)) BY DEF Context, Safe
<1>2. Regular(g) /\ Len(g.blocks) > 0 /\ StackTop(g) \in Nat BY <1>1, MidRegular
<1>3. Bottom(g, k + 1) = Bottom(f0, k + 1)
  <2>1. k + 1 \in 1..Len(g.blocks) OBVIOUS
  <2> QED BY <1>1, <2>1 DEF Mid
<1>4. Patchable(g, Break) BY <1>2, <1>3, BreakPatchable
<1>5. Mid(f0, e, o, at, n, X) /\ e.blocks = g.blocks BY <1>1, <1>4, BreakTyped, MidTarget
<1>6. Len(e.blocks) = k + 1 /\ at[n] <= k BY <1>5
<1> HIDE DEF e
<1>7. Ok(e)
  <2>1. h.error = e.error BY <1>1, <1>5, <1>6, MidExit
  <2> QED BY <2>1 DEF Ok, e
<1>8. Places(o, at, n, Break, Len(g.blocks)) BY DEF Places
<1>9. Safe(f0, e, o, at, n, X, StackTop(e)) /\ StackTop(e) = StackTop(g) /\ Prepares(g, e)
  BY <1>7, <1>8, BreakTyped, SafeTarget DEF e
<1>10. StackTop(e) \in Int /\ Bottom(e, k + 1) <= StackTop(e) BY <1>2, <1>3, <1>5, <1>9 DEF Bottom
<1>11. /\ Safe(f0, h, o, at, n, X, StackTop(h)) /\ Len(h.blocks) = k /\ StackTop(h) = Bottom(f0, k + 1)
       /\ Prepares(e, h)
  BY <1>6, <1>9, <1>10, SafeExit
<1> HIDE DEF h
<1>12. Prepares(g, h)
  <2>1. Regular(e) /\ Regular(h) BY <1>1, <1>9, <1>11, MidRegular DEF Safe
  <2>2. Len(g.ops) \in Nat /\ Len(e.ops) \in Nat /\ Len(h.ops) \in Nat BY <1>2, <2>1, RegularParts
  <2> QED BY <1>9, <1>11, <2>2 DEF Prepares
<1> QED BY <1>11, <1>12 DEF BreakLeft, h, e

(* A block is left and the label behind it is placed. *)
LEMMA ExitTargetSafe ==
    ASSUME NEW f0, NEW o, NEW at, NEW n, Context(f0, o, at, n), NEW X, NEW g,
           Safe(f0, g, o, at, n, X, StackTop(g)), NEW k \in Nat, k # 0, at[n] <= k, Len(g.blocks) = k + 1,
           NEW l \in JumpLabels, Awaits(o[n], l), Ok(JumpTarget(ExitBlock(g), l))
    PROVE  LET h == JumpTarget(ExitBlock(g), l)
           IN  Safe(f0, h, o, at, n, X, StackTop(h)) /\ Len(h.blocks) = k /\ StackTop(h) = Bottom(f0, k + 1)
<1> DEFINE e == ExitBlock(g)
           h == JumpTarget(e, l)
<1>1. Ranged(o, at, n) /\ Mid(f0, g, o, at, n, X) BY DEF Context, Safe
<1>2. Regular(g) /\ StackTop(g) \in Nat BY <1>1, MidRegular
<1>3. Bottom(g, k + 1) <= StackTop(g) /\ StackTop(g) \in Int
  <2>1. k + 1 \in 1..Len(g.blocks) OBVIOUS
  <2> QED BY <1>2, <2>1, BottomsRise
<1>4. Safe(f0, e, o, at, n, X, StackTop(e)) /\ Len(e.blocks) = k /\ StackTop(e) = Bottom(f0, k + 1) BY <1>3, SafeExit
<1> HIDE DEF e
<1>5. Places(o, at, n, l, Len(e.blocks)) BY DEF Places
<1>6. Ok(JumpTarget(e, l)) BY DEF e
<1>7. Safe(f0, h, o, at, n, X, StackTop(h)) /\ h.blocks = e.blocks /\ StackTop(h) = StackTop(e)
  BY <1>4, <1>5, <1>6, SafeTarget
<1> HIDE DEF h
<1> QED BY <1>4, <1>7 DEF h, e

(* The end of do. *)
LEMMA FencedDo ==
    ASSUME NEW g, NEW o, NEW at, NEW n, Ending(g, o, at, n), Fenced(g, o, n), Ok(g), o[n].kind = "do"
    PROVE  Fenced(ExitBlock(g), o, n - 1)
<1>1. Safe(g, g, o, at, n, {}, StackTop(g)) /\ Context(g, o, at, n) BY SafeStart
<1>2. /\ Regular(g) /\ at[n] \in Nat /\ at[n] # 0 /\ at[n] + BlocksOf(o[n]) = Len(g.blocks)
  BY EndingStart DEF Ranged
<1>3. PICK k \in Nat : k = at[n] /\ k # 0 BY <1>2
<1>4. Len(g.blocks) = k + 1 BY <1>2, <1>3 DEF Ending, BlocksOf, HasState
<1>5. k + 1 \in 1..Len(g.blocks) /\ at[n] <= k BY <1>3, <1>4
<1>6. Bottom(g, k + 1) <= StackTop(g) /\ StackTop(g) \in Int BY <1>2, <1>5, BottomsRise, RegularParts
<1> DEFINE h == ExitBlock(g)
<1>7. Safe(g, h, o, at, n, {}, StackTop(h)) /\ Len(h.blocks) = k BY <1>1, <1>3, <1>4, <1>5, <1>6, SafeExit
<1> HIDE DEF h
<1>8. Fenced(h, o, n - 1) BY <1>3, <1>7, ClosedSame
<1> QED BY <1>8 DEF h

(* The end of else. *)
LEMMA FencedElse ==
    ASSUME NEW g, NEW o, NEW at, NEW n, Ending(g, o, at, n), Fenced(g, o, n), Ok(g), o[n].kind = "else",
           Ok(JumpTarget(ExitBlock(g), o[n].labels[2]))
    PROVE  Fenced(JumpTarget(ExitBlock(g), o[n].labels[2]), o, n - 1)
<1> DEFINE l == o[n].labels[2]
           h == JumpTarget(ExitBlock(g), l)
<1>1. Safe(g, g, o, at, n, {}, StackTop(g)) /\ Context(g, o, at, n) BY SafeStart
<1>2. at[n] \in Nat /\ at[n] # 0 /\ at[n] + BlocksOf(o[n]) = Len(g.blocks) BY EndingStart DEF Ranged
<1>3. PICK k \in Nat : k = at[n] /\ k # 0 BY <1>2
<1>4. Len(g.blocks) = k + 1 /\ at[n] <= k BY <1>2, <1>3 DEF Ending, BlocksOf, HasState
<1>5. Awaits(o[n], l) BY DEF Awaits
<1>6. l \in JumpLabels BY <1>5, EndingWaits
<1> HIDE DEF l
<1>7. Safe(g, h, o, at, n, {}, StackTop(h)) /\ Len(h.blocks) = k BY <1>1, <1>3, <1>4, <1>5, <1>6, ExitTargetSafe DEF l
<1> HIDE DEF h
<1>8. Fenced(h, o, n - 1) BY <1>3, <1>7, ClosedSame
<1> QED BY <1>8 DEF h, l

(* A part of an if is over; the label at the end of the statement is still to come. *)
LEMMA PartSafe ==
    ASSUME NEW g, NEW o, NEW at, NEW n, Ending(g, o, at, n), Fenced(g, o, n), Ok(g), o[n].kind = "if",
           NEW more \in BOOLEAN, Ok(CloseIfPart(g, o[n].labels, more))
    PROVE  LET h == CloseIfPart(g, o[n].labels, more)
           IN  Safe(g, h, o, at, n, {}, StackTop(h)) /\ Len(h.blocks) = at[n] /\ StackTop(h) = Bottom(g, at[n] + 1)
<1> DEFINE l == o[n].labels[1]
           m == o[n].labels[2]
           g1 == IF more THEN Jump(g, m) ELSE g
           h == JumpTarget(ExitBlock(g1), l)
<1>1. Safe(g, g, o, at, n, {}, StackTop(g)) /\ Context(g, o, at, n) BY SafeStart
<1>2. at[n] \in Nat /\ at[n] # 0 /\ at[n] + BlocksOf(o[n]) = Len(g.blocks) /\ n \in 1..n BY EndingStart DEF Ranged
<1>3. PICK k \in Nat : k = at[n] /\ k # 0 BY <1>2
<1>4. Len(g.blocks) = k + 1 /\ at[n] <= k BY <1>2, <1>3 DEF Ending, BlocksOf, HasState
<1>5. Awaits(o[n], l) /\ Awaits(o[n], m) BY DEF Awaits
<1>6. l \in JumpLabels /\ m \in JumpLabels BY <1>5, EndingWaits
<1>7. \A t \in Targets(g) : t.label # m BY <1>2, <1>5 DEF Fenced, Labelled
<1>8. Safe(g, g1, o, at, n, {}, StackTop(g1)) /\ g1.blocks = g.blocks
  <2>1. CASE more
    <3>1. Safe(g, Jump(g, m), o, at, n, {}, StackTop(Jump(g, m))) /\ Jump(g, m).blocks = g.blocks
      BY <1>1, <1>5, <1>6, <1>7, SafeForward
    <3> QED BY <2>1, <3>1
  <2>2. CASE ~more BY <2>2, <1>1
  <2> QED BY <2>1, <2>2
<1>9. h = CloseIfPart(g, o[n].labels, more) BY DEF CloseIfPart
<1> HIDE DEF g1, l, m
<1>10. Safe(g, h, o, at, n, {}, StackTop(h)) /\ Len(h.blocks) = k /\ StackTop(h) = Bottom(g, k + 1)
  <2>1. Ok(JumpTarget(ExitBlock(g1), l)) BY <1>9
  <2> QED BY <1>1, <1>3, <1>4, <1>5, <1>6, <1>8, <2>1, ExitTargetSafe
<1> HIDE DEF h
<1> QED BY <1>3, <1>9, <1>10

(* The end of if. *)
LEMMA FencedIf ==
    ASSUME NEW g, NEW o, NEW at, NEW n, Ending(g, o, at, n), Fenced(g, o, n), Ok(g), o[n].kind = "if",
           Ok(JumpTarget(CloseIfPart(g, o[n].labels, FALSE), o[n].labels[2]))
    PROVE  Fenced(JumpTarget(CloseIfPart(g, o[n].labels, FALSE), o[n].labels[2]), o, n - 1)
<1> DEFINE m == o[n].labels[2]
           e == CloseIfPart(g, o[n].labels, FALSE)
           h == JumpTarget(e, m)
<1>1. Ok(e) BY TargetOk
<1>2. Context(g, o, at, n) BY SafeStart
<1>3. Safe(g, e, o, at, n, {}, StackTop(e)) /\ Len(e.blocks) = at[n]
  <2>1. \A more \in BOOLEAN : Ok(CloseIfPart(g, o[n].labels, more)) =>
            LET x == CloseIfPart(g, o[n].labels, more)
            IN  Safe(g, x, o, at, n, {}, StackTop(x)) /\ Len(x.blocks) = at[n]
    BY PartSafe
  <2> QED BY <1>1, <2>1, Zenon
<1> HIDE DEF e
<1>4. Awaits(o[n], m) BY DEF Awaits
<1>5. m \in JumpLabels BY <1>4, EndingWaits
<1>6. Places(o, at, n, m, Len(e.blocks)) BY <1>4 DEF Places
<1>7. Ok(JumpTarget(e, m)) BY DEF e
<1> HIDE DEF m
<1>8. Safe(g, h, o, at, n, {}, StackTop(h)) /\ h.blocks = e.blocks BY <1>2, <1>3, <1>5, <1>6, <1>7, SafeTarget
<1> HIDE DEF h
<1>9. Fenced(h, o, n - 1) BY <1>3, <1>8, ClosedSame
<1> QED BY <1>9 DEF h, m, e

(* The start of a loop that jumps back: the only target with its label. *)
LEMMA LoopStarts ==
    ASSUME NEW g, NEW o, NEW at, NEW n, Ending(g, o, at, n), Fenced(g, o, n), o[n].kind \in {"while", "repeat"}
    PROVE  \E t \in Targets(g) :
              /\ t.label = o[n].labels[1] /\ \A u \in Targets(g) : u.label = o[n].labels[1] => u = t
              /\ t.stack_top \in Nat /\ t.stack_top <= StackTop(g)
              /\ o[n].kind = "while" => Bottom(g, at[n] + 1) <= t.stack_top
              /\ o[n].kind = "repeat" => Bottom(g, at[n] + 2) <= t.stack_top
<1>1. /\ Regular(g) /\ n \in 1..n /\ Fits(o[n], at[n], g) BY EndingStart
<1>2. PICK t \in Targets(g) : /\ t.label = o[n].labels[1]
                              /\ o[n].kind = "while" => t.block_index = at[n]
                              /\ o[n].kind = "repeat" => t.block_index = at[n] + 2
  BY <1>1 DEF Fits
<1>3. /\ \A u \in Targets(g) : u.label = o[n].labels[1] => u = t
      /\ o[n].kind = "while" => Bottom(g, t.block_index + 1) <= t.stack_top
  BY <1>1, <1>2 DEF Fenced, Labelled
<1>4. /\ t.stack_top \in Nat /\ t.stack_top <= StackTop(g) /\ Placed(t, g.blocks, StackTop(g))
  <2>1. t \in Items(g) BY DEF Items
  <2> QED BY <1>1, <2>1, ItemsTyped
<1>5. o[n].kind = "repeat" => Bottom(g, at[n] + 2) <= t.stack_top BY <1>2, <1>4 DEF Placed, Bottom
<1> QED BY <1>2, <1>3, <1>4, <1>5

(* The end of while. *)
LEMMA FencedWhile ==
    ASSUME NEW g, NEW o, NEW at, NEW n, Ending(g, o, at, n), Fenced(g, o, n), Ok(g), o[n].kind = "while",
           Ok(CloseWhile(g, o[n].labels))
    PROVE  Fenced(CloseWhile(g, o[n].labels), o, n - 1)
<1> DEFINE l == o[n].labels[1]
           m == o[n].labels[2]
           g1 == Jump(g, l)
           e == ExitBlock(JumpTarget(g1, Break))
           h == JumpTarget(e, m)
<1>1. Safe(g, g, o, at, n, {}, StackTop(g)) /\ Context(g, o, at, n) BY SafeStart
<1>2. /\ at[n] \in Nat /\ at[n] # 0 /\ at[n] + BlocksOf(o[n]) = Len(g.blocks) /\ Typed(o[n]) /\ Fits(o[n], at[n], g)
      /\ Regular(g)
  BY EndingStart DEF Ranged
<1>3. PICK k \in Nat : k = at[n] /\ k # 0 BY <1>2
<1>4. Len(g.blocks) = k + 1 /\ o[n].at = "labels" BY <1>2, <1>3 DEF Ending, BlocksOf, HasState
<1>5. StackTop(g) = Bottom(g, k + 1) /\ StackTop(g) \in Nat BY <1>2, <1>3, <1>4, RegularParts DEF Fits
<1>6. PICK t \in Targets(g) : /\ t.label = l /\ \A u \in Targets(g) : u.label = l => u = t
                              /\ t.stack_top \in Nat /\ t.stack_top <= StackTop(g) /\ Bottom(g, at[n] + 1) <= t.stack_top
  BY LoopStarts
<1>7. t.stack_top = StackTop(g) BY <1>3, <1>5, <1>6
<1>8. Awaits(o[n], m) BY DEF Awaits
<1>9. m \in JumpLabels /\ l \in JumpLabels BY <1>2, UniqueIsLabel DEF Typed
<1>10. h = CloseWhile(g, o[n].labels) BY DEF CloseWhile
<1> HIDE DEF l, m
<1>11. Safe(g, g1, o, at, n, {}, StackTop(g1)) /\ g1.blocks = g.blocks /\ StackTop(g1) = StackTop(g)
  <2>1. Near(g, g, o, at, n, {}, StackTop(g)) BY <1>1 DEF Safe, Near
  <2> QED BY <1>1, <1>6, <1>7, <1>9, <2>1, SafeBack
<1> HIDE DEF g1
<1>12. Ok(h) BY <1>10
<1>13. Ok(e) BY <1>12, TargetOk
<1>14. Safe(g, e, o, at, n, {}, StackTop(e)) /\ Len(e.blocks) = k
  <2>1. Len(g1.blocks) = k + 1 /\ at[n] = k /\ StackTop(g1) = Bottom(g, k + 1) BY <1>3, <1>4, <1>5, <1>11
  <2>2. Ok(ExitBlock(JumpTarget(g1, Break))) BY <1>13
  <2> HIDE DEF h, e
  <2>3. BreakLeft(g, g1, ExitBlock(JumpTarget(g1, Break)), o, at, n, {}, k)
    BY <1>1, <1>3, <1>11, <2>1, <2>2, BreakEnds
  <2> QED BY <2>3 DEF BreakLeft, e
<1> HIDE DEF e
<1>15. Places(o, at, n, m, Len(e.blocks)) BY <1>8 DEF Places
<1>16. Safe(g, h, o, at, n, {}, StackTop(h)) /\ h.blocks = e.blocks BY <1>1, <1>9, <1>12, <1>14, <1>15, SafeTarget
<1> HIDE DEF h
<1>17. Fenced(h, o, n - 1) BY <1>3, <1>14, <1>16, ClosedSame
<1> QED BY <1>10, <1>17

(* The end of repeat, its test. *)
LEMMA FencedRepeat ==
    ASSUME NEW g, NEW o, NEW at, NEW n, Ending(g, o, at, n), Fenced(g, o, n), Ok(g), o[n].kind = "repeat",
           StackTop(g) < Registers, Ok(CloseRepeat(g, o[n].labels))
    PROVE  Fenced(CloseRepeat(g, o[n].labels), o, n - 1)
<1> DEFINE l == o[n].labels[1]
           g1 == WithTemp(g, Instr("test", {}))
           g2 == Jump(g1, l)
           g3 == ExitBlock(g2)
           h == ExitBlock(JumpTarget(g3, Break))
<1>1. Safe(g, g, o, at, n, {}, StackTop(g)) /\ Context(g, o, at, n) BY SafeStart
<1>2. /\ at[n] \in Nat /\ at[n] # 0 /\ at[n] + BlocksOf(o[n]) = Len(g.blocks) /\ Typed(o[n]) /\ Fits(o[n], at[n], g)
      /\ Regular(g)
  BY EndingStart DEF Ranged
<1>3. PICK k \in Nat : k = at[n] /\ k # 0 BY <1>2
<1>4. Len(g.blocks) = k + 2 BY <1>2, <1>3 DEF BlocksOf
<1>5. Bottom(g, k + 2) = Bottom(g, k + 1) BY <1>2, <1>3 DEF Fits
<1>6. PICK t \in Targets(g) : /\ t.label = l /\ \A u \in Targets(g) : u.label = l => u = t
                              /\ t.stack_top \in Nat /\ t.stack_top <= StackTop(g) /\ Bottom(g, at[n] + 2) <= t.stack_top
  BY LoopStarts
<1>7. l \in JumpLabels BY <1>2, UniqueIsLabel DEF Typed
<1>8. h = CloseRepeat(g, o[n].labels) BY DEF CloseRepeat, TestElse
<1> HIDE DEF l
<1>9. Near(g, g1, o, at, n, {}, StackTop(g1)) /\ g1.blocks = g.blocks /\ Targets(g1) = Targets(g) BY <1>1, NearTest
<1> HIDE DEF g1
<1>10. Safe(g, g2, o, at, n, {}, t.stack_top) /\ g2.blocks = g.blocks BY <1>1, <1>6, <1>7, <1>9, SafeBack
<1> HIDE DEF g2
<1>11. PICK m \in Nat : m = k + 1 /\ m # 0 BY <1>3
<1>12. /\ Len(g2.blocks) = m + 1 /\ at[n] <= m /\ t.stack_top \in Int /\ m + 1 = k + 2
  BY <1>3, <1>4, <1>6, <1>10, <1>11
<1>13. Bottom(g2, m + 1) <= t.stack_top BY <1>3, <1>6, <1>10, <1>12 DEF Bottom
<1>14. Safe(g, g3, o, at, n, {}, StackTop(g3)) /\ Len(g3.blocks) = m /\ StackTop(g3) = Bottom(g, m + 1)
  BY <1>1, <1>10, <1>11, <1>12, <1>13, SafeExit
<1> HIDE DEF g3
<1>15. StackTop(g3) = Bottom(g, k + 1) BY <1>5, <1>12, <1>14
<1>16. Ok(h) BY <1>8
<1>17. Safe(g, h, o, at, n, {}, StackTop(h)) /\ Len(h.blocks) = k
  <2>1. Len(g3.blocks) = k + 1 /\ at[n] = k BY <1>3, <1>11, <1>14
  <2>2. Ok(ExitBlock(JumpTarget(g3, Break))) BY <1>16
  <2> HIDE DEF h
  <2>3. BreakLeft(g, g3, ExitBlock(JumpTarget(g3, Break)), o, at, n, {}, k)
    BY <1>1, <1>3, <1>14, <1>15, <2>1, <2>2, BreakEnds
  <2> QED BY <2>3 DEF BreakLeft, h
<1> HIDE DEF h
<1>18. Fenced(h, o, n - 1) BY <1>3, <1>17, ClosedSame
<1> QED BY <1>8, <1>18

(* Of a loop that keeps state the block that a break leaves ends as well. *)
LEMMA BreakMid ==
    ASSUME NEW f0, NEW o, NEW at, NEW n, Context(f0, o, at, n), NEW X, NEW g,
           Mid(f0, g, o, at, n, X), NEW k \in Nat, k # 0, at[n] = k, Len(g.blocks) = k + 1,
           StackTop(g) = Bottom(f0, k + 1)
    PROVE  Mid(f0, ExitBlock(JumpTarget(g, Break)), o, at, n, X)
<1> DEFINE e == JumpTarget(g, Break)
<1>1. Regular(f0) /\ Ranged(o, at, n) /\ Held(f0, o, at, n, Len(f0.blocks)) BY DEF Context
<1>2. Regular(g) /\ Len(g.blocks) > 0 BY <1>1, MidRegular
<1>3. Bottom(g, k + 1) = Bottom(f0, k + 1)
  <2>1. k + 1 \in 1..Len(g.blocks) OBVIOUS
  <2> QED BY <2>1 DEF Mid
<1>4. Patchable(g, Break) BY <1>2, <1>3, BreakPatchable
<1>5. Mid(f0, e, o, at, n, X) /\ e.blocks = g.blocks BY <1>1, <1>4, BreakTyped, MidTarget
<1>6. Len(e.blocks) = k + 1 /\ at[n] <= k BY <1>5
<1> HIDE DEF e
<1>7. Mid(f0, ExitBlock(e), o, at, n, X) BY <1>1, <1>5, <1>6, MidExit
<1> QED BY <1>7 DEF e

(* What is common to both loops that keep state. *)
LEMMA LoopFenced ==
    ASSUME NEW g, NEW o, NEW at, NEW n, Ending(g, o, at, n), Fenced(g, o, n), NEW X, Context(g, o, at, n),
           NEW k \in Nat, k # 0, at[n] = k,
           NEW j, Safe(g, j, o, at, n, X, StackTop(j)), Len(j.blocks) = k + 1, StackTop(j) = Bottom(g, k + 1),
           o[n].kind = "for" => \A i \in 1..Len(j.ops) : i = o[n].labels[2] => ~Unprepared(j.ops[i]),
           NEW base, NEW h, h = [ExitBlock(JumpTarget(j, Break)) EXCEPT !.alloc = PopTo(@, base)],
           Ok(h), Regular(h)
    PROVE  Fenced(h, o, n - 1)
<1> DEFINE e == ExitBlock(JumpTarget(j, Break))
<1>1. Mid(g, e, o, at, n, X) BY BreakMid DEF Safe
<1>2. Regular(e) BY <1>1, MidRegular DEF Context
<1> HIDE DEF e
<1>3. Keeps(e, h, {"alloc"})
  <2>1. IsFunctionRecord(e) BY <1>2 DEF Regular
  <2>2. h = [e EXCEPT !.alloc = PopTo(@, base)] BY DEF e
  <2> QED BY <2>1, <2>2 DEF Keeps, IsFunctionRecord
<1>4. Ok(e) BY <1>3 DEF Keeps, Ok
<1>5. BreakLeft(g, j, e, o, at, n, X, k)
  <2>1. Ok(ExitBlock(JumpTarget(j, Break))) BY <1>4 DEF e
  <2>2. BreakLeft(g, j, ExitBlock(JumpTarget(j, Break)), o, at, n, X, k) BY <2>1, BreakEnds
  <2> QED BY <2>2 DEF e
<1>6. Safe(g, e, o, at, n, X, StackTop(e)) /\ Len(e.blocks) = at[n] BY <1>5 DEF BreakLeft
<1>7. o[n].kind = "for" => \A i \in 1..Len(e.ops) : i = o[n].labels[2] => ~Unprepared(e.ops[i])
  BY <1>5 DEF BreakLeft, Prepares
<1> QED BY <1>3, <1>6, <1>7, ClosedFenced

(* The state of the loop is in none of the locals, and all of them are in scope where it
   begins. *)
LEMMA LoopFree ==
    ASSUME NEW g, NEW o, NEW at, NEW n, Ending(g, o, at, n), Fenced(g, o, n), HasState(o[n]), NEW X,
           NEW h, Safe(g, h, o, at, n, X, StackTop(h)), StackTop(h) = Bottom(g, at[n] + 1)
    PROVE  /\ o[n].labels[1] \in Nat /\ o[n].labels[2] \in Nat /\ StackTop(h) = o[n].labels[1] + 3
           /\ 1 <= o[n].labels[2] /\ o[n].labels[2] <= Len(h.ops) + 1
           /\ \A k \in 1..Len(h.locals) : /\ h.locals[k].reg \in Nat /\ h.locals[k].reg < o[n].labels[1]
                                          /\ h.locals[k].from \in Nat /\ h.locals[k].from <= o[n].labels[2]
<1>1. n \in 1..n /\ Typed(o[n]) /\ Fits(o[n], at[n], g) /\ Ranged(o, at, n) /\ Mid(g, h, o, at, n, X) /\ Regular(g)
  BY EndingStart DEF Safe
<1>2. o[n].labels[1] \in Nat /\ o[n].labels[2] \in Nat /\ StackTop(h) = o[n].labels[1] + 3
  BY <1>1 DEF Typed, Fits
<1>3. Regular(h) BY <1>1, MidRegular
<1>4. /\ 1 <= o[n].labels[2] /\ o[n].labels[2] <= Len(g.ops) + 1
      /\ \A k \in 1..Len(g.locals) : g.locals[k].reg < o[n].labels[1] + 3 => g.locals[k].from <= o[n].labels[2]
  BY <1>1 DEF Fenced, LoopsWait
<1>5. Len(g.ops) \in Nat /\ Len(h.ops) \in Nat /\ Len(g.ops) <= Len(h.ops) BY <1>1, <1>3, RegularParts DEF Safe, Track
<1>6. o[n].labels[2] <= Len(h.ops) + 1 BY <1>2, <1>4, <1>5
<1>7. ASSUME NEW k \in 1..Len(h.locals)
      PROVE  /\ h.locals[k].reg \in Nat /\ h.locals[k].reg < o[n].labels[1]
             /\ h.locals[k].from \in Nat /\ h.locals[k].from <= o[n].labels[2]
  <2>1. h.locals[k].reg \in Nat /\ h.locals[k].from \in Nat /\ h.locals[k].reg < StackTop(h) BY <1>3, GuardTypes
  <2>2. k \in 1..Len(g.locals) /\ h.locals[k] = g.locals[k] BY DEF Safe, Track
  <2>3. h.locals[k].from <= o[n].labels[2] BY <1>2, <1>4, <2>1, <2>2
  <2>4. ~Reserved(o[n], h.locals[k].reg)
    <3>1. Registered(h, o, n) BY <1>1 DEF Mid
    <3>2. IsLocal(h.locals, h.locals[k].reg) BY DEF IsLocal
    <3> QED BY <1>1, <2>1, <3>1, <3>2 DEF Registered
  <2>5. h.locals[k].reg < o[n].labels[1] BY <1>2, <2>1, <2>4 DEF Reserved
  <2> QED BY <2>1, <2>3, <2>5
<1> QED BY <1>2, <1>4, <1>6, <1>7

(* The instruction of the test of a loop. *)
LEMMA LoopInstr ==
    ASSUME NEW w, NEW t
    PROVE  LET x == [Instr("forloop", w) EXCEPT !.target = t]
           IN  x.op = "forloop" /\ x.target = t /\ x.close = None /\ x.captures = None /\ x.writes = w
BY DEF Instr

(* An instruction that writes. *)
LEMMA WriteInstr ==
    ASSUME NEW w
    PROVE  LET x == Instr("write", w)
           IN  x.op = "write" /\ x.close = None /\ x.captures = None /\ x.writes = w
BY DEF Instr

(* The end of for. *)
LEMMA FencedFor ==
    ASSUME NEW g, NEW o, NEW at, NEW n, Ending(g, o, at, n), Fenced(g, o, n), Ok(g), o[n].kind = "for",
           NoGotoLeaves(g, at[n]), Ok(CloseFor(g, o[n].labels))
    PROVE  Fenced(CloseFor(g, o[n].labels), o, n - 1)
<1> DEFINE c == o[n]
           base == c.labels[1]
           prep == c.labels[2]
           X == {prep}
           loop == [Instr("forloop", {base, base + 3}) EXCEPT !.target = prep + 1]
           e == ExitBlock(g)
           e1 == Emit(e, loop)
           j == Retargeted(e1, prep, Pc(e))
           h == CloseFor(g, c.labels)
<1>1. Safe(g, g, o, at, n, X, StackTop(g)) /\ Context(g, o, at, n) BY SafeStart
<1>2. /\ at[n] \in Nat /\ at[n] # 0 /\ at[n] + BlocksOf(c) = Len(g.blocks) /\ Fits(c, at[n], g)
      /\ PrepWaits(c, g.ops) /\ Regular(g) /\ n \in 1..n
  BY EndingStart DEF Ranged
<1>3. PICK k \in Nat : k = at[n] /\ k # 0 BY <1>2
<1>4. Len(g.blocks) = k + 2 /\ HasState(c) BY <1>2, <1>3 DEF Ending, BlocksOf, HasState
<1>5. Bottom(g, k + 2) = Bottom(g, k + 1) BY <1>2, <1>3, <1>4 DEF Fits
<1>6. PICK m \in Nat : m = k + 1 /\ m # 0 BY <1>3
<1>7. /\ Len(g.blocks) = m + 1 /\ at[n] <= m /\ m + 1 = k + 2 BY <1>3, <1>4, <1>6
<1>8. Bottom(g, m + 1) <= StackTop(g) /\ StackTop(g) \in Int
  <2>1. m + 1 \in 1..Len(g.blocks) BY <1>7
  <2> QED BY <1>2, <2>1, BottomsRise, RegularParts
<1>9. Safe(g, e, o, at, n, X, StackTop(e)) /\ Len(e.blocks) = m /\ StackTop(e) = Bottom(g, m + 1)
  BY <1>1, <1>6, <1>7, <1>8, SafeExit
<1>10. Laid(h, o, at, n - 1)
  <2>1. CloseAs(g, h, o, at, n) BY CloseForLaid
  <2> QED BY <2>1 DEF CloseAs
<1> HIDE DEF e
<1>11. StackTop(e) = Bottom(g, at[n] + 1) BY <1>3, <1>5, <1>7, <1>9
<1>12. /\ base \in Nat /\ prep \in Nat /\ StackTop(e) = base + 3
       /\ 1 <= prep /\ prep <= Len(e.ops) + 1
       /\ \A i \in 1..Len(e.locals) : /\ e.locals[i].reg \in Nat /\ e.locals[i].reg < base
                                      /\ e.locals[i].from \in Nat /\ e.locals[i].from <= prep
  BY <1>4, <1>9, <1>11, LoopFree
<1>13. Regular(e) /\ Len(e.ops) \in Nat BY <1>1, <1>9, MidRegular, RegularParts DEF Safe, Context
<1>14. prep \in 1..Len(e.ops) /\ e.ops[prep] = Instr("forprep", base..(base + 2))
  <2>1. Safe(g, ExitBlock(g), o, at, n, {}, StackTop(ExitBlock(g)))
    BY <1>6, <1>7, <1>8, SafeStart, SafeExit
  <2>2. Mid(g, e, o, at, n, {}) BY <2>1 DEF Safe, e
  <2>3. Beyond(g, e, Len(e.blocks), {}) BY <2>2 DEF Mid
  <2>4. PrepWaits(c, e.ops) BY <1>2, <2>3, PrepKept
  <2> QED BY <2>4 DEF PrepWaits
<1>15. loop.op = "forloop" /\ loop.target = prep + 1 /\ loop.close = None /\ loop.captures = None
       /\ loop.writes = {base, base + 3}
  BY LoopInstr
<1>16. loop \in Instrs
  <2>1. {base, base + 3} \in SUBSET Int /\ prep + 1 \in Int BY <1>12
  <2> QED BY <2>1, LoopTyped
<1> HIDE DEF loop, X
<1>17. Harmless(e, loop)
  <2>1. \A i \in 1..Len(e.locals) : e.locals[i].reg \notin loop.writes /\ e.locals[i].from <= prep + 1
    <3> TAKE i \in 1..Len(e.locals)
    <3>1. e.locals[i].reg # base /\ e.locals[i].reg # base + 3 /\ e.locals[i].from <= prep + 1
      <4> HIDE DEF base, prep
      <4> QED BY <1>12
    <3> QED BY <1>15, <3>1
  <2>2. 1 <= prep + 1 /\ prep + 1 <= Len(e.ops) + 1 BY <1>12, <1>13, <1>14
  <2> QED BY <1>15, <2>1, <2>2 DEF Harmless
<1>18. /\ Safe(g, e1, o, at, n, X, StackTop(e1)) /\ e1.blocks = e.blocks /\ StackTop(e1) = StackTop(e)
       /\ e1.scopes = e.scopes /\ e1.ops = Append(e.ops, loop)
  <2>1. loop.op \in {"write", "forloop"} BY <1>15
  <2> QED BY <1>1, <1>9, <1>16, <1>17, <2>1, SafePlain
<1>19. /\ Len(e1.ops) = Len(e.ops) + 1 /\ prep \in 1..Len(e1.ops) /\ e1.ops[prep].op = "forprep"
       /\ Pc(e) \in Nat /\ prep <= Pc(e) /\ Pc(e) <= Len(e1.ops) /\ prep \in X
  <2>1. Len(e1.ops) = Len(e.ops) + 1 /\ \A i \in 1..Len(e.ops) : e1.ops[i] = e.ops[i]
    BY <1>13, <1>16, <1>18, Appended DEF Regular
  <2>2. e1.ops[prep] = Instr("forprep", base..(base + 2)) BY <1>14, <2>1
  <2>3. e1.ops[prep].op = "forprep" BY <2>2, TestTyped
  <2>4. prep \in X BY DEF X
  <2> QED BY <1>12, <1>13, <1>14, <2>1, <2>3, <2>4 DEF Pc
<1>20. \A s \in e1.scopes : ~(s.from <= prep /\ prep < s.to)
  <2>1. Track(g, e, o, at, n) /\ LoopsWait(g, o, n) BY <1>9 DEF Safe, Fenced
  <2>2. \A s \in e.scopes : s.from <= prep /\ prep < s.to => FALSE BY <1>2, <2>1, NoScopeAround
  <2> QED BY <1>18, <2>2
<1> HIDE DEF e1
<1>21. /\ Safe(g, j, o, at, n, X, StackTop(j)) /\ j.blocks = e1.blocks /\ StackTop(j) = StackTop(e1)
       /\ ~Unprepared(j.ops[prep])
  <2> HIDE DEF prep
  <2> QED BY <1>1, <1>18, <1>19, <1>20, SafeRetarget
<1>22. h = [ExitBlock(JumpTarget(j, Break)) EXCEPT !.alloc = PopTo(@, base)]
  <2>1. CloseFor(g, c.labels) =
          LET jj == IF e.ops[prep] = Instr("forprep", base..(base + 2)) THEN j ELSE Fail(e, "panic")
              kk == ExitBlock(JumpTarget(jj, Break))
          IN  [kk EXCEPT !.alloc = PopTo(@, base)]
    BY Zenon DEF CloseFor, Retargeted, e, e1, j, loop
  <2> QED BY <1>14, <2>1
<1>23. Regular(h) BY <1>10 DEF Laid
<1>24. Ok(h) OBVIOUS
<1> HIDE DEF h, j
<1>25. Len(j.blocks) = k + 1 /\ StackTop(j) = Bottom(g, k + 1) /\ at[n] = k BY <1>3, <1>6, <1>9, <1>11, <1>18, <1>21
<1>26. \A i \in 1..Len(j.ops) : i = o[n].labels[2] => ~Unprepared(j.ops[i]) BY <1>21
<1>27. Fenced(h, o, n - 1) BY <1>1, <1>3, <1>21, <1>22, <1>23, <1>24, <1>25, <1>26, LoopFenced
<1> QED BY <1>27 DEF h

(* The end of for ... in. *)
LEMMA FencedForIn ==
    ASSUME NEW g, NEW o, NEW at, NEW n, Ending(g, o, at, n), Fenced(g, o, n), Ok(g), o[n].kind = "forin",
           NoGotoLeaves(g, at[n]), Ok(CloseForIn(g, o[n].labels))
    PROVE  Fenced(CloseForIn(g, o[n].labels), o, n - 1)
<1> DEFINE c == o[n]
           base == c.labels[1]
           start == c.labels[2]
           l == c.labels[3]
           call == Instr("write", {base + 3})
           loop == [Instr("forloop", {base + 2}) EXCEPT !.target = start]
           e == JumpTarget(ExitBlock(g), l)
           e1 == Emit(e, call)
           j == Emit(e1, loop)
           h == CloseForIn(g, c.labels)
<1>1. Safe(g, g, o, at, n, {}, StackTop(g)) /\ Context(g, o, at, n) BY SafeStart
<1>2. /\ at[n] \in Nat /\ at[n] # 0 /\ at[n] + BlocksOf(c) = Len(g.blocks) /\ Fits(c, at[n], g)
      /\ Regular(g) /\ n \in 1..n
  BY EndingStart DEF Ranged
<1>3. PICK k \in Nat : k = at[n] /\ k # 0 BY <1>2
<1>4. Len(g.blocks) = k + 2 /\ HasState(c) BY <1>2, <1>3 DEF Ending, BlocksOf, HasState
<1>5. Bottom(g, k + 2) = Bottom(g, k + 1) BY <1>2, <1>3, <1>4 DEF Fits
<1>6. PICK m \in Nat : m = k + 1 /\ m # 0 BY <1>3
<1>7. /\ Len(g.blocks) = m + 1 /\ at[n] <= m /\ m + 1 = k + 2 BY <1>3, <1>4, <1>6
<1>8. Awaits(c, l) BY DEF Awaits
<1>9. l \in JumpLabels BY <1>8, EndingWaits
<1>10. Laid(h, o, at, n - 1)
  <2>1. CloseAs(g, h, o, at, n) BY CloseForInLaid
  <2> QED BY <2>1 DEF CloseAs
<1>11. h = [ExitBlock(JumpTarget(j, Break)) EXCEPT !.alloc = PopTo(@, base)] BY DEF CloseForIn
<1>12. Regular(h) BY <1>10 DEF Laid
<1>13. Ok(h) OBVIOUS
<1> HIDE DEF h, call, loop
<1>14. Ok(e)
  <2>1. LowBut(g, {Break} \union {x \in UniqueLabels : Awaits(c, x)}, at[n]) BY LowStart
  <2>2. Ranged(o, at, n) /\ Mid(g, g, o, at, n, {}) /\ Held(g, o, at, n, Len(g.blocks)) BY EndingStart
  <2>3. WaitsIn(g, l, m)
    <3>1. \A p \in g.pending_jumps : p.target = l => p.block_index = at[n] + 2 BY <1>8, EndingWaits
    <3> QED BY <1>3, <1>7, <3>1 DEF WaitsIn
  <2>4. l \in UniqueLabels BY <1>8, EndingWaits
  <2>5. Mid(g, e, o, at, n, {}) /\ Len(e.blocks) = m /\ StackTop(e) = Bottom(g, m + 1)
    BY <1>2, <1>7, <2>2, <2>3, <2>4, ExitThenTarget
  <2> HIDE DEF e
  <2>6. /\ call \in Instrs /\ call.op # "jump" /\ loop \in Instrs /\ loop.op # "jump"
    <3>1. base \in Nat /\ start \in Nat BY <1>4, EndingStart DEF Typed
    <3>2. {base + 3} \in SUBSET Int /\ {base + 2} \in SUBSET Int /\ start \in Int BY <3>1
    <3> QED BY <3>2, LoopTyped, TestTyped DEF call, loop
  <2>7. Mid(g, e1, o, at, n, {}) /\ e1.blocks = e.blocks /\ StackTop(e1) = StackTop(e) /\ e1.error = e.error
    BY <1>2, <2>2, <2>5, <2>6, MidEmit
  <2> HIDE DEF e1
  <2>8. Mid(g, j, o, at, n, {}) /\ j.blocks = e1.blocks /\ StackTop(j) = StackTop(e1) /\ j.error = e1.error
    BY <1>2, <2>2, <2>6, <2>7, MidEmit
  <2> HIDE DEF j
  <2> DEFINE x == ExitBlock(JumpTarget(j, Break))
  <2>9. /\ Len(j.blocks) = k + 1 /\ StackTop(j) = Bottom(g, k + 1)
    BY <1>5, <1>6, <1>7, <2>5, <2>7, <2>8
  <2>10. Mid(g, x, o, at, n, {}) BY <1>1, <1>3, <2>8, <2>9, BreakMid
  <2>11. Regular(x) BY <2>2, <2>10, MidRegular
  <2>12. x.error = JumpTarget(j, Break).error
    <3>1. Regular(j) /\ Len(j.blocks) > 0 BY <2>2, <2>8, MidRegular
    <3>2. Bottom(j, Len(j.blocks)) = StackTop(j)
      <4>1. k + 1 \in 1..Len(j.blocks) BY <2>9
      <4> QED BY <2>8, <2>9, <4>1 DEF Mid
    <3>3. Patchable(j, Break) BY <3>1, <3>2, BreakPatchable
    <3> DEFINE y == JumpTarget(j, Break)
    <3>4. Mid(g, y, o, at, n, {}) /\ y.blocks = j.blocks BY <1>2, <2>2, <2>8, <3>3, BreakTyped, MidTarget
    <3>5. Len(y.blocks) = k + 1 /\ at[n] <= k BY <1>3, <2>9, <3>4
    <3> HIDE DEF y
    <3>6. ExitBlock(y).error = y.error BY <1>2, <2>2, <3>4, <3>5, MidExit
    <3> QED BY <3>6 DEF y
  <2>13. h.error = x.error
    <3>1. IsFunctionRecord(x) BY <2>11 DEF Regular
    <3> HIDE DEF x
    <3>2. h = [x EXCEPT !.alloc = PopTo(@, base)] BY <1>11 DEF x
    <3> QED BY <3>1, <3>2 DEF IsFunctionRecord
  <2> HIDE DEF x
  <2>14. Ok(JumpTarget(j, Break)) BY <1>13, <2>12, <2>13 DEF Ok
  <2>15. Ok(j) BY <2>14, TargetOk
  <2> QED BY <2>7, <2>8, <2>15 DEF Ok
<1>15. Safe(g, e, o, at, n, {}, StackTop(e)) /\ Len(e.blocks) = m /\ StackTop(e) = Bottom(g, m + 1)
  BY <1>1, <1>6, <1>7, <1>8, <1>9, <1>14, ExitTargetSafe
<1> HIDE DEF e
<1>16. StackTop(e) = Bottom(g, at[n] + 1) BY <1>3, <1>5, <1>7, <1>15
<1>17. /\ base \in Nat /\ start \in Nat /\ StackTop(e) = base + 3
       /\ 1 <= start /\ start <= Len(e.ops) + 1
       /\ \A i \in 1..Len(e.locals) : /\ e.locals[i].reg \in Nat /\ e.locals[i].reg < base
                                      /\ e.locals[i].from \in Nat /\ e.locals[i].from <= start
  BY <1>4, <1>15, <1>16, LoopFree
<1>18. Regular(e) /\ Len(e.ops) \in Nat BY <1>1, <1>15, MidRegular, RegularParts DEF Safe, Context
<1>19. /\ call.op = "write" /\ call.close = None /\ call.captures = None /\ call.writes = {base + 3}
  BY WriteInstr DEF call
<1>20. /\ loop.op = "forloop" /\ loop.target = start /\ loop.close = None /\ loop.captures = None
       /\ loop.writes = {base + 2}
  BY LoopInstr DEF loop
<1>21. call \in Instrs /\ loop \in Instrs
  <2>1. {base + 3} \in SUBSET Int /\ {base + 2} \in SUBSET Int /\ start \in Int BY <1>17
  <2> QED BY <2>1, LoopTyped, TestTyped DEF call, loop
<1>22. \A i \in 1..Len(e.locals) : e.locals[i].reg # base + 3 /\ e.locals[i].reg # base + 2
  <2> HIDE DEF base, start
  <2> QED BY <1>17
<1>23. Harmless(e, call) BY <1>19, <1>22 DEF Harmless
<1>24. /\ Safe(g, e1, o, at, n, {}, StackTop(e1)) /\ e1.blocks = e.blocks /\ StackTop(e1) = StackTop(e)
       /\ e1.locals = e.locals /\ e1.ops = Append(e.ops, call)
  <2>1. call.op \in {"write", "forloop"} BY <1>19
  <2> QED BY <1>1, <1>15, <1>21, <1>23, <2>1, SafePlain
<1> HIDE DEF e1
<1>25. Harmless(e1, loop)
  <2>1. Len(e1.ops) = Len(e.ops) + 1 BY <1>18, <1>21, <1>24, Appended DEF Regular
  <2>2. 1 <= start /\ start <= Len(e1.ops) + 1
    <3> HIDE DEF start
    <3> QED BY <1>17, <1>18, <2>1
  <2> QED BY <1>17, <1>20, <1>22, <1>24, <2>2 DEF Harmless
<1>26. /\ Safe(g, j, o, at, n, {}, StackTop(j)) /\ j.blocks = e1.blocks /\ StackTop(j) = StackTop(e1)
  <2>1. loop.op \in {"write", "forloop"} BY <1>20
  <2> QED BY <1>1, <1>21, <1>24, <1>25, <2>1, SafePlain
<1> HIDE DEF j
<1>27. Len(j.blocks) = k + 1 /\ StackTop(j) = Bottom(g, k + 1) /\ at[n] = k BY <1>3, <1>6, <1>15, <1>16, <1>24, <1>26
<1>28. o[n].kind # "for" OBVIOUS
<1>29. Fenced(h, o, n - 1) BY <1>1, <1>3, <1>11, <1>12, <1>13, <1>26, <1>27, <1>28, LoopFenced
<1> QED BY <1>29 DEF h

(* Whatever construct is closed, the captured variables stay apart. *)
LEMMA ConstructFenced ==
    ASSUME NEW g, NEW o, NEW at, NEW n, Ending(g, o, at, n), StackTop(g) < Registers, Fenced(g, o, n), Ok(g),
           HasState(o[n]) => NoGotoLeaves(g, at[n]), Ok(Closed(g, o[n].kind, o[n].labels))
    PROVE  Fenced(Closed(g, o[n].kind, o[n].labels), o, n - 1)
<1> DEFINE c == o[n]
<1>1. Typed(c) /\ n \in Nat \ {0} /\ Held(g, o, at, n, Len(g.blocks)) BY EndingStart
<1>2. c.kind # "chunk"
  <2>1. n \in 1..n /\ n # 1 BY <1>1 DEF Ending
  <2> QED BY <1>1, <2>1 DEF Held
<1>3. c.kind \in SourceKinds \union {"else"} BY <1>1, <1>2 DEF Typed
<1>4. CASE c.kind = "do" BY <1>4, FencedDo DEF Closed
<1>5. CASE c.kind = "while" BY <1>5, FencedWhile DEF Closed
<1>6. CASE c.kind = "repeat" BY <1>6, FencedRepeat DEF Closed
<1>7. CASE c.kind = "if" BY <1>7, FencedIf DEF Closed
<1>8. CASE c.kind = "else" BY <1>8, FencedElse DEF Closed
<1>9. CASE c.kind = "for" BY <1>9, FencedFor DEF Closed, HasState
<1>10. CASE c.kind = "forin" BY <1>10, FencedForIn DEF Closed, HasState
<1> QED BY <1>3, <1>4, <1>5, <1>6, <1>7, <1>8, <1>9, <1>10 DEF SourceKinds

(* Of the constructs only kinds and labels matter. *)
LEMMA FencedAlike ==
    ASSUME NEW g, NEW o, NEW n, Fenced(g, o, n), NEW p, \A c \in 1..n : p[c].kind = o[c].kind /\ p[c].labels = o[c].labels
    PROVE  Fenced(g, p, n)
<1>1. \A c \in 1..n : /\ p[c].kind = o[c].kind /\ p[c].labels = o[c].labels
                      /\ HasState(p[c]) <=> HasState(o[c])
                      /\ \A l : Awaits(p[c], l) <=> Awaits(o[c], l)
  BY DEF HasState, Awaits
<1>2. LoopsWait(g, p, n)
  <2>1. LoopsWait(g, o, n) BY DEF Fenced
  <2>2. \A c \in 1..n : p[c].labels[1] = o[c].labels[1] /\ p[c].labels[2] = o[c].labels[2] BY <1>1
  <2>3. \A i \in 1..Len(g.ops) : g.ops[i].op = "forprep" /\ g.ops[i].target = NoTarget =>
            \E c \in 1..n : p[c].kind = "for" /\ p[c].labels[2] = i
    BY <1>1, <2>1, <2>2 DEF LoopsWait
  <2>4. ASSUME NEW c \in 1..n, HasState(p[c])
        PROVE  /\ 1 <= p[c].labels[2] /\ p[c].labels[2] <= Len(g.ops) + 1
               /\ \A k \in 1..Len(g.locals) : g.locals[k].reg < p[c].labels[1] + 3 => g.locals[k].from <= p[c].labels[2]
    <3>1. HasState(o[c]) BY <1>1, <2>4
    <3>2. /\ 1 <= o[c].labels[2] /\ o[c].labels[2] <= Len(g.ops) + 1
          /\ \A k \in 1..Len(g.locals) : g.locals[k].reg < o[c].labels[1] + 3 => g.locals[k].from <= o[c].labels[2]
      BY <2>1, <3>1 DEF LoopsWait
    <3> QED BY <2>2, <3>2
  <2>5. ASSUME NEW c \in 1..n, p[c].kind = "for"
        PROVE  /\ \A k \in 1..Len(g.locals) : g.locals[k].from <= p[c].labels[2] => g.locals[k].reg < p[c].labels[1]
               /\ \A s \in g.scopes : s.from <= p[c].labels[2] /\ p[c].labels[2] < s.to => FALSE
    <3>1. o[c].kind = "for" BY <1>1, <2>5
    <3>2. /\ \A k \in 1..Len(g.locals) : g.locals[k].from <= o[c].labels[2] => g.locals[k].reg < o[c].labels[1]
          /\ \A s \in g.scopes : s.from <= o[c].labels[2] /\ o[c].labels[2] < s.to => FALSE
      BY <2>1, <3>1 DEF LoopsWait
    <3> QED BY <2>2, <3>2
  <2> QED BY <2>3, <2>4, <2>5 DEF LoopsWait
<1>3. Labelled(g, p, n) BY <1>1 DEF Fenced, Labelled
<1> QED BY <1>2, <1>3 DEF Fenced

(* A label the compiler made up has a number. *)
LEMMA TargetLabels ==
    ASSUME NEW g, Regular(g), NEW t \in Targets(g)
    PROVE  t.label.kind = "unique" => t.label.id \in Nat
<1>1. PICK j \in 1..Len(g.jump_targets) : t = g.jump_targets[j] BY DEF Targets
<1>2. g.jump_targets[j] \in JumpTargets BY RegularParts
<1> QED BY <1>1, <1>2 DEF JumpTargets, JumpLabels, Break

(* A step of the walk keeps what the loops under way rely on. *)
Around(g, o, at, n) ==
    /\ n \in Nat /\ Regular(g) /\ g.unique \in Nat
    /\ Held(g, o, at, n, Len(g.blocks)) /\ Distinct(o, n, g.unique)

(* A step within the constructs keeps what they rest on: a local it declares is above the
   top, a scope it ends is of the last block. *)
Keeping(g, h, at, n) ==
    /\ Len(g.ops) <= Len(h.ops)
    /\ \A k \in 1..Len(h.locals) :
          \/ k \in 1..Len(g.locals) /\ h.locals[k] = g.locals[k]
          \/ StackTop(g) <= h.locals[k].reg /\ h.locals[k].reg \in Nat /\ h.locals[k].from = Len(g.ops) + 2
    /\ \A s \in h.scopes :
          \/ s \in g.scopes
          \/ \E k \in 1..Len(g.locals) : Bottom(g, Len(g.blocks)) <= g.locals[k].reg /\ s.from = g.locals[k].from
    /\ \A c \in 1..n : Bottom(h, at[c] + 1) = Bottom(g, at[c] + 1)

(* What LoopsWait says of one construct. *)
LoopRests(g, d) ==
    /\ HasState(d) =>
          /\ 1 <= d.labels[2] /\ d.labels[2] <= Len(g.ops) + 1
          /\ \A k \in 1..Len(g.locals) : g.locals[k].reg < d.labels[1] + 3 => g.locals[k].from <= d.labels[2]
    /\ d.kind = "for" =>
          /\ \A k \in 1..Len(g.locals) : g.locals[k].from <= d.labels[2] => g.locals[k].reg < d.labels[1]
          /\ \A s \in g.scopes : s.from <= d.labels[2] /\ d.labels[2] < s.to => FALSE

(* Such a step keeps what the loops under way rest on. *)
LEMMA LoopsRest ==
    ASSUME NEW g, NEW o, NEW at, NEW n, Around(g, o, at, n), LoopsWait(g, o, n),
           NEW h, Regular(h), Keeping(g, h, at, n)
    PROVE  \A c \in 1..n : LoopRests(h, o[c])
<1>1. /\ n \in Nat /\ Regular(g) /\ Held(g, o, at, n, Len(g.blocks)) /\ Len(g.blocks) \in Nat
      /\ Len(g.ops) \in Nat /\ Len(h.ops) \in Nat /\ StackTop(g) \in Nat
      /\ \A k \in 1..Len(g.locals) : g.locals[k].reg \in Nat
  BY RegularParts DEF Around
<1>2. Len(g.ops) <= Len(h.ops) BY DEF Keeping
<1>3. ASSUME NEW c \in 1..n, HasState(o[c])
      PROVE  /\ o[c].labels[1] \in Nat /\ o[c].labels[2] \in Nat
             /\ o[c].labels[1] + 3 <= Bottom(g, Len(g.blocks)) /\ Bottom(g, Len(g.blocks)) <= StackTop(g)
             /\ Bottom(g, Len(g.blocks)) \in Nat
             /\ 1 <= o[c].labels[2] /\ o[c].labels[2] <= Len(g.ops) + 1
  <2>1. Typed(o[c]) /\ Fits(o[c], at[c], g) BY <1>1 DEF Held
  <2>2. o[c].labels[1] \in Nat /\ o[c].labels[2] \in Nat /\ Bottom(g, at[c] + 1) = o[c].labels[1] + 3
    BY <1>3, <2>1 DEF Typed, Fits
  <2>3. at[c] \in Nat /\ BlocksOf(o[c]) \in 1..3 /\ at[c] + BlocksOf(o[c]) <= Len(g.blocks)
    BY <1>1, HeldRange
  <2>4. at[c] + 1 \in 1..Len(g.blocks) /\ Len(g.blocks) \in 1..Len(g.blocks) /\ at[c] + 1 <= Len(g.blocks)
    BY <1>1, <2>3
  <2>5. /\ Bottom(g, at[c] + 1) <= Bottom(g, Len(g.blocks)) /\ Bottom(g, Len(g.blocks)) <= StackTop(g)
        /\ Bottom(g, Len(g.blocks)) \in Nat
    BY <1>1, <2>4, BottomsRise
  <2> QED BY <1>3, <2>2, <2>5 DEF LoopsWait
<1>4. ASSUME NEW c \in 1..n, HasState(o[c])
      PROVE  /\ 1 <= o[c].labels[2] /\ o[c].labels[2] <= Len(h.ops) + 1
             /\ \A k \in 1..Len(h.locals) : h.locals[k].reg < o[c].labels[1] + 3 => h.locals[k].from <= o[c].labels[2]
  <2>1. o[c].labels[2] <= Len(h.ops) + 1 BY <1>1, <1>2, <1>3, <1>4
  <2>2. ASSUME NEW k \in 1..Len(h.locals), h.locals[k].reg < o[c].labels[1] + 3
        PROVE  h.locals[k].from <= o[c].labels[2]
    <3>1. CASE k \in 1..Len(g.locals) /\ h.locals[k] = g.locals[k] BY <1>4, <2>2, <3>1 DEF LoopsWait
    <3>2. CASE StackTop(g) <= h.locals[k].reg /\ h.locals[k].reg \in Nat
      <4> DEFINE b == Bottom(g, Len(g.blocks))  u == StackTop(g)  r == h.locals[k].reg  l == o[c].labels[1]
      <4>1. l \in Nat /\ b \in Nat /\ u \in Nat /\ r \in Nat BY <1>1, <1>3, <1>4, <3>2
      <4>2. l + 3 <= b /\ b <= u /\ u <= r /\ r < l + 3 BY <1>3, <1>4, <2>2, <3>2
      <4> HIDE DEF b, u, r, l
      <4> QED BY <4>1, <4>2
    <3> QED BY <3>1, <3>2 DEF Keeping
  <2> QED BY <1>3, <1>4, <2>1, <2>2
<1>5. ASSUME NEW c \in 1..n, o[c].kind = "for"
      PROVE  /\ \A k \in 1..Len(h.locals) : h.locals[k].from <= o[c].labels[2] => h.locals[k].reg < o[c].labels[1]
             /\ \A s \in h.scopes : s.from <= o[c].labels[2] /\ o[c].labels[2] < s.to => FALSE
  <2>1. /\ o[c].labels[1] \in Nat /\ o[c].labels[2] \in Nat
        /\ o[c].labels[1] + 3 <= Bottom(g, Len(g.blocks)) /\ Bottom(g, Len(g.blocks)) \in Nat
        /\ o[c].labels[2] <= Len(g.ops) + 1
    BY <1>3, <1>5 DEF HasState
  <2>2. /\ \A k \in 1..Len(g.locals) : g.locals[k].from <= o[c].labels[2] => g.locals[k].reg < o[c].labels[1]
        /\ \A s \in g.scopes : s.from <= o[c].labels[2] /\ o[c].labels[2] < s.to => FALSE
    BY <1>5 DEF LoopsWait
  <2>3. ASSUME NEW k \in 1..Len(h.locals), h.locals[k].from <= o[c].labels[2]
        PROVE  h.locals[k].reg < o[c].labels[1]
    <3>1. CASE k \in 1..Len(g.locals) /\ h.locals[k] = g.locals[k] BY <2>2, <2>3, <3>1
    <3>2. CASE h.locals[k].from = Len(g.ops) + 2 BY <1>1, <2>1, <2>3, <3>2
    <3> QED BY <3>1, <3>2 DEF Keeping
  <2>4. ASSUME NEW s \in h.scopes, s.from <= o[c].labels[2], o[c].labels[2] < s.to PROVE FALSE
    <3>1. s \notin g.scopes BY <2>2, <2>4
    <3>2. PICK k \in 1..Len(g.locals) : Bottom(g, Len(g.blocks)) <= g.locals[k].reg /\ s.from = g.locals[k].from
      BY <3>1 DEF Keeping
    <3>3. g.locals[k].reg < o[c].labels[1] BY <2>2, <2>4, <3>2
    <3> HIDE DEF Bottom
    <3>4. g.locals[k].reg \in Nat BY <1>1, <3>2
    <3> QED BY <2>1, <3>2, <3>3, <3>4
  <2> QED BY <2>3, <2>4
<1> QED BY <1>4, <1>5 DEF LoopRests

(* No label placed anew is one that a construct under way uses. *)
NewTargets(g, h) ==
    /\ g.unique <= h.unique
    /\ \A t \in Targets(h) :
          \/ t \in Targets(g) \/ t.label.kind = "named"
          \/ t.label \in UniqueLabels /\ g.unique <= t.label.id /\ t.label.id < h.unique

(* And their labels. *)
LEMMA LabelsRest ==
    ASSUME NEW g, NEW o, NEW at, NEW n, Around(g, o, at, n), Labelled(g, o, n),
           NEW h, Regular(h), h.unique \in Nat, Keeping(g, h, at, n), NewTargets(g, h)
    PROVE  Labelled(h, o, n)
<1>1. n \in Nat /\ Held(g, o, at, n, Len(g.blocks)) /\ Distinct(o, n, g.unique) /\ g.unique \in Nat /\ h.unique \in Nat
  BY DEF Around
<1>2. /\ Break.kind = "break" /\ \A l \in UniqueLabels : l.kind = "unique" /\ l.id \in Nat
  BY DEF Break, UniqueLabels
<1>3. \A t \in Targets(h) :
          \/ t \in Targets(g) \/ t.label.kind = "named"
          \/ t.label \in UniqueLabels /\ g.unique <= t.label.id /\ t.label.id < h.unique
  BY DEF NewTargets
<1>4. \A t \in Targets(h) : /\ t.label # Break
                            /\ t.label.kind = "unique" => t.label.id < h.unique
  <2> TAKE t \in Targets(h)
  <2>1. CASE t \in Targets(g)
    <3>1. /\ t.label # Break /\ (t.label.kind = "unique" => t.label.id < g.unique) /\ g.unique <= h.unique
      BY <2>1 DEF Labelled, NewTargets
    <3>2. t.label.kind = "unique" => t.label.id \in Nat BY <2>1, TargetLabels
    <3> QED BY <1>1, <3>1, <3>2
  <2>2. CASE t.label.kind = "named" BY <1>2, <2>2
  <2>3. CASE t.label \in UniqueLabels /\ t.label.id < h.unique BY <1>2, <2>3
  <2> QED BY <1>3, <2>1, <2>2, <2>3
<1>5. \A c \in 1..n : \A t \in Targets(h) : ~Awaits(o[c], t.label)
  <2> SUFFICES ASSUME NEW c \in 1..n, NEW t \in Targets(h), Awaits(o[c], t.label) PROVE FALSE OBVIOUS
  <2>1. t.label \in UniqueLabels /\ t.label.id < g.unique BY <1>1 DEF Distinct
  <2>2. t \notin Targets(g) BY DEF Labelled
  <2> QED BY <1>1, <1>2, <1>3, <2>1, <2>2
<1>6. ASSUME NEW c \in 1..n, o[c].kind \in {"while", "repeat"}
      PROVE  /\ \A t, u \in Targets(h) : t.label = o[c].labels[1] /\ u.label = o[c].labels[1] => t = u
             /\ \A t \in Targets(h) : t.label = o[c].labels[1] /\ o[c].kind = "while" =>
                   Bottom(h, t.block_index + 1) <= t.stack_top
  <2>1. Typed(o[c]) /\ Fits(o[c], at[c], g) BY <1>1 DEF Held
  <2>2. o[c].labels[1] \in UniqueLabels BY <1>6, <2>1 DEF Typed
  <2>6. o[c].labels[1].id < g.unique
    <3>1. PICK t \in Targets(g) : t.label = o[c].labels[1] BY <1>6, <2>1 DEF Fits
    <3> QED BY <1>2, <2>2, <3>1 DEF Labelled
  <2>3. \A t \in Targets(h) : t.label = o[c].labels[1] => t \in Targets(g)
    <3> SUFFICES ASSUME NEW t \in Targets(h), t.label = o[c].labels[1], t \notin Targets(g) PROVE FALSE OBVIOUS
    <3>1. t.label \in UniqueLabels /\ t.label.kind = "unique" BY <1>2, <2>2
    <3>2. g.unique <= t.label.id BY <1>3, <3>1
    <3> QED BY <1>1, <1>2, <2>2, <2>6, <3>2
  <2>4. /\ \A t, u \in Targets(g) : t.label = o[c].labels[1] /\ u.label = o[c].labels[1] => t = u
        /\ \A t \in Targets(g) : t.label = o[c].labels[1] /\ o[c].kind = "while" =>
              Bottom(g, t.block_index + 1) <= t.stack_top
    BY <1>6 DEF Labelled
  <2>5. ASSUME NEW t \in Targets(h), t.label = o[c].labels[1], o[c].kind = "while"
        PROVE  Bottom(h, t.block_index + 1) <= t.stack_top
    <3>1. PICK v \in Targets(g) : v.label = o[c].labels[1] /\ v.block_index = at[c] BY <2>1, <2>5 DEF Fits
    <3>2. t = v BY <2>3, <2>4, <2>5, <3>1
    <3>3. Bottom(h, at[c] + 1) = Bottom(g, at[c] + 1) BY DEF Keeping
    <3> QED BY <2>4, <2>5, <3>1, <3>2, <3>3
  <2> QED BY <2>3, <2>4, <2>5
<1>7. \A c \in 1..n : o[c].kind = "if" => o[c].labels[1] # o[c].labels[2] BY DEF Labelled
<1> QED BY <1>4, <1>5, <1>6, <1>7 DEF Labelled

(* One statement, or the end of a body, keeps the constructs that are open. *)
Steps(g, h, at, n) ==
    /\ h.unique = g.unique /\ Prepares(g, h) /\ Keeping(g, h, at, n)
    /\ \A t \in Targets(h) : t \in Targets(g) \/ t.label.kind = "named"

(* A statement that changes the function in no other way keeps all of it. *)
LEMMA StepFenced ==
    ASSUME NEW g, NEW o, NEW at, NEW n, Laid(g, o, at, n), Fenced(g, o, n),
           NEW h, Regular(h), Steps(g, h, at, n), Guarded(h, StackTop(h)), Settled(h)
    PROVE  Fenced(h, o, n)
<1>1. Around(g, o, at, n) /\ g.unique \in Nat /\ Keeping(g, h, at, n) BY DEF Around, Laid, Held, Steps
<1>2. \A c \in 1..n : LoopRests(h, o[c]) BY <1>1, LoopsRest DEF Fenced
<1>3. \A i \in 1..Len(h.ops) : h.ops[i].op = "forprep" /\ h.ops[i].target = NoTarget =>
          \E c \in 1..n : o[c].kind = "for" /\ o[c].labels[2] = i
  BY DEF Fenced, Steps, Prepares, Unprepared, LoopsWait
<1>4. LoopsWait(h, o, n) BY <1>2, <1>3 DEF LoopRests, LoopsWait
<1>5. h.unique \in Nat /\ NewTargets(g, h) BY <1>1 DEF Steps, NewTargets
<1>6. Labelled(h, o, n) BY <1>1, <1>5, LabelsRest DEF Fenced
<1> QED BY <1>4, <1>6 DEF Fenced

(* Every construct has a block. *)
LEMMA LaidPositions ==
    ASSUME NEW g, NEW o, NEW at, NEW n, Laid(g, o, at, n)
    PROVE  Len(g.blocks) > 0 /\ \A c \in 1..n : at[c] + 1 \in 1..Len(g.blocks)
<1>1. Held(g, o, at, n, Len(g.blocks)) /\ n \in Nat BY DEF Laid, Held
<1>2. ASSUME NEW c \in 1..n PROVE at[c] + 1 \in 1..Len(g.blocks)
  <2>1. at[c] \in Nat /\ BlocksOf(o[c]) \in 1..3 /\ at[c] + BlocksOf(o[c]) <= Len(g.blocks) /\ Len(g.blocks) \in Nat
    BY <1>1, HeldRange
  <2> QED BY <2>1
<1>3. at[n] \in Nat /\ at[n] < Len(g.blocks) /\ Len(g.blocks) \in Nat BY <1>1, HeldRange
<1> QED BY <1>2, <1>3

(* An instruction more is no first jump of a for loop. *)
LEMMA AppendPrepares ==
    ASSUME NEW g, Regular(g), NEW x \in Instrs, x.op # "forprep", NEW h, h.ops = Append(g.ops, x)
    PROVE  Prepares(g, h) /\ (x.op # "test" => Settled(h))
<1>1. LET m == Len(g.ops) + 1
      IN  /\ Len(h.ops) = m /\ m \in Nat
          /\ \A i \in 1..Len(g.ops) : h.ops[i] = g.ops[i]
          /\ h.ops[m] = x /\ \A i \in 1..m : i \in 1..Len(g.ops) \/ i = m
  BY UsedAppended DEF Extends
<1>2. Len(g.ops) \in Nat BY GuardTypes
<1> QED BY <1>1, <1>2 DEF Prepares, Settled, Unprepared

(* A statement that declares nothing and places no label but a named one. *)
LEMMA QuietFenced ==
    ASSUME NEW g, NEW o, NEW at, NEW n, Laid(g, o, at, n), Fenced(g, o, n),
           NEW h, Regular(h), Prepares(g, h), Settled(h), Guarded(h, StackTop(h)),
           h.locals = g.locals, h.scopes = g.scopes, h.unique = g.unique,
           Len(h.blocks) = Len(g.blocks), \A i \in 1..Len(g.blocks) : Bottom(h, i) = Bottom(g, i),
           \A t \in Targets(h) : t \in Targets(g) \/ t.label.kind = "named"
    PROVE  Fenced(h, o, n)
<1>1. Steps(g, h, at, n) BY LaidPositions DEF Steps, Keeping, Prepares
<1> QED BY <1>1, StepFenced

(* An instruction without consequence. *)
LEMMA EmitFenced ==
    ASSUME NEW g, NEW o, NEW at, NEW n, Laid(g, o, at, n), Sound(g), Fenced(g, o, n),
           NEW x \in Instrs, x.op \in {"write", "return"}, Harmless(g, x)
    PROVE  Fenced(Emit(g, x), o, n)
<1> DEFINE h == Emit(g, x)
<1>1. Regular(g) BY DEF Laid
<1>2. /\ Grown(g, h) /\ h.blocks = g.blocks /\ StackTop(h) = StackTop(g)
      /\ h.locals = g.locals /\ h.unique = g.unique /\ h.pending_jumps = g.pending_jumps
  BY <1>1, GrownEmit
<1>3. Regular(h) BY <1>2 DEF Grown, Beyond
<1>4. Keeps(g, h, {"ops"}) /\ h.ops = Append(g.ops, x) BY <1>1, EmitFields DEF Regular
<1> HIDE DEF h
<1>5. SameBut(g, h, Append(g.ops, x)) BY <1>4 DEF SameBut, Keeps
<1>6. Guarded(g, StackTop(g)) /\ StackTop(g) \in Int BY <1>1, GuardTypes DEF Fenced
<1>7. Guarded(h, StackTop(h)) BY <1>1, <1>2, <1>5, <1>6, PlainGuarded
<1>8. Prepares(g, h) /\ Settled(h) BY <1>1, <1>4, AppendPrepares
<1>9. Targets(h) = Targets(g) BY <1>4 DEF Keeps, Targets
<1>10. h.scopes = g.scopes BY <1>5 DEF SameBut
<1>11. \A i \in 1..Len(g.blocks) : Bottom(h, i) = Bottom(g, i) BY <1>2 DEF Bottom
<1>12. Fenced(h, o, n) BY <1>2, <1>3, <1>7, <1>8, <1>9, <1>10, <1>11, QuietFenced
<1> QED BY <1>12 DEF h

(* A break, or a goto to a label not placed yet. *)
LEMMA JumpFenced ==
    ASSUME NEW g, NEW o, NEW at, NEW n, Laid(g, o, at, n), Sound(g), Ok(g), Fenced(g, o, n),
           NEW label \in JumpLabels, label.kind # "unique", \A t \in Targets(g) : t.label # label
    PROVE  Fenced(Jump(g, label), o, n)
<1> DEFINE h == Jump(g, label)
<1>1. Regular(g) /\ Len(g.blocks) > 0 BY LaidPositions DEF Laid
<1>2. Laid(h, o, at, n) /\ StackTop(h) = StackTop(g) BY JumpLaid
<1>3. Guarded(g, StackTop(g)) BY DEF Fenced
<1>4. LongerBy(g, h, "jump") /\ Guarded(h, StackTop(g)) BY <1>1, <1>3, JumpGuarded
<1>5. h.unique = g.unique BY <1>1, GrownJump
<1> HIDE DEF h
<1>6. PICK x \in Instrs : x.op = "jump" /\ h.ops = Append(g.ops, x) BY <1>4 DEF LongerBy
<1>7. Prepares(g, h) /\ Settled(h) BY <1>1, <1>6, AppendPrepares
<1>8. Regular(h) BY <1>2 DEF Laid
<1>9. Targets(h) = Targets(g) BY <1>4 DEF LongerBy, Targets
<1>10. /\ h.locals = g.locals /\ h.scopes = g.scopes /\ Len(h.blocks) = Len(g.blocks)
       /\ \A i \in 1..Len(g.blocks) : Bottom(h, i) = Bottom(g, i)
  BY <1>4 DEF LongerBy, Bottom
<1>11. Guarded(h, StackTop(h)) BY <1>2, <1>4
<1>12. Fenced(h, o, n) BY <1>5, <1>7, <1>8, <1>9, <1>10, <1>11, QuietFenced
<1> QED BY <1>12 DEF h

(* What a label changes. *)
LEMMA TargetFacts ==
    ASSUME NEW g, Regular(g), NEW label \in JumpLabels, Ok(JumpTarget(g, label))
    PROVE  LET h == JumpTarget(g, label)
           IN  /\ Ok(g) /\ Prepares(g, h) /\ h.locals = g.locals /\ h.scopes = g.scopes /\ h.blocks = g.blocks
               /\ \A t \in Targets(h) : t \in Targets(g) \/ t = TargetAt(g, label)
<1> DEFINE h == JumpTarget(g, label)
<1>1. Regular(g) OBVIOUS
<1>2. /\ Ok(g) /\ PatchedCode(g, h, label) /\ h.locals = g.locals /\ h.scopes = g.scopes /\ h.blocks = g.blocks
      /\ h.jump_targets = Append(g.jump_targets, TargetAt(g, label))
  BY <1>1, PatchedCodeIs
<1> HIDE DEF h
<1>3. Prepares(g, h)
  <2>1. Len(g.ops) \in Nat /\ Placeholder.op = "jump" BY <1>1, GuardTypes DEF Placeholder, Instr
  <2>2. ASSUME NEW i \in 1..Len(h.ops), Unprepared(h.ops[i]) PROVE i \in 1..Len(g.ops) /\ Unprepared(g.ops[i])
    <3>1. i \in 1..Len(g.ops) /\ h.ops[i].op = g.ops[i].op BY <1>2, <2>2 DEF PatchedCode
    <3>2. g.ops[i].op = "forprep" BY <2>2, <3>1 DEF Unprepared
    <3>3. h.ops[i] = g.ops[i] BY <1>2, <2>1, <3>1, <3>2 DEF PatchedCode
    <3> QED BY <2>2, <3>1, <3>3
  <2> QED BY <1>2, <2>1, <2>2 DEF Prepares, PatchedCode
<1>4. \A t \in Targets(h) : t \in Targets(g) \/ t = TargetAt(g, label)
  <2>1. g.jump_targets \in Seq(JumpTargets) BY <1>1 DEF Regular, TargetsPlaced
  <2>3. Len(g.jump_targets) \in Nat BY <2>1
  <2> DEFINE T == g.jump_targets
             y == TargetAt(g, label)
  <2> HIDE DEF T, y
  <2>4. \A j \in 1..Len(Append(T, y)) : (j \in 1..Len(T) /\ Append(T, y)[j] = T[j]) \/ Append(T, y)[j] = y
    BY <2>1, <2>3 DEF T
  <2> QED BY <1>2, <2>4 DEF Targets, T, y
<1> QED BY <1>2, <1>3, <1>4 DEF h

(* A label. *)
LEMMA LabelFenced ==
    ASSUME NEW g, NEW o, NEW at, NEW n, Laid(g, o, at, n), Sound(g), Fenced(g, o, n),
           NEW label \in JumpLabels, label.kind = "named", Ok(JumpTarget(g, label))
    PROVE  Fenced(JumpTarget(g, label), o, n)
<1> DEFINE h == JumpTarget(g, label)
<1>1. Regular(g) /\ Len(g.blocks) > 0 BY LaidPositions DEF Laid
<1>2. Laid(h, o, at, n) /\ StackTop(h) = StackTop(g) BY LabelLaid
<1>3. Guarded(g, StackTop(g)) /\ Settled(g) BY DEF Fenced
<1>4. Guarded(h, StackTop(g)) /\ Settled(h) BY <1>1, <1>3, TargetGuarded
<1>5. /\ Ok(g) /\ PatchedCode(g, h, label) /\ h.locals = g.locals /\ h.scopes = g.scopes /\ h.blocks = g.blocks
      /\ h.jump_targets = Append(g.jump_targets, TargetAt(g, label))
  BY <1>1, PatchedCodeIs
<1>6. h.unique = g.unique
  <2>1. Patchable(g, label) BY DEF Patchable
  <2> QED BY <1>1, <2>1, GrownTarget
<1> HIDE DEF h
<1>7. Prepares(g, h) BY <1>1, TargetFacts DEF h
<1>8. \A t \in Targets(h) : t \in Targets(g) \/ t.label.kind = "named"
  <2>1. TargetAt(g, label).label = label BY DEF TargetAt
  <2> QED BY <1>1, <2>1, TargetFacts DEF h
<1>9. Regular(h) BY <1>2 DEF Laid
<1>10. \A i \in 1..Len(g.blocks) : Bottom(h, i) = Bottom(g, i) BY <1>5 DEF Bottom
<1>11. Guarded(h, StackTop(h)) BY <1>2, <1>4
<1>12. Fenced(h, o, n) BY <1>4, <1>5, <1>6, <1>7, <1>8, <1>9, <1>10, <1>11, QuietFenced
<1> QED BY <1>12 DEF h

(* A closure. *)
LEMMA CaptureFenced ==
    ASSUME NEW g, NEW o, NEW at, NEW n, Laid(g, o, at, n), Sound(g), Fenced(g, o, n), StackTop(g) < Registers,
           NEW v \in 1..Len(g.locals)
    PROVE  Fenced(Capture(g, g.locals[v].reg), o, n)
<1> DEFINE r == g.locals[v].reg
           h == Capture(g, r)
<1>1. Regular(g) BY DEF Laid
<1>2. r \in Nat BY <1>1, GuardTypes
<1>3. Laid(h, o, at, n) /\ StackTop(h) = StackTop(g) BY <1>2, CaptureLaid
<1>4. Guarded(g, StackTop(g)) BY DEF Fenced
<1>5. /\ Guarded(h, StackTop(g)) /\ h.locals = g.locals /\ h.scopes = g.scopes
      /\ h.jump_targets = g.jump_targets /\ Len(h.blocks) = Len(g.blocks) /\ h.unique = g.unique
      /\ \A i \in 1..Len(g.blocks) : h.blocks[i].stack_bottom = g.blocks[i].stack_bottom
      /\ \E x \in Instrs : x.op = "closure" /\ h.ops = Append(g.ops, x)
  BY <1>1, <1>4, CaptureGuarded
<1> HIDE DEF h
<1>6. PICK x \in Instrs : x.op = "closure" /\ h.ops = Append(g.ops, x) BY <1>5
<1>7. Prepares(g, h) /\ Settled(h) BY <1>1, <1>6, AppendPrepares
<1>8. Regular(h) BY <1>3 DEF Laid
<1>9. \A i \in 1..Len(g.blocks) : Bottom(h, i) = Bottom(g, i) BY <1>5 DEF Bottom
<1>10. Targets(h) = Targets(g) BY <1>5 DEF Targets
<1>11. Guarded(h, StackTop(h)) BY <1>3, <1>5
<1>12. Fenced(h, o, n) BY <1>5, <1>7, <1>8, <1>9, <1>10, <1>11, QuietFenced
<1> QED BY <1>12 DEF h

(* A local: its register is above all that waits. *)
LEMMA LocalFenced ==
    ASSUME NEW g, NEW o, NEW at, NEW n, Laid(g, o, at, n), Sound(g), Ok(g), Fenced(g, o, n), o[n].at = "body",
           StackTop(g) + 1 < Registers
    PROVE  Fenced(DeclaredLocal(g), o, n)
<1> DEFINE k == PushRegisters(g, 1)
           r == StackTop(g)
           x == Instr("write", {r})
           e == Emit(k, x)
           h == DeclareLocal(e, r)
<1>1. /\ Regular(g) /\ r \in Nat /\ Len(g.ops) \in Nat
      /\ \A i \in 1..Len(g.locals) : g.locals[i].reg < r
      /\ \A p \in g.pending_jumps : p.stack_top <= r
      /\ \A j \in 1..Len(g.jump_targets) : g.jump_targets[j].stack_top <= r
  <2>1. Regular(g) BY DEF Laid
  <2>2. \A p \in g.pending_jumps : p.stack_top <= r BY <2>1, RegularParts DEF Regular, JumpsWait, Placed
  <2> QED BY <2>1, <2>2, GuardTypes
<1>2. x \in Instrs /\ x.op = "write" /\ x.captures = None /\ x.close = None /\ x.writes = {r}
  <2> DEFINE w == {r}
  <2>1. w \in SUBSET Int BY <1>1
  <2> HIDE DEF w, r
  <2>2. LET y == Instr("write", w) IN y \in Instrs /\ y.op = "write" /\ y.captures = None /\ y.close = None /\ y.writes = w
    BY <2>1 DEF Instr, Instrs, None, NoTarget
  <2> QED BY <2>2 DEF w
<1>3. Laid(DeclaredLocal(g), o, at, n) /\ StackTop(DeclaredLocal(g)) = r + 1 BY LocalLaid
<1>4. /\ Grown(g, k) /\ k.blocks = g.blocks /\ StackTop(k) = r + 1
      /\ k.locals = g.locals /\ k.unique = g.unique /\ k.error = g.error
      /\ k.pending_jumps = g.pending_jumps /\ k.jump_targets = g.jump_targets /\ k.ops = g.ops
  BY <1>1, GrownPush
<1>5. k.scopes = g.scopes
  <2>1. 1 \in Nat \ {0} /\ IsFunctionRecord(g) /\ Stacked(g.alloc, r) /\ r \in Top BY <1>1 DEF Regular, Stacked
  <2>2. Keeps(g, k, {"alloc"}) BY <2>1, PushFields
  <2> QED BY <2>2 DEF Keeps
<1>6. DeclaredLocal(g) = h
  <2>1. Ok(k) BY <1>4 DEF Ok
  <2> QED BY <2>1 DEF DeclaredLocal
<1> HIDE DEF k, x
<1>7. Regular(k) /\ Sound(k) BY <1>4 DEF Grown, Beyond
<1>8. Regular(e) /\ Sound(e) /\ StackTop(e) = r + 1
  <2>1. x.op # "jump" BY <1>2
  <2> QED BY <1>2, <1>4, <1>7, <2>1, GrownEmit DEF Grown, Beyond
<1>9. Keeps(k, e, {"ops"}) /\ e.ops = Append(k.ops, x) BY <1>7, EmitFields DEF Regular
<1> HIDE DEF e
<1>10. Guarded(k, r + 1)
  <2>1. Guarded(g, r) BY DEF Fenced
  <2>2. \A i \in 1..Len(g.locals) : ~(r <= g.locals[i].reg) BY <1>1, GuardTypes
  <2>3. Guarded(g, r + 1) BY <1>1, <2>1, <2>2, StrongGuarded
  <2> QED BY <1>4, <1>5, <2>3, SameGuarded
<1>11. Guarded(e, r + 1)
  <2>1. SameBut(k, e, Append(k.ops, x)) BY <1>9 DEF SameBut, Keeps
  <2>2. Harmless(k, x)
    <3>1. \A i \in 1..Len(k.locals) : k.locals[i].reg # r BY <1>1, <1>4, GuardTypes
    <3> QED BY <1>2, <3>1 DEF Harmless
  <2>3. r + 1 \in Int BY <1>1
  <2> QED BY <1>2, <1>7, <1>10, <2>1, <2>2, <2>3, PlainGuarded
<1>12. /\ e.locals = g.locals /\ e.scopes = g.scopes /\ e.blocks = g.blocks /\ e.unique = g.unique
       /\ e.pending_jumps = g.pending_jumps /\ e.jump_targets = g.jump_targets /\ e.ops = Append(g.ops, x)
  BY <1>4, <1>5, <1>9 DEF Keeps
<1>13. Guarded(h, r + 1)
  <2>1. \A p \in e.pending_jumps : p.stack_top <= r BY <1>1, <1>12
  <2>2. \A j \in 1..Len(e.jump_targets) : e.jump_targets[j].stack_top <= r BY <1>1, <1>12
  <2> HIDE DEF r
  <2> QED BY <1>1, <1>8, <1>11, <2>1, <2>2, DeclareGuarded
<1>14. Keeps(e, h, {"locals"}) /\ h.locals = Append(e.locals, [reg |-> r, from |-> Pc(e)])
  BY <1>8, DeclareFields DEF Regular
<1> HIDE DEF h
<1>15. /\ h.scopes = g.scopes /\ h.blocks = g.blocks /\ h.unique = g.unique
       /\ h.jump_targets = g.jump_targets /\ h.ops = Append(g.ops, x)
       /\ h.locals = Append(g.locals, [reg |-> r, from |-> Pc(e)])
  BY <1>12, <1>14 DEF Keeps
<1>16. Prepares(g, h) /\ Settled(h)
  <2>1. x.op # "forprep" /\ x.op # "test" BY <1>2
  <2> QED BY <1>1, <1>2, <1>15, <2>1, AppendPrepares
<1>17. Pc(e) = Len(g.ops) + 2
  <2>1. Len(e.ops) = Len(g.ops) + 1 BY <1>1, <1>2, <1>12, UsedAppended DEF Extends
  <2> QED BY <1>1, <2>1 DEF Pc
<1>18. \A i \in 1..Len(h.locals) :
          \/ i \in 1..Len(g.locals) /\ h.locals[i] = g.locals[i]
          \/ r <= h.locals[i].reg /\ h.locals[i].reg \in Nat /\ h.locals[i].from = Len(g.ops) + 2
  <2> DEFINE L == g.locals
             v == [reg |-> r, from |-> Pc(e)]
  <2>1. L \in Seq(LocalDescriptors) /\ Len(L) \in Nat BY <1>1, GuardTypes DEF Regular, Rising
  <2>2. v \in LocalDescriptors /\ v.reg = r /\ v.from = Len(g.ops) + 2 BY <1>1, <1>17 DEF LocalDescriptors
  <2>3. h.locals = Append(L, v) BY <1>15
  <2> HIDE DEF L, v
  <2>4. \A i \in 1..Len(h.locals) : (i \in 1..Len(L) /\ h.locals[i] = L[i]) \/ h.locals[i] = v
    BY <2>1, <2>2, <2>3
  <2> QED BY <1>1, <2>2, <2>4 DEF L
<1>19. Steps(g, h, at, n)
  <2>1. Targets(h) = Targets(g) BY <1>15 DEF Targets
  <2>2. \A i \in 1..Len(h.blocks) : Bottom(h, i) = Bottom(g, i) BY <1>15 DEF Bottom
  <2>3. \A c \in 1..n : at[c] + 1 \in 1..Len(h.blocks) BY <1>15, LaidPositions
  <2>4. Keeping(g, h, at, n) BY <1>15, <1>16, <1>18, <2>2, <2>3 DEF Keeping, Prepares
  <2> QED BY <1>15, <1>16, <2>1, <2>4 DEF Steps
<1>20. Laid(h, o, at, n) /\ StackTop(h) = r + 1 BY <1>3, <1>6 DEF h
<1>21. Regular(h) /\ Guarded(h, StackTop(h)) BY <1>13, <1>20 DEF Laid
<1>22. Fenced(h, o, n) BY <1>16, <1>19, <1>21, StepFenced
<1> QED BY <1>6, <1>22 DEF h

(* A return at the end of a body. *)
LEMMA ReturnFenced ==
    ASSUME NEW g, NEW o, NEW at, NEW n, Laid(g, o, at, n), Sound(g), Fenced(g, o, n), NEW p, Ended(o, n, p)
    PROVE  Fenced(Emit(g, Instr("return", {})), p, n)
<1> DEFINE x == Instr("return", {})
<1>1. x \in Instrs /\ x.op \in {"write", "return"} /\ Harmless(g, x) BY TestTyped DEF Instr, Harmless
<1> HIDE DEF x
<1>2. Fenced(Emit(g, x), o, n) BY <1>1, EmitFenced
<1>3. \A c \in 1..n : p[c].kind = o[c].kind /\ p[c].labels = o[c].labels
  <2>1. n \in Nat BY DEF Laid, Held
  <2>2. \A c \in 1..n : c = n \/ c \in 1..n - 1 BY <2>1
  <2> QED BY <2>2 DEF Ended
<1>4. Fenced(Emit(g, x), p, n) BY <1>2, <1>3, FencedAlike
<1> QED BY <1>4 DEF x

(* The end of a body. *)
LEMMA BodyFenced ==
    ASSUME NEW g, NEW o, NEW at, NEW n, Laid(g, o, at, n), Sound(g), Fenced(g, o, n), o[n].at = "body", ~o[n].ret,
           o[n].kind # "repeat", NEW p, Ended(o, n, p)
    PROVE  Fenced(ExitBlock(g), p, n)
<1> DEFINE m == Len(g.blocks)
           h == ExitBlock(g)
<1>1. Held(g, o, at, n, m) /\ Regular(g) /\ n \in Nat \ {0} /\ n \in 1..n /\ m \in Nat /\ m > 0
  BY HeldRange, LaidPositions DEF Laid, Held
<1>2. Laid(h, p, at, n) BY BodyEnds
<1>3. at[n] \in Nat /\ at[n] + 2 <= m
  <2>1. at[n] \in Nat /\ at[n] + BlocksOf(o[n]) = m BY <1>1 DEF Held
  <2>2. BlocksOf(o[n]) \in {2, 3} BY DEF BlocksOf
  <2> QED BY <1>1, <2>1, <2>2
<1>4. PICK k \in Nat \ {0} : m = k + 1 /\ at[n] + 1 <= k
  <2> DEFINE q == at[n]
  <2>2. m \in Nat /\ q \in Nat /\ q + 2 <= m BY <1>1, <1>3
  <2> HIDE DEF m, q
  <2>3. m - 1 \in Nat \ {0} /\ q + 1 <= m - 1 /\ m = (m - 1) + 1 BY <2>2
  <2>1. m - 1 \in Nat \ {0} /\ at[n] + 1 <= m - 1 /\ m = (m - 1) + 1 BY <2>3 DEF q
  <2> QED BY <2>1
<1>5. m \in at[n] + 1..m BY <1>1, <1>3
<1>6. Below(o, n, Bottom(g, m)) /\ Bottom(g, m) \in Nat /\ Bottom(g, m) <= StackTop(g)
  BY <1>1, <1>5, HeldBelow
<1>7. OnlyLocals(g.locals, g.blocks[k + 1].stack_bottom, StackTop(g))
  <2>1. StackTop(g) \in Nat /\ Registered(g, o, n) BY <1>1, RegularParts DEF Laid
  <2>2. OnlyLocals(g.locals, Bottom(g, m), StackTop(g)) BY <1>6, <2>1, OnlyLocalsAbove
  <2> QED BY <1>4, <2>2 DEF Bottom
<1> HIDE DEF h
<1>8. Beyond(g, h, k, {}) /\ LeftTo(g, h, k)
  <2>1. k <= k BY <1>4
  <2> QED BY <1>1, <1>4, <1>7, <2>1, BeyondExit DEF h
<1>9. /\ Regular(h) /\ Len(h.blocks) = k /\ StackTop(h) = Bottom(g, k + 1)
      /\ \A i \in 1..k : Bottom(h, i) = Bottom(g, i)
  BY <1>8 DEF Beyond, LeftTo, Bottom
<1>10. ExitLeft(g, h, Bottom(g, k + 1))
  <2>1. Guarded(g, StackTop(g)) /\ Settled(g) /\ StackTop(g) \in Int BY <1>1, GuardTypes DEF Fenced
  <2>2. Bottom(g, k + 1) <= StackTop(g) BY <1>4, <1>6
  <2> QED BY <1>1, <1>4, <1>7, <2>1, <2>2, ExitGuarded DEF h
<1>11. Guarded(h, StackTop(h)) /\ Settled(h) /\ Dropped(g, h, Bottom(g, k + 1), Len(g.ops) + 1)
       /\ EndedFacts(g, h, Bottom(g, k + 1))
  BY <1>9, <1>10 DEF ExitLeft
<1>12. Prepares(g, h)
  <2>1. Len(g.ops) \in Nat BY <1>1, GuardTypes
  <2>2. ASSUME NEW i \in 1..Len(h.ops), Unprepared(h.ops[i]) PROVE i \in 1..Len(g.ops) /\ Unprepared(g.ops[i])
    <3> DEFINE l == Len(g.ops) + 1
               b == Bottom(g, k + 1)
    <3> HIDE DEF b
    <3>1. i \in 1..Len(g.ops) \/ (i = l /\ Ends(h.ops[l], l, b)) BY <1>11 DEF EndedFacts, b
    <3>2. ~Unprepared(h.ops[i]) \/ i \in 1..Len(g.ops) BY <3>1 DEF Ends, Closes, Unprepared
    <3>3. \A j \in 1..Len(g.ops) : h.ops[j] = g.ops[j] BY <1>11 DEF EndedFacts
    <3> QED BY <2>2, <3>2, <3>3
  <2>3. Len(g.ops) <= Len(h.ops)
    <3>1. Len(h.ops) = Len(g.ops) \/ Len(h.ops) = Len(g.ops) + 1 BY <1>11 DEF EndedFacts
    <3> QED BY <2>1, <3>1
  <2> QED BY <2>2, <2>3 DEF Prepares
<1>13. Steps(g, h, at, n)
  <2>1. \A c \in 1..n : at[c] + 1 \in 1..Len(h.blocks) BY <1>2, LaidPositions
  <2>2. Targets(h) \subseteq Targets(g) BY <1>8 DEF LeftTo
  <2>3. /\ \A j \in 1..Len(h.locals) : j \in 1..Len(g.locals) /\ h.locals[j] = g.locals[j]
        /\ \A s \in h.scopes : s \in g.scopes
              \/ \E j \in 1..Len(g.locals) : Bottom(g, m) <= g.locals[j].reg /\ s.from = g.locals[j].from
    <3>1. Len(g.locals) \in Nat BY <1>1, RegularParts
    <3> HIDE DEF Bottom
    <3> QED BY <1>4, <1>11, <3>1 DEF Dropped
  <2>4. h.unique = g.unique BY <1>8 DEF LeftTo, Keeps
  <2>5. Keeping(g, h, at, n) BY <1>9, <1>12, <2>1, <2>3 DEF Keeping, Prepares
  <2> QED BY <1>12, <2>2, <2>4, <2>5 DEF Steps
<1>14. Fenced(h, o, n) BY <1>9, <1>11, <1>13, StepFenced
<1>15. \A c \in 1..n : p[c].kind = o[c].kind /\ p[c].labels = o[c].labels
  <2>1. \A c \in 1..n : c = n \/ c \in 1..n - 1 BY <1>1
  <2> QED BY <2>1 DEF Ended
<1>16. Fenced(h, p, n) BY <1>14, <1>15, FencedAlike
<1> QED BY <1>16 DEF h

(* A construct begins: it declares at most its variable, and places at most its start. *)
Begins(g, h, at, n, c1) ==
    /\ Keeping(g, h, at, n) /\ h.scopes = g.scopes
    /\ g.unique <= h.unique /\ h.unique \in Nat
    /\ \A i \in 1..Len(h.ops) : Unprepared(h.ops[i]) =>
          (i \in 1..Len(g.ops) /\ Unprepared(g.ops[i])) \/ (c1.kind = "for" /\ i = c1.labels[2])
    /\ \A t \in Targets(h) :
          \/ t \in Targets(g)
          \/ t.label = Unique(g.unique) /\ g.unique < h.unique /\ ~Awaits(c1, t.label)
    /\ \A l : Awaits(c1, l) => \A t \in Targets(g) : t.label # l
    /\ c1.kind = "if" => c1.labels[1] # c1.labels[2]
    /\ c1.kind \in {"while", "repeat"} => c1.labels[1] = Unique(g.unique)
    /\ \A t, u \in Targets(h) : t.label = Unique(g.unique) /\ u.label = Unique(g.unique) => t = u
    /\ c1.kind = "while" =>
          \A t \in Targets(h) : t.label = Unique(g.unique) => Bottom(h, t.block_index + 1) <= t.stack_top
    /\ HasState(c1) => /\ c1.labels[1] = StackTop(g)
                       /\ Len(g.ops) + 1 <= c1.labels[2] /\ c1.labels[2] <= Len(h.ops) + 1
                       /\ c1.labels[2] \in Nat
                       /\ \A k \in 1..Len(h.locals) : (k \in 1..Len(g.locals) /\ h.locals[k] = g.locals[k])
                                                      \/ h.locals[k].reg = StackTop(g) + 3
    /\ c1.kind = "for" => c1.labels[2] = Len(g.ops) + 1

(* The new loop rests on what it declared. *)
LEMMA BegunLoop ==
    ASSUME NEW g, Regular(g), NEW h, Regular(h), NEW at, NEW n, NEW c1, Begins(g, h, at, n, c1)
    PROVE  LoopRests(h, c1)
<1>1. /\ StackTop(g) \in Nat /\ Len(g.ops) \in Nat
      /\ \A k \in 1..Len(g.locals) : /\ g.locals[k].reg < StackTop(g) /\ g.locals[k].reg \in Nat
                                     /\ g.locals[k].from <= Len(g.ops) + 1 /\ g.locals[k].from \in Nat
      /\ \A s \in g.scopes : s.to \in Nat /\ s.to <= Len(g.ops) + 1
  BY GuardTypes
<1>2. ASSUME HasState(c1)
      PROVE  /\ 1 <= c1.labels[2] /\ c1.labels[2] <= Len(h.ops) + 1
             /\ \A k \in 1..Len(h.locals) : h.locals[k].reg < c1.labels[1] + 3 => h.locals[k].from <= c1.labels[2]
  <2>1. /\ c1.labels[1] = StackTop(g) /\ c1.labels[2] \in Nat
        /\ Len(g.ops) + 1 <= c1.labels[2] /\ c1.labels[2] <= Len(h.ops) + 1
        /\ \A k \in 1..Len(h.locals) : (k \in 1..Len(g.locals) /\ h.locals[k] = g.locals[k])
                                       \/ h.locals[k].reg = StackTop(g) + 3
    BY <1>2 DEF Begins
  <2>2. ASSUME NEW k \in 1..Len(h.locals), h.locals[k].reg < c1.labels[1] + 3 PROVE h.locals[k].from <= c1.labels[2]
    <3>1. k \in 1..Len(g.locals) /\ h.locals[k] = g.locals[k] BY <1>1, <2>1, <2>2
    <3> QED BY <1>1, <2>1, <3>1
  <2> QED BY <1>1, <2>1, <2>2
<1>3. ASSUME c1.kind = "for"
      PROVE  /\ \A k \in 1..Len(h.locals) : h.locals[k].from <= c1.labels[2] => h.locals[k].reg < c1.labels[1]
             /\ \A s \in h.scopes : s.from <= c1.labels[2] /\ c1.labels[2] < s.to => FALSE
  <2>1. c1.labels[1] = StackTop(g) /\ c1.labels[2] = Len(g.ops) + 1 /\ h.scopes = g.scopes
    BY <1>3 DEF Begins, HasState
  <2>2. ASSUME NEW k \in 1..Len(h.locals), h.locals[k].from <= c1.labels[2] PROVE h.locals[k].reg < c1.labels[1]
    <3>1. (k \in 1..Len(g.locals) /\ h.locals[k] = g.locals[k]) \/ h.locals[k].from = Len(g.ops) + 2
      BY DEF Begins, Keeping
    <3> QED BY <1>1, <2>1, <2>2, <3>1
  <2> QED BY <1>1, <2>1, <2>2
<1> QED BY <1>2, <1>3 DEF LoopRests

(* The labels of the new construct are new. *)
LEMMA BegunLabels ==
    ASSUME NEW g, NEW o, NEW at, NEW n, Around(g, o, at, n), Labelled(g, o, n),
           NEW h, Regular(h), NEW c1, Begins(g, h, at, n, c1), NEW p, Longer(o, n, p, c1)
    PROVE  Labelled(h, p, n + 1)
<1>1. n \in Nat /\ g.unique \in Nat /\ h.unique \in Nat /\ g.unique <= h.unique BY DEF Around, Begins
<1>2. Unique(g.unique) \in UniqueLabels /\ Unique(g.unique).id = g.unique BY <1>1 DEF Unique, UniqueLabels
<1>3. NewTargets(g, h) BY <1>1, <1>2 DEF NewTargets, Begins
<1>4. Keeping(g, h, at, n) BY DEF Begins
<1>5. Labelled(h, o, n) BY <1>1, <1>3, <1>4, LabelsRest
<1>6. \A c \in 1..n + 1 : (c \in 1..n /\ p[c] = o[c]) \/ p[c] = c1
  <2>1. \A c \in 1..n + 1 : c \in 1..n \/ c = n + 1 BY <1>1
  <2> QED BY <2>1 DEF Longer
<1>7. \A t \in Targets(h) : ~Awaits(c1, t.label) BY DEF Begins
<1>8. /\ c1.kind = "if" => c1.labels[1] # c1.labels[2]
      /\ c1.kind \in {"while", "repeat"} =>
            /\ \A t, u \in Targets(h) : t.label = c1.labels[1] /\ u.label = c1.labels[1] => t = u
            /\ \A t \in Targets(h) : t.label = c1.labels[1] /\ c1.kind = "while" =>
                  Bottom(h, t.block_index + 1) <= t.stack_top
  BY DEF Begins
<1>9. \A t \in Targets(h) : /\ t.label # Break /\ (t.label.kind = "unique" => t.label.id < h.unique)
  BY <1>5 DEF Labelled
<1>10. \A c \in 1..n + 1 : \A t \in Targets(h) : ~Awaits(p[c], t.label) BY <1>5, <1>6, <1>7 DEF Labelled
<1>11. ASSUME NEW c \in 1..n + 1
       PROVE  /\ p[c].kind = "if" => p[c].labels[1] # p[c].labels[2]
              /\ p[c].kind \in {"while", "repeat"} =>
                    /\ \A t, u \in Targets(h) : t.label = p[c].labels[1] /\ u.label = p[c].labels[1] => t = u
                    /\ \A t \in Targets(h) : t.label = p[c].labels[1] /\ p[c].kind = "while" =>
                          Bottom(h, t.block_index + 1) <= t.stack_top
  <2>1. CASE p[c] = c1 BY <1>8, <2>1
  <2>2. CASE c \in 1..n /\ p[c] = o[c] BY <1>5, <2>2 DEF Labelled
  <2> QED BY <1>6, <2>1, <2>2
<1> QED BY <1>9, <1>10, <1>11 DEF Labelled

(* With its blocks entered, the construct is one of those the walk is inside of. *)
LEMMA OpenFenced ==
    ASSUME NEW g, NEW o, NEW at, NEW n, Around(g, o, at, n), Fenced(g, o, n),
           NEW h, Regular(h), Guarded(h, StackTop(h)), Settled(h),
           NEW c1, Begins(g, h, at, n, c1), NEW p, Longer(o, n, p, c1)
    PROVE  Fenced(h, p, n + 1)
<1>1. n \in Nat /\ Regular(g) /\ Keeping(g, h, at, n) BY DEF Around, Begins
<1>2. \A c \in 1..n : LoopRests(h, o[c]) BY <1>1, LoopsRest DEF Fenced
<1>3. LoopRests(h, c1) BY <1>1, BegunLoop
<1>4. \A c \in 1..n + 1 : (c \in 1..n /\ p[c] = o[c]) \/ p[c] = c1
  <2>1. \A c \in 1..n + 1 : c \in 1..n \/ c = n + 1 BY <1>1
  <2> QED BY <2>1 DEF Longer
<1>5. \A c \in 1..n + 1 : LoopRests(h, p[c]) BY <1>2, <1>3, <1>4
<1>6. ASSUME NEW i \in 1..Len(h.ops), Unprepared(h.ops[i])
      PROVE  \E c \in 1..n + 1 : p[c].kind = "for" /\ p[c].labels[2] = i
  <2>1. CASE i \in 1..Len(g.ops) /\ Unprepared(g.ops[i])
    <3>1. PICK c \in 1..n : o[c].kind = "for" /\ o[c].labels[2] = i BY <2>1 DEF Fenced, LoopsWait, Unprepared
    <3>2. c \in 1..n + 1 /\ p[c] = o[c] BY <1>1 DEF Longer
    <3> QED BY <3>1, <3>2
  <2>2. CASE c1.kind = "for" /\ i = c1.labels[2]
    <3>1. n + 1 \in 1..n + 1 /\ p[n + 1] = c1 BY <1>1 DEF Longer
    <3> QED BY <2>2, <3>1
  <2> QED BY <1>6, <2>1, <2>2 DEF Begins
<1>7. LoopsWait(h, p, n + 1) BY <1>5, <1>6 DEF LoopRests, LoopsWait, Unprepared
<1>8. Labelled(h, p, n + 1) BY BegunLabels DEF Fenced
<1> QED BY <1>7, <1>8 DEF Fenced

(* What a construct that begins has emitted and declared before its body. *)
Started(g, x, c1) ==
    /\ Grown(g, x) /\ Guarded(x, StackTop(x)) /\ Settled(x) /\ x.scopes = g.scopes
    /\ \A k \in 1..Len(x.locals) :
          \/ k \in 1..Len(g.locals) /\ x.locals[k] = g.locals[k]
          \/ HasState(c1) /\ x.locals[k].reg = StackTop(g) + 3 /\ x.locals[k].from = Len(g.ops) + 2
    /\ \A i \in 1..Len(x.ops) : Unprepared(x.ops[i]) =>
          (i \in 1..Len(g.ops) /\ Unprepared(g.ops[i])) \/ (c1.kind = "for" /\ i = c1.labels[2])
    /\ \A t \in Targets(x) : t \in Targets(g) \/ (t.label = Unique(g.unique) /\ ~Awaits(c1, t.label))
    /\ \A t, u \in Targets(x) : t.label = Unique(g.unique) /\ u.label = Unique(g.unique) => t = u
    /\ c1.kind = "while" =>
          /\ Len(g.blocks) + 1 \in 1..Len(x.blocks) /\ Bottom(x, Len(g.blocks) + 1) = StackTop(g)
          /\ \A t \in Targets(x) : t.label = Unique(g.unique) => t.block_index = Len(g.blocks) /\ t.stack_top = StackTop(g)
    /\ HasState(c1) => /\ c1.labels[1] = StackTop(g) /\ c1.labels[2] \in Nat
                       /\ Len(g.ops) + 1 <= c1.labels[2] /\ c1.labels[2] <= Len(x.ops) + 1
    /\ c1.kind = "for" => c1.labels[2] = Len(g.ops) + 1

(* Its labels are new, or no target has them yet. *)
Names(g, c1) ==
    /\ \A l : Awaits(c1, l) => \A t \in Targets(g) : t.label # l
    /\ c1.kind = "if" => c1.labels[1] # c1.labels[2]
    /\ c1.kind \in {"while", "repeat"} => c1.labels[1] = Unique(g.unique)

(* h is x with other numbers, or with a block more. *)
Resumed(g, x, h) ==
    /\ Grown(g, h) /\ h.ops = x.ops /\ h.locals = x.locals /\ h.scopes = x.scopes /\ Targets(h) = Targets(x)
    /\ \A i \in 1..Len(x.blocks) : Bottom(h, i) = Bottom(x, i)
    /\ h.unique \in Nat /\ g.unique <= h.unique /\ (g.unique < h.unique \/ Targets(x) \subseteq Targets(g))

(* Where a construct may begin, those around it are in place. *)
LEMMA ReadyAround ==
    ASSUME NEW g, NEW o, NEW at, NEW n, NEW L, Ready(g, o, at, n, L)
    PROVE  Around(g, o, at, n) /\ \A c \in 1..n : at[c] + 1 \in 1..Len(g.blocks)
<1>1. Around(g, o, at, n)
  <2>1. n \in Nat BY ReadyFacts
  <2> QED BY <2>1 DEF Around, Ready
<1>2. ASSUME NEW c \in 1..n PROVE at[c] + 1 \in 1..Len(g.blocks)
  <2>1. at[c] \in Nat /\ BlocksOf(o[c]) \in 1..3 /\ at[c] + BlocksOf(o[c]) <= Len(g.blocks) /\ Len(g.blocks) \in Nat
    BY <1>1, HeldRange DEF Around
  <2> QED BY <2>1
<1> QED BY <1>1, <1>2

(* What was emitted before the body is a beginning. *)
LEMMA StartedBegins ==
    ASSUME NEW g, NEW o, NEW at, NEW n, NEW L, Ready(g, o, at, n, L),
           NEW c1, Names(g, c1), NEW x, Started(g, x, c1), NEW h, Resumed(g, x, h)
    PROVE  Begins(g, h, at, n, c1)
<1>1. /\ Regular(g) /\ StackTop(g) \in Nat /\ Len(g.ops) \in Nat /\ Len(g.ops) <= Len(h.ops)
  BY ReadyFacts DEF Resumed, Grown, Beyond
<1>2. h.ops = x.ops /\ h.locals = x.locals /\ h.scopes = g.scopes /\ Targets(h) = Targets(x)
  BY DEF Resumed, Started
<1>3. \A c \in 1..n : Bottom(h, at[c] + 1) = Bottom(g, at[c] + 1)
  <2>1. \A i \in 1..Len(g.blocks) : Bottom(h, i) = Bottom(g, i) BY DEF Resumed, Grown, Beyond, Bottom
  <2> QED BY <2>1, ReadyAround
<1>4. Keeping(g, h, at, n)
  <2>1. StackTop(g) <= StackTop(g) + 3 /\ StackTop(g) + 3 \in Nat BY <1>1
  <2> QED BY <1>1, <1>2, <1>3, <2>1 DEF Keeping, Started
<1>5. \A t \in Targets(h) :
          \/ t \in Targets(g)
          \/ t.label = Unique(g.unique) /\ g.unique < h.unique /\ ~Awaits(c1, t.label)
  BY <1>2 DEF Started, Resumed
<1>6. c1.kind = "while" =>
          \A t \in Targets(h) : t.label = Unique(g.unique) => Bottom(h, t.block_index + 1) <= t.stack_top
  <2> SUFFICES ASSUME c1.kind = "while", NEW t \in Targets(h), t.label = Unique(g.unique)
               PROVE  Bottom(h, t.block_index + 1) <= t.stack_top
    OBVIOUS
  <2>1. /\ Len(g.blocks) + 1 \in 1..Len(x.blocks) /\ Bottom(x, Len(g.blocks) + 1) = StackTop(g)
        /\ t.block_index = Len(g.blocks) /\ t.stack_top = StackTop(g)
    BY <1>2 DEF Started
  <2>2. Bottom(h, Len(g.blocks) + 1) = StackTop(g) BY <2>1 DEF Resumed
  <2> HIDE DEF Bottom
  <2> QED BY <1>1, <2>1, <2>2
<1>7. HasState(c1) => \A k \in 1..Len(h.locals) :
          (k \in 1..Len(g.locals) /\ h.locals[k] = g.locals[k]) \/ h.locals[k].reg = StackTop(g) + 3
  BY <1>2 DEF Started
<1>8. HasState(c1) => /\ c1.labels[1] = StackTop(g) /\ c1.labels[2] \in Nat
                      /\ Len(g.ops) + 1 <= c1.labels[2] /\ c1.labels[2] <= Len(h.ops) + 1
  BY <1>2 DEF Started
<1>9. \A t, u \in Targets(h) : t.label = Unique(g.unique) /\ u.label = Unique(g.unique) => t = u
  BY <1>2 DEF Started
<1>10. \A i \in 1..Len(h.ops) : Unprepared(h.ops[i]) =>
          (i \in 1..Len(g.ops) /\ Unprepared(g.ops[i])) \/ (c1.kind = "for" /\ i = c1.labels[2])
  BY <1>2 DEF Started
<1>11. c1.kind = "for" => c1.labels[2] = Len(g.ops) + 1 BY DEF Started
<1>12. g.unique <= h.unique /\ h.unique \in Nat BY DEF Resumed
<1> QED BY <1>2, <1>4, <1>5, <1>6, <1>7, <1>8, <1>9, <1>10, <1>11, <1>12 DEF Begins, Names

(* y is x with other numbers. *)
Renamed(g, x, y) ==
    /\ Keeps(x, y, {"unique"}) /\ Grown(g, y) /\ y.unique \in Nat /\ g.unique <= y.unique
    /\ g.unique < y.unique \/ Targets(x) \subseteq Targets(g)

(* So the construct has begun, with or without a block for its body. *)
LEMMA StartedFenced ==
    ASSUME NEW g, NEW o, NEW at, NEW n, NEW L, Ready(g, o, at, n, L), Fenced(g, o, n),
           NEW c1, Names(g, c1), NEW p, Longer(o, n, p, c1), NEW x, Started(g, x, c1), NEW y, Renamed(g, x, y)
    PROVE  Fenced(y, p, n + 1) /\ Fenced(EnterBlock(y), p, n + 1)
<1> DEFINE e == EnterBlock(y)
<1>1. Regular(g) /\ Around(g, o, at, n) BY ReadyFacts, ReadyAround
<1>2. /\ y.ops = x.ops /\ y.locals = x.locals /\ y.scopes = x.scopes /\ y.blocks = x.blocks
      /\ y.jump_targets = x.jump_targets /\ y.pending_jumps = x.pending_jumps /\ y.alloc = x.alloc
  BY DEF Renamed, Keeps
<1>3. StackTop(y) = StackTop(x) /\ Targets(y) = Targets(x) BY <1>2 DEF StackTop, Targets
<1>4. Regular(y) /\ Sound(y) /\ Grown(g, y) BY DEF Renamed, Grown
<1>5. Guarded(x, StackTop(x)) /\ Settled(x) BY DEF Started
<1>6. Guarded(y, StackTop(y)) BY <1>2, <1>3, <1>5, SameGuarded
<1>7. Settled(y) BY <1>2, <1>5 DEF Settled
<1>8. Fenced(y, p, n + 1)
  <2>1. \A i \in 1..Len(x.blocks) : Bottom(y, i) = Bottom(x, i) BY <1>2 DEF Bottom
  <2>2. Resumed(g, x, y) BY <1>2, <1>3, <1>4, <2>1 DEF Resumed, Renamed
  <2>3. Begins(g, y, at, n, c1) BY <2>2, StartedBegins
  <2> QED BY <1>1, <1>4, <1>6, <1>7, <2>3, OpenFenced
<1>9. /\ Grown(y, e) /\ StackTop(e) = StackTop(y) /\ Len(e.blocks) = Len(y.blocks) + 1
      /\ \A i \in 1..Len(y.blocks) : Bottom(e, i) = Bottom(y, i)
      /\ e.locals = y.locals /\ e.unique = y.unique /\ Targets(e) = Targets(y) /\ e.ops = y.ops
  BY <1>4, GrownEnter
<1>10. e.scopes = y.scopes BY <1>4, EnterFields DEF Regular, Keeps
<1>11. Guarded(e, StackTop(y)) BY <1>4, <1>6, EnterGuarded
<1> HIDE DEF e
<1>12. Fenced(e, p, n + 1)
  <2>1. \A i \in 1..Len(x.blocks) : Bottom(e, i) = Bottom(x, i) BY <1>2, <1>9 DEF Bottom
  <2>2. Grown(g, e) BY <1>1, <1>4, <1>9, GrownTrans
  <2>3. Resumed(g, x, e) BY <1>2, <1>3, <1>9, <1>10, <2>1, <2>2 DEF Resumed, Renamed
  <2>4. Begins(g, e, at, n, c1) BY <2>3, StartedBegins
  <2>5. Regular(e) /\ Guarded(e, StackTop(e)) BY <1>9, <1>11 DEF Grown
  <2>6. Settled(e) BY <1>7, <1>9 DEF Settled
  <2> QED BY <1>1, <2>4, <2>5, <2>6, OpenFenced
<1> QED BY <1>8, <1>12 DEF e

(* enter_block, all it changes. *)
LEMMA EnterFacts ==
    ASSUME NEW g, Regular(g), Sound(g), Guarded(g, StackTop(g)), Settled(g)
    PROVE  LET h == EnterBlock(g)
           IN  /\ Grown(g, h) /\ Guarded(h, StackTop(h)) /\ Settled(h)
               /\ StackTop(h) = StackTop(g) /\ Len(h.blocks) = Len(g.blocks) + 1
               /\ Bottom(h, Len(g.blocks) + 1) = StackTop(g)
               /\ h.locals = g.locals /\ h.scopes = g.scopes /\ Targets(h) = Targets(g) /\ h.ops = g.ops
               /\ h.unique = g.unique /\ h.error = g.error
<1> DEFINE h == EnterBlock(g)
<1>1. /\ Grown(g, h) /\ StackTop(h) = StackTop(g) /\ Len(h.blocks) = Len(g.blocks) + 1
      /\ Bottom(h, Len(g.blocks) + 1) = StackTop(g)
      /\ h.locals = g.locals /\ Targets(h) = Targets(g) /\ h.ops = g.ops
      /\ h.unique = g.unique /\ h.error = g.error
  BY GrownEnter
<1>2. h.scopes = g.scopes BY EnterFields DEF Regular, Keeps
<1>3. Guarded(h, StackTop(g)) BY EnterGuarded
<1> HIDE DEF h
<1>4. Settled(h) BY <1>1 DEF Settled
<1> QED BY <1>1, <1>2, <1>3, <1>4 DEF h

(* A do block, or the else part of an if. *)
LEMMA PlainStarted ==
    ASSUME NEW g, Regular(g), Sound(g), Guarded(g, StackTop(g)), Settled(g),
           \A t \in Targets(g) : t.label # Unique(g.unique),
           NEW c1, ~HasState(c1), c1.kind # "while"
    PROVE  Started(g, EnterBlock(g), c1)
<1> DEFINE x == EnterBlock(g)
<1>1. /\ Grown(g, x) /\ Guarded(x, StackTop(x)) /\ Settled(x)
      /\ x.locals = g.locals /\ x.scopes = g.scopes /\ Targets(x) = Targets(g) /\ x.ops = g.ops
  BY EnterFacts
<1>2. c1.kind # "for" BY DEF HasState
<1> HIDE DEF x
<1>3. Started(g, x, c1) BY <1>1, <1>2 DEF Started
<1> QED BY <1>3 DEF x

(* No target has a label of a number not yet given. *)
LEMMA FreshTarget ==
    ASSUME NEW g, NEW o, NEW at, NEW n, NEW L, Ready(g, o, at, n, L), Fenced(g, o, n), NEW k \in Nat
    PROVE  \A t \in Targets(g) : t.label # Unique(g.unique + k)
<1>1. Regular(g) /\ g.unique \in Nat BY ReadyFacts
<1>2. Unique(g.unique + k).kind = "unique" /\ Unique(g.unique + k).id = g.unique + k BY DEF Unique
<1>3. \A t \in Targets(g) : t.label.kind = "unique" => t.label.id \in Nat /\ t.label.id < g.unique
  BY <1>1, TargetLabels DEF Fenced, Labelled
<1> SUFFICES ASSUME NEW t \in Targets(g), t.label = Unique(g.unique + k) PROVE FALSE OBVIOUS
<1>4. t.label.id < g.unique /\ t.label.id = g.unique + k BY <1>2, <1>3
<1> QED BY <1>1, <1>4

(* A test and the jump over what follows. *)
LEMMA TestEnters ==
    ASSUME NEW g, Regular(g), Sound(g), Ok(g), Guarded(g, StackTop(g)), Len(g.blocks) > 0,
           StackTop(g) < Registers, NEW label \in JumpLabels, \A t \in Targets(g) : t.label # label
    PROVE  LET x == EnterBlock(TestElse(g, label))
           IN  /\ Grown(g, x) /\ Guarded(x, StackTop(x)) /\ Settled(x) /\ Prepares(g, x)
               /\ x.locals = g.locals /\ x.scopes = g.scopes /\ Targets(x) = Targets(g)
               /\ Len(x.blocks) = Len(g.blocks) + 1 /\ Bottom(x, Len(g.blocks) + 1) = StackTop(g)
               /\ x.unique = g.unique /\ x.error = g.error
<1> DEFINE t == WithTemp(g, Instr("test", {}))
           j == Jump(t, label)
           x == EnterBlock(j)
<1>1. Instr("test", {}) \in Instrs /\ Instr("test", {}).op # "jump" BY TestTyped
<1>2. /\ Grown(g, t) /\ t.blocks = g.blocks /\ StackTop(t) = StackTop(g)
      /\ t.unique = g.unique /\ t.error = g.error
  BY <1>1, GrownTemp
<1>3. Guarded(t, StackTop(g)) /\ LongerBy(g, t, "test") BY TestGuarded
<1> HIDE DEF t
<1>4. Regular(t) /\ Sound(t) /\ Ok(t) /\ Len(t.blocks) > 0 BY <1>2 DEF Grown, Ok
<1>5. Targets(t) = Targets(g) BY <1>3 DEF LongerBy, Targets
<1>6. /\ Grown(t, j) /\ j.blocks = t.blocks /\ StackTop(j) = StackTop(t)
      /\ j.unique = t.unique /\ j.error = t.error /\ Targets(j) = Targets(t)
  BY <1>4, GrownJump
<1>7. LongerBy(t, j, "jump") /\ Guarded(j, StackTop(t))
  <2>1. \A u \in Targets(t) : u.label # label BY <1>5
  <2>2. Guarded(t, StackTop(t)) BY <1>2, <1>3
  <2> QED BY <1>4, <2>1, <2>2, JumpGuarded
<1> HIDE DEF j
<1>8. Regular(j) /\ Sound(j) /\ Guarded(j, StackTop(j)) BY <1>6, <1>7 DEF Grown
<1>9. Prepares(g, t)
  <2>1. PICK i \in Instrs : i.op = "test" /\ t.ops = Append(g.ops, i) BY <1>3 DEF LongerBy
  <2> QED BY <2>1, AppendPrepares
<1>10. Prepares(t, j) /\ Settled(j)
  <2>1. PICK i \in Instrs : i.op = "jump" /\ j.ops = Append(t.ops, i) BY <1>7 DEF LongerBy
  <2> QED BY <1>4, <2>1, AppendPrepares
<1>11. /\ Grown(j, x) /\ Guarded(x, StackTop(x)) /\ Settled(x)
       /\ Len(x.blocks) = Len(j.blocks) + 1 /\ Bottom(x, Len(j.blocks) + 1) = StackTop(j)
       /\ x.locals = j.locals /\ x.scopes = j.scopes /\ Targets(x) = Targets(j) /\ x.ops = j.ops
       /\ x.unique = j.unique /\ x.error = j.error
  BY <1>8, <1>10, EnterFacts
<1> HIDE DEF x
<1>12. x.locals = g.locals /\ x.scopes = g.scopes BY <1>3, <1>7, <1>11 DEF LongerBy
<1>13. Prepares(g, x)
  <2>1. Len(g.ops) \in Nat /\ Len(t.ops) \in Nat /\ Len(j.ops) \in Nat BY <1>4, <1>8, RegularParts
  <2> QED BY <1>9, <1>10, <1>11, <2>1 DEF Prepares
<1>14. Grown(g, x)
  <2>1. Grown(g, j) BY <1>2, <1>6, GrownTrans
  <2> QED BY <1>11, <2>1, GrownTrans
<1>15. EnterBlock(TestElse(g, label)) = x BY DEF TestElse, x, j, t
<1> QED BY <1>2, <1>5, <1>6, <1>11, <1>12, <1>13, <1>14, <1>15

(* The start of while and if: a target, a test, a jump over the body. *)
LEMMA TestStarted ==
    ASSUME NEW g, NEW o, NEW at, NEW n, NEW L, Ready(g, o, at, n, L), Fenced(g, o, n), StackTop(g) < Registers,
           NEW c1, ~HasState(c1), ~Awaits(c1, Unique(g.unique)),
           Ok(EnterBlock(TestElse(JumpTarget(g, Unique(g.unique)), Unique(g.unique + 1))))
    PROVE  Started(g, EnterBlock(TestElse(JumpTarget(g, Unique(g.unique)), Unique(g.unique + 1))), c1)
<1> DEFINE start == Unique(g.unique)
           done == Unique(g.unique + 1)
           t == JumpTarget(g, start)
           x == EnterBlock(TestElse(t, done))
           m == Len(g.blocks)
<1>1. /\ Regular(g) /\ Sound(g) /\ g.unique \in Nat /\ m \in Nat /\ m > 0 /\ Len(g.ops) \in Nat BY ReadyFacts
<1>2. start \in JumpLabels /\ \A p \in g.pending_jumps : p.target # start
  <2>1. /\ Unique(g.unique + 0) \in JumpLabels /\ \A p \in g.pending_jumps : p.target # Unique(g.unique + 0)
    BY FreshLabel
  <2>2. g.unique + 0 = g.unique BY <1>1
  <2> QED BY <2>1, <2>2
<1>3. \A u \in Targets(g) : u.label # start /\ u.label # done
  <2>1. g.unique + 0 = g.unique BY <1>1
  <2>2. \A u \in Targets(g) : u.label # Unique(g.unique + 0) BY FreshTarget
  <2>3. \A u \in Targets(g) : u.label # done BY FreshTarget
  <2> QED BY <2>1, <2>2, <2>3
<1>4. done \in JumpLabels /\ done # start
  <2>1. done \in JumpLabels BY FreshLabel
  <2>2. done.id = g.unique + 1 /\ start.id = g.unique BY DEF Unique
  <2>3. done # start
    <3> HIDE DEF done, start
    <3> QED BY <1>1, <2>2
  <2> QED BY <2>1, <2>3
<1>5. Patchable(g, start) BY <1>2 DEF Patchable, Here, Resolves
<1>6. Unique(g.unique) = start OBVIOUS
<1> HIDE DEF start, done
<1>7. /\ Grown(g, t) /\ t.blocks = g.blocks /\ StackTop(t) = StackTop(g) /\ t.locals = g.locals /\ t.unique = g.unique
  BY <1>1, <1>2, <1>5, GrownTarget
<1>8. Regular(t) /\ Sound(t) /\ Len(t.blocks) > 0 BY <1>1, <1>7 DEF Grown
<1>9. Ok(t)
  <2> HIDE DEF t
  <2>1. EnterBlock(TestElse(t, done)).error = t.error BY <1>1, <1>4, <1>7, <1>8, TestEntered
  <2>2. Ok(EnterBlock(TestElse(t, done))) BY DEF t, start, done
  <2> QED BY <2>1, <2>2 DEF Ok
<1>10. /\ Guarded(t, StackTop(g)) /\ Settled(t)
  BY <1>1, <1>2, <1>9, TargetGuarded DEF Fenced
<1>11. /\ Prepares(g, t) /\ t.scopes = g.scopes
       /\ \A u \in Targets(t) : u \in Targets(g) \/ u = TargetAt(g, start)
  BY <1>1, <1>2, <1>9, TargetFacts
<1> HIDE DEF t
<1>12. TargetAt(g, start).label = start /\ TargetAt(g, start).block_index = m
       /\ TargetAt(g, start).stack_top = StackTop(g)
  BY DEF TargetAt
<1>13. \A u \in Targets(t) : u.label # done BY <1>3, <1>4, <1>11, <1>12
<1>14. /\ Grown(t, x) /\ Guarded(x, StackTop(x)) /\ Settled(x) /\ Prepares(t, x)
       /\ x.locals = t.locals /\ x.scopes = t.scopes /\ Targets(x) = Targets(t)
       /\ Len(x.blocks) = Len(t.blocks) + 1 /\ Bottom(x, Len(t.blocks) + 1) = StackTop(t)
  <2>1. Guarded(t, StackTop(t)) /\ StackTop(t) < Registers BY <1>7, <1>10
  <2> QED BY <1>4, <1>8, <1>9, <1>13, <2>1, TestEnters
<1> HIDE DEF x
<1>15. Grown(g, x) BY <1>1, <1>7, <1>14, GrownTrans
<1>16. \A i \in 1..Len(x.ops) : Unprepared(x.ops[i]) => i \in 1..Len(g.ops) /\ Unprepared(g.ops[i])
  BY <1>11, <1>14 DEF Prepares
<1>17. \A u \in Targets(x) : u \in Targets(g) \/ (u = TargetAt(g, start) /\ ~Awaits(c1, start))
  BY <1>6, <1>11, <1>14
<1>18. \A u \in Targets(x) : u.label = start => u = TargetAt(g, start) BY <1>3, <1>17
<1>19. m + 1 \in 1..Len(x.blocks) /\ Bottom(x, m + 1) = StackTop(g) BY <1>1, <1>7, <1>14
<1>20. Started(g, x, c1)
  <2>1. x.scopes = g.scopes /\ x.locals = g.locals BY <1>7, <1>11, <1>14
  <2>2. c1.kind # "for" BY DEF HasState
  <2>3. \A u \in Targets(x) : u \in Targets(g) \/ (u.label = start /\ ~Awaits(c1, u.label)) BY <1>12, <1>17
  <2>4. \A u, v \in Targets(x) : u.label = start /\ v.label = start => u = v BY <1>18
  <2>5. \A u \in Targets(x) : u.label = start => u.block_index = m /\ u.stack_top = StackTop(g) BY <1>12, <1>18
  <2> QED BY <1>6, <1>14, <1>15, <1>16, <1>19, <2>1, <2>2, <2>3, <2>4, <2>5 DEF Started
<1> QED BY <1>20 DEF x, t, start, done

(* The start of repeat. *)
LEMMA RepeatStarted ==
    ASSUME NEW g, NEW o, NEW at, NEW n, NEW L, Ready(g, o, at, n, L), Fenced(g, o, n),
           NEW c1, c1.kind = "repeat", Ok(JumpTarget(EnterBlock(EnterBlock(g)), Unique(g.unique)))
    PROVE  Started(g, JumpTarget(EnterBlock(EnterBlock(g)), Unique(g.unique)), c1)
<1> DEFINE start == Unique(g.unique)
           b == EnterBlock(g)
           c == EnterBlock(b)
           x == JumpTarget(c, start)
<1>1. /\ Regular(g) /\ Sound(g) /\ g.unique \in Nat /\ Len(g.blocks) \in Nat /\ Len(g.ops) \in Nat
      /\ Guarded(g, StackTop(g)) /\ Settled(g)
  BY ReadyFacts DEF Fenced
<1>2. start \in JumpLabels /\ (\A p1 \in g.pending_jumps : p1.target # start) /\ \A t \in Targets(g) : t.label # start
  <2>1. /\ Unique(g.unique + 0) \in JumpLabels /\ \A p1 \in g.pending_jumps : p1.target # Unique(g.unique + 0)
        /\ \A t \in Targets(g) : t.label # Unique(g.unique + 0)
    BY FreshLabel, FreshTarget
  <2>2. g.unique + 0 = g.unique BY <1>1
  <2> QED BY <2>1, <2>2
<1>3. /\ Grown(g, b) /\ Guarded(b, StackTop(b)) /\ Settled(b)
      /\ b.locals = g.locals /\ b.scopes = g.scopes /\ Targets(b) = Targets(g) /\ b.ops = g.ops
      /\ Len(b.blocks) = Len(g.blocks) + 1
  BY <1>1, EnterFacts
<1>4. b.pending_jumps = g.pending_jumps BY <1>1, GrownEnter
<1> HIDE DEF b
<1>5. Regular(b) /\ Sound(b) BY <1>3 DEF Grown
<1>6. /\ Grown(b, c) /\ Guarded(c, StackTop(c)) /\ Settled(c)
      /\ c.locals = b.locals /\ c.scopes = b.scopes /\ Targets(c) = Targets(b) /\ c.ops = b.ops
      /\ Len(c.blocks) = Len(b.blocks) + 1
  BY <1>3, <1>5, EnterFacts
<1>7. c.pending_jumps = b.pending_jumps BY <1>5, GrownEnter
<1>8. Unique(g.unique) = start OBVIOUS
<1> HIDE DEF c, start
<1>9. Regular(c) /\ Sound(c) /\ Len(c.blocks) > 0 BY <1>1, <1>3, <1>6 DEF Grown
<1>10. Ok(x) BY DEF x, c, b, start
<1>11. Patchable(c, start) BY <1>2, <1>4, <1>7 DEF Patchable, Here, Resolves
<1>12. Grown(c, x) /\ StackTop(x) = StackTop(c) BY <1>2, <1>9, <1>11, GrownTarget
<1>13. Guarded(x, StackTop(c)) /\ Settled(x) BY <1>2, <1>6, <1>9, <1>10, TargetGuarded
<1>14. /\ Prepares(c, x) /\ x.locals = c.locals /\ x.scopes = c.scopes
       /\ \A t \in Targets(x) : t \in Targets(c) \/ t = TargetAt(c, start)
  BY <1>2, <1>9, <1>10, TargetFacts
<1> HIDE DEF x
<1>15. Grown(g, x)
  <2>1. Grown(g, c) BY <1>1, <1>3, <1>6, GrownTrans
  <2> QED BY <1>1, <1>12, <2>1, GrownTrans
<1>16. TargetAt(c, start).label = start BY DEF TargetAt
<1>17. ~Awaits(c1, start) BY DEF Awaits
<1>18. \A i \in 1..Len(x.ops) : Unprepared(x.ops[i]) => i \in 1..Len(g.ops) /\ Unprepared(g.ops[i])
  BY <1>3, <1>6, <1>14 DEF Prepares
<1>19. \A t \in Targets(x) : t \in Targets(g) \/ (t = TargetAt(c, start) /\ t.label = start)
  BY <1>3, <1>6, <1>14, <1>16
<1>20. \A t, u \in Targets(x) : t.label = start /\ u.label = start => t = u BY <1>2, <1>19
<1>21. Started(g, x, c1)
  <2>1. x.locals = g.locals /\ x.scopes = g.scopes BY <1>3, <1>6, <1>14
  <2>2. c1.kind # "for" /\ c1.kind # "while" /\ ~HasState(c1) BY DEF HasState
  <2>3. Guarded(x, StackTop(x)) BY <1>12, <1>13
  <2> QED BY <1>8, <1>13, <1>15, <1>17, <1>18, <1>19, <1>20, <2>1, <2>2, <2>3 DEF Started
<1> QED BY <1>21 DEF x, c, b, start

(* The state of a loop and its variable. *)
LEMMA LoopStateStarts ==
    ASSUME NEW g, Regular(g), Sound(g), Guarded(g, StackTop(g)), Settled(g), StackTop(g) + 4 < Registers,
           NEW op \in {"forprep", "write"}
    PROVE  LET x == LoopState(g, Instr(op, StackTop(g)..(StackTop(g) + 2)))
           IN  /\ Guarded(x, StackTop(x)) /\ Settled(x) /\ x.scopes = g.scopes
               /\ x.jump_targets = g.jump_targets /\ x.pending_jumps = g.pending_jumps
               /\ \A k \in 1..Len(x.locals) :
                     \/ k \in 1..Len(g.locals) /\ x.locals[k] = g.locals[k]
                     \/ x.locals[k].reg = StackTop(g) + 3 /\ x.locals[k].from = Len(g.ops) + 2
               /\ Len(x.ops) = Len(g.ops) + 1 /\ \A i \in 1..Len(g.ops) : x.ops[i] = g.ops[i]
               /\ x.ops[Len(g.ops) + 1].op = op
<1> DEFINE top == StackTop(g)
           w == top..(top + 2)
           i == Instr(op, w)
           q == PushRegisters(g, 3)
           e == Emit(q, i)
           b == EnterBlock(e)
           c == EnterBlock(b)
           v == PushRegisters(c, 1)
           x == DeclareLocal(v, top + 3)
<1>1. /\ top \in Nat /\ Len(g.ops) \in Nat
      /\ \A k \in 1..Len(g.locals) : g.locals[k].reg < top /\ g.locals[k].reg \in Nat
      /\ \A p \in g.pending_jumps : p.stack_top <= top /\ p.stack_top \in Nat
      /\ \A j \in 1..Len(g.jump_targets) : g.jump_targets[j].stack_top <= top /\ g.jump_targets[j].stack_top \in Nat
  <2>1. \A p \in g.pending_jumps : p.stack_top <= top BY RegularParts DEF Regular, JumpsWait, Placed
  <2> QED BY <2>1, GuardTypes
<1>2. /\ w \in SUBSET Int /\ \A k \in 1..Len(g.locals) : g.locals[k].reg \notin w BY <1>1
<1> HIDE DEF w
<1>3. i \in Instrs /\ i.op = op /\ i.captures = None /\ i.close = None /\ i.writes = w /\ i.target = NoTarget
  BY <1>2 DEF Instr, Instrs, None, NoTarget
<1>4. i.op # "jump" /\ i.op # "test" BY <1>3
<1> HIDE DEF i
<1>5. 3 \in Nat \ {0} /\ top + 3 < Registers /\ Registers \in Nat BY <1>1, RegistersAssumption
<1>6. /\ Grown(g, q) /\ q.blocks = g.blocks /\ StackTop(q) = top + 3
      /\ q.locals = g.locals /\ q.pending_jumps = g.pending_jumps /\ q.jump_targets = g.jump_targets
      /\ q.ops = g.ops
  BY <1>1, <1>5, GrownPush
<1>7. q.scopes = g.scopes
  <2>1. IsFunctionRecord(g) /\ Stacked(g.alloc, top) /\ top \in Top BY <1>1 DEF Regular, Stacked
  <2>2. Keeps(g, q, {"alloc"}) BY <1>5, <2>1, PushFields
  <2> QED BY <2>2 DEF Keeps
<1>8. Regular(q) /\ Sound(q) BY <1>6 DEF Grown
<1> HIDE DEF q
<1>9. Guarded(q, top + 4)
  <2>1. \A k \in 1..Len(g.locals) : ~(top <= g.locals[k].reg) BY <1>1
  <2>2. Guarded(g, top + 4) BY <2>1, StrongGuarded
  <2> QED BY <1>6, <1>7, <2>2, SameGuarded
<1>10. Keeps(q, e, {"ops"}) /\ e.ops = Append(g.ops, i)
  BY <1>6, <1>8, EmitFields DEF Regular
<1>11. Grown(q, e) /\ StackTop(e) = StackTop(q) BY <1>3, <1>4, <1>8, GrownEmit
<1> HIDE DEF e
<1>12. Regular(e) /\ Sound(e) BY <1>11 DEF Grown
<1>13. Guarded(e, top + 4)
  <2>1. SameBut(q, e, Append(q.ops, i)) BY <1>6, <1>10 DEF SameBut, Keeps
  <2>2. Harmless(q, i) BY <1>2, <1>3, <1>4, <1>6 DEF Harmless
  <2>3. top + 4 \in Int BY <1>1
  <2> QED BY <1>3, <1>8, <1>9, <2>1, <2>2, <2>3, PlainGuarded
<1>14. /\ Grown(e, b) /\ StackTop(b) = StackTop(e)
  BY <1>12, GrownEnter
<1>15. Keeps(e, b, {"blocks"}) BY <1>12, EnterFields DEF Regular
<1>16. Guarded(b, top + 4) BY <1>12, <1>13, EnterGuarded
<1> HIDE DEF b
<1>17. Regular(b) /\ Sound(b) BY <1>14 DEF Grown
<1>18. /\ Grown(b, c) /\ StackTop(c) = StackTop(b)
  BY <1>17, GrownEnter
<1>19. Keeps(b, c, {"blocks"}) BY <1>17, EnterFields DEF Regular
<1>20. Guarded(c, top + 4) BY <1>16, <1>17, EnterGuarded
<1> HIDE DEF c
<1>21. Regular(c) /\ Sound(c) /\ StackTop(c) = top + 3 BY <1>6, <1>11, <1>14, <1>18 DEF Grown
<1>22. Keeps(c, v, {"alloc"}) /\ Grown(c, v) /\ StackTop(v) = top + 4
  <2>1. 1 \in Nat \ {0} /\ (top + 3) + 1 < Registers /\ top + 3 \in Nat /\ (top + 3) + 1 = top + 4 BY <1>1, <1>5
  <2>2. IsFunctionRecord(c) /\ Stacked(c.alloc, top + 3) /\ top + 3 \in Top
    BY <1>21 DEF Regular, Stacked
  <2>3. Keeps(c, v, {"alloc"}) BY <2>1, <2>2, PushFields
  <2>4. StackTop(c) + 1 < Registers BY <1>21, <2>1
  <2>5. Grown(c, v) /\ StackTop(v) = StackTop(c) + 1 BY <1>21, <2>1, <2>4, GrownPush
  <2> QED BY <1>21, <2>1, <2>3, <2>5
<1>23. Regular(v) BY <1>22 DEF Grown
<1> HIDE DEF v
<1>24. Guarded(v, top + 4)
  <2>1. /\ v.ops = c.ops /\ v.locals = c.locals /\ v.scopes = c.scopes /\ v.blocks = c.blocks
        /\ v.jump_targets = c.jump_targets /\ v.pending_jumps = c.pending_jumps
    BY <1>22 DEF Keeps
  <2> QED BY <1>20, <2>1, SameGuarded
<1>25. /\ v.locals = g.locals /\ v.scopes = g.scopes /\ v.jump_targets = g.jump_targets
       /\ v.pending_jumps = g.pending_jumps /\ v.ops = Append(g.ops, i)
  BY <1>6, <1>7, <1>10, <1>15, <1>19, <1>22 DEF Keeps
<1>26. Guarded(x, top + 4)
  <2>1. top + 3 \in Nat BY <1>1
  <2>2. \A p \in v.pending_jumps : p.stack_top <= top + 3 BY <1>1, <1>25
  <2>3. \A j \in 1..Len(v.jump_targets) : v.jump_targets[j].stack_top <= top + 3 BY <1>1, <1>25
  <2> HIDE DEF top
  <2> QED BY <1>23, <1>24, <2>1, <2>2, <2>3, DeclareGuarded
<1>27. Keeps(v, x, {"locals"}) /\ x.locals = Append(v.locals, [reg |-> top + 3, from |-> Pc(v)])
  BY <1>23, DeclareFields DEF Regular
<1> HIDE DEF x
<1>28. /\ x.scopes = g.scopes /\ x.jump_targets = g.jump_targets /\ x.pending_jumps = g.pending_jumps
       /\ x.ops = Append(g.ops, i) /\ x.locals = Append(g.locals, [reg |-> top + 3, from |-> Pc(v)])
       /\ StackTop(x) = top + 4
  BY <1>22, <1>25, <1>27 DEF Keeps, StackTop
<1>29. /\ Len(x.ops) = Len(g.ops) + 1 /\ (\A j \in 1..Len(g.ops) : x.ops[j] = g.ops[j])
       /\ x.ops[Len(g.ops) + 1] = i
  BY <1>3, <1>28, UsedAppended DEF Extends
<1>30. Settled(x) BY <1>1, <1>4, <1>29 DEF Settled
<1>31. Pc(v) = Len(g.ops) + 2
  <2>1. Len(v.ops) = Len(g.ops) + 1 BY <1>3, <1>25, UsedAppended DEF Extends
  <2> QED BY <1>1, <2>1 DEF Pc
<1>32. \A k \in 1..Len(x.locals) :
          \/ k \in 1..Len(g.locals) /\ x.locals[k] = g.locals[k]
          \/ x.locals[k].reg = top + 3 /\ x.locals[k].from = Len(g.ops) + 2
  <2> DEFINE M == g.locals
             d == [reg |-> top + 3, from |-> Pc(v)]
  <2>1. M \in Seq(LocalDescriptors) /\ Len(M) \in Nat BY GuardTypes DEF Regular, Rising
  <2>2. d \in LocalDescriptors /\ d.reg = top + 3 /\ d.from = Len(g.ops) + 2 BY <1>1, <1>31 DEF LocalDescriptors
  <2>3. x.locals = Append(M, d) BY <1>28
  <2> HIDE DEF M, d
  <2>4. \A k \in 1..Len(x.locals) : (k \in 1..Len(M) /\ x.locals[k] = M[k]) \/ x.locals[k] = d
    BY <2>1, <2>2, <2>3
  <2> QED BY <2>2, <2>4 DEF M
<1>33. LoopState(g, i) = x BY DEF LoopState, LoopVariable, x, v, c, b, e, q, top
<1>34. Guarded(x, StackTop(x)) BY <1>26, <1>28
<1> QED BY <1>3, <1>28, <1>29, <1>30, <1>32, <1>33, <1>34 DEF i, w

(* The state of a for. *)
LEMMA ForOpened ==
    ASSUME NEW g, Regular(g), Sound(g), Ok(g), StackTop(g) + 4 < Registers
    PROVE  /\ OpenFor(g).now = LoopState(g, Instr("forprep", StackTop(g)..(StackTop(g) + 2)))
           /\ OpenFor(g).labels = <<StackTop(g), Len(g.ops) + 1>>
<1> DEFINE top == StackTop(g)
           i == Instr("forprep", top..(top + 2))
           j == LoopVariable(g, i)
           x == LoopState(g, i)
<1>1. top \in Nat /\ Len(g.ops) \in Nat BY RegularParts
<1>2. i \in Instrs /\ i.op # "jump" BY <1>1, TestTyped
<1>3. j.error = g.error BY <1>2, LoopVariableFacts
<1>4. Ok(j) BY <1>3 DEF Ok
<1>5. OpenFor(g).now = x
  <2>1. j = PushRegisters(EnterBlock(EnterBlock(Emit(PushRegisters(g, 3), Instr("forprep", top..(top + 2))))), 1)
    BY DEF LoopVariable
  <2>2. x = DeclareLocal(j, top + 3) BY DEF LoopState
  <2>3. OpenFor(g).now = IF Ok(j) THEN DeclareLocal(j, top + 3) ELSE j BY <2>1 DEF OpenFor
  <2> QED BY <1>4, <2>2, <2>3
<1>6. OpenFor(g).labels = <<top, Len(g.ops) + 1>>
  <2>1. PushRegisters(g, 3).ops = g.ops
    <3>1. 3 \in Nat \ {0} /\ top + 3 < Registers BY <1>1, RegistersAssumption
    <3> QED BY <3>1, GrownPush
  <2> QED BY <2>1 DEF OpenFor, Pc
<1> QED BY <1>5, <1>6

(* The state of a for in, and the jump to the call of the iterator. *)
LEMMA ForInOpened ==
    ASSUME NEW g, Regular(g), Sound(g), Ok(g), StackTop(g) + 4 < Registers
    PROVE  /\ OpenForIn(g).now = Jump(LoopState(g, Instr("write", StackTop(g)..(StackTop(g) + 2))), Unique(g.unique))
           /\ OpenForIn(g).labels = <<StackTop(g), Pc(OpenForIn(g).now), Unique(g.unique)>>
<1> DEFINE top == StackTop(g)
           i == Instr("write", top..(top + 2))
           v == LoopVariable(g, i)
           y == LoopState(g, i)
           first == Unique(g.unique)
           x == Jump(y, first)
<1>1. top \in Nat BY RegularParts
<1>2. i \in Instrs /\ i.op # "jump" BY <1>1, TestTyped
<1>3. v.error = g.error BY <1>2, LoopVariableFacts
<1>4. Ok(v) BY <1>3 DEF Ok
<1>5. OpenForIn(g).now = x /\ OpenForIn(g).labels = <<top, Pc(x), first>>
  <2>1. v = PushRegisters(EnterBlock(EnterBlock(Emit(PushRegisters(g, 3), Instr("write", top..(top + 2))))), 1)
    BY DEF LoopVariable
  <2>2. y = DeclareLocal(v, top + 3) BY DEF LoopState
  <2>3. /\ OpenForIn(g).now = IF Ok(v) THEN Jump(DeclareLocal(v, top + 3), first) ELSE v
        /\ OpenForIn(g).labels = <<top, Pc(IF Ok(v) THEN Jump(DeclareLocal(v, top + 3), first) ELSE v), first>>
    BY <2>1 DEF OpenForIn
  <2>4. x = IF Ok(v) THEN Jump(DeclareLocal(v, top + 3), first) ELSE v BY <1>4, <2>2
  <2> HIDE DEF x, v, first, top
  <2> QED BY <2>3, <2>4
<1>6. OpenForIn(g).now = x /\ OpenForIn(g).labels = <<top, Pc(OpenForIn(g).now), first>>
  <2> HIDE DEF x, first, top
  <2> QED BY <1>5
<1> QED BY <1>6

(* The start of for. *)
LEMMA ForStarted ==
    ASSUME NEW g, NEW o, NEW at, NEW n, NEW L, Ready(g, o, at, n, L), Fenced(g, o, n),
           StackTop(g) + 4 < Registers, NEW c1, c1.kind = "for", c1.labels = OpenFor(g).labels
    PROVE  Started(g, OpenFor(g).now, c1)
<1> DEFINE top == StackTop(g)
           i == Instr("forprep", top..(top + 2))
           x == LoopState(g, i)
<1>1. /\ Regular(g) /\ Sound(g) /\ Ok(g) /\ top \in Nat /\ Len(g.ops) \in Nat /\ g.unique \in Nat
      /\ Guarded(g, StackTop(g)) /\ Settled(g)
  BY ReadyFacts DEF Ready, Fenced
<1>2. i \in Instrs /\ i.op # "jump" BY <1>1, TestTyped
<1>3. OpenFor(g).now = x /\ OpenFor(g).labels = <<top, Len(g.ops) + 1>> BY <1>1, ForOpened
<1>4. c1.labels[1] = top /\ c1.labels[2] = Len(g.ops) + 1 BY <1>3
<1>5. Grown(g, x) /\ Targets(x) = Targets(g) BY <1>1, <1>2, LoopStateFacts
<1>6. /\ Guarded(x, StackTop(x)) /\ Settled(x) /\ x.scopes = g.scopes
      /\ \A k \in 1..Len(x.locals) :
            \/ k \in 1..Len(g.locals) /\ x.locals[k] = g.locals[k]
            \/ x.locals[k].reg = top + 3 /\ x.locals[k].from = Len(g.ops) + 2
      /\ Len(x.ops) = Len(g.ops) + 1 /\ \A k \in 1..Len(g.ops) : x.ops[k] = g.ops[k]
  BY <1>1, LoopStateStarts
<1> HIDE DEF x, top
<1>7. \A k \in 1..Len(x.ops) : k \in 1..Len(g.ops) \/ k = c1.labels[2] BY <1>1, <1>4, <1>6
<1>8. \A t \in Targets(g) : t.label # Unique(g.unique)
  <2>1. \A t \in Targets(g) : t.label # Unique(g.unique + 0) BY FreshTarget
  <2>2. g.unique + 0 = g.unique BY <1>1
  <2> QED BY <2>1, <2>2
<1>9. HasState(c1) /\ c1.kind # "while" BY DEF HasState
<1>10. c1.labels[2] \in Nat /\ Len(g.ops) + 1 <= c1.labels[2] /\ c1.labels[2] <= Len(x.ops) + 1
  BY <1>1, <1>4, <1>6
<1>11. \A k \in 1..Len(x.ops) : Unprepared(x.ops[k]) =>
          (k \in 1..Len(g.ops) /\ Unprepared(g.ops[k])) \/ (c1.kind = "for" /\ k = c1.labels[2])
  BY <1>6, <1>7
<1>12. Started(g, x, c1)
  BY <1>4, <1>5, <1>6, <1>8, <1>9, <1>10, <1>11 DEF Started, top
<1> QED BY <1>3, <1>12

(* The start of for ... in. *)
LEMMA ForInStarted ==
    ASSUME NEW g, NEW o, NEW at, NEW n, NEW L, Ready(g, o, at, n, L), Fenced(g, o, n),
           StackTop(g) + 4 < Registers, NEW c1, c1.kind = "forin", c1.labels = OpenForIn(g).labels
    PROVE  Started(g, OpenForIn(g).now, c1)
<1> DEFINE top == StackTop(g)
           i == Instr("write", top..(top + 2))
           y == LoopState(g, i)
           first == Unique(g.unique)
           x == Jump(y, first)
<1>1. /\ Regular(g) /\ Sound(g) /\ Ok(g) /\ top \in Nat /\ Len(g.ops) \in Nat /\ g.unique \in Nat
      /\ Len(g.blocks) \in Nat /\ Guarded(g, StackTop(g)) /\ Settled(g)
  BY ReadyFacts DEF Ready, Fenced
<1>2. i \in Instrs /\ i.op # "jump" BY <1>1, TestTyped
<1>3. OpenForIn(g).now = x /\ OpenForIn(g).labels = <<top, Pc(OpenForIn(g).now), first>>
  BY <1>1, ForInOpened
<1>4. /\ Grown(g, y) /\ Targets(y) = Targets(g) /\ Len(y.blocks) = Len(g.blocks) + 2 /\ y.error = g.error
  BY <1>1, <1>2, LoopStateFacts
<1>5. /\ Guarded(y, StackTop(y)) /\ Settled(y) /\ y.scopes = g.scopes
      /\ \A k \in 1..Len(y.locals) :
            \/ k \in 1..Len(g.locals) /\ y.locals[k] = g.locals[k]
            \/ y.locals[k].reg = top + 3 /\ y.locals[k].from = Len(g.ops) + 2
      /\ Len(y.ops) = Len(g.ops) + 1 /\ \A k \in 1..Len(g.ops) : y.ops[k] = g.ops[k]
      /\ y.ops[Len(g.ops) + 1].op = "write"
  BY <1>1, LoopStateStarts
<1>6. first \in JumpLabels /\ \A t \in Targets(g) : t.label # first
  <2>1. Unique(g.unique + 0) \in JumpLabels /\ \A t \in Targets(g) : t.label # Unique(g.unique + 0)
    BY FreshTarget, FreshLabel
  <2>2. g.unique + 0 = g.unique BY <1>1
  <2> QED BY <2>1, <2>2
<1> HIDE DEF y
<1>7. Regular(y) /\ Sound(y) /\ Len(y.blocks) > 0 /\ Ok(y) BY <1>1, <1>4 DEF Grown, Ok
<1>8. c1.labels[1] = top /\ c1.labels[2] = Pc(x) /\ c1.labels[3] = first
  <2> HIDE DEF x, first, top
  <2> QED BY <1>3
<1> HIDE DEF first, top
<1>9. /\ Grown(y, x) /\ x.locals = y.locals /\ Targets(x) = Targets(y) /\ StackTop(x) = StackTop(y)
  BY <1>6, <1>7, GrownJump
<1>10. Guarded(x, StackTop(x)) /\ LongerBy(y, x, "jump") /\ x.scopes = y.scopes
  <2>1. \A t \in Targets(y) : t.label # first BY <1>4, <1>6
  <2>2. LongerBy(y, x, "jump") /\ Guarded(x, StackTop(y)) BY <1>5, <1>6, <1>7, <2>1, JumpGuarded
  <2> QED BY <1>9, <2>2 DEF LongerBy
<1> HIDE DEF x
<1>11. PICK a \in Instrs : a.op = "jump" /\ x.ops = Append(y.ops, a) BY <1>10 DEF LongerBy
<1>12. Prepares(y, x) /\ Settled(x) /\ Len(x.ops) = Len(y.ops) + 1
  <2>1. Prepares(y, x) /\ Settled(x) BY <1>7, <1>11, AppendPrepares
  <2>2. y.ops \in Seq(Instrs) BY <1>7 DEF Regular
  <2> QED BY <1>11, <2>1, <2>2
<1>13. HasState(c1) /\ c1.kind # "while" /\ c1.kind # "for" BY DEF HasState
<1>14. ASSUME NEW k \in 1..Len(x.ops), Unprepared(x.ops[k]) PROVE k \in 1..Len(g.ops) /\ Unprepared(g.ops[k])
  <2>1. k \in 1..Len(y.ops) /\ Unprepared(y.ops[k]) BY <1>12, <1>14 DEF Prepares
  <2>2. k \in 1..Len(g.ops) \/ k = Len(g.ops) + 1 BY <1>1, <1>5, <2>1
  <2>3. k # Len(g.ops) + 1 BY <1>5, <2>1 DEF Unprepared
  <2> QED BY <1>5, <2>1, <2>2, <2>3
<1>15. c1.labels[2] \in Nat /\ Len(g.ops) + 1 <= c1.labels[2] /\ c1.labels[2] <= Len(x.ops) + 1
  BY <1>1, <1>5, <1>8, <1>12 DEF Pc
<1>16. Started(g, x, c1)
  <2>1. Grown(g, x) BY <1>1, <1>4, <1>9, GrownTrans
  <2>2. \A t \in Targets(g) : t.label # Unique(g.unique) BY <1>6 DEF first
  <2> QED BY <1>4, <1>5, <1>8, <1>9, <1>10, <1>12, <1>13, <1>14, <1>15, <2>1, <2>2 DEF Started, top
<1> QED BY <1>3, <1>16 DEF x

(* A construct with its labels; the next ones are numbered anew. *)
LEMMA NewNames ==
    ASSUME NEW g, NEW o, NEW at, NEW n, NEW L, Ready(g, o, at, n, L), Fenced(g, o, n),
           NEW c1, \A l : Awaits(c1, l) => l \in {Unique(g.unique), Unique(g.unique + 1), Unique(g.unique + 2)},
           c1.kind = "if" => c1.labels[1] = Unique(g.unique + 1) /\ c1.labels[2] = Unique(g.unique + 2),
           c1.kind \in {"while", "repeat"} => c1.labels[1] = Unique(g.unique)
    PROVE  Names(g, c1)
<1>1. g.unique \in Nat BY ReadyFacts
<1>2. \A t \in Targets(g) : t.label \notin {Unique(g.unique), Unique(g.unique + 1), Unique(g.unique + 2)}
  <2>1. g.unique + 0 = g.unique BY <1>1
  <2>2. \A t \in Targets(g) : t.label # Unique(g.unique + 0) BY FreshTarget
  <2>3. \A t \in Targets(g) : t.label # Unique(g.unique + 1) BY FreshTarget
  <2>4. \A t \in Targets(g) : t.label # Unique(g.unique + 2) BY FreshTarget
  <2> QED BY <2>1, <2>2, <2>3, <2>4
<1>3. Unique(g.unique + 1) # Unique(g.unique + 2)
  <2>1. Unique(g.unique + 1).id = g.unique + 1 /\ Unique(g.unique + 2).id = g.unique + 2 BY DEF Unique
  <2>2. g.unique + 1 # g.unique + 2 BY <1>1
  <2> QED BY <2>1, <2>2
<1> QED BY <1>2, <1>3 DEF Names

(* The start of each construct. *)
LEMMA ConstructStarted ==
    ASSUME NEW g, NEW o, NEW at, NEW n, Ready(g, o, at, n, {}), Fenced(g, o, n), StackTop(g) + 4 < Registers,
           NEW kind \in SourceKinds, NEW c1, c1.kind = kind, c1.labels = Opened(g, kind).labels,
           Ok(Opened(g, kind).now)
    PROVE  Started(g, Opened(g, kind).now, c1)
<1> DEFINE u == g.unique
           x == Opened(g, kind).now
<1>1. /\ Regular(g) /\ Sound(g) /\ u \in Nat /\ StackTop(g) \in Nat /\ Registers \in Nat
      /\ Guarded(g, StackTop(g)) /\ Settled(g)
  BY ReadyFacts, RegistersAssumption DEF Fenced
<1>2. \A t \in Targets(g) : t.label # Unique(u)
  <2>1. u + 0 = u /\ \A t \in Targets(g) : t.label # Unique(u + 0) BY <1>1, FreshTarget
  <2> QED BY <2>1
<1>3. CASE kind = "do"
  <2>1. x = EnterBlock(g) BY <1>3 DEF Opened
  <2>2. ~HasState(c1) /\ c1.kind # "while" BY <1>3 DEF HasState
  <2> QED BY <1>1, <1>2, <2>1, <2>2, PlainStarted
<1>4. CASE kind = "while" \/ kind = "if"
  <2> DEFINE y == EnterBlock(TestElse(JumpTarget(g, Unique(u)), Unique(u + 1)))
  <2>1. x = y BY <1>4 DEF Opened, OpenWhile, OpenIf
  <2>2. ~HasState(c1) BY <1>4 DEF HasState
  <2>3. ~Awaits(c1, Unique(u))
    <3>1. /\ kind = "while" => c1.labels[2] = Unique(u + 1)
          /\ kind = "if" => c1.labels[1] = Unique(u + 1) /\ c1.labels[2] = Unique(u + 2)
      BY DEF Opened, OpenWhile, OpenIf
    <3>2. Unique(u).id = u /\ Unique(u + 1).id = u + 1 /\ Unique(u + 2).id = u + 2 BY DEF Unique
    <3>3. u # u + 1 /\ u # u + 2 BY <1>1
    <3>4. Unique(u) # Unique(u + 1) /\ Unique(u) # Unique(u + 2) BY <3>2, <3>3
    <3> QED BY <1>4, <3>1, <3>4 DEF Awaits
  <2>4. StackTop(g) < Registers BY <1>1
  <2>5. Ok(y) BY <2>1
  <2>6. Started(g, y, c1) BY <2>2, <2>3, <2>4, <2>5, TestStarted
  <2> QED BY <2>1, <2>6
<1>5. CASE kind = "repeat"
  <2>1. x = JumpTarget(EnterBlock(EnterBlock(g)), Unique(g.unique)) BY <1>5 DEF Opened, OpenRepeat
  <2> QED BY <1>5, <2>1, RepeatStarted
<1>6. CASE kind = "for"
  <2>1. x = OpenFor(g).now /\ c1.labels = OpenFor(g).labels BY <1>6 DEF Opened
  <2> QED BY <1>6, <2>1, ForStarted
<1>7. CASE kind = "forin"
  <2>1. x = OpenForIn(g).now /\ c1.labels = OpenForIn(g).labels BY <1>7 DEF Opened
  <2> QED BY <1>7, <2>1, ForInStarted
<1> QED BY <1>3, <1>4, <1>5, <1>6, <1>7 DEF SourceKinds

(* The labels of each construct. *)
LEMMA ConstructNames ==
    ASSUME NEW g, NEW o, NEW at, NEW n, Ready(g, o, at, n, {}), Fenced(g, o, n),
           NEW kind \in SourceKinds, NEW c1, c1.kind = kind, c1.labels = Opened(g, kind).labels,
           \A l : Awaits(c1, l) => l \in {Unique(g.unique), Unique(g.unique + 1), Unique(g.unique + 2)}
    PROVE  Names(g, c1)
<1>1. c1.kind = "if" => c1.labels[1] = Unique(g.unique + 1) /\ c1.labels[2] = Unique(g.unique + 2)
  BY DEF Opened, OpenIf
<1>2. c1.kind \in {"while", "repeat"} => c1.labels[1] = Unique(g.unique)
  BY DEF Opened, OpenWhile, OpenRepeat
<1> QED BY <1>1, <1>2, NewNames

(* Every construct begins in order. *)
LEMMA ConstructFences ==
    ASSUME NEW g, NEW o, NEW at, NEW n, Ready(g, o, at, n, {}), Fenced(g, o, n), StackTop(g) + 4 < Registers,
           NEW kind \in SourceKinds, NEW ret \in BOOLEAN, ret => kind # "while",
           NEW p, Longer(o, n, p, Construct(kind, ret, Opened(g, kind).labels))
    PROVE  LET y == Renumbered(Opened(g, kind).now, 3)
           IN  Ok(y) => Fenced(y, p, n + 1) /\ Fenced(EnterBlock(y), p, n + 1)
<1> DEFINE x == Opened(g, kind).now
           y == Renumbered(x, 3)
           c1 == Construct(kind, ret, Opened(g, kind).labels)
<1> SUFFICES ASSUME Ok(y) PROVE Fenced(y, p, n + 1) /\ Fenced(EnterBlock(y), p, n + 1) OBVIOUS
<1>1. c1.kind = kind /\ c1.labels = Opened(g, kind).labels BY ConstructFields
<1>2. /\ Begun(g, x, c1, p, n)
      /\ \A l : Awaits(c1, l) => l \in {Unique(g.unique), Unique(g.unique + 1), Unique(g.unique + 2)}
  <2>1. c1 = Construct(kind, ret, Opened(g, kind).labels) OBVIOUS
  <2>2. Longer(o, n, p, c1) OBVIOUS
  <2> HIDE DEF c1
  <2> QED BY <2>1, <2>2, ConstructBegins
<1>3. Longer(o, n, p, c1) OBVIOUS
<1> HIDE DEF c1
<1>4. Names(g, c1) BY <1>1, <1>2, ConstructNames
<1>5. Regular(x) /\ Sound(x) /\ x.unique = g.unique BY <1>2 DEF Begun
<1>6. g.unique \in Nat /\ Regular(g) BY ReadyFacts
<1>7. Grown(x, y) /\ y.unique = x.unique + 3 /\ y.error = x.error BY <1>5, GrownRenumber
<1>8. Ok(x) BY <1>7 DEF Ok
<1>9. Started(g, x, c1) BY <1>1, <1>8, ConstructStarted
<1>10. Keeps(x, y, {"unique"})
  <2>1. IsFunctionRecord(x) BY <1>5 DEF Regular
  <2> HIDE DEF x
  <2> QED BY <2>1 DEF Keeps, Renumbered, IsFunctionRecord
<1> HIDE DEF x, y
<1>11. Grown(g, y) BY <1>6, <1>7, <1>9, GrownTrans DEF Started
<1>12. Renamed(g, x, y)
  <2>1. y.unique \in Nat /\ g.unique < y.unique /\ g.unique <= y.unique BY <1>5, <1>6, <1>7
  <2> QED BY <1>10, <1>11, <2>1 DEF Renamed
<1>13. Fenced(y, p, n + 1) /\ Fenced(EnterBlock(y), p, n + 1) BY <1>3, <1>4, <1>9, <1>12, StartedFenced
<1> QED BY <1>13 DEF y, x

(* else and elseif: the end of the statement is still to be placed. *)
LEMMA PartTargets ==
    ASSUME NEW f0, NEW o, NEW at, NEW n, Ending(f0, o, at, n), Fenced(f0, o, n), Ok(f0), o[n].kind = "if",
           NEW g, IsPart(f0, o, n, g), Ok(g)
    PROVE  /\ \A t \in Targets(g) : t.label # o[n].labels[2]
           /\ Fenced(g, o, n - 1)
<1> DEFINE l == o[n].labels[1]
           m == o[n].labels[2]
           j == Jump(f0, m)
           e == ExitBlock(j)
           h == JumpTarget(e, l)
<1>1. Safe(f0, f0, o, at, n, {}, StackTop(f0)) /\ Context(f0, o, at, n) BY SafeStart
<1>2. at[n] \in Nat /\ at[n] # 0 /\ at[n] + BlocksOf(o[n]) = Len(f0.blocks) /\ n \in 1..n BY EndingStart DEF Ranged
<1>3. PICK k \in Nat : k = at[n] /\ k # 0 BY <1>2
<1>4. Len(f0.blocks) = k + 1 /\ at[n] <= k BY <1>2, <1>3 DEF Ending, BlocksOf, HasState
<1>5. Awaits(o[n], l) /\ Awaits(o[n], m) BY DEF Awaits
<1>6. l \in JumpLabels /\ m \in JumpLabels BY <1>5, EndingWaits
<1>7. (\A t \in Targets(f0) : t.label # m) /\ l # m BY <1>2, <1>5 DEF Fenced, Labelled
<1>8. h = g BY DEF CloseIfPart, IsPart
<1>9. Safe(f0, j, o, at, n, {}, StackTop(j)) /\ j.blocks = f0.blocks BY <1>1, <1>5, <1>6, <1>7, SafeForward
<1>10. Targets(j) = Targets(f0)
  <2>1. Regular(f0) /\ Sound(f0) /\ Len(f0.blocks) > 0 BY <1>1, <1>3, <1>4 DEF Context, Ending
  <2> QED BY <1>6, <2>1, GrownJump
<1> HIDE DEF j
<1>11. Safe(f0, e, o, at, n, {}, StackTop(e)) /\ Targets(e) \subseteq Targets(j)
  <2>1. Regular(j) /\ StackTop(j) \in Nat BY <1>1, <1>9, MidRegular DEF Safe, Context
  <2>2. k + 1 \in 1..Len(j.blocks) BY <1>4, <1>9
  <2>3. Bottom(j, k + 1) <= StackTop(j) /\ StackTop(j) \in Int BY <2>1, <2>2, BottomsRise
  <2> QED BY <1>1, <1>3, <1>4, <1>9, <2>3, SafeExit
<1> HIDE DEF e
<1>12. \A t \in Targets(g) : t \in Targets(e) \/ t = TargetAt(e, l)
  <2>1. Regular(e) BY <1>1, <1>11, MidRegular DEF Safe, Context
  <2>2. Ok(JumpTarget(e, l)) BY <1>8
  <2> QED BY <1>6, <1>8, <2>1, <2>2, TargetFacts
<1>13. TargetAt(e, l).label = l BY DEF TargetAt
<1>14. \A t \in Targets(g) : t.label # m BY <1>7, <1>10, <1>11, <1>12, <1>13
<1>15. Fenced(g, o, n - 1)
  <2>1. g = CloseIfPart(f0, o[n].labels, TRUE) BY DEF IsPart
  <2>2. ASSUME NEW more \in BOOLEAN, Ok(CloseIfPart(f0, o[n].labels, more))
        PROVE  /\ Safe(f0, CloseIfPart(f0, o[n].labels, more), o, at, n, {}, StackTop(CloseIfPart(f0, o[n].labels, more)))
               /\ Len(CloseIfPart(f0, o[n].labels, more).blocks) = at[n]
    BY <2>2, PartSafe
  <2>3. TRUE \in BOOLEAN /\ Ok(CloseIfPart(f0, o[n].labels, TRUE)) BY <2>1
  <2>4. Safe(f0, g, o, at, n, {}, StackTop(g)) /\ Len(g.blocks) = at[n] BY <2>1, <2>2, <2>3, Zenon
  <2> QED BY <2>4, ClosedSame
<1> QED BY <1>14, <1>15

(* else begins in order. *)
LEMMA ElseFences ==
    ASSUME NEW f0, NEW o, NEW at, NEW n, Ending(f0, o, at, n), Fenced(f0, o, n), Ok(f0), o[n].kind = "if",
           NEW g, IsPart(f0, o, n, g), Ok(g), NEW ret \in BOOLEAN,
           NEW p, Longer(o, n - 1, p, Construct("else", ret, o[n].labels))
    PROVE  Fenced(Body(EnterBlock(g), ret), p, (n - 1) + 1)
<1> DEFINE c1 == Construct("else", ret, o[n].labels)
           x == EnterBlock(g)
           l2 == o[n].labels[2]
<1>1. PartEnded(f0, g, o, at, n) /\ Regular(g) /\ Sound(g) /\ g.unique \in Nat BY PartFacts
<1>2. (\A t \in Targets(g) : t.label # l2) /\ Fenced(g, o, n - 1) BY PartTargets
<1>3. Ready(g, o, at, n - 1, {l2}) BY <1>1, PartReady
<1>4. c1.kind = "else" /\ c1.labels = o[n].labels BY ClauseFields
<1>5. Longer(o, n - 1, p, c1) OBVIOUS
<1> HIDE DEF c1
<1>6. \A l : Awaits(c1, l) => l = l2 BY <1>4 DEF Awaits
<1> HIDE DEF l2
<1>7. Names(g, c1) BY <1>2, <1>4, <1>6 DEF Names
<1>8. \A t \in Targets(g) : t.label # Unique(g.unique)
  <2>1. g.unique + 0 = g.unique BY <1>1
  <2>2. \A t \in Targets(g) : t.label # Unique(g.unique + 0) BY <1>2, <1>3, FreshTarget
  <2> QED BY <2>1, <2>2
<1>9. Started(g, x, c1)
  <2>1. ~HasState(c1) /\ c1.kind # "while" BY <1>4 DEF HasState
  <2>2. Guarded(g, StackTop(g)) /\ Settled(g) BY <1>2 DEF Fenced
  <2> QED BY <1>1, <1>8, <2>1, <2>2, PlainStarted
<1>10. Renamed(g, x, x)
  <2>1. Grown(g, x) /\ x.unique = g.unique /\ Targets(x) = Targets(g) BY <1>1, GrownEnter
  <2> HIDE DEF x
  <2>2. IsFunctionRecord(x) BY <2>1 DEF Grown, Regular
  <2>3. Keeps(x, x, {"unique"}) BY <2>2 DEF Keeps
  <2> QED BY <1>1, <2>1, <2>3 DEF Renamed
<1> HIDE DEF x
<1>11. Fenced(x, p, (n - 1) + 1) /\ Fenced(EnterBlock(x), p, (n - 1) + 1) BY <1>2, <1>3, <1>5, <1>7, <1>9, <1>10, StartedFenced
<1>12. Body(x, ret) = x \/ Body(x, ret) = EnterBlock(x) BY DEF Body
<1> QED BY <1>11, <1>12 DEF x

(* elseif begins in order. *)
LEMMA ElseIfFences ==
    ASSUME NEW f0, NEW o, NEW at, NEW n, Ending(f0, o, at, n), Fenced(f0, o, n), Ok(f0), o[n].kind = "if",
           StackTop(f0) < Registers, NEW g, IsPart(f0, o, n, g), Ok(g), NEW next, next = Unique(g.unique),
           NEW ret \in BOOLEAN, NEW p, Longer(o, n - 1, p, Construct("if", ret, <<next, o[n].labels[2]>>))
    PROVE  Fenced(Body(EnterBlock(TestElse(Renumbered(g, 1), next)), ret), p, (n - 1) + 1)
<1> DEFINE c1 == Construct("if", ret, <<next, o[n].labels[2]>>)
           y == Renumbered(g, 1)
           x == EnterBlock(TestElse(y, next))
           l2 == o[n].labels[2]
<1>1. /\ PartEnded(f0, g, o, at, n) /\ Regular(g) /\ Sound(g) /\ g.unique \in Nat /\ StackTop(g) \in Nat
      /\ StackTop(g) <= StackTop(f0) /\ Len(g.blocks) > 0
  BY PartFacts
<1>2. (\A t \in Targets(g) : t.label # l2) /\ Fenced(g, o, n - 1) BY PartTargets
<1>3. Ready(g, o, at, n - 1, {l2}) BY <1>1, PartReady
<1>4. c1.kind = "if" /\ c1.labels = <<next, l2>> BY ClauseFields
<1>5. Longer(o, n - 1, p, c1) OBVIOUS
<1> HIDE DEF c1
<1>6. \A l : Awaits(c1, l) => l = next \/ l = l2 BY <1>4 DEF Awaits
<1>7. l2 \in UniqueLabels /\ l2.id < g.unique BY <1>3 DEF Ready
<1>8. next \in UniqueLabels /\ next \in JumpLabels /\ next.id = g.unique
  BY <1>1 DEF Unique, UniqueLabels, JumpLabels
<1>9. next # l2
  <2>1. l2.id \in Nat BY <1>7 DEF UniqueLabels
  <2> QED BY <1>1, <1>7, <1>8, <2>1
<1> HIDE DEF l2
<1>10. \A t \in Targets(g) : t.label # next
  <2>1. g.unique + 0 = g.unique BY <1>1
  <2>2. \A t \in Targets(g) : t.label # Unique(g.unique + 0) BY <1>2, <1>3, FreshTarget
  <2> QED BY <2>1, <2>2
<1>11. Names(g, c1) BY <1>2, <1>4, <1>6, <1>9, <1>10 DEF Names
<1>12. /\ Grown(g, y) /\ y.blocks = g.blocks /\ StackTop(y) = StackTop(g)
       /\ y.locals = g.locals /\ y.unique = g.unique + 1 /\ y.error = g.error
       /\ y.pending_jumps = g.pending_jumps /\ Targets(y) = Targets(g) /\ y.ops = g.ops
  BY <1>1, GrownRenumber
<1>13. Keeps(g, y, {"unique"})
  <2>1. IsFunctionRecord(g) BY <1>1 DEF Regular
  <2> QED BY <2>1 DEF Keeps, Renumbered, IsFunctionRecord
<1> HIDE DEF y
<1>14. Regular(y) /\ Sound(y) /\ Ok(y) BY <1>12 DEF Grown, Ok
<1>15. y.scopes = g.scopes /\ y.jump_targets = g.jump_targets BY <1>13 DEF Keeps
<1>16. Guarded(y, StackTop(y))
  <2>1. Guarded(g, StackTop(g)) BY <1>2 DEF Fenced
  <2>2. Guarded(y, StackTop(g)) BY <1>12, <1>15, <2>1, SameGuarded
  <2> QED BY <1>12, <2>2
<1>17. StackTop(y) < Registers
  <2>1. Registers \in Nat /\ StackTop(f0) \in Nat
    BY RegistersAssumption, RegularParts DEF Ending, Laid
  <2> QED BY <1>1, <1>12, <2>1
<1>18. /\ Grown(y, x) /\ Guarded(x, StackTop(x)) /\ Settled(x) /\ Prepares(y, x)
       /\ x.locals = y.locals /\ x.scopes = y.scopes /\ Targets(x) = Targets(y)
       /\ x.unique = y.unique
  <2>1. Len(y.blocks) > 0 /\ \A t \in Targets(y) : t.label # next BY <1>1, <1>10, <1>12
  <2> QED BY <1>8, <1>14, <1>16, <1>17, <2>1, TestEnters
<1> HIDE DEF x
<1>19. Grown(g, x) BY <1>1, <1>12, <1>18, GrownTrans
<1>20. Started(g, x, c1)
  <2>1. ~HasState(c1) /\ c1.kind # "while" /\ c1.kind # "for" BY <1>4 DEF HasState
  <2>2. \A i \in 1..Len(x.ops) : Unprepared(x.ops[i]) => i \in 1..Len(g.ops) /\ Unprepared(g.ops[i])
    BY <1>12, <1>18 DEF Prepares
  <2> QED BY <1>10, <1>12, <1>15, <1>18, <1>19, <2>1, <2>2 DEF Started
<1>21. Renamed(g, x, x)
  <2>1. IsFunctionRecord(x) BY <1>18 DEF Grown, Regular
  <2>2. Keeps(x, x, {"unique"}) BY <2>1 DEF Keeps
  <2>3. x.unique \in Nat /\ g.unique < x.unique /\ g.unique <= x.unique BY <1>1, <1>12, <1>18
  <2> QED BY <1>19, <2>2, <2>3 DEF Renamed
<1>22. Fenced(x, p, (n - 1) + 1) /\ Fenced(EnterBlock(x), p, (n - 1) + 1) BY <1>2, <1>3, <1>5, <1>11, <1>20, <1>21, StartedFenced
<1>23. Body(x, ret) = x \/ Body(x, ret) = EnterBlock(x) BY DEF Body
<1> QED BY <1>22, <1>23 DEF x, y

(* A goto never finds a label already placed: the third use of jumps the compiler gets
   wrong is left out. *)
ForwardGotos == "goto back" \notin Features

(* The second invariant of the walk. *)
Guards == phase = "compile" /\ Ok(f) => Fenced(f, open, Len(open))

(* The mark that a label came last does not matter. *)
LEMMA MarkedFenced ==
    ASSUME NEW o, Sequence(o), Len(o) \in Nat \ {0}, Typed(o[Len(o)]), NEW h, Fenced(h, o, Len(o)), NEW label \in BOOLEAN
    PROVE  LET p == [o EXCEPT ![Len(o)].afterLabel = label]
           IN  Len(p) = Len(o) /\ Fenced(h, p, Len(o))
<1> DEFINE n == Len(o)
           d == o[n]
           x == [d EXCEPT !.afterLabel = label]
           p == [o EXCEPT ![n] = x]
<1>1. d \in [kind : SourceKinds \union {"chunk", "else"}, ret : BOOLEAN, labels : {d.labels},
             at : {"body", "labels"}, afterLabel : BOOLEAN]
  BY DEF Typed
<1> HIDE DEF d
<1>2. x.kind = d.kind /\ x.labels = d.labels BY <1>1
<1> HIDE DEF x
<1>3. /\ Len(p) = n /\ p[n] = x /\ \A c \in 1..n - 1 : p[c] = o[c] BY ReplacedLast
<1>4. p = [o EXCEPT ![Len(o)].afterLabel = label] BY DEF p, x, d
<1> HIDE DEF p
<1>5. \A c \in 1..n : p[c].kind = o[c].kind /\ p[c].labels = o[c].labels
  <2>1. \A c \in 1..n : c = n \/ c \in 1..n - 1 OBVIOUS
  <2> QED BY <1>2, <1>3, <2>1 DEF d
<1> HIDE DEF n
<1>6. Fenced(h, p, n) BY <1>5, FencedAlike DEF n
<1> QED BY <1>3, <1>4, <1>6 DEF n

(* A statement that keeps Fenced keeps the second invariant. *)
LEMMA StatementGuards ==
    ASSUME CompilerInv, Guards, Walking, NEW label \in BOOLEAN, open' = After(label),
           \A at : Laid(f, open, at, Len(open)) /\ Fenced(f, open, Len(open)) /\ Ok(f') => Fenced(f', open, Len(open))
    PROVE  Guards'
<1>1. /\ Layout(f, open) /\ Sequence(open) /\ Ok(f) /\ phase = "compile" /\ Len(open) \in Nat \ {0} BY WalkFacts
<1>2. PICK at : Laid(f, open, at, Len(open)) BY <1>1 DEF Layout
<1>3. Fenced(f, open, Len(open)) BY <1>1 DEF Guards
<1>4. ASSUME Ok(f') PROVE Fenced(f', open', Len(open'))
  <2>1. Fenced(f', open, Len(open)) BY <1>2, <1>3, <1>4
  <2>2. Typed(open[Len(open)]) BY <1>2, LaidTyped
  <2>3. LET p == [open EXCEPT ![Len(open)].afterLabel = label]
        IN  Len(p) = Len(open) /\ Fenced(f', p, Len(open))
    BY <1>1, <2>1, <2>2, MarkedFenced
  <2>4. open' = [open EXCEPT ![Len(open)].afterLabel = label] BY DEF After
  <2> QED BY <2>3, <2>4
<1> QED BY <1>4 DEF Guards

(* Every action of the walk keeps it: local v; *)
LEMMA LocalGuards ==
    ASSUME RoomForNext, CompilerInv, Guards, LocalStatement
    PROVE  Guards'
<1>1. /\ Walking /\ InBody /\ source["locals"] < MaxLocals
      /\ f' = DeclaredLocal(f) /\ open' = After(FALSE)
  BY DEF LocalStatement, Statement, Within, DeclaredLocal
<1>2. Sound(f) /\ Ok(f) /\ open[Len(open)].at = "body" BY <1>1, WalkFacts DEF InBody
<1>3. StackTop(f) + 1 < Registers BY <1>1 DEF RoomForNext
<1>4. ASSUME NEW at, Laid(f, open, at, Len(open)), Fenced(f, open, Len(open)) PROVE Fenced(f', open, Len(open))
  <2>1. Fenced(DeclaredLocal(f), open, Len(open)) BY <1>2, <1>3, <1>4, LocalFenced
  <2> QED BY <1>1, <2>1
<1>5. FALSE \in BOOLEAN OBVIOUS
<1> QED BY <1>1, <1>4, <1>5, StatementGuards

(* a closure; *)
LEMMA ClosureGuards ==
    ASSUME RoomForNext, CompilerInv, Guards, ClosureStatement
    PROVE  Guards'
<1>1. PICK v \in ToSet(f.locals) : f' = Capture(f, v.reg) /\ open' = After(FALSE)
  BY DEF ClosureStatement, Statement
<1>2. Walking BY DEF ClosureStatement
<1>3. Layout(f, open) /\ Sound(f) BY <1>2, WalkFacts
<1>4. StackTop(f) < Registers BY <1>2 DEF RoomForNext
<1>5. PICK i \in 1..Len(f.locals) : v = f.locals[i]
  <2>1. PICK at : Laid(f, open, at, Len(open)) BY <1>3 DEF Layout
  <2>2. f.locals \in Seq(LocalDescriptors) BY <2>1 DEF Laid, Regular, Rising
  <2> QED BY <2>2, Elements DEF ToSet
<1>6. ASSUME NEW at, Laid(f, open, at, Len(open)), Fenced(f, open, Len(open)) PROVE Fenced(f', open, Len(open))
  <2>1. Fenced(Capture(f, f.locals[i].reg), open, Len(open)) BY <1>3, <1>4, <1>6, CaptureFenced
  <2> QED BY <1>1, <1>5, <2>1
<1>7. FALSE \in BOOLEAN OBVIOUS
<1> QED BY <1>1, <1>2, <1>6, <1>7, StatementGuards

(* a jump to a label that is not placed yet, *)
LEMMA JumpGuards ==
    ASSUME CompilerInv, Guards, Walking, NEW label \in JumpLabels, label.kind # "unique",
           \A t \in Targets(f) : t.label # label, f' = Jump(f, label), open' = After(FALSE)
    PROVE  Guards'
<1>1. Sound(f) /\ Ok(f) BY WalkFacts
<1>2. ASSUME NEW at, Laid(f, open, at, Len(open)), Fenced(f, open, Len(open)) PROVE Fenced(f', open, Len(open))
  BY <1>1, <1>2, JumpFenced
<1>3. FALSE \in BOOLEAN OBVIOUS
<1> QED BY <1>2, <1>3, StatementGuards

(* break; *)
LEMMA BreakGuards ==
    ASSUME CompilerInv, Guards, BreakStatement
    PROVE  Guards'
<1>1. Break \in JumpLabels /\ Break.kind # "unique" BY DEF Break, JumpLabels
<1>2. Walking /\ f' = Jump(f, Break) /\ open' = After(FALSE) BY DEF BreakStatement, Statement
<1>3. \A t \in Targets(f) : t.label # Break
  <2>1. phase = "compile" /\ Ok(f) BY <1>2 DEF Walking
  <2> QED BY <2>1 DEF Guards, Fenced, Labelled
<1> QED BY <1>1, <1>2, <1>3, JumpGuards

(* goto forward; *)
LEMMA GotoGuards ==
    ASSUME ForwardGotos, CompilerInv, Guards, GotoStatement
    PROVE  Guards'
<1>1. PICK l \in Labels : TargetOf(f, Named(l)) = 0 /\ f' = Jump(f, Named(l)) /\ open' = After(FALSE)
  BY DEF GotoStatement, Statement, ForwardGotos
<1>2. Walking BY DEF GotoStatement
<1>3. Named(l) \in JumpLabels /\ Named(l).kind # "unique" BY NamedIsLabel
<1>4. Regular(f)
  <2>1. Layout(f, open) BY <1>2, WalkFacts
  <2> QED BY <2>1 DEF Layout, Laid
<1>5. \A t \in Targets(f) : t.label # Named(l) BY <1>1, <1>4, TargetFound DEF Targets
<1> QED BY <1>1, <1>2, <1>3, <1>5, JumpGuards

(* a label; *)
LEMMA LabelGuards ==
    ASSUME CompilerInv, Guards, LabelStatement
    PROVE  Guards'
<1>1. PICK l \in Labels : f' = JumpTarget(f, Named(l)) BY DEF LabelStatement
<1>2. Walking /\ open' = After(TRUE) BY DEF LabelStatement
<1>3. Named(l) \in JumpLabels /\ Named(l).kind = "named" BY NamedIsLabel
<1>4. Sound(f) BY <1>2, WalkFacts
<1>5. ASSUME NEW at, Laid(f, open, at, Len(open)), Fenced(f, open, Len(open)), Ok(f') PROVE Fenced(f', open, Len(open))
  BY <1>1, <1>3, <1>4, <1>5, LabelFenced
<1>6. TRUE \in BOOLEAN OBVIOUS
<1> QED BY <1>2, <1>5, <1>6, StatementGuards

(* the end of a body; *)
LEMMA EndBodyGuards ==
    ASSUME CompilerInv, Guards, EndBody
    PROVE  Guards'
<1> DEFINE n == Len(open)
           p == [open EXCEPT ![Len(open)].at = "labels"]
<1>1. /\ Walking /\ open[n].at = "body" /\ ~open[n].ret /\ open[n].kind # "repeat"
      /\ f' = ExitBlock(f) /\ open' = p
  BY WalkFacts DEF EndBody, InBody
<1>2. Layout(f, open) /\ Sequence(open) /\ Sound(f) /\ Ok(f) /\ phase = "compile" /\ n \in Nat \ {0} BY <1>1, WalkFacts
<1>3. PICK at : Laid(f, open, at, n) BY <1>2 DEF Layout
<1>4. Fenced(f, open, n) BY <1>2 DEF Guards
<1>5. Len(p) = n /\ Ended(open, n, p) BY <1>1, <1>2, <1>3, MarkedEnded
<1> HIDE DEF p
<1>6. Fenced(ExitBlock(f), p, n) BY <1>1, <1>2, <1>3, <1>4, <1>5, BodyFenced
<1> QED BY <1>1, <1>5, <1>6 DEF Guards

(* return; *)
LEMMA ReturnGuards ==
    ASSUME CompilerInv, Guards, ReturnStatement
    PROVE  Guards'
<1> DEFINE n == Len(open)
           p == [open EXCEPT ![Len(open)].at = "labels"]
<1>1. /\ Walking /\ open[n].ret /\ f' = Emit(f, Instr("return", {})) /\ open' = p
  BY WalkFacts DEF ReturnStatement, InBody
<1>2. Layout(f, open) /\ Sequence(open) /\ Sound(f) /\ Ok(f) /\ phase = "compile" /\ n \in Nat \ {0} BY <1>1, WalkFacts
<1>3. PICK at : Laid(f, open, at, n) BY <1>2 DEF Layout
<1>4. Fenced(f, open, n) BY <1>2 DEF Guards
<1>6. Len(p) = n /\ Ended(open, n, p) BY <1>1, <1>2, <1>3, MarkedEnded
<1> HIDE DEF p
<1>7. Fenced(Emit(f, Instr("return", {})), p, n) BY <1>2, <1>3, <1>4, <1>6, ReturnFenced
<1> QED BY <1>1, <1>6, <1>7 DEF Guards

(* the end of a construct; *)
LEMMA EndConstructGuards ==
    ASSUME SoundFeatures, RoomForNext, CompilerInv, Guards, EndConstruct
    PROVE  Guards'
<1> DEFINE n == Len(open)
           h == Closed(f, open[n].kind, open[n].labels)
<1>1. Closable /\ Walking /\ n > 1 BY DEF EndConstruct, Closable
<1>2. /\ Layout(f, open) /\ Sequence(open) /\ Sound(f) /\ Ok(f) /\ phase = "compile"
      /\ n \in Nat \ {0} /\ Last(open) = open[n]
  BY <1>1, WalkFacts
<1>3. /\ f' = h /\ open' = Front(open)
      /\ \/ open[n].kind \notin {"for", "forin"}
         \/ \A p \in f.pending_jumps : p.target.kind = "named" => p.block_index <= Len(f.blocks) - 2
  BY <1>2 DEF EndConstruct, SoundFeatures
<1>4. PICK at : Laid(f, open, at, n) BY <1>2 DEF Layout
<1>5. Ending(f, open, at, n) BY <1>1, <1>4, ClosableEnding
<1>6. HasState(open[n]) => NoGotoLeaves(f, at[n])
  <2>1. HasState(open[n]) => at[n] = Len(f.blocks) - 2 BY <1>5, LoopStart
  <2>2. HasState(open[n]) => \A p \in f.pending_jumps : p.target.kind = "named" => p.block_index <= Len(f.blocks) - 2
    BY <1>3 DEF HasState
  <2> QED BY <2>1, <2>2 DEF NoGotoLeaves
<1>7. StackTop(f) < Registers BY <1>1 DEF RoomForNext
<1>8. Fenced(f, open, n) BY <1>2 DEF Guards
<1>9. PICK m \in Nat \ {0} : n = m + 1
  <2>1. n - 1 \in Nat \ {0} /\ n = (n - 1) + 1 BY <1>1, <1>2
  <2> QED BY <2>1
<1>10. Len(Front(open)) = m /\ \A c \in 1..m : Front(open)[c] = open[c] BY <1>2, <1>9, FrontSequence
<1>11. ASSUME Ok(f') PROVE Fenced(f', open', Len(open'))
  <2>1. Fenced(h, open, n - 1) BY <1>2, <1>3, <1>5, <1>6, <1>7, <1>8, <1>11, ConstructFenced
  <2>2. n - 1 = m BY <1>9
  <2> HIDE DEF h
  <2>3. Fenced(h, open, m) BY <2>1, <2>2
  <2>4. Fenced(h, Front(open), m) BY <1>10, <2>3, FencedAlike
  <2> QED BY <1>3, <1>10, <2>4
<1> QED BY <1>11 DEF Guards

(* the start of a construct; *)
LEMMA BeginGuards ==
    ASSUME SoundFeatures, RoomForNext, CompilerInv, Guards, BeginConstruct
    PROVE  Guards'
<1>1. PICK kind \in Kinds, ret \in BOOLEAN :
          /\ ret /\ kind = "while" => "return ends while" \in Features
          /\ LET o == Opened(f, kind)
                 g == [o.now EXCEPT !.unique = @ + 3]
             IN  /\ f' = IF Ok(g) /\ kind # "repeat" THEN Body(g, ret) ELSE g
                 /\ open' = Append(After(FALSE), Construct(kind, ret, o.labels))
  BY DEF BeginConstruct
<1>2. Walking /\ InBody /\ source["constructs"] < MaxConstructs BY DEF BeginConstruct, Within
<1> DEFINE n == Len(open)
           y == Renumbered(Opened(f, kind).now, 3)
           c1 == Construct(kind, ret, Opened(f, kind).labels)
           p == After(FALSE)
<1>3. f' = (IF Ok(y) /\ kind # "repeat" THEN Body(y, ret) ELSE y) /\ open' = Append(p, c1)
  BY <1>1 DEF Renumbered
<1>4. kind \in SourceKinds BY ConstructsAssumption DEF SourceKinds
<1>5. ret => kind # "while" BY <1>1 DEF SoundFeatures
<1>6. /\ Layout(f, open) /\ Sequence(open) /\ Ok(f) /\ phase = "compile" /\ n \in Nat \ {0} /\ open[n].at = "body"
  BY <1>2, WalkFacts DEF InBody
<1>7. StackTop(f) + 4 < Registers BY <1>2 DEF RoomForNext
<1>8. PICK at : Laid(f, open, at, n) BY <1>6 DEF Layout
<1>9. /\ Sequence(p) /\ Len(p) = n /\ Laid(f, p, at, n) /\ p[n].at = "body" /\ Fenced(f, p, n)
  <2>1. FALSE \in BOOLEAN OBVIOUS
  <2>2. Fenced(f, open, n) BY <1>6 DEF Guards
  <2>3. Typed(open[n]) BY <1>8, LaidTyped
  <2>4. Fenced(f, p, n) BY <1>6, <2>1, <2>2, <2>3, MarkedFenced DEF After
  <2> QED BY <1>6, <1>8, <2>1, <2>4, LayoutMarked DEF After
<1> HIDE DEF p
<1>10. Ready(f, p, at, n, {}) BY <1>6, <1>9, LaidReady
<1>11. Longer(p, n, Append(p, c1), c1) BY <1>9, AppendLonger
<1>12. Ok(y) => Fenced(y, Append(p, c1), n + 1) /\ Fenced(EnterBlock(y), Append(p, c1), n + 1)
  BY <1>4, <1>5, <1>7, <1>9, <1>10, <1>11, ConstructFences
<1>14. Len(Append(p, c1)) = n + 1 BY <1>9, SequenceFacts
<1> HIDE DEF y, c1, n
<1>15. Ok(f') => Fenced(f', Append(p, c1), n + 1)
  <2>1. CASE Ok(y) BY <1>3, <1>12, <2>1 DEF Body
  <2>2. CASE ~Ok(y) BY <1>3, <2>2
  <2> QED BY <2>1, <2>2
<1> QED BY <1>3, <1>14, <1>15 DEF Guards

(* else and elseif. *)
LEMMA ElseGuards ==
    ASSUME RoomForNext, CompilerInv, Guards, ElsePart
    PROVE  Guards'
<1> DEFINE n == Len(open)
           labels == open[n].labels
           g == CloseIfPart(f, labels, TRUE)
           next == Unique(g.unique)
           p == Front(open)
<1>1. Closable /\ Walking BY DEF ElsePart, Closable
<1>2. /\ Layout(f, open) /\ Sequence(open) /\ Sound(f) /\ Ok(f) /\ phase = "compile"
      /\ n \in Nat \ {0} /\ Last(open) = open[n]
  BY <1>1, WalkFacts
<1>3. open[n].kind = "if" BY <1>2 DEF ElsePart
<1>16. PICK ret \in BOOLEAN :
          \/ /\ f' = Body(EnterBlock(g), ret)
             /\ open' = Append(p, Construct("else", ret, labels))
          \/ /\ f' = Body(EnterBlock(TestElse(Renumbered(g, 1), next)), ret)
             /\ open' = Append(p, Construct("if", ret, <<next, labels[2]>>))
  BY <1>2 DEF ElsePart, Renumbered
<1>4. PICK at : Laid(f, open, at, n) BY <1>2 DEF Layout
<1>5. n > 1
  <2>1. n \in 1..n BY <1>2
  <2>2. \A c \in 1..n : open[c].kind = "chunk" <=> c = 1 BY <1>4 DEF Laid, Held
  <2>3. n # 1
    <3>1. n = 1 => open[n].kind = "chunk" BY <2>1, <2>2
    <3> QED BY <1>3, <3>1
  <2> HIDE DEF n
  <2> QED BY <1>2, <2>3
<1>6. Ending(f, open, at, n) BY <1>1, <1>4, <1>5, ClosableEnding
<1>7. IsPart(f, open, n, g) BY Zenon DEF IsPart
<1>8. PICK m \in Nat \ {0} : n = m + 1
  <2>1. n - 1 \in Nat \ {0} /\ n = (n - 1) + 1 BY <1>2, <1>5
  <2> QED BY <2>1
<1>9. Sequence(p) /\ Len(p) = m /\ \A c \in 1..m : p[c] = open[c] BY <1>2, <1>8, FrontSequence
<1>10. Fenced(f, open, n) BY <1>2 DEF Guards
<1> HIDE DEF g, p
<1>11. Regular(g) /\ Sound(g) BY <1>3, <1>6, <1>7, PartFacts
<1>12. StackTop(f) < Registers BY <1>1 DEF RoomForNext
<1>13. ASSUME NEW c1 PROVE Longer(open, n - 1, Append(p, c1), c1) /\ Len(Append(p, c1)) = (n - 1) + 1
  <2>1. Longer(p, m, Append(p, c1), c1) BY <1>9, AppendLonger
  <2>2. n - 1 = m BY <1>8
  <2>3. Longer(open, m, Append(p, c1), c1) BY <1>9, <2>1 DEF Longer
  <2>4. Len(Append(p, c1)) = m + 1 BY <1>9, SequenceFacts
  <2> QED BY <2>2, <2>3, <2>4
<1>14. CASE /\ f' = Body(EnterBlock(g), ret)
            /\ open' = Append(p, Construct("else", ret, labels))
  <2> DEFINE c1 == Construct("else", ret, labels)
  <2>1. ASSUME Ok(f') PROVE Ok(g)
    <3>1. Grown(g, EnterBlock(g)) /\ EnterBlock(g).error = g.error BY <1>11, GrownEnter
    <3>2. Regular(EnterBlock(g)) /\ Sound(EnterBlock(g)) BY <3>1 DEF Grown
    <3>3. EnterBlock(EnterBlock(g)).error = EnterBlock(g).error BY <3>2, GrownEnter
    <3> QED BY <1>14, <2>1, <3>1, <3>3 DEF Ok, Body
  <2>2. ASSUME Ok(g) PROVE Fenced(Body(EnterBlock(g), ret), Append(p, c1), (n - 1) + 1)
    BY <1>2, <1>3, <1>6, <1>7, <1>10, <1>13, <2>2, ElseFences
  <2> HIDE DEF c1
  <2>3. Len(Append(p, c1)) = (n - 1) + 1 /\ open' = Append(p, c1) BY <1>13, <1>14 DEF c1
  <2> QED BY <1>14, <2>1, <2>2, <2>3 DEF Guards
<1>15. CASE /\ f' = Body(EnterBlock(TestElse(Renumbered(g, 1), next)), ret)
            /\ open' = Append(p, Construct("if", ret, <<next, labels[2]>>))
  <2> DEFINE c1 == Construct("if", ret, <<next, labels[2]>>)
             x == EnterBlock(TestElse(Renumbered(g, 1), next))
  <2>1. ASSUME Ok(f') PROVE Ok(g)
    <3> DEFINE y == Renumbered(g, 1)
    <3>1. /\ Grown(g, y) /\ y.blocks = g.blocks /\ StackTop(y) = StackTop(g) /\ y.error = g.error
      BY <1>11, GrownRenumber
    <3>2. /\ StackTop(g) <= StackTop(f) /\ Len(g.blocks) > 0 /\ StackTop(g) \in Nat /\ g.unique \in Nat
      BY <1>3, <1>6, <1>7, PartFacts
    <3> HIDE DEF y
    <3>3. Regular(y) /\ Sound(y) /\ Len(y.blocks) > 0 BY <3>1, <3>2 DEF Grown
    <3>4. StackTop(y) < Registers
      <4>1. Registers \in Nat /\ StackTop(f) \in Nat BY RegistersAssumption, WalkFacts, <1>1
      <4> QED BY <1>12, <3>1, <3>2, <4>1
    <3>5. next \in JumpLabels BY <3>2 DEF Unique, JumpLabels
    <3>6. Grown(y, EnterBlock(TestElse(y, next))) /\ EnterBlock(TestElse(y, next)).error = y.error
      BY <3>3, <3>4, <3>5, TestEntered
    <3>7. Grown(y, x) /\ x.error = y.error BY <3>6 DEF y
    <3> HIDE DEF x
    <3>8. Regular(x) /\ Sound(x) BY <3>7 DEF Grown
    <3>9. EnterBlock(x).error = x.error BY <3>8, GrownEnter
    <3>10. f' = x \/ f' = EnterBlock(x) BY <1>15 DEF Body, x
    <3> QED BY <2>1, <3>1, <3>7, <3>9, <3>10 DEF Ok
  <2>2. ASSUME Ok(g) PROVE Fenced(Body(x, ret), Append(p, c1), (n - 1) + 1)
    BY <1>2, <1>3, <1>6, <1>7, <1>10, <1>12, <1>13, <2>2, ElseIfFences
  <2> HIDE DEF c1
  <2>3. Len(Append(p, c1)) = (n - 1) + 1 /\ open' = Append(p, c1) /\ f' = Body(x, ret) BY <1>13, <1>15 DEF c1
  <2> HIDE DEF x
  <2> QED BY <2>1, <2>2, <2>3 DEF Guards
<1> QED BY <1>14, <1>15, <1>16

(* The empty function has nothing to guard. *)
LEMMA StartGuards ==
    ASSUME ScopeInit
    PROVE  Guards
<1>1. PICK fixed \in 0..MaxLocals, ret \in BOOLEAN :
          /\ fixed < Registers
          /\ f = Body(EnterBlock(StartFunction(fixed)), ret) /\ open = <<Construct("chunk", ret, <<>>)>>
  BY DEF ScopeInit
<1> DEFINE s == StartFunction(fixed)
           g == Body(EnterBlock(s), ret)
           c1 == Construct("chunk", ret, <<>>)
<1>2. g.ops = <<>> /\ g.scopes = {} /\ g.jump_targets = <<>> /\ g.pending_jumps = {}
  <2>1. s.ops = <<>> /\ s.scopes = {} /\ s.jump_targets = <<>> /\ s.pending_jumps = {}
    BY DEF StartFunction
  <2> HIDE DEF s
  <2> QED BY <2>1 DEF EnterBlock, Body
<1>3. c1.kind = "chunk" BY DEF Construct
<1>4. f = g /\ open = <<c1>> /\ Len(open) = 1 /\ open[1] = c1 BY <1>1
<1> HIDE DEF g, c1
<1>5. Len(g.ops) = 0 /\ Len(g.jump_targets) = 0 /\ Targets(g) = {} BY <1>2 DEF Targets
<1>6. Guarded(g, StackTop(g))
  <2>1. \A v : ~Used(g.ops, v, Len(g.ops) + 1) BY <1>5 DEF Used
  <2> QED BY <1>2, <1>5, <2>1
          DEF Guarded, ProperCode, WritesApart, CapturesLocals, OwnersMarked, LeavesClosed,
              StaysInside, WaitersClose, TargetsBehind, OpenJumpsWait
<1>7. Settled(g) BY <1>5 DEF Settled
<1>8. \A c \in 1..1 : open[c].kind = "chunk" BY <1>3, <1>4
<1>9. LoopsWait(g, open, 1) BY <1>5, <1>8 DEF LoopsWait, HasState
<1>10. Labelled(g, open, 1) BY <1>5, <1>8 DEF Labelled
<1> QED BY <1>4, <1>6, <1>7, <1>9, <1>10 DEF Guards, Fenced

(* When the walk is over it says nothing any more. *)
LEMMA OutsideGuards ==
    ASSUME Guards, UNCHANGED <<f, open>> \/ phase' = "run", phase' = phase \/ phase' # "compile"
    PROVE  Guards'
BY DEF Guards

(* Every step keeps the second invariant. *)
LEMMA GuardsStep ==
    ASSUME SoundFeatures, ForwardGotos, RoomForNext, CompilerInv, Guards, [ScopeNext]_scopeVars
    PROVE  Guards'
<1>1. CASE LocalStatement BY <1>1, LocalGuards
<1>2. CASE ClosureStatement BY <1>2, ClosureGuards
<1>3. CASE BreakStatement BY <1>3, BreakGuards
<1>4. CASE GotoStatement BY <1>4, GotoGuards
<1>5. CASE LabelStatement BY <1>5, LabelGuards
<1>6. CASE BeginConstruct BY <1>6, BeginGuards
<1>7. CASE EndBody BY <1>7, EndBodyGuards
<1>8. CASE ReturnStatement BY <1>8, ReturnGuards
<1>9. CASE EndConstruct BY <1>9, EndConstructGuards
<1>10. CASE ElsePart BY <1>10, ElseGuards
<1>11. CASE EndChunk
  <2>1. phase' = "run" BY <1>11 DEF EndChunk
  <2> QED BY <2>1, OutsideGuards
<1>12. CASE Execute
  <2>1. UNCHANGED <<f, open>> /\ phase' = phase BY <1>12 DEF Execute
  <2> QED BY <2>1, OutsideGuards
<1>13. CASE Return
  <2>1. UNCHANGED <<f, open>> /\ phase' # "compile" BY <1>13 DEF Return
  <2> QED BY <2>1, OutsideGuards
<1>14. CASE UNCHANGED scopeVars
  <2>1. UNCHANGED <<f, open>> /\ phase' = phase BY <1>14 DEF scopeVars
  <2> QED BY <2>1, OutsideGuards
<1> QED BY <1>1, <1>2, <1>3, <1>4, <1>5, <1>6, <1>7, <1>8, <1>9, <1>10, <1>11, <1>12, <1>13, <1>14
        DEF ScopeNext

(* The code of a whole function: control stays in it, no instruction in the scope of a
   local writes its register, a closure captures a local in scope, and the upvalue of a
   local is closed whichever way control leaves its scope. *)
Sealed(g) ==
    /\ g.ops \in Seq(Instrs) /\ Len(g.ops) > 0
    /\ \A i \in 1..Len(g.ops) :
          LET x == g.ops[i]
          IN  /\ x.op \in {"jump", "return"} => x.writes = {}
              /\ x.close # None => x.op = "jump"
              /\ x.captures # None => x.op = "closure"
              /\ x.op \in {"jump", "forprep"} => x.target # NoTarget
              /\ \A t \in Int : Leads(x, i, t) => t \in 1..Len(g.ops)
              /\ \A s \in g.scopes : s.from <= i /\ i < s.to => s.reg \notin x.writes
              /\ x.captures # None => \E s \in g.scopes : s.reg = x.captures /\ s.from <= i /\ i < s.to
    /\ LeavesClosed(g.ops, g.scopes)

(* With its last return, and no jump that waits, the code is that of a whole function. *)
LEMMA ReturnSeals ==
    ASSUME NEW g, Regular(g), Guarded(g, StackTop(g)), Settled(g), NEW h, h.ops = Append(g.ops, Instr("return", {})),
           \A i \in 1..Len(g.ops) : ~Unprepared(g.ops[i]),
           \A i \in 1..Len(g.ops) : g.ops[i].op = "jump" => g.ops[i].target # NoTarget,
           Len(h.locals) = 0, Guarded(h, 0)
    PROVE  Sealed(h)
<1> DEFINE ret == Instr("return", {})
           m == Len(g.ops) + 1
<1>1. ret \in Instrs /\ ret.op = "return" /\ ret.writes = {} /\ ret.close = None /\ ret.captures = None
  BY DEF Instr, Instrs, None, NoTarget
<1>2. g.ops \in Seq(Instrs) /\ Len(g.ops) \in Nat BY RegularParts DEF Regular
<1> HIDE DEF ret
<1>3. /\ h.ops \in Seq(Instrs) /\ Len(h.ops) = m /\ h.ops[m] = ret
      /\ \A i \in 1..Len(g.ops) : h.ops[i] = g.ops[i]
  BY <1>1, <1>2 DEF ret
<1>4. \A i \in 1..m : i \in 1..Len(g.ops) \/ i = m BY <1>2
<1>5. \A i \in 1..Len(h.ops) : Proper(h.ops[i], i, Len(h.ops)) BY DEF Guarded, ProperCode
<1>6. ASSUME NEW i \in 1..Len(h.ops), NEW t \in Int, Leads(h.ops[i], i, t) PROVE t \in 1..Len(h.ops)
  <2>1. i # m BY <1>1, <1>3, <1>6 DEF Leads
  <2>2. i \in 1..Len(g.ops) /\ h.ops[i] = g.ops[i] BY <1>3, <1>4, <2>1
  <2>3. Proper(g.ops[i], i, Len(g.ops)) BY <2>2 DEF Guarded, ProperCode
  <2>4. ~(g.ops[i].op = "test" /\ i = Len(g.ops)) BY <2>2 DEF Settled
  <2>5. 1 <= t /\ t <= Len(g.ops) + 1 BY <1>6, <2>2, <2>3, <2>4 DEF Proper
  <2> QED BY <1>2, <1>3, <2>5
<1>7. ASSUME NEW i \in 1..Len(h.ops), h.ops[i].op \in {"jump", "forprep"} PROVE h.ops[i].target # NoTarget
  <2>1. i # m BY <1>1, <1>3, <1>7
  <2>2. i \in 1..Len(g.ops) /\ h.ops[i] = g.ops[i] BY <1>3, <1>4, <2>1
  <2> QED BY <1>7, <2>2 DEF Unprepared
<1>8. ASSUME NEW i \in 1..Len(h.ops), NEW s \in h.scopes, s.from <= i, i < s.to PROVE s.reg \notin h.ops[i].writes
  BY <1>8 DEF Guarded, WritesApart
<1>9. ASSUME NEW i \in 1..Len(h.ops), h.ops[i].captures # None
      PROVE  \E s \in h.scopes : s.reg = h.ops[i].captures /\ s.from <= i /\ i < s.to
  BY <1>9 DEF Guarded, CapturesLocals
<1>10. LeavesClosed(h.ops, h.scopes) BY DEF Guarded
<1>11. ASSUME NEW i \in 1..Len(h.ops)
       PROVE  /\ h.ops[i].op \in {"jump", "return"} => h.ops[i].writes = {}
              /\ h.ops[i].close # None => h.ops[i].op = "jump"
              /\ h.ops[i].captures # None => h.ops[i].op = "closure"
  BY <1>5 DEF Proper
<1>12. Len(h.ops) > 0 BY <1>2, <1>3
<1> HIDE DEF m
<1> QED BY <1>3, <1>6, <1>7, <1>8, <1>9, <1>10, <1>11, <1>12 DEF Sealed

(* At the end of the chunk the locals go with their registers, and what they leave open
   the last instruction closes. *)
LEMMA ChunkSeals ==
    ASSUME NEW g, NEW o, NEW at, Laid(g, o, at, 1), o[1].at = "labels", Fenced(g, o, 1),
           Ok(Finish(ExitBlock(g)))
    PROVE  Sealed(Finish(ExitBlock(g)))
<1> DEFINE x == ExitBlock(g)
           e == FreeLocals(x, 0)
           h == Emit(e, Instr("return", {}))
<1>1. Held(g, o, at, 1, Len(g.blocks)) /\ Regular(g) BY DEF Laid
<1>2. o[1].kind = "chunk"
  <2>1. 1 \in 1..1 OBVIOUS
  <2> QED BY <1>1, <2>1 DEF Held
<1>3. /\ Keeps(g, x, {"alloc", "locals", "blocks", "jump_targets", "pending_jumps", "ops", "scopes"})
      /\ Keeps(x, e, {"alloc", "locals", "scopes"})
      /\ Len(g.blocks) = 0 + 1 /\ Len(x.locals) = x.fixed_params /\ StackTop(e) = 0
      /\ Dropped(g, e, 0, Len(g.ops) + 1)
      /\ x.ops = g.ops /\ x.blocks = Front(g.blocks) /\ x.pending_jumps = g.pending_jumps
      /\ x.jump_targets = SubSeq(g.jump_targets, 1, g.blocks[0 + 1].bottom_jump_target)
  BY ParametersLeft
<1> HIDE DEF x, e
<1>4. Len(g.blocks) = 0 + 1 BY <1>3
<1>5. IsFunctionRecord(e) BY <1>3 DEF Keeps
<1>6. Keeps(e, h, {"ops"}) /\ h.ops = Append(e.ops, Instr("return", {})) BY <1>5, EmitFields
<1> HIDE DEF h
<1>7. /\ IsFunctionRecord(h) /\ h.ops = Append(g.ops, Instr("return", {})) /\ h.locals = e.locals /\ h.scopes = e.scopes
       /\ h.blocks = x.blocks /\ h.jump_targets = x.jump_targets /\ h.pending_jumps = x.pending_jumps
  BY <1>3, <1>6 DEF Keeps
<1>8. Finish(x) = h /\ x.pending_jumps = {}
  <2>1. \A y : Fail(h, y).error = y BY <1>7, FailFields
  <2>2. /\ Finish(x) = h \/ Finish(x) = Fail(h, "panic") \/ Finish(x) = Fail(h, "GotoInvalid")
        /\ Finish(x) = h => x.pending_jumps = {} \/ h = Fail(h, "panic") \/ h = Fail(h, "GotoInvalid")
    BY DEF Finish, h, e
  <2>3. Finish(x).error = "none" BY DEF x, Ok
  <2> QED BY <2>1, <2>2, <2>3
<1>9. g.pending_jumps = {} BY <1>3, <1>8
<1>10. Guarded(g, StackTop(g)) /\ Settled(g) /\ LoopsWait(g, o, 1) BY DEF Fenced
<1>11. \A i \in 1..Len(g.ops) : ~Unprepared(g.ops[i])
  <2>1. \A c \in 1..1 : o[c].kind # "for" BY <1>2
  <2> QED BY <1>10, <2>1 DEF LoopsWait, Unprepared
<1>12. \A i \in 1..Len(g.ops) : g.ops[i].op = "jump" => g.ops[i].target # NoTarget
  BY <1>9, <1>10 DEF Guarded, OpenJumpsWait
<1>13. Len(h.blocks) = 0
  <2>1. g.blocks \in Seq(BlockDescriptors) /\ 0 \in Nat BY <1>1 DEF Regular, BlocksRise
  <2>2. Len(g.blocks) = 0 + 1 BY <1>4
  <2>3. Len(Front(g.blocks)) = 0 BY <2>1, <2>2, FrontIs
  <2> QED BY <1>3, <1>7, <2>3
<1>14. \A j \in 1..Len(h.jump_targets) : \E k \in 1..Len(g.jump_targets) : h.jump_targets[j] = g.jump_targets[k]
  <2> DEFINE b == g.blocks[0 + 1].bottom_jump_target
  <2>1. 0 + 1 \in 1..Len(g.blocks) BY <1>4
  <2>2. b \in 0..Len(g.jump_targets) /\ g.jump_targets \in Seq(JumpTargets)
    BY <1>1, <2>1 DEF Regular, TargetsPlaced
  <2>3. h.jump_targets = SubSeq(g.jump_targets, 1, b) BY <1>3, <1>7
  <2> HIDE DEF b
  <2>4. Len(g.jump_targets) \in Nat BY <1>1, RegularParts
  <2>5. /\ Len(h.jump_targets) = b
        /\ \A i \in 1..b : h.jump_targets[i] = g.jump_targets[i]
    BY <2>2, <2>3, FirstOfSeq
  <2> QED BY <2>2, <2>4, <2>5
<1>15. EndedBy(g, h, 0)
  <2> DEFINE ret == Instr("return", {})
  <2>1. ret \in Instrs /\ ret.op = "return" /\ ret.writes = {} /\ ret.close = None /\ ret.captures = None
    BY DEF Instr, Instrs, None, NoTarget
  <2>2. h.ops = Append(g.ops, ret) BY <1>7
  <2> HIDE DEF ret
  <2> QED BY <2>1, <2>2 DEF EndedBy, Ends
<1>16. Dropped(g, h, 0, Len(g.ops) + 1) BY <1>3, <1>7 DEF Dropped
<1>17. Guarded(h, 0)
  <2>1. StackTop(g) \in Nat /\ \A i \in 1..Len(g.blocks) : g.blocks[i].stack_bottom \in Nat BY <1>1, RegularParts
  <2>2. 0 \in Nat /\ StackTop(g) \in Int /\ 0 <= StackTop(g) BY <2>1
  <2>3. h.pending_jumps = {} BY <1>7, <1>8
  <2>4. \A i \in 1..Len(g.blocks) : i \in 1..Len(h.blocks) \/ 0 <= g.blocks[i].stack_bottom BY <2>1
  <2>5. \A i \in 1..Len(h.blocks) : i \in 1..Len(g.blocks) /\ h.blocks[i] = g.blocks[i] BY <1>13
  <2> QED BY <1>1, <1>9, <1>10, <1>14, <1>15, <1>16, <2>2, <2>3, <2>4, <2>5, DroppedGuarded
<1>18. Len(h.locals) = 0
  <2>1. Len(h.locals) \in 0..Len(g.locals) /\ \A i \in 1..Len(g.locals) : g.locals[i].reg < 0 <=> i <= Len(h.locals)
    BY <1>16 DEF Dropped
  <2>2. Len(g.locals) \in Nat /\ \A i \in 1..Len(g.locals) : g.locals[i].reg \in Nat BY <1>1, RegularParts
  <2>3. Len(h.locals) > 0 => 1 \in 1..Len(g.locals) BY <2>1, <2>2
  <2> QED BY <2>1, <2>2, <2>3
<1>19. Sealed(h)
  <2>1. g.ops \in Seq(Instrs) /\ Len(g.ops) \in Nat /\ StackTop(g) \in Nat BY <1>1, RegularParts DEF Regular
  <2> QED BY <1>1, <1>7, <1>10, <1>11, <1>12, <1>17, <1>18, ReturnSeals
<1> QED BY <1>8, <1>19 DEF x

(* Every register that holds an open upvalue is that of a captured local in scope, or of
   one whose scope ends here, at an instruction that closes it. *)
StaysOpen(g, at, r) ==
    \E s \in g.scopes :
        /\ s.reg = r
        /\ \/ s.from <= at /\ at < s.to /\ Used(g.ops, s, s.to)
           \/ at = s.to /\ Shuts(g.ops, at, r)

(* The third invariant, of the code that runs. *)
Running ==
    /\ phase = "compile" => pc = 1 /\ captured = {}
    /\ phase = "run" /\ Ok(f) =>
          /\ Sealed(f) /\ pc \in 1..Len(f.ops) /\ captured \in SUBSET Int
          /\ \A r \in captured : StaysOpen(f, pc, r)

(* The code that starts is that of a whole function, and nothing is captured. *)
LEMMA ChunkRuns ==
    ASSUME CompilerInv, Guards, Running, EndChunk
    PROVE  Running'
<1>1. Closable /\ Walking /\ Len(open) = 1 BY DEF EndChunk, Closable
<1>2. f' = Finish(ExitBlock(f)) /\ phase' = "run" /\ UNCHANGED <<pc, captured>> BY DEF EndChunk
<1>3. Layout(f, open) /\ Sound(f) /\ Ok(f) /\ phase = "compile" /\ Last(open) = open[1] BY <1>1, WalkFacts
<1>4. PICK at : Laid(f, open, at, 1) BY <1>1, <1>3 DEF Layout
<1>5. open[1].kind = "chunk"
  <2>1. 1 \in 1..1 OBVIOUS
  <2> QED BY <1>4, <2>1 DEF Laid, Held
<1>6. open[1].at = "labels" BY <1>1, <1>3, <1>5 DEF Closable
<1>7. Fenced(f, open, 1) BY <1>1, <1>3 DEF Guards
<1>8. pc' = 1 /\ captured' = {} BY <1>2, <1>3 DEF Running
<1>9. ASSUME Ok(f') PROVE Sealed(f') /\ 1 \in 1..Len(f'.ops)
  <2>1. Sealed(f') BY <1>2, <1>4, <1>6, <1>7, <1>9, ChunkSeals
  <2>2. f'.ops \in Seq(Instrs) /\ Len(f'.ops) > 0 BY <2>1 DEF Sealed
  <2>3. Len(f'.ops) \in Nat BY <2>2, Elements
  <2> QED BY <2>1, <2>2, <2>3
<1> QED BY <1>2, <1>8, <1>9 DEF Running

(* An instruction keeps it: a capture is of a local in scope, and where control leaves the
   scope the upvalue is closed, there or by the instruction it comes to. *)
LEMMA ExecuteRuns ==
    ASSUME Running, Execute
    PROVE  Running'
<1> DEFINE x == f.ops[pc]
           t == pc'
<1>1. /\ phase = "run" /\ Ok(f) /\ x.op # "return" /\ phase' = "run" /\ f' = f
      /\ pc' \in Successors(x)
      /\ captured' = Closing(x.close) \union (IF x.captures = None THEN {} ELSE {x.captures})
  BY DEF Execute, Fetch
<1>2. Sealed(f) /\ pc \in 1..Len(f.ops) /\ captured \in SUBSET Int /\ \A r \in captured : StaysOpen(f, pc, r)
  BY <1>1 DEF Running
<1>3. /\ x \in Instrs /\ Len(f.ops) \in Nat /\ pc \in Nat
      /\ x.close # None => x.op = "jump"
      /\ x.captures # None => x.op = "closure"
      /\ x.op \in {"jump", "forprep"} => x.target # NoTarget
      /\ x.captures # None => \E s \in f.scopes : s.reg = x.captures /\ s.from <= pc /\ pc < s.to
      /\ \A u \in Int : Leads(x, pc, u) => u \in 1..Len(f.ops)
  <2>1. f.ops \in Seq(Instrs) BY <1>2 DEF Sealed
  <2>2. x \in Instrs /\ Len(f.ops) \in Nat BY <1>2, <2>1, Elements
  <2> QED BY <1>2, <2>2 DEF Sealed
<1> HIDE DEF x
<1>4. t \in Int /\ Leads(x, pc, t)
  <2>1. x.target \in Int /\ x.op \in {"jump", "test", "forprep", "forloop", "closure", "write", "return"}
    BY <1>3 DEF Instrs
  <2>2. t \in Successors(x) BY <1>1
  <2> QED BY <1>1, <1>3, <2>1, <2>2 DEF Successors, Leads
<1>5. t \in 1..Len(f.ops) BY <1>3, <1>4
<1>6. ASSUME NEW s \in f.scopes, s.from <= pc, pc < s.to, Used(f.ops, s, s.to), ~Cuts(x, s.reg)
      PROVE  StaysOpen(f, t, s.reg)
  <2>1. CASE s.from <= t /\ t < s.to BY <1>6, <2>1 DEF StaysOpen
  <2>2. CASE ~(s.from <= t /\ t < s.to)
    <3>1. LeavesClosed(f.ops, f.scopes) BY <1>2 DEF Sealed
    <3>2. t = s.to /\ Shuts(f.ops, t, s.reg) BY <1>2, <1>4, <1>6, <2>2, <3>1 DEF LeavesClosed, x
    <3> QED BY <3>2 DEF StaysOpen
  <2> QED BY <2>1, <2>2
<1>7. ASSUME NEW r \in captured, ~Cuts(x, r) PROVE StaysOpen(f, t, r)
  <2>1. PICK s \in f.scopes :
           /\ s.reg = r
           /\ \/ s.from <= pc /\ pc < s.to /\ Used(f.ops, s, s.to)
              \/ pc = s.to /\ Shuts(f.ops, pc, r)
    BY <1>2 DEF StaysOpen
  <2>2. ~Shuts(f.ops, pc, r) BY <1>1, <1>7 DEF Shuts, x
  <2> QED BY <1>6, <1>7, <2>1, <2>2
<1>8. ASSUME x.captures # None PROVE StaysOpen(f, t, x.captures) /\ x.captures \in Int
  <2>1. PICK s \in f.scopes : s.reg = x.captures /\ s.from <= pc /\ pc < s.to BY <1>3, <1>8
  <2>2. Used(f.ops, s, s.to) BY <1>2, <2>1 DEF Used, x
  <2>3. ~Cuts(x, s.reg) BY <1>3, <1>8 DEF Cuts
  <2> QED BY <1>3, <1>6, <2>1, <2>2, <2>3 DEF Instrs
<1>9. \A r \in Closing(x.close) : r \in captured /\ ~Cuts(x, r)
  <2>1. x.close \in Int BY <1>3 DEF Instrs
  <2> QED BY <1>2, <2>1 DEF Closing, Cuts
<1>10. \A r \in captured' : r \in Int /\ StaysOpen(f, t, r) BY <1>1, <1>2, <1>7, <1>8, <1>9
<1> QED BY <1>1, <1>2, <1>5, <1>10 DEF Running

(* At the start nothing runs. *)
LEMMA StartRuns ==
    ASSUME ScopeInit
    PROVE  Running
BY DEF ScopeInit, Running

(* Every step keeps the third invariant. *)
LEMMA RunningStep ==
    ASSUME CompilerInv, Guards, Running, [ScopeNext]_scopeVars
    PROVE  Running'
<1>1. CASE Walking /\ phase' = phase /\ UNCHANGED <<pc, captured>>
  BY <1>1 DEF Walking, Running
<1>2. CASE UNCHANGED scopeVars BY <1>2 DEF scopeVars, Running
<1>3. CASE EndChunk BY <1>3, ChunkRuns
<1>4. CASE Execute BY <1>4, ExecuteRuns
<1>5. CASE Return BY <1>5 DEF Return, Running
<1>6. LocalStatement \/ ClosureStatement \/ BreakStatement \/ GotoStatement
         => Walking /\ phase' = phase /\ UNCHANGED <<pc, captured>>
  BY DEF LocalStatement, ClosureStatement, BreakStatement, GotoStatement, Statement
<1>7. LabelStatement \/ BeginConstruct \/ EndBody \/ ReturnStatement
         => Walking /\ phase' = phase /\ UNCHANGED <<pc, captured>>
  BY DEF LabelStatement, BeginConstruct, EndBody, ReturnStatement
<1>8. EndConstruct \/ ElsePart => Walking /\ phase' = phase /\ UNCHANGED <<pc, captured>>
  BY DEF EndConstruct, ElsePart, Closable
<1> QED BY <1>1, <1>2, <1>3, <1>4, <1>5, <1>6, <1>7, <1>8 DEF ScopeNext

(* It is what was to be shown: no instruction in the scope of a local writes its register,
   and one that closes writes nothing. *)
LEMMA RunningIntact ==
    ASSUME Running
    PROVE  UpvalueNotOverwritten
<1> SUFFICES ASSUME phase = "run", Ok(f), NEW r \in captured, r \in f.ops[pc].writes
             PROVE  FALSE
  BY DEF UpvalueNotOverwritten, Fetch
<1> DEFINE x == f.ops[pc]
<1>1. Sealed(f) /\ pc \in 1..Len(f.ops) /\ StaysOpen(f, pc, r) BY DEF Running
<1>2. /\ x.op \in {"jump", "return"} => x.writes = {}
      /\ x.close # None => x.op = "jump"
      /\ \A s \in f.scopes : s.from <= pc /\ pc < s.to => s.reg \notin x.writes
  BY <1>1 DEF Sealed
<1>3. ~Shuts(f.ops, pc, r) BY <1>2 DEF Shuts, Cuts
<1> QED BY <1>1, <1>2, <1>3 DEF StaysOpen

(* A variable that a closure holds is written by nothing but itself, in a text of any size
   and nesting: no declaration, round of a loop or temporary reaches its register while the
   upvalue is open.  The compiler decides this with one mark for each block and one for each
   jump that waits.  Beside the two features that make an assertion fail, the text may not
   hold a goto to a label already placed, which leaves upvalues open. *)
THEOREM UpvaluesStayIntact ==
    ASSUME SoundFeatures, ForwardGotos
    PROVE  ScopeSpec /\ []RoomForNext => []UpvalueNotOverwritten
<1>1. ScopeInit => CompilerInv /\ Guards /\ Running BY StartKeeps, StartGuards, StartRuns
<1>2. CompilerInv /\ Guards /\ Running /\ RoomForNext /\ [ScopeNext]_scopeVars
         => CompilerInv' /\ Guards' /\ Running'
  BY CompilerStep, GuardsStep, RunningStep
<1>3. Running => UpvalueNotOverwritten BY RunningIntact
<1> QED BY <1>1, <1>2, <1>3, PTL DEF ScopeSpec

(* The same of a text of bounded size, which needs nothing to be assumed of its steps. *)
THEOREM BoundedUpvaluesStay ==
    ASSUME SoundFeatures, ForwardGotos, RegistersSuffice
    PROVE  ScopeSpec => []UpvalueNotOverwritten
<1>1. ScopeInit => CompilerInv /\ Guards /\ Running BY StartKeeps, StartGuards, StartRuns
<1>2. CompilerInv /\ Guards /\ Running /\ [ScopeNext]_scopeVars => CompilerInv' /\ Guards' /\ Running'
  BY CompilerStep, GuardsStep, RunningStep, RoomSuffices
<1>3. Running => UpvalueNotOverwritten BY RunningIntact
<1> QED BY <1>1, <1>2, <1>3, PTL DEF ScopeSpec
====
