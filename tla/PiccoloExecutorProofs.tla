------------------------ MODULE PiccoloExecutorProofs ------------------------
(***************************************************************************)
(* What PiccoloExecutor guarantees for every set of threads and every      *)
(* bound: the order of the frames and of the values of each thread, the    *)
(* chain of threads that wait for one another, and the contract the        *)
(* session relies on.                                                      *)
(*                                                                         *)
(* The inductive invariant describes a thread by its top frame and by the  *)
(* frames at rest below it: those wait for results at a level, the height  *)
(* at which the next frame begins.                                         *)
(***************************************************************************)
EXTENDS PiccoloExecutor, SequenceTheorems, TLAPS

-----------------------------------------------------------------------------
(* The invariant.                                                          *)

Resting(frame) ==
    \/ frame.kind = "Lua" /\ frame.pending
    \/ frame.kind = "Sequence" /\ ~frame.pending

(* An open upvalue x belongs to a Lua frame, below what lies above that.   *)
OwnerOf(fs, x, j) ==
    /\ fs[j].kind = "Lua" /\ fs[j].bottom = x
    /\ \A i \in 1..Len(fs) : j < i => x < fs[i].bottom

(* The frames fs wait for results, which will lie at level and above.      *)
AtRest(fs, open, level) ==
    /\ \A i \in 1..Len(fs) :
         /\ Resting(fs[i]) /\ fs[i].bottom <= level
         /\ i = 1 => fs[i].bottom = 0
         /\ fs[i].kind = "Sequence" =>
              fs[i].handed = IF i < Len(fs) THEN fs[i+1].bottom ELSE level
    /\ \A i, j \in 1..Len(fs) : i < j => fs[i].bottom <= fs[j].bottom
    /\ fs = <<>> => level = 0
    /\ \A x \in open : x < level /\ \E j \in 1..Len(fs) : OwnerOf(fs, x, j)

(* A Lua frame that runs, or that has just failed, is the last of fs.      *)
LuaLast(fs, ts) ==
    LET lua == Last(fs)
    IN  /\ fs # <<>> /\ lua.kind = "Lua" /\ ~lua.pending
        /\ AtRest(Front(fs), ts.open \ {lua.bottom}, lua.bottom)
        /\ ts.stack = lua.bottom + 1

Topped(ts, kinds) == ts.frames # <<>> /\ Last(ts.frames).kind \in kinds

Empty(ts) == ts.frames = <<>> /\ ts.stack = 0 /\ ts.open = {}

InHost(ts) ==
    LET top == Last(ts.frames)
    IN  /\ Topped(ts, {"Callback", "Sequence"})
        /\ AtRest(Front(ts.frames), ts.open, top.bottom)
        /\ top.bottom <= top.handed /\ ts.stack = top.handed

InLua(ts) == LuaLast(ts.frames, ts)

AtStart(ts) ==
    /\ Topped(ts, {"Start"})
    /\ Front(ts.frames) = <<>> /\ ts.stack = 0 /\ ts.open = {}

AtYield(ts) ==
    /\ Topped(ts, {"Yielded"})
    /\ AtRest(Front(ts.frames), ts.open, ts.stack)

InWait(ts) ==
    /\ Topped(ts, {"WaitThread"})
    /\ Front(ts.frames) # <<>>
    /\ AtRest(Front(ts.frames), ts.open, ts.stack)

WithResult(ts) ==
    LET under == Front(ts.frames)
        level == Last(ts.frames).bottom
    IN  /\ Topped(ts, {"Result"}) /\ level <= ts.stack
        /\ \/ under = <<>> /\ level = 0 /\ ts.open = {}
           \/ /\ under # <<>> /\ Last(under).kind = "Yielded"
              /\ AtRest(Front(under), ts.open, level)

WithError(ts) ==
    /\ Topped(ts, {"Error"})
    /\ \/ AtRest(Front(ts.frames), ts.open, ts.stack)
       \/ LuaLast(Front(ts.frames), ts)

WellFormed(ts) ==
    \/ Empty(ts)
    \/ InHost(ts)
    \/ InLua(ts)
    \/ AtStart(ts)
    \/ AtYield(ts)
    \/ InWait(ts)
    \/ WithResult(ts)
    \/ WithError(ts)

(* The inductive invariant.                                                *)
IInv ==
    /\ TypeOK
    /\ step = "running" => thread_stack # <<>>
    /\ \A t \in Threads : WellFormed(state[t])
    /\ ThreadChain
    /\ NoLostThread

-----------------------------------------------------------------------------
(* Sequences.                                                              *)

LEMMA AppendedSeq ==
  ASSUME NEW S, NEW s \in Seq(S), NEW x \in S
  PROVE  /\ Append(s, x) \in Seq(S) /\ Append(s, x) # <<>>
         /\ Len(Append(s, x)) = Len(s) + 1
         /\ Last(Append(s, x)) = x
         /\ \A i \in 1..Len(s) : Append(s, x)[i] = s[i]
         /\ Front(Append(s, x)) = s
<1>1. /\ Append(s, x) \in Seq(S) /\ Append(s, x) # <<>>
      /\ Len(Append(s, x)) = Len(s) + 1
      /\ Append(s, x)[Len(s) + 1] = x
      /\ \A i \in 1..Len(s) : Append(s, x)[i] = s[i]
  BY AppendProperties
<1>2. Last(Append(s, x)) = x
  BY <1>1 DEF Last
<1>3. /\ Front(Append(s, x)) \in Seq(S)
      /\ Len(Front(Append(s, x))) = Len(s)
      /\ \A i \in 1..Len(s) : Front(Append(s, x))[i] = s[i]
  BY <1>1, SubSeqProperties DEF Front
<1>4. Front(Append(s, x)) = s
  BY <1>3, SeqEqual
<1>. QED
  BY <1>1, <1>2, <1>4

LEMMA FrontAndLast ==
  ASSUME NEW S, NEW s \in Seq(S), s # <<>>
  PROVE  /\ Front(s) \in Seq(S) /\ Last(s) \in S
         /\ Len(s) \in Nat \ {0} /\ Len(Front(s)) = Len(s) - 1
         /\ Last(s) = s[Len(s)]
         /\ \A i \in 1..Len(s) - 1 : Front(s)[i] = s[i]
         /\ s = Append(Front(s), Last(s))
<1>1. Len(s) \in Nat \ {0} /\ \A i \in 1..Len(s) : s[i] \in S
  BY EmptySeq, ElementOfSeq, LenProperties
<1>2. /\ Front(s) \in Seq(S)
      /\ Len(Front(s)) = Len(s) - 1
      /\ \A i \in 1..Len(s) - 1 : Front(s)[i] = s[i]
  <2>. DEFINE n == Len(s) - 1
  <2>1. n \in Nat /\ \A i \in 1..n : s[i] \in S
    BY <1>1
  <2>2. /\ SubSeq(s, 1, n) \in Seq(S)
        /\ Len(SubSeq(s, 1, n)) = n
        /\ \A i \in 1..n : SubSeq(s, 1, n)[i] = s[i]
    <3>. HIDE DEF n
    <3>. QED
      BY <2>1, SubSeqProperties
  <2>. QED
    BY <2>2 DEF Front
<1>3. Last(s) = s[Len(s)] /\ Last(s) \in S
  BY <1>1 DEF Last
<1>4. s = Append(Front(s), Last(s))
  <2>1. /\ Append(Front(s), Last(s)) \in Seq(S)
        /\ Len(Append(Front(s), Last(s))) = Len(s)
        /\ \A i \in 1..Len(s) : Append(Front(s), Last(s))[i] = s[i]
    BY <1>1, <1>2, <1>3, AppendProperties
  <2>. QED
    BY <2>1, SeqEqual
<1>. QED
  BY <1>1, <1>2, <1>3, <1>4

LEMMA LengthOfEmpty ==
  ASSUME NEW S, NEW s \in Seq(S)
  PROVE  /\ Len(s) \in Nat
         /\ s = <<>> <=> Len(s) = 0
  BY EmptySeq

-----------------------------------------------------------------------------
(* The operators on frames and threads.                                    *)

LEMMA FrameFields ==
  ASSUME NEW kind \in FrameKinds, NEW bottom \in Nat
  PROVE  /\ Frame(kind, bottom) \in FrameSet
         /\ Frame(kind, bottom).kind = kind
         /\ Frame(kind, bottom).bottom = bottom
         /\ Frame(kind, bottom).pending = FALSE
         /\ Frame(kind, bottom).handed = bottom
  BY DEF Frame, FrameSet

LEMMA MarkedFields ==
  ASSUME NEW f \in FrameSet
  PROVE  /\ Marked(f) \in FrameSet /\ Marked(f).pending = TRUE
         /\ Marked(f).kind = f.kind /\ Marked(f).bottom = f.bottom
         /\ Marked(f).handed = f.handed
  BY DEF Marked, FrameSet

LEMMA HandedFields ==
  ASSUME NEW f \in FrameSet, NEW n \in Nat
  PROVE  LET g == [f EXCEPT !.handed = n]
         IN  /\ g \in FrameSet /\ g.pending = f.pending
             /\ g.kind = f.kind /\ g.bottom = f.bottom
             /\ g.handed = n
  BY DEF FrameSet

LEMMA FieldTypes ==
  ASSUME NEW f \in FrameSet
  PROVE  /\ f.kind \in FrameKinds /\ f.bottom \in Nat
         /\ f.pending \in BOOLEAN /\ f.handed \in Nat
  BY DEF FrameSet

LEMMA ThreadTypes ==
  ASSUME NEW ts \in ThreadState
  PROVE  /\ ts.frames \in Seq(FrameSet) /\ ts.stack \in Nat
         /\ ts.open \in SUBSET Nat
  BY DEF ThreadState

LEMMA PushFields ==
  ASSUME NEW ts \in ThreadState, NEW f \in FrameSet
  PROVE  /\ Push(ts, f) \in ThreadState
         /\ Push(ts, f).frames # <<>>
         /\ Len(Push(ts, f).frames) = Len(ts.frames) + 1
         /\ Last(Push(ts, f).frames) = f
         /\ Front(Push(ts, f).frames) = ts.frames
         /\ Push(ts, f).frames = Append(ts.frames, f)
         /\ Push(ts, f).stack = ts.stack
         /\ Push(ts, f).open = ts.open
<1>1. /\ Push(ts, f) \in ThreadState
      /\ Push(ts, f).frames = Append(ts.frames, f)
      /\ Push(ts, f).stack = ts.stack
      /\ Push(ts, f).open = ts.open
  BY AppendedSeq, ThreadTypes DEF Push, ThreadState
<1>. QED
  BY <1>1, AppendedSeq, ThreadTypes

LEMMA PopFields ==
  ASSUME NEW ts \in ThreadState, ts.frames # <<>>
  PROVE  /\ Pop(ts) \in ThreadState
         /\ Pop(ts).frames = Front(ts.frames)
         /\ Pop(ts).stack = ts.stack
         /\ Pop(ts).open = ts.open
  BY FrontAndLast, ThreadTypes DEF Pop, ThreadState

LEMMA TruncateFields ==
  ASSUME NEW ts \in ThreadState, NEW n \in Nat
  PROVE  /\ Truncate(ts, n) \in ThreadState
         /\ Truncate(ts, n).frames = ts.frames
         /\ Truncate(ts, n).stack = n
         /\ Truncate(ts, n).open = ts.open
  BY DEF Truncate, ThreadState

LEMMA GiveFields ==
  ASSUME NEW ts \in ThreadState, NEW n \in Nat
  PROVE  /\ Give(ts, n) \in ThreadState
         /\ Give(ts, n).frames = ts.frames
         /\ Give(ts, n).stack = ts.stack + n
         /\ Give(ts, n).open = ts.open
  BY DEF Give, ThreadState

LEMMA CloseFields ==
  ASSUME NEW ts \in ThreadState, NEW b \in Nat
  PROVE  /\ CloseUpvalues(ts, b) \in ThreadState
         /\ CloseUpvalues(ts, b).frames = ts.frames
         /\ CloseUpvalues(ts, b).stack = ts.stack
         /\ CloseUpvalues(ts, b).open = {x \in ts.open : x < b}
  BY DEF CloseUpvalues, ThreadState

LEMMA NewThreadFields ==
  /\ NewThread \in ThreadState /\ NewThread.frames = <<>>
  /\ NewThread.stack = 0 /\ NewThread.open = {}
  BY EmptySeq DEF NewThread, ThreadState

-----------------------------------------------------------------------------
(* Frames at rest.                                                         *)

LEMMA NothingAtRest == AtRest(<<>>, {}, 0)
  BY EmptySeq DEF AtRest

LEMMA AtRestEmpty ==
  ASSUME NEW open, NEW level, AtRest(<<>>, open, level)
  PROVE  level = 0 /\ open = {}
  BY EmptySeq DEF AtRest

(* A frame comes to rest on the others, and the level is above it now.     *)
LEMMA AtRestPush ==
  ASSUME NEW fs \in Seq(FrameSet), NEW f \in FrameSet, Resting(f),
         NEW open \in SUBSET Nat, NEW level \in Nat, f.bottom <= level,
         f.kind = "Sequence" => f.handed = level,
         f.kind = "Sequence" => AtRest(fs, open, f.bottom),
         f.kind = "Lua" => AtRest(fs, open \ {f.bottom}, f.bottom),
         f.bottom \in open => f.bottom < level
  PROVE  AtRest(Append(fs, f), open, level)
<1>. DEFINE gs == Append(fs, f)
<1>1. /\ gs \in Seq(FrameSet) /\ gs # <<>> /\ Len(gs) = Len(fs) + 1
      /\ gs[Len(gs)] = f /\ \A i \in 1..Len(fs) : gs[i] = fs[i]
      /\ Len(fs) \in Nat
  BY AppendedSeq, LengthOfEmpty DEF Last
<1>2. PICK o \in SUBSET Nat : /\ AtRest(fs, o, f.bottom)
                              /\ \A x \in open :
                                    \/ x \in o
                                    \/ f.kind = "Lua" /\ x = f.bottom
  <2>1. CASE f.kind = "Sequence"
    BY <2>1
  <2>2. CASE f.kind = "Lua"
    <3>1. open \ {f.bottom} \in SUBSET Nat
      OBVIOUS
    <3>. QED
      BY <2>2, <3>1
  <2>. QED
    BY <2>1, <2>2 DEF Resting
<1>3. \A i \in 1..Len(fs) : fs[i] \in FrameSet
  BY ElementOfSeq
<1>4. f.bottom \in Nat /\ \A i \in 1..Len(fs) : fs[i].bottom \in Nat
  BY <1>3, FieldTypes
<1>. HIDE DEF gs
<1>5. ASSUME NEW i \in 1..Len(gs)
      PROVE  /\ Resting(gs[i]) /\ gs[i].bottom <= level
             /\ i = 1 => gs[i].bottom = 0
             /\ gs[i].kind = "Sequence" =>
                  gs[i].handed = IF i < Len(gs) THEN gs[i+1].bottom ELSE level
  <2>1. CASE i = Len(gs)
    <3>1. i = 1 => f.bottom = 0
      BY <1>1, <1>2, <2>1, LengthOfEmpty DEF AtRest
    <3>. QED
      BY <1>1, <1>4, <2>1, <3>1
  <2>2. CASE i < Len(gs)
    <3>1. i \in 1..Len(fs) /\ gs[i] = fs[i]
      BY <1>1, <2>2
    <3>2. i < Len(fs) => gs[i+1] = fs[i+1]
      BY <1>1, <3>1
    <3>3. ~(i < Len(fs)) => gs[i+1] = f
      BY <1>1, <3>1
    <3>4. /\ Resting(fs[i]) /\ fs[i].bottom <= f.bottom
          /\ i = 1 => fs[i].bottom = 0
          /\ fs[i].kind = "Sequence" =>
                fs[i].handed = IF i < Len(fs) THEN fs[i+1].bottom ELSE f.bottom
      BY <1>2, <3>1 DEF AtRest
    <3>. QED
      BY <1>4, <2>2, <3>1, <3>2, <3>3, <3>4
  <2>. QED
    BY <1>1, <2>1, <2>2
<1>6. ASSUME NEW i \in 1..Len(gs), NEW j \in 1..Len(gs), i < j
      PROVE  gs[i].bottom <= gs[j].bottom
  <2>1. i \in 1..Len(fs) /\ gs[i] = fs[i]
    BY <1>1, <1>6
  <2>2. CASE j = Len(gs)
    BY <1>1, <1>2, <2>1, <2>2 DEF AtRest
  <2>3. CASE j < Len(gs)
    <3>1. j \in 1..Len(fs) /\ gs[j] = fs[j]
      BY <1>1, <2>3
    <3>. QED
      BY <1>2, <1>6, <2>1, <3>1 DEF AtRest
  <2>. QED
    BY <1>1, <2>2, <2>3
<1>7. ASSUME NEW x \in open
      PROVE  x < level /\ \E j \in 1..Len(gs) : OwnerOf(gs, x, j)
  <2>1. CASE f.kind = "Lua" /\ x = f.bottom
    <3>1. OwnerOf(gs, x, Len(gs))
      BY <1>1, <2>1 DEF OwnerOf
    <3>. QED
      BY <1>1, <2>1, <3>1
  <2>2. CASE x \in o
    <3>1. x < f.bottom /\ \E j \in 1..Len(fs) : OwnerOf(fs, x, j)
      BY <1>2, <2>2 DEF AtRest
    <3>2. PICK j \in 1..Len(fs) : OwnerOf(fs, x, j)
      BY <3>1
    <3>3. gs[j] = fs[j] /\ j \in 1..Len(gs)
      BY <1>1
    <3>4. \A i \in 1..Len(gs) : j < i => x < gs[i].bottom
      <4>. TAKE i \in 1..Len(gs)
      <4>1. i = Len(gs) \/ i \in 1..Len(fs)
        BY <1>1
      <4>. QED
        BY <1>1, <3>1, <3>2, <4>1 DEF OwnerOf
    <3>. QED
      BY <1>4, <3>1, <3>2, <3>3, <3>4 DEF OwnerOf
  <2>. QED
    BY <1>2, <2>1, <2>2
<1>. QED
  BY <1>1, <1>5, <1>6, <1>7 DEF AtRest, gs

(* Below the highest frame at rest, the level is its bottom.               *)
LEMMA AtRestPop ==
  ASSUME NEW fs \in Seq(FrameSet), fs # <<>>,
         NEW open \in SUBSET Nat, NEW level \in Nat,
         AtRest(fs, open, level)
  PROVE  LET f == Last(fs)
         IN  /\ Resting(f) /\ f.bottom <= level
             /\ f.kind = "Sequence" => /\ f.handed = level
                                       /\ AtRest(Front(fs), open, f.bottom)
             /\ f.kind = "Lua" => AtRest(Front(fs), open \ {f.bottom}, f.bottom)
             /\ \A x \in open : x <= f.bottom /\ x < level
<1>. DEFINE f == Last(fs)
            gs == Front(fs)
<1>1. /\ gs \in Seq(FrameSet) /\ f \in FrameSet
      /\ Len(fs) \in Nat \ {0} /\ Len(gs) = Len(fs) - 1 /\ f = fs[Len(fs)]
      /\ \A i \in 1..Len(gs) : gs[i] = fs[i] /\ i \in 1..Len(fs) /\ i < Len(fs)
  BY FrontAndLast
<1>2. \A i \in 1..Len(fs) : fs[i] \in FrameSet /\ fs[i].bottom \in Nat
  BY ElementOfSeq, FieldTypes
<1>. HIDE DEF f, gs
<1>3. /\ Resting(f) /\ f.bottom <= level
      /\ f.kind = "Sequence" => f.handed = level
      /\ f.bottom \in Nat
  BY <1>1, <1>2 DEF AtRest
<1>4. ASSUME NEW x \in open
      PROVE  /\ x <= f.bottom /\ x < level
             /\ x < f.bottom => \E j \in 1..Len(gs) : OwnerOf(gs, x, j)
             /\ f.kind # "Lua" => x < f.bottom
  <2>1. x < level /\ \E j \in 1..Len(fs) : OwnerOf(fs, x, j)
    BY DEF AtRest
  <2>2. PICK j \in 1..Len(fs) : OwnerOf(fs, x, j)
    BY <2>1
  <2>3. CASE j = Len(fs)
    BY <1>1, <1>3, <2>1, <2>2, <2>3 DEF OwnerOf
  <2>4. CASE j < Len(fs)
    <3>1. x < f.bottom
      BY <1>1, <2>2, <2>4 DEF OwnerOf
    <3>2. j \in 1..Len(gs)
      BY <1>1, <2>4
    <3>3. OwnerOf(gs, x, j)
      BY <1>1, <2>2, <3>2 DEF OwnerOf
    <3>. QED
      BY <1>3, <2>1, <3>1, <3>2, <3>3
  <2>. QED
    BY <1>1, <2>3, <2>4
<1>5. ASSUME NEW o \in SUBSET open, \A x \in o : x < f.bottom
      PROVE  AtRest(gs, o, f.bottom)
  <2>1. ASSUME NEW i \in 1..Len(gs)
        PROVE  /\ Resting(gs[i]) /\ gs[i].bottom <= f.bottom
               /\ i = 1 => gs[i].bottom = 0
               /\ gs[i].kind = "Sequence" =>
                    gs[i].handed = IF i < Len(gs) THEN gs[i+1].bottom ELSE f.bottom
    <3>1. gs[i] = fs[i] /\ i \in 1..Len(fs) /\ i < Len(fs)
      BY <1>1
    <3>2. i < Len(gs) => gs[i+1] = fs[i+1]
      BY <1>1
    <3>3. ~(i < Len(gs)) => fs[i+1] = f
      BY <1>1
    <3>4. /\ Resting(fs[i]) /\ fs[i].bottom <= f.bottom
          /\ i = 1 => fs[i].bottom = 0
          /\ fs[i].kind = "Sequence" => fs[i].handed = fs[i+1].bottom
      <4>1. Len(fs) \in 1..Len(fs)
        BY <1>1
      <4>. QED
        BY <1>1, <3>1, <4>1 DEF AtRest
    <3>. QED
      BY <3>1, <3>2, <3>3, <3>4
  <2>2. \A i, j \in 1..Len(gs) : i < j => gs[i].bottom <= gs[j].bottom
    BY <1>1 DEF AtRest
  <2>3. gs = <<>> => f.bottom = 0
    <3>1. gs = <<>> => Len(gs) = 0
      BY <1>1, LengthOfEmpty
    <3>2. Len(gs) = 0 => Len(fs) = 1
      BY <1>1
    <3>3. Len(fs) = 1 => f.bottom = 0
      <4>1. Len(fs) \in 1..Len(fs)
        BY <1>1
      <4>. QED
        BY <1>1, <4>1 DEF AtRest
    <3>. QED
      BY <3>1, <3>2, <3>3
  <2>4. \A x \in o : x < f.bottom /\ \E j \in 1..Len(gs) : OwnerOf(gs, x, j)
    BY <1>4, <1>5
  <2>. QED
    BY <2>1, <2>2, <2>3, <2>4 DEF AtRest
<1>6. f.kind = "Sequence" => AtRest(gs, open, f.bottom)
  BY <1>4, <1>5
<1>7. f.kind = "Lua" => AtRest(gs, open \ {f.bottom}, f.bottom)
  <2>1. \A x \in open \ {f.bottom} : x < f.bottom
    BY <1>3, <1>4
  <2>. QED
    BY <1>5, <2>1
<1>. QED
  BY <1>3, <1>4, <1>6, <1>7 DEF f, gs

-----------------------------------------------------------------------------
(* What the operators make of a thread.                                    *)

LEMMA ModeByTop ==
  ASSUME NEW ts \in ThreadState
  PROVE  /\ ts.frames = <<>> => Mode(ts) = "Stopped"
         /\ Topped(ts, {"Lua", "Callback", "Sequence"}) => Mode(ts) = "Normal"
         /\ Topped(ts, {"Start", "Yielded"}) => Mode(ts) = "Suspended"
         /\ Topped(ts, {"WaitThread"}) => Mode(ts) = "Waiting"
         /\ Topped(ts, {"Result"}) => Mode(ts) = "Result"
         /\ Topped(ts, {"Error"}) =>
              Mode(ts) = IF Len(ts.frames) = 1 THEN "Result" ELSE "Normal"
  BY DEF Mode, Topped

LEMMA TopByMode ==
  ASSUME NEW ts \in ThreadState
  PROVE  /\ Mode(ts) = "Stopped" => ts.frames = <<>>
         /\ Mode(ts) = "Normal" => \/ Topped(ts, {"Lua", "Callback", "Sequence"})
                                   \/ Topped(ts, {"Error"}) /\ Len(ts.frames) # 1
         /\ Mode(ts) = "Suspended" => Topped(ts, {"Start", "Yielded"})
         /\ Mode(ts) = "Waiting" => Topped(ts, {"WaitThread"})
         /\ Mode(ts) = "Result" => \/ Topped(ts, {"Result"})
                                   \/ Topped(ts, {"Error"}) /\ Len(ts.frames) = 1
         /\ Mode(ts) \in {"Stopped", "Normal", "Suspended", "Waiting", "Result"}
<1>1. CASE ts.frames = <<>>
  BY <1>1 DEF Mode, Topped
<1>2. CASE ts.frames # <<>>
  <2>1. Last(ts.frames).kind \in FrameKinds
    BY <1>2, FrontAndLast, ThreadTypes, FieldTypes
  <2>. QED
    BY <1>2, <2>1 DEF Mode, Topped, FrameKinds
<1>. QED
  BY <1>1, <1>2

Sound(ts) == ts \in ThreadState /\ WellFormed(ts)

LEMMA ShapeByTop ==
  ASSUME NEW ts, Sound(ts)
  PROVE  /\ ts.frames = <<>> => Empty(ts)
         /\ Topped(ts, {"Callback", "Sequence"}) => InHost(ts)
         /\ Topped(ts, {"Lua"}) => InLua(ts)
         /\ Topped(ts, {"Start"}) => AtStart(ts)
         /\ Topped(ts, {"Yielded"}) => AtYield(ts)
         /\ Topped(ts, {"WaitThread"}) => InWait(ts)
         /\ Topped(ts, {"Result"}) => WithResult(ts)
         /\ Topped(ts, {"Error"}) => WithError(ts)
  BY DEF Sound, WellFormed, Empty, InHost, InLua, AtStart, AtYield, InWait,
         WithResult, WithError, Topped, LuaLast

LEMMA SettledFields ==
  ASSUME NEW ts \in ThreadState, ts.frames # <<>>
  PROVE  /\ Settled(ts) \in ThreadState
         /\ Settled(ts).frames = ts.frames
         /\ Settled(ts).open = ts.open
         /\ Settled(ts).stack = Last(ts.frames).bottom
                                + IF Last(ts.frames).kind = "Lua" THEN 1 ELSE 0
<1>1. Last(ts.frames).bottom \in Nat
  BY FrontAndLast, ThreadTypes, FieldTypes
<1>2. Last(ts.frames).bottom
        + (IF Last(ts.frames).kind = "Lua" THEN 1 ELSE 0) \in Nat
  BY <1>1
<1>. QED
  BY <1>2, TruncateFields DEF Settled

LEMMA NothingOpenAtLevel ==
  ASSUME NEW fs \in Seq(FrameSet), NEW open \in SUBSET Nat, NEW level \in Nat,
         AtRest(fs, open, level)
  PROVE  open \ {level} = open
<1>1. \A x \in open : x < level
  BY DEF AtRest
<1>2. level \notin open
  BY <1>1
<1>. QED
  BY <1>2

(* A Lua frame that begins, or goes on, at the level of those below it.    *)
LEMMA LuaRuns ==
  ASSUME NEW ts \in ThreadState, NEW b \in Nat,
         AtRest(ts.frames, ts.open \ {b}, b)
  PROVE  LET new == Settled(Push(ts, Frame("Lua", b)))
         IN  Sound(new) /\ InLua(new) /\ Topped(new, {"Lua"})
<1>. DEFINE f == Frame("Lua", b)
            p == Push(ts, f)
            new == Settled(p)
<1>1. f \in FrameSet /\ f.kind = "Lua" /\ f.bottom = b /\ ~f.pending
  <2>1. "Lua" \in FrameKinds
    BY DEF FrameKinds
  <2>. QED
    BY <2>1, FrameFields
<1>. HIDE DEF f
<1>2. /\ p \in ThreadState /\ p.frames # <<>> /\ Last(p.frames) = f
      /\ Front(p.frames) = ts.frames /\ p.open = ts.open
  BY <1>1, PushFields
<1>. HIDE DEF p
<1>3. /\ new \in ThreadState /\ new.frames = p.frames
      /\ new.open = ts.open /\ new.stack = b + 1
  BY <1>1, <1>2, SettledFields
<1>. HIDE DEF new
<1>4. /\ new.frames # <<>> /\ Last(new.frames) = f
      /\ Front(new.frames) = ts.frames
  BY <1>2, <1>3
<1>5. InLua(new) /\ Topped(new, {"Lua"})
  BY <1>1, <1>3, <1>4 DEF InLua, LuaLast, Topped
<1>. QED
  BY <1>3, <1>5 DEF Sound, WellFormed, new, p, f

LEMMA PushCallSound ==
  ASSUME NEW ts \in ThreadState, NEW b \in Nat, NEW function \in Functions,
         AtRest(ts.frames, ts.open, b)
  PROVE  /\ Sound(PushCall(ts, b, function))
         /\ Topped(PushCall(ts, b, function), {"Lua", "Callback"})
<1>1. CASE function = "Lua"
  <2>1. AtRest(ts.frames, ts.open \ {b}, b)
    BY NothingOpenAtLevel, ThreadTypes
  <2>2. PushCall(ts, b, function) = Settled(Push(ts, Frame("Lua", b)))
    BY <1>1 DEF PushCall
  <2>. QED
    BY <2>1, <2>2, LuaRuns DEF Topped
<1>2. CASE function = "Callback"
  <2>. DEFINE f == Frame("Callback", b)
              p == Push(ts, f)
              new == Settled(p)
  <2>1. f \in FrameSet /\ f.kind = "Callback" /\ f.bottom = b /\ f.handed = b
    <3>1. "Callback" \in FrameKinds
      BY DEF FrameKinds
    <3>. QED
      BY <3>1, FrameFields
  <2>. HIDE DEF f
  <2>2. /\ p \in ThreadState /\ p.frames # <<>> /\ Last(p.frames) = f
        /\ Front(p.frames) = ts.frames /\ p.open = ts.open
    BY <2>1, PushFields
  <2>. HIDE DEF p
  <2>3. /\ new \in ThreadState /\ new.frames = p.frames
        /\ new.open = ts.open /\ new.stack = b
    BY <2>1, <2>2, SettledFields
  <2>. HIDE DEF new
  <2>4. /\ new.frames # <<>> /\ Last(new.frames) = f
        /\ Front(new.frames) = ts.frames
    BY <2>2, <2>3
  <2>5. InHost(new) /\ Topped(new, {"Lua", "Callback"})
    BY <2>1, <2>3, <2>4 DEF InHost, Topped
  <2>6. Sound(new)
    BY <2>3, <2>5 DEF Sound, WellFormed
  <2>7. PushCall(ts, b, function) = new
    BY <1>2 DEF PushCall, new, p, f
  <2>. QED
    BY <2>5, <2>6, <2>7
<1>. QED
  BY <1>1, <1>2 DEF Functions

(* Values handed to the frames at rest.                                    *)
LEMMA ReturnToSound ==
  ASSUME NEW ts \in ThreadState, NEW level \in Nat, level <= ts.stack,
         AtRest(ts.frames, ts.open, level)
  PROVE  /\ Sound(ReturnTo(ts, level))
         /\ ts.frames # <<>> => Topped(ReturnTo(ts, level), {"Lua", "Sequence"})
         /\ ts.frames = <<>> => /\ Topped(ReturnTo(ts, level), {"Result"})
                                /\ Len(ReturnTo(ts, level).frames) = 1
<1>. DEFINE new == ReturnTo(ts, level)
            top == Last(ts.frames)
<1>1. CASE ts.frames = <<>>
  <2>. DEFINE f == Frame("Result", level)
  <2>1. f \in FrameSet /\ f.kind = "Result" /\ f.bottom = level
    BY FrameFields DEF FrameKinds
  <2>2. new = Push(ts, f)
    BY <1>1 DEF ReturnTo
  <2>. HIDE DEF f, new
  <2>3. /\ new \in ThreadState /\ new.frames # <<>> /\ Last(new.frames) = f
        /\ Front(new.frames) = <<>> /\ new.open = ts.open
        /\ new.stack = ts.stack /\ Len(new.frames) = 1
    <3>1. Len(<<>>) = 0
      OBVIOUS
    <3>2. Len(ts.frames) = 0
      BY <1>1, <3>1, Zenon
    <3>3. /\ new \in ThreadState /\ new.frames # <<>> /\ Last(new.frames) = f
          /\ Front(new.frames) = ts.frames /\ new.open = ts.open
          /\ new.stack = ts.stack /\ Len(new.frames) = Len(ts.frames) + 1
      BY <2>1, <2>2, PushFields
    <3>4. Len(new.frames) = 1
      BY <3>2, <3>3
    <3>5. Front(new.frames) = <<>>
      BY <1>1, <3>3, Zenon
    <3>. QED
      BY <3>3, <3>4, <3>5
  <2>4. level = 0 /\ ts.open = {}
    BY <1>1, AtRestEmpty
  <2>5. WithResult(new) /\ Topped(new, {"Result"})
    BY <2>1, <2>3, <2>4 DEF WithResult, Topped
  <2>. QED
    BY <1>1, <2>3, <2>5 DEF Sound, WellFormed, new
<1>2. CASE ts.frames # <<>>
  <2>1. /\ ts.frames \in Seq(FrameSet) /\ ts.open \in SUBSET Nat
        /\ top \in FrameSet /\ top.bottom \in Nat
    BY <1>2, ThreadTypes, FrontAndLast, FieldTypes
  <2>2. /\ Resting(top) /\ top.bottom <= level
        /\ top.kind = "Sequence" => /\ top.handed = level
                                    /\ AtRest(Front(ts.frames), ts.open, top.bottom)
        /\ top.kind = "Lua" =>
             AtRest(Front(ts.frames), ts.open \ {top.bottom}, top.bottom)
    BY <1>2, <2>1, AtRestPop
  <2>3. CASE top.kind = "Lua"
    <3>1. /\ Pop(ts) \in ThreadState /\ Pop(ts).frames = Front(ts.frames)
          /\ Pop(ts).open = ts.open
      BY <1>2, PopFields
    <3>2. new = Settled(Push(Pop(ts), Frame("Lua", top.bottom)))
      BY <1>2, <2>3 DEF ReturnTo
    <3>3. Sound(new) /\ Topped(new, {"Lua"})
      BY <2>1, <2>2, <2>3, <3>1, <3>2, LuaRuns
    <3>. QED
      BY <1>2, <3>3 DEF Topped
  <2>4. CASE top.kind = "Sequence"
    <3>1. new = Truncate(ts, level)
      BY <1>2, <2>4 DEF ReturnTo
    <3>. HIDE DEF new
    <3>2. /\ new \in ThreadState /\ new.frames = ts.frames
          /\ new.open = ts.open /\ new.stack = level
      BY <3>1, TruncateFields
    <3>3. InHost(new) /\ Topped(new, {"Lua", "Sequence"})
      BY <1>2, <2>2, <2>4, <3>2 DEF InHost, Topped
    <3>. QED
      BY <1>2, <3>2, <3>3 DEF Sound, WellFormed, new
  <2>. QED
    BY <2>2, <2>3, <2>4 DEF Resting
<1>. QED
  BY <1>1, <1>2

LEMMA PushErrorSound ==
  ASSUME NEW ts \in ThreadState, AtRest(ts.frames, ts.open, ts.stack)
  PROVE  /\ Sound(Push(ts, Frame("Error", 0)))
         /\ Topped(Push(ts, Frame("Error", 0)), {"Error"})
<1>. DEFINE f == Frame("Error", 0)
            new == Push(ts, f)
<1>1. f \in FrameSet /\ f.kind = "Error"
  <2>1. "Error" \in FrameKinds
    BY DEF FrameKinds
  <2>. QED
    BY <2>1, FrameFields
<1>. HIDE DEF f
<1>2. /\ new \in ThreadState /\ new.frames # <<>> /\ Last(new.frames) = f
      /\ Front(new.frames) = ts.frames /\ new.open = ts.open
      /\ new.stack = ts.stack
  BY <1>1, PushFields
<1>. HIDE DEF new
<1>3. WithError(new) /\ Topped(new, {"Error"})
  BY <1>1, <1>2 DEF WithError, Topped
<1>. QED
  BY <1>2, <1>3 DEF Sound, WellFormed, new, f

(* A callback or a sequence is over: n values above its bottom.            *)
LEMMA HostLeaves ==
  ASSUME NEW ts, Sound(ts), Topped(ts, {"Callback", "Sequence"}), NEW n \in Nat
  PROVE  LET b == Last(ts.frames).bottom
             left == Truncate(Pop(ts), b + n)
         IN  /\ b \in Nat /\ left \in ThreadState /\ left.stack = b + n
             /\ AtRest(left.frames, left.open, b)
<1>1. ts \in ThreadState /\ ts.frames # <<>> /\ InHost(ts)
  BY ShapeByTop DEF Sound, Topped
<1>2. Last(ts.frames).bottom \in Nat
  BY <1>1, ThreadTypes, FrontAndLast, FieldTypes
<1>3. AtRest(Front(ts.frames), ts.open, Last(ts.frames).bottom)
  BY <1>1 DEF InHost
<1>. DEFINE b == Last(ts.frames).bottom
            mid == Pop(ts)
<1>4. /\ mid \in ThreadState /\ mid.open = ts.open
      /\ mid.frames = Front(ts.frames)
  BY <1>1, PopFields
<1>5. b + n \in Nat
  BY <1>2
<1>. HIDE DEF b, mid
<1>6. /\ Truncate(mid, b + n) \in ThreadState
      /\ Truncate(mid, b + n).frames = mid.frames
      /\ Truncate(mid, b + n).open = mid.open
      /\ Truncate(mid, b + n).stack = b + n
  BY <1>4, <1>5, TruncateFields
<1>. QED
  BY <1>2, <1>3, <1>4, <1>6 DEF b, mid

(* A sequence that waits for results at level.                             *)
LEMMA SequenceRests ==
  ASSUME NEW ts \in ThreadState, NEW b \in Nat, NEW level \in Nat, b <= level,
         AtRest(ts.frames, ts.open, b)
  PROVE  LET new == Push(ts, [Frame("Sequence", b) EXCEPT !.handed = level])
         IN  /\ new \in ThreadState /\ new.stack = ts.stack
             /\ new.frames # <<>>
             /\ AtRest(new.frames, new.open, level)
<1>. DEFINE f == [Frame("Sequence", b) EXCEPT !.handed = level]
            new == Push(ts, f)
<1>1. /\ f \in FrameSet /\ f.kind = "Sequence" /\ f.bottom = b
      /\ f.pending = FALSE /\ f.handed = level
  <2>1. "Sequence" \in FrameKinds
    BY DEF FrameKinds
  <2>. DEFINE g == Frame("Sequence", b)
  <2>2. /\ g \in FrameSet /\ g.kind = "Sequence" /\ g.bottom = b
        /\ g.pending = FALSE
    BY <2>1, FrameFields
  <2>. HIDE DEF g
  <2>3. LET e == [g EXCEPT !.handed = level]
        IN  /\ e \in FrameSet /\ e.kind = "Sequence" /\ e.bottom = b
            /\ e.pending = FALSE /\ e.handed = level
    BY <2>2, HandedFields
  <2>. QED
    BY <2>3 DEF g
<1>. HIDE DEF f
<1>2. /\ new \in ThreadState /\ new.frames = Append(ts.frames, f)
      /\ new.frames # <<>> /\ new.open = ts.open /\ new.stack = ts.stack
  BY <1>1, PushFields
<1>. HIDE DEF new
<1>3. b \notin ts.open
  <2>1. \A x \in ts.open : x < b
    BY DEF AtRest
  <2>. QED
    BY <2>1
<1>4. AtRest(Append(ts.frames, f), ts.open, level)
  <2>1. Resting(f)
    BY <1>1, Zenon DEF Resting
  <2>2. f.kind # "Lua"
    BY <1>1
  <2>. QED
    BY <1>1, <1>3, <2>1, <2>2, ThreadTypes, AtRestPush
<1>. QED
  BY <1>2, <1>4 DEF new, f

(* A sequence that is polled next, with no values.                         *)
LEMMA SequenceRuns ==
  ASSUME NEW ts \in ThreadState, NEW b \in Nat, ts.stack = b,
         AtRest(ts.frames, ts.open, b)
  PROVE  /\ Sound(Push(ts, Frame("Sequence", b)))
         /\ Topped(Push(ts, Frame("Sequence", b)), {"Sequence"})
<1>. DEFINE f == Frame("Sequence", b)
            new == Push(ts, f)
<1>1. f \in FrameSet /\ f.kind = "Sequence" /\ f.bottom = b /\ f.handed = b
  <2>1. "Sequence" \in FrameKinds
    BY DEF FrameKinds
  <2>. QED
    BY <2>1, FrameFields
<1>. HIDE DEF f
<1>2. /\ new \in ThreadState /\ new.frames # <<>> /\ Last(new.frames) = f
      /\ Front(new.frames) = ts.frames /\ new.open = ts.open /\ new.stack = b
  BY <1>1, PushFields
<1>. HIDE DEF new
<1>3. InHost(new) /\ Topped(new, {"Sequence"})
  BY <1>1, <1>2 DEF InHost, Topped
<1>. QED
  BY <1>2, <1>3 DEF Sound, WellFormed, new, f

HandedOver(h) ==
    /\ h.ts \in ThreadState /\ h.bottom \in Nat /\ h.bottom <= h.ts.stack
    /\ AtRest(h.ts.frames, h.ts.open, h.bottom)

LEMMA HandoverRests ==
  ASSUME Sound(state[Top]), Topped(state[Top], {"Callback", "Sequence"}),
         NEW h \in Handovers
  PROVE  HandedOver(h)
<1>. DEFINE b == TopFrame.bottom
<1>1. PICK n \in 0..MaxValues :
        \/ h = [ts |-> Left(n), bottom |-> b]
        \/ \E r \in 0..n :
             h = [ts |-> Push(Left(n), [Frame("Sequence", b) EXCEPT !.handed = b + r]),
                  bottom |-> b + r]
  <2>1. \A n \in 0..MaxValues : 0 \in 0..n
    OBVIOUS
  <2>. QED
    BY <2>1 DEF Handovers
<1>2. n \in Nat
  BY ConstantsAssumption
<1>3. /\ b \in Nat /\ Left(n) \in ThreadState /\ Left(n).stack = b + n
      /\ AtRest(Left(n).frames, Left(n).open, b)
  BY <1>2, HostLeaves DEF Left, Under, TopFrame
<1>4. CASE h = [ts |-> Left(n), bottom |-> b]
  <2>1. h.ts = Left(n) /\ h.bottom = b
    BY <1>4
  <2>. QED
    BY <1>2, <1>3, <2>1 DEF HandedOver
<1>5. CASE \E r \in 0..n :
             h = [ts |-> Push(Left(n), [Frame("Sequence", b) EXCEPT !.handed = b + r]),
                  bottom |-> b + r]
  <2>1. PICK r \in 0..n :
             h = [ts |-> Push(Left(n), [Frame("Sequence", b) EXCEPT !.handed = b + r]),
                  bottom |-> b + r]
    BY <1>5
  <2>2. /\ h.ts = Push(Left(n), [Frame("Sequence", b) EXCEPT !.handed = b + r])
        /\ h.bottom = b + r
    BY <2>1
  <2>3. r \in Nat /\ b + r \in Nat /\ b <= b + r /\ b + r <= b + n
    BY <1>2, <1>3
  <2>. HIDE DEF b
  <2>4. /\ h.ts \in ThreadState /\ h.ts.stack = b + n
        /\ AtRest(h.ts.frames, h.ts.open, b + r)
    BY <1>3, <2>2, <2>3, SequenceRests
  <2>. QED
    BY <2>2, <2>3, <2>4 DEF HandedOver
<1>. QED
  BY <1>1, <1>4, <1>5

LEMMA YieldSound ==
  ASSUME NEW h, HandedOver(h)
  PROVE  LET new == Push(Push(h.ts, Frame("Yielded", 0)), Frame("Result", h.bottom))
         IN  Sound(new) /\ Topped(new, {"Result"})
<1>. DEFINE y == Frame("Yielded", 0)
            f == Frame("Result", h.bottom)
            mid == Push(h.ts, y)
            new == Push(mid, f)
<1>0. /\ h.ts \in ThreadState /\ h.bottom \in Nat /\ h.bottom <= h.ts.stack
      /\ AtRest(h.ts.frames, h.ts.open, h.bottom)
  BY DEF HandedOver
<1>1. /\ y \in FrameSet /\ y.kind = "Yielded"
      /\ f \in FrameSet /\ f.kind = "Result" /\ f.bottom = h.bottom
  <2>1. "Yielded" \in FrameKinds /\ "Result" \in FrameKinds /\ 0 \in Nat
    BY DEF FrameKinds
  <2>. QED
    BY <1>0, <2>1, FrameFields
<1>. HIDE DEF y, f
<1>2. /\ mid \in ThreadState /\ mid.frames # <<>> /\ Last(mid.frames) = y
      /\ Front(mid.frames) = h.ts.frames /\ mid.open = h.ts.open
      /\ mid.stack = h.ts.stack
  BY <1>0, <1>1, PushFields
<1>. HIDE DEF mid
<1>3. /\ new \in ThreadState /\ new.frames # <<>> /\ Last(new.frames) = f
      /\ Front(new.frames) = mid.frames /\ new.open = mid.open
      /\ new.stack = mid.stack
  BY <1>1, <1>2, PushFields
<1>. HIDE DEF new
<1>4. WithResult(new) /\ Topped(new, {"Result"})
  BY <1>0, <1>1, <1>2, <1>3 DEF WithResult, Topped
<1>. QED
  BY <1>3, <1>4 DEF Sound, WellFormed, new, mid, f, y

(* The values are gone, the frame pushed holds none.                       *)
LEMMA LeftWith ==
  ASSUME NEW h, HandedOver(h), NEW kind \in FrameKinds
  PROVE  LET new == Truncate(Push(h.ts, Frame(kind, 0)), h.bottom)
         IN  /\ new \in ThreadState /\ new.frames # <<>>
             /\ Last(new.frames).kind = kind /\ Front(new.frames) = h.ts.frames
             /\ AtRest(Front(new.frames), new.open, new.stack)
<1>. DEFINE f == Frame(kind, 0)
            mid == Push(h.ts, f)
            new == Truncate(mid, h.bottom)
<1>0. /\ h.ts \in ThreadState /\ h.bottom \in Nat /\ h.bottom <= h.ts.stack
      /\ AtRest(h.ts.frames, h.ts.open, h.bottom)
  BY DEF HandedOver
<1>1. f \in FrameSet /\ f.kind = kind
  BY FrameFields
<1>. HIDE DEF f
<1>2. /\ mid \in ThreadState /\ mid.frames # <<>> /\ Last(mid.frames) = f
      /\ Front(mid.frames) = h.ts.frames /\ mid.open = h.ts.open
  BY <1>0, <1>1, PushFields
<1>. HIDE DEF mid
<1>3. /\ new \in ThreadState /\ new.frames = mid.frames /\ new.open = mid.open
      /\ new.stack = h.bottom
  BY <1>0, <1>2, TruncateFields
<1>. HIDE DEF new
<1>. QED
  BY <1>0, <1>1, <1>2, <1>3 DEF new, mid, f

LEMMA YieldToSound ==
  ASSUME NEW h, HandedOver(h)
  PROVE  LET new == Truncate(Push(h.ts, Frame("Yielded", 0)), h.bottom)
         IN  Sound(new) /\ Topped(new, {"Yielded"})
<1>. DEFINE new == Truncate(Push(h.ts, Frame("Yielded", 0)), h.bottom)
<1>1. "Yielded" \in FrameKinds
  BY DEF FrameKinds
<1>2. /\ new \in ThreadState /\ new.frames # <<>>
      /\ Last(new.frames).kind = "Yielded"
      /\ AtRest(Front(new.frames), new.open, new.stack)
  BY <1>1, LeftWith
<1>. HIDE DEF new
<1>3. AtYield(new) /\ Topped(new, {"Yielded"})
  BY <1>2 DEF AtYield, Topped
<1>. QED
  BY <1>2, <1>3 DEF Sound, WellFormed, new

LEMMA WaitSound ==
  ASSUME NEW h, HandedOver(h), h.ts.frames # <<>>
  PROVE  LET new == Truncate(Push(h.ts, Frame("WaitThread", 0)), h.bottom)
         IN  Sound(new) /\ Topped(new, {"WaitThread"})
<1>. DEFINE new == Truncate(Push(h.ts, Frame("WaitThread", 0)), h.bottom)
<1>1. "WaitThread" \in FrameKinds
  BY DEF FrameKinds
<1>2. /\ new \in ThreadState /\ new.frames # <<>>
      /\ Last(new.frames).kind = "WaitThread"
      /\ Front(new.frames) = h.ts.frames
      /\ AtRest(Front(new.frames), new.open, new.stack)
  BY <1>1, LeftWith
<1>. HIDE DEF new
<1>3. InWait(new) /\ Topped(new, {"WaitThread"})
  BY <1>2 DEF InWait, Topped
<1>. QED
  BY <1>2, <1>3 DEF Sound, WellFormed, new

LEMMA TailSound ==
  ASSUME NEW h, HandedOver(h), h.ts.frames = <<>>
  PROVE  /\ Sound(Truncate(h.ts, h.bottom))
         /\ Truncate(h.ts, h.bottom).frames = <<>>
<1>1. /\ h.ts \in ThreadState /\ h.bottom \in Nat
      /\ AtRest(<<>>, h.ts.open, h.bottom)
  BY DEF HandedOver
<1>2. h.bottom = 0 /\ h.ts.open = {}
  BY <1>1, AtRestEmpty
<1>3. /\ Truncate(h.ts, h.bottom) \in ThreadState
      /\ Truncate(h.ts, h.bottom).frames = h.ts.frames
      /\ Truncate(h.ts, h.bottom).open = h.ts.open
      /\ Truncate(h.ts, h.bottom).stack = h.bottom
  BY <1>1, TruncateFields
<1>. QED
  BY <1>2, <1>3 DEF Sound, WellFormed, Empty

LEMMA ResumeFailsSound ==
  ASSUME NEW h, HandedOver(h)
  PROVE  LET new == Push(Truncate(h.ts, h.bottom), Frame("Error", 0))
         IN  Sound(new) /\ Topped(new, {"Error"})
<1>. DEFINE mid == Truncate(h.ts, h.bottom)
<1>1. /\ mid \in ThreadState /\ AtRest(mid.frames, mid.open, mid.stack)
  BY TruncateFields DEF HandedOver
<1>. HIDE DEF mid
<1>2. LET new == Push(mid, Frame("Error", 0))
      IN  Sound(new) /\ Topped(new, {"Error"})
  BY <1>1, PushErrorSound
<1>. QED
  BY <1>2 DEF mid

(* A suspended thread goes on with n values.                               *)
LEMMA ResumedSound ==
  ASSUME NEW ts, Sound(ts), Topped(ts, {"Start", "Yielded"}),
         NEW n \in Nat, NEW function \in Functions
  PROVE  LET new == Resumed(ts, n, function)
         IN  /\ Sound(new)
             /\ \/ Topped(new, {"Lua", "Callback", "Sequence"})
                \/ Topped(new, {"Result"}) /\ Len(new.frames) = 1
<1>. DEFINE under == Pop(ts)
            woken == Give(under, n)
            new == Resumed(ts, n, function)
<1>1. ts \in ThreadState /\ ts.frames # <<>> /\ ts.stack \in Nat
  BY ThreadTypes DEF Sound, Topped
<1>2. /\ under \in ThreadState /\ under.frames = Front(ts.frames)
      /\ under.open = ts.open /\ under.stack = ts.stack
  BY <1>1, PopFields
<1>. HIDE DEF under
<1>3. /\ woken \in ThreadState /\ woken.frames = Front(ts.frames)
      /\ woken.open = ts.open /\ woken.stack = ts.stack + n
  BY <1>2, GiveFields
<1>4. CASE Last(ts.frames).kind = "Start"
  <2>1. AtStart(ts)
    BY <1>1, <1>4, ShapeByTop DEF Topped
  <2>2. AtRest(woken.frames, woken.open, 0)
    BY <1>3, <2>1, NothingAtRest DEF AtStart
  <2>3. new = PushCall(woken, 0, function)
    BY <1>4 DEF Resumed, under
  <2>. HIDE DEF woken, new
  <2>4. Sound(new) /\ Topped(new, {"Lua", "Callback"})
    BY <1>3, <2>2, <2>3, PushCallSound
  <2>. QED
    BY <2>4 DEF Topped, new
<1>5. CASE Last(ts.frames).kind = "Yielded"
  <2>1. AtYield(ts)
    BY <1>1, <1>5, ShapeByTop DEF Topped
  <2>2. AtRest(woken.frames, woken.open, ts.stack)
    BY <1>3, <2>1 DEF AtYield
  <2>3. new = ReturnTo(woken, ts.stack)
    BY <1>5 DEF Resumed, under
  <2>. HIDE DEF woken, new
  <2>4. ts.stack <= woken.stack
    BY <1>1, <1>3
  <2>5. /\ Sound(new)
        /\ \/ Topped(new, {"Lua", "Sequence"})
           \/ Topped(new, {"Result"}) /\ Len(new.frames) = 1
    BY <1>1, <1>3, <2>2, <2>3, <2>4, ReturnToSound
  <2>. QED
    BY <2>5 DEF Topped, new
<1>. QED
  BY <1>4, <1>5 DEF Topped

HoldsResult(ts) ==
    \/ Topped(ts, {"Result"})
    \/ Topped(ts, {"Error"}) /\ Len(ts.frames) = 1

LEMMA NoFramesBelow ==
  ASSUME NEW s \in Seq(FrameSet), s # <<>>
  PROVE  Len(s) = 1 <=> Front(s) = <<>>
<1>1. Front(s) \in Seq(FrameSet) /\ Len(Front(s)) = Len(s) - 1 /\ Len(s) \in Nat
  BY FrontAndLast
<1>2. Front(s) = <<>> <=> Len(Front(s)) = 0
  BY <1>1, LengthOfEmpty
<1>. QED
  BY <1>1, <1>2

(* The result is taken: nothing is left, or what the thread yielded from.  *)
LEMMA TakeResultSound ==
  ASSUME NEW ts, Sound(ts), HoldsResult(ts)
  PROVE  LET new == TakeResultOf(ts)
         IN  /\ Sound(new)
             /\ Len(ts.frames) = 1 => new.frames = <<>>
             /\ Len(ts.frames) # 1 => Topped(new, {"Yielded"})
<1>. DEFINE under == Pop(ts)
            level == Last(ts.frames).bottom
            new == TakeResultOf(ts)
<1>1. /\ ts \in ThreadState /\ ts.frames # <<>> /\ ts.frames \in Seq(FrameSet)
      /\ level \in Nat
  BY ThreadTypes, FrontAndLast, FieldTypes DEF Sound, HoldsResult, Topped
<1>2. /\ under \in ThreadState /\ under.frames = Front(ts.frames)
      /\ under.open = ts.open /\ under.stack = ts.stack
  BY <1>1, PopFields
<1>3. Len(ts.frames) = 1 <=> under.frames = <<>>
  BY <1>1, <1>2, NoFramesBelow
<1>. HIDE DEF under, level
<1>4. CASE Last(ts.frames).kind = "Result"
  <2>1. WithResult(ts)
    BY <1>1, <1>4, ShapeByTop DEF Topped
  <2>2. new = Truncate(under, level)
    BY <1>4 DEF TakeResultOf, under, level
  <2>. HIDE DEF new
  <2>3. /\ new \in ThreadState /\ new.frames = under.frames
        /\ new.open = ts.open /\ new.stack = level
    BY <1>1, <1>2, <2>2, TruncateFields
  <2>4. CASE under.frames = <<>>
    <3>1. level = 0 /\ ts.open = {}
      BY <1>2, <2>1, <2>4 DEF WithResult, level
    <3>2. Empty(new)
      BY <2>3, <2>4, <3>1 DEF Empty
    <3>. QED
      BY <1>3, <2>3, <2>4, <3>2 DEF Sound, WellFormed, new
  <2>5. CASE under.frames # <<>>
    <3>1. /\ Last(under.frames).kind = "Yielded"
          /\ AtRest(Front(under.frames), ts.open, level)
      BY <1>2, <2>1, <2>5 DEF WithResult, level
    <3>2. AtYield(new) /\ Topped(new, {"Yielded"})
      BY <2>3, <2>5, <3>1 DEF AtYield, Topped
    <3>. QED
      BY <1>3, <2>3, <2>5, <3>2 DEF Sound, WellFormed, new
  <2>. QED
    BY <2>4, <2>5
<1>5. CASE Last(ts.frames).kind = "Error"
  <2>1. WithError(ts) /\ Len(ts.frames) = 1
    BY <1>1, <1>5, ShapeByTop DEF HoldsResult, Topped
  <2>2. new = under
    BY <1>5 DEF TakeResultOf, under
  <2>3. AtRest(<<>>, ts.open, ts.stack)
    BY <1>2, <1>3, <2>1 DEF WithError, LuaLast
  <2>4. ts.stack = 0 /\ ts.open = {}
    BY <2>3, AtRestEmpty
  <2>. HIDE DEF new
  <2>5. Empty(new)
    BY <1>2, <1>3, <2>1, <2>2, <2>4 DEF Empty
  <2>. QED
    BY <1>2, <1>3, <2>1, <2>2, <2>5 DEF Sound, WellFormed, new
<1>. QED
  BY <1>4, <1>5 DEF HoldsResult, Topped

(* A waiting thread gets the result, and runs or unwinds.                  *)
LEMMA DeliveredSound ==
  ASSUME NEW from, Sound(from), HoldsResult(from),
         NEW to, Sound(to), Topped(to, {"WaitThread"})
  PROVE  LET new == Delivered(from, to)
         IN  /\ Sound(new) /\ Mode(new) = "Normal"
             /\ (Last(new.frames).kind = "Error")
                  <=> (Last(from.frames).kind = "Error")
<1>. DEFINE under == Pop(to)
            new == Delivered(from, to)
<1>1. to \in ThreadState /\ to.frames # <<>> /\ InWait(to)
  BY ShapeByTop DEF Sound, Topped
<1>2. /\ under \in ThreadState /\ under.frames = Front(to.frames)
      /\ under.open = to.open /\ under.stack = to.stack
      /\ to.stack \in Nat /\ under.frames \in Seq(FrameSet)
  BY <1>1, PopFields, ThreadTypes
<1>3. under.frames # <<>> /\ AtRest(under.frames, under.open, to.stack)
  BY <1>1, <1>2 DEF InWait
<1>. HIDE DEF under
<1>4. CASE Last(from.frames).kind = "Error"
  <2>. DEFINE f == Frame("Error", 0)
  <2>1. new = Push(under, f)
    BY <1>4 DEF Delivered, under
  <2>2. f \in FrameSet
    <3>1. "Error" \in FrameKinds
      BY DEF FrameKinds
    <3>. QED
      BY <3>1, FrameFields
  <2>3. Sound(new) /\ Topped(new, {"Error"})
    BY <1>2, <1>3, <2>1, PushErrorSound
  <2>. HIDE DEF new, f
  <2>4. Len(new.frames) = Len(under.frames) + 1
    BY <1>2, <2>1, <2>2, PushFields
  <2>5. Len(new.frames) # 1
    BY <1>2, <1>3, <2>4, LengthOfEmpty
  <2>6. Mode(new) = "Normal"
    BY <2>3, <2>5, ModeByTop DEF Sound
  <2>. QED
    BY <1>4, <2>3, <2>6 DEF Topped, new
<1>5. CASE Last(from.frames).kind # "Error"
  <2>. DEFINE vals == from.stack - Last(from.frames).bottom
              given == Give(under, vals)
  <2>1. WithResult(from)
    BY <1>5, ShapeByTop DEF HoldsResult, Topped
  <2>2. Last(from.frames).bottom <= from.stack
    BY <2>1 DEF WithResult
  <2>3. Last(from.frames).bottom \in Nat /\ from.stack \in Nat
    BY FrontAndLast, FieldTypes, ThreadTypes DEF Sound, HoldsResult, Topped
  <2>4. vals \in Nat
    BY <2>2, <2>3
  <2>5. new = ReturnTo(given, to.stack)
    BY <1>5 DEF Delivered, under
  <2>. HIDE DEF new, vals
  <2>6. /\ given \in ThreadState /\ given.frames = under.frames
        /\ given.open = under.open /\ given.stack = to.stack + vals
    BY <1>2, <2>4, GiveFields
  <2>. HIDE DEF given
  <2>7. to.stack <= given.stack
    BY <1>2, <2>4, <2>6
  <2>8. Sound(new) /\ Topped(new, {"Lua", "Sequence"})
    BY <1>2, <1>3, <2>5, <2>6, <2>7, ReturnToSound
  <2>9. Topped(new, {"Lua", "Callback", "Sequence"})
    BY <2>8 DEF Topped
  <2>10. Mode(new) = "Normal"
    BY <2>8, <2>9, ModeByTop DEF Sound
  <2>. QED
    BY <1>5, <2>8, <2>10 DEF Topped, new
<1>. QED
  BY <1>4, <1>5

LEMMA ClosedFrom ==
  ASSUME NEW open \in SUBSET Nat, NEW b \in Nat, \A x \in open : x <= b
  PROVE  {x \in open : x < b} = open \ {b}
<1>1. \A x \in open : x < b <=> x # b
  OBVIOUS
<1>. QED
  BY <1>1

(* What is known of a Lua frame that runs.                                 *)
LEMMA LuaFacts ==
  ASSUME NEW fs \in Seq(FrameSet), NEW ts \in ThreadState, LuaLast(fs, ts)
  PROVE  LET f == Last(fs)
         IN  /\ f \in FrameSet /\ f.bottom \in Nat /\ f.kind = "Lua"
             /\ fs # <<>> /\ Front(fs) \in Seq(FrameSet)
             /\ \A x \in ts.open : x <= f.bottom
             /\ {x \in ts.open : x < f.bottom} = ts.open \ {f.bottom}
             /\ AtRest(Front(fs), ts.open \ {f.bottom}, f.bottom)
             /\ ts.stack = f.bottom + 1
<1>. DEFINE f == Last(fs)
<1>1. /\ f \in FrameSet /\ f.kind = "Lua" /\ fs # <<>>
      /\ Front(fs) \in Seq(FrameSet)
      /\ AtRest(Front(fs), ts.open \ {f.bottom}, f.bottom)
      /\ ts.stack = f.bottom + 1
  BY FrontAndLast DEF LuaLast
<1>2. f.bottom \in Nat
  BY <1>1, FieldTypes
<1>. HIDE DEF f
<1>3. \A x \in ts.open \ {f.bottom} : x < f.bottom
  BY <1>1 DEF AtRest
<1>4. \A x \in ts.open : x <= f.bottom
  <2>1. \A x \in ts.open : x \in Nat
    BY ThreadTypes
  <2>. QED
    BY <1>2, <1>3, <2>1
<1>5. {x \in ts.open : x < f.bottom} = ts.open \ {f.bottom}
  BY <1>2, <1>4, ThreadTypes, ClosedFrom
<1>. QED
  BY <1>1, <1>2, <1>4, <1>5 DEF f

LEMMA LuaOpensSound ==
  ASSUME NEW ts, Sound(ts), Topped(ts, {"Lua"})
  PROVE  LET b == Last(ts.frames).bottom
             opened == [ts EXCEPT !.open = @ \cup {b}]
             closed == CloseUpvalues(ts, b)
         IN  /\ Sound(opened) /\ Topped(opened, {"Lua"})
             /\ Sound(closed) /\ Topped(closed, {"Lua"})
<1>. DEFINE b == Last(ts.frames).bottom
            opened == [ts EXCEPT !.open = @ \cup {b}]
            closed == CloseUpvalues(ts, b)
<1>1. /\ ts \in ThreadState /\ ts.frames \in Seq(FrameSet)
      /\ LuaLast(ts.frames, ts)
  BY ShapeByTop, ThreadTypes DEF Sound, InLua
<1>2. /\ b \in Nat /\ {x \in ts.open : x < b} = ts.open \ {b}
  BY <1>1, LuaFacts
<1>3. /\ opened \in ThreadState /\ opened.frames = ts.frames
      /\ opened.open = ts.open \cup {b} /\ opened.stack = ts.stack
  BY <1>1, <1>2 DEF ThreadState
<1>4. /\ closed \in ThreadState /\ closed.frames = ts.frames
      /\ closed.open = ts.open \ {b} /\ closed.stack = ts.stack
  BY <1>1, <1>2, CloseFields
<1>. HIDE DEF opened, closed
<1>5. opened.open \ {b} = ts.open \ {b} /\ closed.open \ {b} = ts.open \ {b}
  BY <1>3, <1>4
<1>6. LuaLast(opened.frames, opened) /\ LuaLast(closed.frames, closed)
  BY <1>1, <1>3, <1>4, <1>5 DEF LuaLast
<1>. QED
  BY <1>3, <1>4, <1>6 DEF Sound, WellFormed, InLua, Topped, opened, closed, b

LEMMA LuaCallSound ==
  ASSUME NEW ts, Sound(ts), Topped(ts, {"Lua"}), NEW function \in Functions,
         NEW bottom \in Nat, bottom \notin ts.open,
         bottom \in {Last(ts.frames).bottom, Last(ts.frames).bottom + 1}
  PROVE  LET new == PushCall(Push(Pop(ts), Marked(Last(ts.frames))), bottom, function)
         IN  Sound(new) /\ Topped(new, {"Lua", "Callback"})
<1>. DEFINE top == Last(ts.frames)
            f == Marked(top)
            under == Pop(ts)
            caller == Push(under, f)
<1>1. /\ ts \in ThreadState /\ ts.frames \in Seq(FrameSet) /\ ts.frames # <<>>
      /\ LuaLast(ts.frames, ts)
  BY ShapeByTop, ThreadTypes DEF Sound, InLua, Topped
<1>2. /\ top \in FrameSet /\ top.kind = "Lua" /\ top.bottom \in Nat
      /\ AtRest(Front(ts.frames), ts.open \ {top.bottom}, top.bottom)
  BY <1>1, LuaFacts
<1>3. /\ under \in ThreadState /\ under.frames = Front(ts.frames)
      /\ under.open = ts.open
  BY <1>1, PopFields
<1>. HIDE DEF under
<1>4. /\ f \in FrameSet /\ f.kind = "Lua" /\ f.bottom = top.bottom
      /\ f.pending = TRUE
  BY <1>2, MarkedFields
<1>. HIDE DEF f
<1>5. /\ caller \in ThreadState /\ caller.open = ts.open
      /\ caller.frames = Append(under.frames, f)
  BY <1>3, <1>4, PushFields
<1>6. Resting(f) /\ f.kind # "Sequence"
  <2>1. Resting(f)
    BY <1>4, Zenon DEF Resting
  <2>. QED
    BY <1>4, <2>1
<1>7. /\ f.bottom <= bottom
      /\ f.bottom \in ts.open => f.bottom < bottom
  BY <1>2, <1>4
<1>8. AtRest(Append(under.frames, f), ts.open, bottom)
  BY <1>1, <1>2, <1>3, <1>4, <1>6, <1>7, ThreadTypes, AtRestPush
<1>. HIDE DEF caller
<1>9. /\ Sound(PushCall(caller, bottom, function))
      /\ Topped(PushCall(caller, bottom, function), {"Lua", "Callback"})
  BY <1>5, <1>8, PushCallSound
<1>. QED
  BY <1>9 DEF caller, under, f

(* A Lua frame is left with n values at its bottom.                        *)
LEMMA LuaLeavesRests ==
  ASSUME NEW ts, Sound(ts), Topped(ts, {"Lua"}), NEW n \in Nat
  PROVE  LET b == Last(ts.frames).bottom
             left == CloseUpvalues(Truncate(Pop(ts), b + n), b)
         IN  /\ b \in Nat /\ left \in ThreadState /\ left.stack = b + n
             /\ AtRest(left.frames, left.open, b)
<1>. DEFINE b == Last(ts.frames).bottom
            under == Pop(ts)
            mid == Truncate(under, b + n)
<1>1. /\ ts \in ThreadState /\ ts.frames \in Seq(FrameSet) /\ ts.frames # <<>>
      /\ LuaLast(ts.frames, ts)
  BY ShapeByTop, ThreadTypes DEF Sound, InLua, Topped
<1>2. /\ b \in Nat /\ {x \in ts.open : x < b} = ts.open \ {b}
      /\ AtRest(Front(ts.frames), ts.open \ {b}, b)
  BY <1>1, LuaFacts
<1>. HIDE DEF b
<1>3. b + n \in Nat
  BY <1>2
<1>4. /\ under \in ThreadState /\ under.frames = Front(ts.frames)
      /\ under.open = ts.open
  BY <1>1, PopFields
<1>. HIDE DEF under
<1>5. /\ mid \in ThreadState /\ mid.frames = under.frames
      /\ mid.open = ts.open /\ mid.stack = b + n
  BY <1>3, <1>4, TruncateFields
<1>. HIDE DEF mid
<1>6. /\ CloseUpvalues(mid, b) \in ThreadState
      /\ CloseUpvalues(mid, b).frames = mid.frames
      /\ CloseUpvalues(mid, b).open = {x \in mid.open : x < b}
      /\ CloseUpvalues(mid, b).stack = mid.stack
  BY <1>2, <1>5, CloseFields
<1>. QED
  BY <1>2, <1>4, <1>5, <1>6 DEF mid, under, b

LEMMA LuaErrorSound ==
  ASSUME NEW ts, Sound(ts), Topped(ts, {"Lua"})
  PROVE  LET new == Push(ts, Frame("Error", 0))
         IN  Sound(new) /\ Topped(new, {"Error"})
<1>. DEFINE f == Frame("Error", 0)
            new == Push(ts, f)
<1>1. ts \in ThreadState /\ LuaLast(ts.frames, ts)
  BY ShapeByTop DEF Sound, InLua
<1>2. f \in FrameSet /\ f.kind = "Error"
  <2>1. "Error" \in FrameKinds
    BY DEF FrameKinds
  <2>. QED
    BY <2>1, FrameFields
<1>. HIDE DEF f
<1>3. /\ new \in ThreadState /\ new.frames # <<>> /\ Last(new.frames) = f
      /\ Front(new.frames) = ts.frames /\ new.open = ts.open
      /\ new.stack = ts.stack
  BY <1>1, <1>2, PushFields
<1>. HIDE DEF new
<1>4. LuaLast(Front(new.frames), new)
  BY <1>1, <1>3 DEF LuaLast
<1>5. WithError(new) /\ Topped(new, {"Error"})
  BY <1>2, <1>3, <1>4 DEF WithError, Topped
<1>. QED
  BY <1>3, <1>5 DEF Sound, WellFormed, new, f

(* An error unwinds the frame below it.                                    *)
LEMMA UnwindSound ==
  ASSUME NEW ts, Sound(ts), Topped(ts, {"Error"}), Len(ts.frames) # 1
  PROVE  LET under == Pop(ts)
             new == Unwound(Last(under.frames), Pop(under))
         IN  Sound(new) /\ Topped(new, {"Error", "Sequence"})
<1>. DEFINE under == Pop(ts)
            f == Last(under.frames)
            base == Pop(under)
            new == Unwound(f, base)
<1>1. /\ ts \in ThreadState /\ ts.frames \in Seq(FrameSet) /\ ts.frames # <<>>
      /\ WithError(ts)
  BY ShapeByTop, ThreadTypes DEF Sound, Topped
<1>2. /\ under \in ThreadState /\ under.frames = Front(ts.frames)
      /\ under.open = ts.open /\ under.stack = ts.stack
  BY <1>1, PopFields
<1>3. under.frames # <<>>
  BY <1>1, <1>2, NoFramesBelow
<1>. HIDE DEF under
<1>4. /\ under.frames \in Seq(FrameSet) /\ under.open \in SUBSET Nat
      /\ under.stack \in Nat
      /\ f \in FrameSet /\ f.bottom \in Nat
  BY <1>2, <1>3, ThreadTypes, FrontAndLast, FieldTypes
<1>5. /\ base \in ThreadState /\ base.frames = Front(under.frames)
      /\ base.open = under.open /\ base.stack = under.stack
  BY <1>2, <1>3, PopFields
<1>6. \/ AtRest(under.frames, under.open, under.stack)
      \/ LuaLast(under.frames, under)
  BY <1>1, <1>2 DEF WithError, LuaLast
<1>7. CASE f.kind = "Lua"
  <2>1. /\ AtRest(Front(under.frames), under.open \ {f.bottom}, f.bottom)
        /\ {x \in under.open : x < f.bottom} = under.open \ {f.bottom}
    <3>1. CASE LuaLast(under.frames, under)
      BY <1>2, <1>4, <3>1, LuaFacts
    <3>2. CASE AtRest(under.frames, under.open, under.stack)
      <4>1. /\ AtRest(Front(under.frames), under.open \ {f.bottom}, f.bottom)
            /\ \A x \in under.open : x <= f.bottom
        BY <1>3, <1>4, <1>7, <3>2, AtRestPop
      <4>. QED
        BY <1>4, <4>1, ClosedFrom
    <3>. QED
      BY <1>6, <3>1, <3>2
  <2>. DEFINE closed == CloseUpvalues(base, f.bottom)
              cut == Truncate(closed, f.bottom)
  <2>2. new = Push(cut, Frame("Error", 0))
    BY <1>7 DEF Unwound
  <2>. HIDE DEF base, f, new
  <2>3. /\ closed \in ThreadState /\ closed.frames = base.frames
        /\ closed.open = {x \in base.open : x < f.bottom}
    BY <1>4, <1>5, CloseFields
  <2>. HIDE DEF closed
  <2>4. /\ cut \in ThreadState /\ cut.frames = closed.frames
        /\ cut.open = closed.open /\ cut.stack = f.bottom
    BY <1>4, <2>3, TruncateFields
  <2>. HIDE DEF cut
  <2>5. AtRest(cut.frames, cut.open, cut.stack)
    BY <1>5, <2>1, <2>3, <2>4
  <2>6. Sound(new) /\ Topped(new, {"Error"})
    BY <2>2, <2>4, <2>5, PushErrorSound
  <2>. QED
    BY <2>6 DEF Topped, new, base, f, under
<1>8. CASE f.kind # "Lua"
  <2>1. AtRest(under.frames, under.open, under.stack)
    BY <1>6, <1>8 DEF LuaLast
  <2>2. /\ Resting(f) /\ f.bottom <= under.stack
        /\ f.kind = "Sequence" => /\ f.handed = under.stack
                                  /\ AtRest(Front(under.frames), under.open, f.bottom)
    BY <1>3, <1>4, <2>1, AtRestPop
  <2>3. f.kind = "Sequence"
    BY <1>8, <2>2 DEF Resting
  <2>. DEFINE g == Marked(f)
  <2>4. new = Push(base, g)
    BY <1>8 DEF Unwound
  <2>5. /\ g \in FrameSet /\ g.kind = "Sequence" /\ g.bottom = f.bottom
        /\ g.handed = under.stack
    BY <1>4, <2>2, <2>3, MarkedFields
  <2>. HIDE DEF base, f, g, new
  <2>6. /\ new \in ThreadState /\ new.frames # <<>> /\ Last(new.frames) = g
        /\ Front(new.frames) = base.frames /\ new.open = base.open
        /\ new.stack = base.stack
    BY <1>5, <2>4, <2>5, PushFields
  <2>7. InHost(new) /\ Topped(new, {"Error", "Sequence"})
    BY <1>5, <2>2, <2>3, <2>5, <2>6 DEF InHost, Topped
  <2>. QED
    BY <2>6, <2>7 DEF Sound, WellFormed, new, base, f, under
<1>. QED
  BY <1>7, <1>8

LEMMA BegunSound ==
  ASSUME NEW function \in Functions
  PROVE  /\ Sound(PushCall(NewThread, 0, function))
         /\ Mode(PushCall(NewThread, 0, function)) = "Normal"
<1>. DEFINE new == PushCall(NewThread, 0, function)
<1>1. Sound(new) /\ Topped(new, {"Lua", "Callback"})
  <2>1. AtRest(NewThread.frames, NewThread.open, 0)
    BY NewThreadFields, NothingAtRest, Zenon
  <2>2. NewThread \in ThreadState /\ 0 \in Nat
    BY NewThreadFields
  <2>. QED
    BY <2>1, <2>2, PushCallSound
<1>. HIDE DEF new
<1>2. Topped(new, {"Lua", "Callback", "Sequence"})
  BY <1>1 DEF Topped
<1>3. Sound(new) /\ Mode(new) = "Normal"
  BY <1>1, <1>2, ModeByTop DEF Sound
<1>. QED
  BY <1>3 DEF new

LEMMA CoroutineSound ==
  /\ Sound(Push(NewThread, Frame("Start", 0)))
  /\ Mode(Push(NewThread, Frame("Start", 0))) = "Suspended"
<1>. DEFINE f == Frame("Start", 0)
            new == Push(NewThread, f)
<1>1. f \in FrameSet /\ f.kind = "Start"
  <2>1. "Start" \in FrameKinds
    BY DEF FrameKinds
  <2>. QED
    BY <2>1, FrameFields
<1>. HIDE DEF f
<1>2. /\ new \in ThreadState /\ new.frames # <<>> /\ Last(new.frames) = f
      /\ Front(new.frames) = NewThread.frames /\ new.open = NewThread.open
      /\ new.stack = NewThread.stack
  BY <1>1, NewThreadFields, PushFields
<1>. HIDE DEF new
<1>3. Front(new.frames) = <<>> /\ new.open = {} /\ new.stack = 0
  BY <1>2, NewThreadFields, Zenon
<1>4. AtStart(new) /\ Topped(new, {"Start", "Yielded"})
  BY <1>1, <1>2, <1>3 DEF AtStart, Topped
<1>5. Sound(new) /\ Mode(new) = "Suspended"
  BY <1>2, <1>4, ModeByTop DEF Sound, WellFormed
<1>. QED
  BY <1>5 DEF new, f

LEMMA FreshSound == Sound(NewThread) /\ Mode(NewThread) = "Stopped"
  BY NewThreadFields, ModeByTop DEF Sound, WellFormed, Empty

LEMMA RunsOrEnds ==
  ASSUME NEW ts, Sound(ts),
         Topped(ts, {"Lua", "Callback", "Sequence", "Result", "Error"})
  PROVE  Mode(ts) \in {"Normal", "Result"}
  BY ModeByTop DEF Sound, Topped

-----------------------------------------------------------------------------
(* What the actions do to the threads.                                     *)

LEMMA TopThread ==
  ASSUME IInv, thread_stack # <<>>
  PROVE  /\ thread_stack \in Seq(Threads) /\ Top \in Threads
         /\ Len(thread_stack) \in Nat \ {0} /\ Top = thread_stack[Len(thread_stack)]
         /\ Main \in Threads /\ Main = thread_stack[1]
         /\ Sound(state[Top]) /\ Sound(state[Main])
<1>1. thread_stack \in Seq(Threads) /\ state \in [Threads -> ThreadState]
  BY DEF IInv, TypeOK
<1>2. /\ Top \in Threads /\ Len(thread_stack) \in Nat \ {0}
      /\ Top = thread_stack[Len(thread_stack)]
  BY <1>1, FrontAndLast DEF Top
<1>3. Main \in Threads /\ Main = thread_stack[1]
  BY <1>1, <1>2, ElementOfSeq DEF Main
<1>. QED
  BY <1>1, <1>2, <1>3 DEF IInv, Sound

LEMMA SteppingTop ==
  ASSUME IInv, NEW kinds, Stepping(kinds)
  PROVE  /\ step = "running" /\ thread_stack # <<>> /\ Top \in Threads
         /\ Sound(state[Top]) /\ Topped(state[Top], kinds)
         /\ Mode(state[Top]) = "Normal"
<1>1. step = "running" /\ thread_stack # <<>> /\ Mode(state[Top]) = "Normal"
  BY DEF IInv, Stepping
<1>2. Top \in Threads /\ Sound(state[Top])
  BY <1>1, TopThread
<1>3. state[Top].frames # <<>>
  BY <1>1, <1>2, TopByMode DEF Sound, Topped
<1>. QED
  BY <1>1, <1>2, <1>3 DEF Stepping, Topped, TopFrame

(* Only the threads in changed change, and all are as they should be.      *)
Changes(changed) ==
    /\ state' \in [Threads -> ThreadState]
    /\ \A t \in Threads \ changed : state'[t] = state[t]
    /\ \A t \in changed : WellFormed(state'[t])

LEMMA OneChange ==
  ASSUME IInv, NEW t \in Threads, NEW ts, Sound(ts),
         state' = [state EXCEPT ![t] = ts]
  PROVE  Changes({t}) /\ state'[t] = ts
  BY DEF IInv, TypeOK, Changes, Sound

LEMMA TwoChanges ==
  ASSUME IInv, NEW t \in Threads, NEW u \in Threads, t # u,
         NEW a, Sound(a), NEW b, Sound(b),
         state' = [state EXCEPT ![t] = a, ![u] = b]
  PROVE  Changes({t, u}) /\ state'[t] = a /\ state'[u] = b
  BY DEF IInv, TypeOK, Changes, Sound

(* The thread on top runs, fails, or ends.                                 *)
Ran ==
    /\ step = "running" /\ Mode(state[Top]) = "Normal"
    /\ Changes({Top}) /\ Mode(state'[Top]) \in {"Normal", "Result"}
    /\ UNCHANGED thread_stack /\ EndIteration

LEMMA TopRan ==
  ASSUME IInv, NEW kinds, Stepping(kinds), NEW ts, Sound(ts),
         Topped(ts, {"Lua", "Callback", "Sequence", "Result", "Error"}),
         SetTop(ts), EndIteration, UNCHANGED thread_stack
  PROVE  Ran
<1>1. step = "running" /\ Mode(state[Top]) = "Normal" /\ Top \in Threads
  BY SteppingTop
<1>2. Changes({Top}) /\ state'[Top] = ts
  BY <1>1, OneChange DEF SetTop
<1>3. Mode(ts) \in {"Normal", "Result"}
  BY RunsOrEnds
<1>. QED
  BY <1>1, <1>2, <1>3 DEF Ran

LEMMA ReturnedRan ==
  ASSUME IInv, NEW kinds, Stepping(kinds), NEW ts \in ThreadState,
         NEW b \in Nat, b <= ts.stack, AtRest(ts.frames, ts.open, b),
         SetTop(ReturnTo(ts, b)), EndIteration, UNCHANGED thread_stack
  PROVE  Ran
<1>1. /\ Sound(ReturnTo(ts, b))
      /\ Topped(ReturnTo(ts, b), {"Lua", "Callback", "Sequence", "Result", "Error"})
  BY ReturnToSound DEF Topped
<1>. QED
  BY <1>1, TopRan

LEMMA CalledRan ==
  ASSUME IInv, NEW kinds, Stepping(kinds), NEW ts,
         Sound(ts), Topped(ts, {"Lua", "Callback"}),
         SetTop(ts), EndIteration, UNCHANGED thread_stack
  PROVE  Ran
<1>1. Topped(ts, {"Lua", "Callback", "Sequence", "Result", "Error"})
  BY DEF Topped
<1>. QED
  BY <1>1, TopRan

LEMMA FailedRan ==
  ASSUME IInv, NEW kinds, Stepping(kinds), NEW ts,
         Sound(ts), Topped(ts, {"Error"}),
         SetTop(ts), EndIteration, UNCHANGED thread_stack
  PROVE  Ran
<1>1. Topped(ts, {"Lua", "Callback", "Sequence", "Result", "Error"})
  BY DEF Topped
<1>. QED
  BY <1>1, TopRan

LEMMA LuaRan ==
  ASSUME IInv, LuaFrameStep
  PROVE  Ran
<1>. DEFINE ts == state[Top]
<1>1. Stepping({"Lua"}) /\ EndIteration /\ UNCHANGED thread_stack
  BY DEF LuaFrameStep, LuaSlice, LuaCalls, LuaTailCalls, LuaReturns, LuaError
<1>2. Sound(ts) /\ Topped(ts, {"Lua"}) /\ Top \in Threads
  BY <1>1, SteppingTop
<1>3. CASE LuaSlice
  <2>1. PICK new : Sound(new) /\ Topped(new, {"Lua"}) /\ SetTop(new)
    <3>1. UNCHANGED state => SetTop(ts)
      BY DEF SetTop, IInv, TypeOK
    <3>2. LET b == Last(ts.frames).bottom
              opened == [ts EXCEPT !.open = @ \cup {b}]
              closed == CloseUpvalues(ts, b)
          IN  /\ Sound(opened) /\ Topped(opened, {"Lua"})
              /\ Sound(closed) /\ Topped(closed, {"Lua"})
      BY <1>2, LuaOpensSound
    <3>. QED
      BY <1>2, <1>3, <3>1, <3>2 DEF LuaSlice, TopFrame
  <2>2. Topped(new, {"Lua", "Callback"})
    BY <2>1 DEF Topped
  <2>. QED
    BY <1>1, <2>1, <2>2, CalledRan
<1>4. CASE \E bottom \in 0..MaxBottom, function \in Functions :
             LuaCalls(bottom, function)
  <2>1. PICK bottom \in 0..MaxBottom, function \in Functions :
               LuaCalls(bottom, function)
    BY <1>4
  <2>. DEFINE new == PushCall(Push(Pop(ts), Marked(Last(ts.frames))), bottom, function)
  <2>2. bottom \in Nat
    BY ConstantsAssumption
  <2>3. /\ bottom \notin ts.open /\ SetTop(new)
        /\ bottom \in {Last(ts.frames).bottom, Last(ts.frames).bottom + 1}
    BY <2>1 DEF LuaCalls, Under, TopFrame
  <2>4. Sound(new) /\ Topped(new, {"Lua", "Callback"})
    BY <1>2, <2>2, <2>3, LuaCallSound
  <2>. QED
    BY <1>1, <2>3, <2>4, CalledRan
<1>5. CASE \E function \in Functions : LuaTailCalls(function)
  <2>1. PICK function \in Functions : LuaTailCalls(function)
    BY <1>5
  <2>. DEFINE b == Last(ts.frames).bottom
              left == CloseUpvalues(Truncate(Pop(ts), b + 0), b)
  <2>2. b \in Nat /\ left \in ThreadState /\ AtRest(left.frames, left.open, b)
    BY <1>2, LuaLeavesRests
  <2>3. SetTop(PushCall(left, b, function))
    BY <2>1 DEF LuaTailCalls, LuaLeaves, Left, Under, TopFrame
  <2>. HIDE DEF b, left
  <2>4. /\ Sound(PushCall(left, b, function))
        /\ Topped(PushCall(left, b, function), {"Lua", "Callback"})
    BY <2>2, PushCallSound
  <2>. QED
    BY <1>1, <2>3, <2>4, CalledRan
<1>6. CASE \E n \in 0..MaxValues : LuaReturns(n)
  <2>1. PICK n \in 0..MaxValues : LuaReturns(n)
    BY <1>6
  <2>. DEFINE b == Last(ts.frames).bottom
              left == CloseUpvalues(Truncate(Pop(ts), b + n), b)
  <2>2. n \in Nat
    BY ConstantsAssumption
  <2>3. /\ b \in Nat /\ left \in ThreadState /\ left.stack = b + n
        /\ AtRest(left.frames, left.open, b)
    BY <1>2, <2>2, LuaLeavesRests
  <2>4. SetTop(ReturnTo(left, b))
    BY <2>1 DEF LuaReturns, LuaLeaves, Left, Under, TopFrame
  <2>. HIDE DEF b, left
  <2>5. b <= left.stack
    BY <2>2, <2>3
  <2>. QED
    BY <1>1, <2>3, <2>4, <2>5, ReturnedRan
<1>7. CASE LuaError
  <2>. DEFINE new == Push(ts, Frame("Error", 0))
  <2>1. Sound(new) /\ Topped(new, {"Error"})
    BY <1>2, LuaErrorSound
  <2>2. SetTop(new)
    BY <1>7 DEF LuaError
  <2>. QED
    BY <1>1, <2>1, <2>2, FailedRan
<1>. QED
  BY <1>3, <1>4, <1>5, <1>6, <1>7 DEF LuaFrameStep

LEMMA UnwindRan ==
  ASSUME IInv, Unwind
  PROVE  Ran
<1>. DEFINE ts == state[Top]
            under == Pop(ts)
            new == Unwound(Last(under.frames), Pop(under))
<1>1. Stepping({"Error"}) /\ EndIteration /\ UNCHANGED thread_stack /\ SetTop(new)
  BY DEF Unwind, Under
<1>2. Sound(ts) /\ Topped(ts, {"Error"}) /\ Mode(ts) = "Normal"
  BY <1>1, SteppingTop
<1>3. Len(ts.frames) # 1
  BY <1>2, ModeByTop DEF Sound
<1>4. Sound(new) /\ Topped(new, {"Error", "Sequence"})
  BY <1>2, <1>3, UnwindSound
<1>5. Topped(new, {"Lua", "Callback", "Sequence", "Result", "Error"})
  BY <1>4 DEF Topped
<1>. QED
  BY <1>1, <1>4, <1>5, TopRan

(* The thread on top creates a coroutine.                                  *)
Created(u) ==
    /\ step = "running" /\ Mode(state[Top]) = "Normal"
    /\ Free(u) /\ u # Top
    /\ Changes({Top, u})
    /\ Mode(state'[Top]) \in {"Normal", "Result"}
    /\ Mode(state'[u]) = "Suspended"
    /\ UNCHANGED thread_stack /\ EndIteration

(* The thread on top hands control to u, and waits for it or leaves.       *)
HandedOn(u) ==
    /\ step = "running" /\ Mode(state[Top]) = "Normal"
    /\ Mode(state[u]) = "Suspended" /\ u # Top
    /\ Changes({Top, u})
    /\ Mode(state'[u]) \in {"Normal", "Result"}
    /\ \/ /\ Mode(state'[Top]) = "Waiting"
          /\ thread_stack' = Append(thread_stack, u)
       \/ /\ Mode(state'[Top]) \in {"Suspended", "Stopped"}
          /\ thread_stack' = Append(Front(thread_stack), u)
    /\ EndIteration

LEMMA CreateCreated ==
  ASSUME IInv, NEW u \in Threads, CreateCoroutine(u)
  PROVE  Created(u)
<1>. DEFINE ts == state[Top]
            b == Last(ts.frames).bottom
            left == Truncate(Pop(ts), b + 1)
            new == ReturnTo(left, b)
            co == Push(NewThread, Frame("Start", 0))
<1>1. Stepping({"Callback"}) /\ EndIteration /\ UNCHANGED thread_stack /\ Free(u)
  BY DEF CreateCoroutine
<1>2. /\ step = "running" /\ Mode(ts) = "Normal" /\ Top \in Threads
      /\ Sound(ts) /\ Topped(ts, {"Callback"})
  BY <1>1, SteppingTop
<1>3. u # Top
  BY <1>1, <1>2, NewThreadFields DEF Free, Topped
<1>4. Sound(new) /\ Mode(new) \in {"Normal", "Result"}
  <2>1. Topped(ts, {"Callback", "Sequence"})
    BY <1>2 DEF Topped
  <2>2. /\ b \in Nat /\ left \in ThreadState /\ left.stack = b + 1
        /\ AtRest(left.frames, left.open, b)
    BY <1>2, <2>1, HostLeaves
  <2>. HIDE DEF b, left
  <2>3. b <= left.stack
    BY <2>2
  <2>4. Sound(new) /\ Topped(new, {"Lua", "Callback", "Sequence", "Result", "Error"})
    BY <2>2, <2>3, ReturnToSound DEF Topped
  <2>. QED
    BY <2>4, RunsOrEnds
<1>5. Sound(co) /\ Mode(co) = "Suspended"
  BY CoroutineSound
<1>6. state' = [state EXCEPT ![Top] = new, ![u] = co]
  BY DEF CreateCoroutine, Left, Under, TopFrame
<1>. HIDE DEF new, co
<1>7. Changes({Top, u}) /\ state'[Top] = new /\ state'[u] = co
  BY <1>2, <1>3, <1>4, <1>5, <1>6, TwoChanges
<1>. QED
  BY <1>1, <1>2, <1>3, <1>4, <1>5, <1>7 DEF Created

LEMMA HandOnHandedOn ==
  ASSUME IInv, Stepping({"Callback", "Sequence"}),
         NEW h, HandedOver(h), NEW u \in Threads, Resumable(u),
         NEW function \in Functions, NEW ts,
         Sound(Truncate(ts, h.bottom)), HandOn(h, u, function, ts),
         \/ /\ Mode(Truncate(ts, h.bottom)) = "Waiting"
            /\ thread_stack' = Append(thread_stack, u)
         \/ /\ Mode(Truncate(ts, h.bottom)) \in {"Suspended", "Stopped"}
            /\ thread_stack' = Append(Front(thread_stack), u)
  PROVE  HandedOn(u)
<1>. DEFINE left == Truncate(ts, h.bottom)
            n == h.ts.stack - h.bottom
            new == Resumed(state[u], n, function)
<1>1. /\ step = "running" /\ Mode(state[Top]) = "Normal" /\ Top \in Threads
      /\ u # Top /\ Mode(state[u]) = "Suspended" /\ Sound(state[u])
  BY SteppingTop DEF Resumable, IInv, TypeOK, Sound
<1>2. Topped(state[u], {"Start", "Yielded"})
  BY <1>1, TopByMode DEF Sound
<1>3. n \in Nat
  BY ThreadTypes DEF HandedOver
<1>. HIDE DEF n
<1>4. /\ Sound(new)
      /\ Topped(new, {"Lua", "Callback", "Sequence"}) \/ Topped(new, {"Result"})
  BY <1>1, <1>2, <1>3, ResumedSound
<1>5. Mode(new) \in {"Normal", "Result"}
  BY <1>4, ModeByTop DEF Sound
<1>6. state' = [state EXCEPT ![Top] = left, ![u] = new]
  <2>1. state' = [state EXCEPT ![Top] = left,
                               ![u] = Resumed(@, n, function)]
    BY DEF HandOn, n
  <2>2. [state EXCEPT ![Top] = left][u] = state[u]
    BY <1>1 DEF IInv, TypeOK
  <2>. QED
    BY <2>1, <2>2, Zenon
<1>. HIDE DEF new, left
<1>7. Changes({Top, u}) /\ state'[Top] = left /\ state'[u] = new
  BY <1>1, <1>4, <1>6, TwoChanges DEF left
<1>. QED
  BY <1>1, <1>5, <1>7 DEF HandedOn, HandOn, left

LEMMA HostHandsOn ==
  ASSUME IInv, Stepping({"Callback", "Sequence"}),
         NEW h, HandedOver(h), NEW u \in Threads, NEW function \in Functions,
         HostYieldsTo(h, u, function) \/ HostResumes(h, u, function)
  PROVE  HandedOn(u)
<1>1. CASE HostYieldsTo(h, u, function)
  <2>. DEFINE ts == Push(h.ts, Frame("Yielded", 0))
  <2>1. Sound(Truncate(ts, h.bottom)) /\ Topped(Truncate(ts, h.bottom), {"Yielded"})
    BY YieldToSound
  <2>2. Topped(Truncate(ts, h.bottom), {"Start", "Yielded"})
    BY <2>1 DEF Topped
  <2>3. Mode(Truncate(ts, h.bottom)) = "Suspended"
    BY <2>1, <2>2, ModeByTop DEF Sound
  <2>4. /\ Resumable(u) /\ HandOn(h, u, function, ts)
        /\ thread_stack' = Append(Front(thread_stack), u)
    BY <1>1 DEF HostYieldsTo
  <2>. HIDE DEF ts
  <2>. QED
    BY <2>1, <2>3, <2>4, HandOnHandedOn
<1>2. CASE HostResumes(h, u, function) /\ h.ts.frames = <<>>
  <2>1. Sound(Truncate(h.ts, h.bottom)) /\ Truncate(h.ts, h.bottom).frames = <<>>
    BY <1>2, TailSound
  <2>2. Mode(Truncate(h.ts, h.bottom)) = "Stopped"
    BY <2>1, ModeByTop DEF Sound
  <2>3. /\ Resumable(u) /\ HandOn(h, u, function, h.ts)
        /\ thread_stack' = Append(Front(thread_stack), u)
    BY <1>2 DEF HostResumes
  <2>. QED
    BY <2>1, <2>2, <2>3, HandOnHandedOn
<1>3. CASE HostResumes(h, u, function) /\ h.ts.frames # <<>>
  <2>. DEFINE ts == Push(h.ts, Frame("WaitThread", 0))
  <2>1. Sound(Truncate(ts, h.bottom)) /\ Topped(Truncate(ts, h.bottom), {"WaitThread"})
    BY <1>3, WaitSound
  <2>2. Mode(Truncate(ts, h.bottom)) = "Waiting"
    BY <2>1, ModeByTop DEF Sound
  <2>3. /\ Resumable(u) /\ HandOn(h, u, function, ts)
        /\ thread_stack' = Append(thread_stack, u)
    BY <1>3 DEF HostResumes
  <2>. HIDE DEF ts
  <2>. QED
    BY <2>1, <2>2, <2>3, HandOnHandedOn
<1>. QED
  BY <1>1, <1>2, <1>3

LEMMA HostStepsOn ==
  ASSUME IInv, HostFrameStep
  PROVE  \/ Ran
         \/ \E u \in Threads : Created(u)
         \/ \E u \in Threads : HandedOn(u)
<1>. DEFINE ts == state[Top]
            b == Last(ts.frames).bottom
            left(n) == Truncate(Pop(ts), b + n)
            kinds == {"Callback", "Sequence"}
<1>1. CASE \E u \in Threads : CreateCoroutine(u)
  BY <1>1, CreateCreated
<1>2. CASE \E n \in 0..MaxValues : HostReturn(n)
  <2>1. PICK n \in 0..MaxValues : HostReturn(n)
    BY <1>2
  <2>2. n \in Nat
    BY ConstantsAssumption
  <2>3. Stepping(kinds) /\ EndIteration /\ UNCHANGED thread_stack
    BY <2>1 DEF HostReturn
  <2>4. SetTop(ReturnTo(left(n), b))
    BY <2>1 DEF HostReturn, Left, Under, TopFrame
  <2>5. Sound(ts) /\ Topped(ts, kinds)
    BY <2>3, SteppingTop
  <2>6. /\ b \in Nat /\ left(n) \in ThreadState /\ left(n).stack = b + n
        /\ AtRest(left(n).frames, left(n).open, b)
    BY <2>2, <2>5, HostLeaves
  <2>. HIDE DEF b, left
  <2>7. b <= left(n).stack
    BY <2>2, <2>6
  <2>. QED
    BY <2>3, <2>4, <2>6, <2>7, ReturnedRan
<1>3. CASE HostContinues \/ HostError
  <2>1. Stepping(kinds) /\ EndIteration /\ UNCHANGED thread_stack
    BY <1>3 DEF HostContinues, HostError
  <2>2. Sound(ts) /\ Topped(ts, kinds)
    BY <2>1, SteppingTop
  <2>3. /\ b \in Nat /\ left(0) \in ThreadState /\ left(0).stack = b + 0
        /\ AtRest(left(0).frames, left(0).open, b)
    BY <2>2, HostLeaves
  <2>4. \/ SetTop(Push(left(0), Frame("Sequence", b)))
        \/ SetTop(Push(left(0), Frame("Error", 0)))
    BY <1>3 DEF HostContinues, HostError, Left, Under, TopFrame
  <2>. HIDE DEF b, left
  <2>5. left(0).stack = b
    BY <2>3
  <2>6. /\ Sound(Push(left(0), Frame("Sequence", b)))
        /\ Topped(Push(left(0), Frame("Sequence", b)), {"Sequence"})
    BY <2>3, <2>5, SequenceRuns
  <2>7. /\ Sound(Push(left(0), Frame("Error", 0)))
        /\ Topped(Push(left(0), Frame("Error", 0)), {"Error"})
    BY <2>3, <2>5, PushErrorSound
  <2>8. PICK new : /\ Sound(new) /\ SetTop(new)
                   /\ Topped(new, {"Sequence"}) \/ Topped(new, {"Error"})
    BY <2>4, <2>6, <2>7
  <2>9. Topped(new, {"Lua", "Callback", "Sequence", "Result", "Error"})
    BY <2>8 DEF Topped
  <2>. QED
    BY <2>1, <2>8, <2>9, TopRan
<1>4. CASE \E h \in Handovers :
             \/ HostYields(h)
             \/ \E function \in Functions : HostCalls(h, function)
             \/ \E u \in Threads : HostResumeFails(h, u)
             \/ \E u \in Threads, function \in Functions :
                  HostYieldsTo(h, u, function) \/ HostResumes(h, u, function)
  <2>1. PICK h \in Handovers :
             \/ HostYields(h)
             \/ \E function \in Functions : HostCalls(h, function)
             \/ \E u \in Threads : HostResumeFails(h, u)
             \/ \E u \in Threads, function \in Functions :
                  HostYieldsTo(h, u, function) \/ HostResumes(h, u, function)
    BY <1>4
  <2>2. Stepping(kinds)
    BY <2>1 DEF HostYields, HostCalls, HostResumeFails, HostYieldsTo, HostResumes
  <2>3. HandedOver(h)
    BY <2>2, SteppingTop, HandoverRests
  <2>4. CASE HostYields(h)
    <3>. DEFINE new == Push(Push(h.ts, Frame("Yielded", 0)),
                            Frame("Result", h.bottom))
    <3>1. Sound(new) /\ Topped(new, {"Result"})
      BY <2>3, YieldSound
    <3>2. SetTop(new) /\ EndIteration /\ UNCHANGED thread_stack
      BY <2>4 DEF HostYields
    <3>. HIDE DEF new
    <3>3. Topped(new, {"Lua", "Callback", "Sequence", "Result", "Error"})
      BY <3>1 DEF Topped
    <3>. QED
      BY <2>2, <3>1, <3>2, <3>3, TopRan
  <2>5. CASE \E function \in Functions : HostCalls(h, function)
    <3>1. PICK function \in Functions : HostCalls(h, function)
      BY <2>5
    <3>. DEFINE new == PushCall(h.ts, h.bottom, function)
    <3>2. Sound(new) /\ Topped(new, {"Lua", "Callback"})
      BY <2>3, PushCallSound DEF HandedOver
    <3>3. SetTop(new) /\ EndIteration /\ UNCHANGED thread_stack
      BY <3>1 DEF HostCalls
    <3>. QED
      BY <2>2, <3>2, <3>3, CalledRan
  <2>6. CASE \E u \in Threads : HostResumeFails(h, u)
    <3>. DEFINE new == Push(Truncate(h.ts, h.bottom), Frame("Error", 0))
    <3>1. Sound(new) /\ Topped(new, {"Error"})
      BY <2>3, ResumeFailsSound
    <3>2. SetTop(new) /\ EndIteration /\ UNCHANGED thread_stack
      BY <2>6 DEF HostResumeFails
    <3>. QED
      BY <2>2, <3>1, <3>2, FailedRan
  <2>7. CASE \E u \in Threads, function \in Functions :
               HostYieldsTo(h, u, function) \/ HostResumes(h, u, function)
    BY <2>2, <2>3, <2>7, HostHandsOn
  <2>. QED
    BY <2>1, <2>4, <2>5, <2>6, <2>7
<1>. QED
  BY <1>1, <1>2, <1>3, <1>4 DEF HostFrameStep

(* The thread on top has ended, and the one below goes on.                 *)
Ended(waiting) ==
    /\ step = "running" /\ Mode(state[Top]) = "Result"
    /\ Len(thread_stack) > 1 /\ waiting = thread_stack[Len(thread_stack) - 1]
    /\ waiting # Top /\ waiting = Last(Front(thread_stack))
    /\ Mode(state[waiting]) = "Waiting"
    /\ Changes({Top, waiting})
    /\ Mode(state'[Top]) \in {"Stopped", "Suspended"}
    /\ Mode(state'[waiting]) = "Normal"
    /\ (Last(state'[waiting].frames).kind = "Error") <=> (TopFrame.kind = "Error")
    /\ thread_stack' = Front(thread_stack)
    /\ UNCHANGED <<step, abandoned>>

LEMMA ResultByMode ==
  ASSUME NEW ts \in ThreadState, Mode(ts) = "Result"
  PROVE  HoldsResult(ts)
  BY TopByMode DEF HoldsResult

LEMMA TakenMode ==
  ASSUME NEW ts, Sound(ts), HoldsResult(ts)
  PROVE  /\ Sound(TakeResultOf(ts))
         /\ Mode(TakeResultOf(ts)) = IF Len(ts.frames) = 1 THEN "Stopped"
                                                         ELSE "Suspended"
<1>. DEFINE new == TakeResultOf(ts)
<1>1. /\ Sound(new)
      /\ Len(ts.frames) = 1 => new.frames = <<>>
      /\ Len(ts.frames) # 1 => Topped(new, {"Yielded"})
  BY TakeResultSound
<1>. HIDE DEF new
<1>2. Len(ts.frames) # 1 => Topped(new, {"Start", "Yielded"})
  BY <1>1 DEF Topped
<1>3. /\ Sound(new)
      /\ Mode(new) = IF Len(ts.frames) = 1 THEN "Stopped" ELSE "Suspended"
  BY <1>1, <1>2, ModeByTop DEF Sound
<1>. QED
  BY <1>3 DEF new

LEMMA DeliverEnded ==
  ASSUME IInv, Deliver
  PROVE  \E waiting \in Threads : Ended(waiting)
<1>. DEFINE lower == Front(thread_stack)
            w == Last(lower)
            taken == TakeResultOf(state[Top])
            given == Delivered(state[Top], state[w])
<1>1. /\ step = "running" /\ Mode(state[Top]) = "Result"
      /\ Len(thread_stack) > 1 /\ thread_stack' = lower
      /\ UNCHANGED <<step, abandoned>>
  BY DEF Deliver
<1>2. /\ thread_stack \in Seq(Threads) /\ thread_stack # <<>>
      /\ Top \in Threads /\ Sound(state[Top])
      /\ Len(thread_stack) \in Nat /\ Top = thread_stack[Len(thread_stack)]
  BY <1>1, TopThread DEF IInv
<1>3. /\ lower \in Seq(Threads) /\ Len(lower) = Len(thread_stack) - 1
      /\ \A i \in 1..Len(thread_stack) - 1 : lower[i] = thread_stack[i]
  BY <1>2, FrontAndLast
<1>4. w = thread_stack[Len(thread_stack) - 1] /\ w \in Threads
  <2>1. Len(lower) \in 1..Len(lower) /\ Len(lower) \in 1..Len(thread_stack) - 1
    BY <1>1, <1>2, <1>3
  <2>2. w = lower[Len(lower)]
    BY DEF Last
  <2>. HIDE DEF lower, w
  <2>3. w = thread_stack[Len(lower)] /\ w \in Threads
    BY <1>3, <2>1, <2>2, ElementOfSeq
  <2>. QED
    BY <1>3, <2>3
<1>. HIDE DEF lower
<1>5. w # Top /\ Mode(state[w]) = "Waiting" /\ Sound(state[w])
  <2>1. DOMAIN thread_stack = 1..Len(thread_stack)
    BY <1>2, LenProperties
  <2>2. Len(thread_stack) - 1 \in 1..Len(thread_stack)
        /\ Len(thread_stack) \in 1..Len(thread_stack)
    BY <1>1, <1>2
  <2>3. w # Top /\ Mode(state[w]) = "Waiting"
    BY <1>2, <1>4, <2>1, <2>2 DEF IInv, ThreadChain
  <2>. QED
    BY <1>4, <2>3 DEF IInv, TypeOK, Sound
<1>6. HoldsResult(state[Top])
  BY <1>1, <1>2, ResultByMode DEF Sound
<1>7. Topped(state[w], {"WaitThread"})
  BY <1>5, TopByMode DEF Sound
<1>8. Sound(taken) /\ Mode(taken) \in {"Stopped", "Suspended"}
  BY <1>2, <1>6, TakenMode
<1>9. /\ Sound(given) /\ Mode(given) = "Normal"
      /\ (Last(given.frames).kind = "Error") <=> (TopFrame.kind = "Error")
  BY <1>2, <1>5, <1>6, <1>7, DeliveredSound DEF TopFrame
<1>10. state' = [state EXCEPT ![Top] = taken, ![w] = given]
  <2>1. state' = [state EXCEPT ![Top] = TakeResultOf(@),
                               ![w] = Delivered(state[Top], @)]
    BY DEF Deliver, lower
  <2>2. [state EXCEPT ![Top] = taken][w] = state[w]
    BY <1>2, <1>4, <1>5 DEF IInv, TypeOK
  <2>. QED
    BY <2>1, <2>2, Zenon
<1>. HIDE DEF taken, given, w
<1>11. Changes({Top, w}) /\ state'[Top] = taken /\ state'[w] = given
  <2>1. /\ Top \in Threads /\ w \in Threads /\ Top # w
        /\ Sound(taken) /\ Sound(given)
    BY <1>2, <1>4, <1>5, <1>8, <1>9
  <2>. QED
    BY <1>10, <2>1, TwoChanges
<1>12. Ended(w)
  BY <1>1, <1>4, <1>5, <1>8, <1>9, <1>11 DEF Ended, w, lower
<1>. QED
  BY <1>4, <1>12

(* The host gives the executor a thread, or changes the one it has.        *)
HostSets(t) ==
    /\ Idle /\ Changes({t}) /\ Mode(state'[t]) # "Waiting"
    /\ thread_stack' = <<t>> /\ Abandon(<<t>>)

HostUpdates ==
    /\ Idle /\ thread_stack # <<>> /\ Len(thread_stack) = 1
    /\ Changes({Main}) /\ Mode(state'[Main]) # "Waiting"
    /\ UNCHANGED <<thread_stack, abandoned>>

Updating ==
    \/ HostTakesResult
    \/ \E n \in 0..MaxValues, function \in Functions : Resume(n, function)
    \/ ResumeErr

LEMMA SetsOrUpdates ==
  ASSUME IInv, HostStep
  PROVE  \/ Step
         \/ \E t \in Threads : HostSets(t)
         \/ HostUpdates /\ Updating
<1>1. ASSUME NEW t \in Threads, RunThread(t)
      PROVE  HostSets(t)
  <2>1. Changes({t}) /\ Mode(state'[t]) # "Waiting"
    BY <1>1 DEF RunThread, IInv, TypeOK, Changes
  <2>. QED
    BY <1>1, <2>1 DEF RunThread, HostSets
<1>2. ASSUME NEW t \in Threads, NEW function \in Functions, Start(t, function)
      PROVE  HostSets(t)
  <2>1. state' = [state EXCEPT ![t] = PushCall(NewThread, 0, function)]
    BY <1>2 DEF Start
  <2>2. Changes({t}) /\ Mode(state'[t]) = "Normal"
    BY <2>1, BegunSound, OneChange
  <2>. QED
    BY <1>2, <2>2 DEF Start, HostSets
<1>3. ASSUME NEW function \in Functions, Restart(function)
      PROVE  HostSets(Main) /\ Main \in Threads
  <2>1. Main \in Threads
    BY <1>3, TopThread DEF Restart
  <2>2. state' = [state EXCEPT ![Main] = PushCall(NewThread, 0, function)]
    BY <1>3 DEF Restart
  <2>3. Changes({Main}) /\ Mode(state'[Main]) = "Normal"
    BY <2>1, <2>2, BegunSound, OneChange
  <2>. QED
    BY <1>3, <2>1, <2>3 DEF Restart, HostSets
<1>4. ASSUME Stop
      PROVE  HostSets(Main) /\ Main \in Threads
  <2>1. Main \in Threads
    BY <1>4, TopThread DEF Stop
  <2>2. state' = [state EXCEPT ![Main] = NewThread]
    BY <1>4 DEF Stop
  <2>3. Changes({Main}) /\ Mode(state'[Main]) = "Stopped"
    BY <2>1, <2>2, FreshSound, OneChange
  <2>. QED
    BY <1>4, <2>1, <2>3 DEF Stop, HostSets
<1>5. ASSUME Idle, Len(thread_stack) = 1, UNCHANGED <<thread_stack, abandoned>>,
             NEW ts, Sound(state[Main]) => Sound(ts) /\ Mode(ts) # "Waiting",
             state' = [state EXCEPT ![Main] = ts]
      PROVE  HostUpdates
  <2>1. thread_stack # <<>>
    BY <1>5, LengthOfEmpty DEF IInv, TypeOK
  <2>2. Main \in Threads /\ Sound(state[Main])
    BY <2>1, TopThread
  <2>3. Changes({Main}) /\ state'[Main] = ts
    BY <1>5, <2>2, OneChange
  <2>. QED
    BY <1>5, <2>1, <2>2, <2>3 DEF HostUpdates
<1>6. ASSUME HostTakesResult
      PROVE  HostUpdates
  <2>1. /\ state' = [state EXCEPT ![Main] = TakeResultOf(state[Main])]
        /\ Mode(state[Main]) = "Result"
    BY <1>6 DEF HostTakesResult
  <2>2. Sound(state[Main]) => /\ Sound(TakeResultOf(state[Main]))
                              /\ Mode(TakeResultOf(state[Main])) # "Waiting"
    BY <2>1, ResultByMode, TakenMode DEF Sound
  <2>. QED
    BY <1>5, <1>6, <2>1, <2>2 DEF HostTakesResult
<1>7. ASSUME NEW n \in 0..MaxValues, NEW function \in Functions, Resume(n, function)
      PROVE  HostUpdates
  <2>. DEFINE new == Resumed(state[Main], n, function)
  <2>1. /\ state' = [state EXCEPT ![Main] = new]
        /\ Mode(state[Main]) = "Suspended"
    BY <1>7 DEF Resume, HostSuspended
  <2>2. n \in Nat
    BY ConstantsAssumption
  <2>3. Sound(state[Main]) => /\ Sound(new) /\ Mode(new) # "Waiting"
    <3>1. SUFFICES ASSUME Sound(state[Main])
                   PROVE  Sound(new) /\ Mode(new) # "Waiting"
      OBVIOUS
    <3>2. Topped(state[Main], {"Start", "Yielded"})
      BY <2>1, <3>1, TopByMode DEF Sound
    <3>3. /\ Sound(new)
          /\ \/ Topped(new, {"Lua", "Callback", "Sequence"})
             \/ Topped(new, {"Result"})
      BY <2>2, <3>1, <3>2, ResumedSound
    <3>. QED
      BY <3>3, ModeByTop DEF Sound
  <2>. HIDE DEF new
  <2>. QED
    BY <1>5, <1>7, <2>1, <2>3 DEF Resume, HostSuspended
<1>8. ASSUME ResumeErr
      PROVE  HostUpdates
  <2>. DEFINE new == Push(Pop(state[Main]), Frame("Error", 0))
  <2>1. /\ state' = [state EXCEPT ![Main] = new]
        /\ Mode(state[Main]) = "Suspended"
    BY <1>8 DEF ResumeErr, HostSuspended
  <2>2. Sound(state[Main]) => /\ Sound(new) /\ Mode(new) # "Waiting"
    <3>1. SUFFICES ASSUME Sound(state[Main])
                   PROVE  Sound(new) /\ Mode(new) # "Waiting"
      OBVIOUS
    <3>. DEFINE ts == state[Main]
                under == Pop(ts)
    <3>2. Topped(ts, {"Start", "Yielded"}) /\ ts \in ThreadState /\ ts.frames # <<>>
      BY <2>1, <3>1, TopByMode DEF Sound, Topped
    <3>3. AtRest(Front(ts.frames), ts.open, ts.stack)
      <4>1. CASE Last(ts.frames).kind = "Start"
        <5>1. AtStart(ts)
          BY <3>1, <3>2, <4>1, ShapeByTop DEF Topped
        <5>. QED
          BY <5>1, NothingAtRest DEF AtStart
      <4>2. CASE Last(ts.frames).kind = "Yielded"
        <5>1. AtYield(ts)
          BY <3>1, <3>2, <4>2, ShapeByTop DEF Topped
        <5>. QED
          BY <5>1 DEF AtYield
      <4>. QED
        BY <3>2, <4>1, <4>2 DEF Topped
    <3>4. /\ under \in ThreadState /\ under.frames = Front(ts.frames)
          /\ under.open = ts.open /\ under.stack = ts.stack
      BY <3>2, PopFields
    <3>. HIDE DEF under
    <3>5. Sound(Push(under, Frame("Error", 0))) /\ Topped(Push(under, Frame("Error", 0)), {"Error"})
      BY <3>3, <3>4, PushErrorSound
    <3>6. Sound(new) /\ Topped(new, {"Error"})
      BY <3>5 DEF under
    <3>. HIDE DEF new
    <3>. QED
      BY <3>6, ModeByTop DEF Sound
  <2>. HIDE DEF new
  <2>. QED
    BY <1>5, <1>8, <2>1, <2>2 DEF ResumeErr, HostSuspended
<1>. QED
  BY <1>1, <1>2, <1>3, <1>4, <1>6, <1>7, <1>8 DEF HostStep, Updating

-----------------------------------------------------------------------------
(* The chain of threads.                                                   *)

LEMMA MembersOf ==
  ASSUME NEW S, NEW s \in Seq(S)
  PROVE  /\ DOMAIN s = 1..Len(s) /\ Len(s) \in Nat
         /\ \A x : x \in ToSet(s) <=> \E i \in 1..Len(s) : s[i] = x
         /\ ToSet(s) \subseteq S
<1>1. DOMAIN s = 1..Len(s) /\ Len(s) \in Nat /\ \A i \in 1..Len(s) : s[i] \in S
  BY LenProperties, ElementOfSeq
<1>2. \A x : x \in ToSet(s) <=> \E i \in 1..Len(s) : s[i] = x
  BY <1>1 DEF ToSet
<1>. QED
  BY <1>1, <1>2

LEMMA MembersOfAppend ==
  ASSUME NEW S, NEW s \in Seq(S), NEW x \in S
  PROVE  ToSet(Append(s, x)) = ToSet(s) \cup {x}
<1>. DEFINE t == Append(s, x)
<1>1. /\ t \in Seq(S) /\ Len(t) = Len(s) + 1 /\ t[Len(t)] = x
      /\ \A i \in 1..Len(s) : t[i] = s[i]
      /\ Len(s) \in Nat
  BY AppendedSeq, LengthOfEmpty DEF Last
<1>. HIDE DEF t
<1>2. ASSUME NEW y, y \in ToSet(s) \cup {x}
      PROVE  y \in ToSet(t)
  <2>1. \E i \in 1..Len(t) : t[i] = y
    <3>1. CASE y = x
      <4>1. Len(t) \in 1..Len(t)
        BY <1>1
      <4>. QED
        BY <1>1, <3>1, <4>1
    <3>2. CASE y \in ToSet(s)
      <4>1. PICK i \in 1..Len(s) : s[i] = y
        BY <3>2, MembersOf
      <4>2. i \in 1..Len(t) /\ t[i] = y
        BY <1>1, <4>1
      <4>. QED
        BY <4>2
    <3>. QED
      BY <1>2, <3>1, <3>2
  <2>. QED
    BY <1>1, <2>1, MembersOf
<1>3. ASSUME NEW y, y \in ToSet(t)
      PROVE  y \in ToSet(s) \cup {x}
  <2>1. PICK i \in 1..Len(t) : t[i] = y
    BY <1>1, <1>3, MembersOf
  <2>2. i = Len(t) \/ i \in 1..Len(s)
    BY <1>1
  <2>3. CASE i \in 1..Len(s)
    <3>1. s[i] = y
      BY <1>1, <2>1, <2>3
    <3>. QED
      BY <2>3, <3>1, MembersOf
  <2>. QED
    BY <1>1, <2>1, <2>2, <2>3
<1>. QED
  BY <1>2, <1>3 DEF t

LEMMA MembersOfFront ==
  ASSUME NEW S, NEW s \in Seq(S), s # <<>>
  PROVE  ToSet(s) = ToSet(Front(s)) \cup {Last(s)}
<1>1. /\ Front(s) \in Seq(S) /\ Last(s) \in S /\ s = Append(Front(s), Last(s))
  BY FrontAndLast
<1>2. ToSet(Append(Front(s), Last(s))) = ToSet(Front(s)) \cup {Last(s)}
  BY <1>1, MembersOfAppend
<1>. QED
  BY <1>1, <1>2

LEMMA MembersOfOne ==
  ASSUME NEW S, NEW x \in S
  PROVE  /\ <<x>> \in Seq(S) /\ <<x>> # <<>> /\ Len(<<x>>) = 1
         /\ <<x>>[1] = x /\ ToSet(<<x>>) = {x}
<1>1. /\ <<x>> \in Seq(S) /\ <<x>> # <<>> /\ Len(<<x>>) = 1
      /\ <<x>>[1] = x
  OBVIOUS
<1>2. ToSet(<<x>>) = {x}
  <2>1. \A y : y \in ToSet(<<x>>) <=> \E i \in 1..1 : <<x>>[i] = y
    BY <1>1, MembersOf
  <2>. QED
    BY <1>1, <2>1
<1>. QED
  BY <1>1, <1>2

(* ThreadChain by positions.                                               *)
Chained(stack, threads, Finished) ==
    /\ \A i, j \in 1..Len(stack) : stack[i] = stack[j] => i = j
    /\ \A i \in 1..Len(stack) :
         IF i < Len(stack) THEN Mode(threads[stack[i]]) = "Waiting"
         ELSE Mode(threads[stack[i]]) \in {"Normal", "Result"}
                \cup IF i = 1 THEN Finished ELSE {}

LEMMA ChainByPosition ==
  ASSUME thread_stack \in Seq(Threads)
  PROVE  ThreadChain <=> Chained(thread_stack, state, {"Stopped", "Suspended"})
  BY LenProperties DEF ThreadChain, Chained

LEMMA ChainByPositionNext ==
  ASSUME thread_stack' \in Seq(Threads)
  PROVE  ThreadChain' <=> Chained(thread_stack', state', {"Stopped", "Suspended"})
  BY LenProperties DEF ThreadChain, Chained

(* The chain without its last thread, then with another on top.            *)
LEMMA ChainOfFront ==
  ASSUME NEW s \in Seq(Threads), s # <<>>, NEW threads, NEW F, Chained(s, threads, F)
  PROVE  LET r == Front(s)
         IN  /\ r \in Seq(Threads) /\ Len(r) = Len(s) - 1
             /\ Last(s) \notin ToSet(r)
             /\ \A i, j \in 1..Len(r) : r[i] = r[j] => i = j
             /\ \A t \in ToSet(r) : Mode(threads[t]) = "Waiting"
<1>. DEFINE r == Front(s)
<1>1. /\ r \in Seq(Threads) /\ Len(r) = Len(s) - 1 /\ Len(s) \in Nat \ {0}
      /\ \A i \in 1..Len(s) - 1 : r[i] = s[i] /\ Last(s) = s[Len(s)]
  BY FrontAndLast DEF Last
<1>. HIDE DEF r
<1>2. \A i, j \in 1..Len(r) : r[i] = r[j] => i = j
  BY <1>1 DEF Chained
<1>3. ASSUME NEW t \in ToSet(r)
      PROVE  Mode(threads[t]) = "Waiting" /\ t # Last(s)
  <2>1. PICK i \in 1..Len(r) : r[i] = t
    BY <1>1, MembersOf
  <2>2. /\ i \in 1..Len(s) /\ i < Len(s) /\ s[i] = t
        /\ Len(s) \in 1..Len(s) /\ Last(s) = s[Len(s)]
    BY <1>1, <2>1
  <2>. QED
    BY <2>2 DEF Chained
<1>. QED
  BY <1>1, <1>2, <1>3 DEF r

LEMMA ChainOfAppend ==
  ASSUME NEW r \in Seq(Threads), NEW u \in Threads, u \notin ToSet(r),
         NEW threads, NEW F,
         \A i, j \in 1..Len(r) : r[i] = r[j] => i = j,
         \A t \in ToSet(r) : Mode(threads[t]) = "Waiting",
         Mode(threads[u]) \in {"Normal", "Result"}
  PROVE  Chained(Append(r, u), threads, F)
<1>. DEFINE s == Append(r, u)
<1>1. /\ s \in Seq(Threads) /\ Len(s) = Len(r) + 1 /\ s[Len(s)] = u
      /\ \A i \in 1..Len(r) : s[i] = r[i]
      /\ Len(r) \in Nat
  BY AppendedSeq, LengthOfEmpty DEF Last
<1>. HIDE DEF s
<1>2. \A i \in 1..Len(r) : r[i] # u /\ Mode(threads[r[i]]) = "Waiting"
  BY MembersOf
<1>3. \A i \in 1..Len(s) : i = Len(s) \/ i \in 1..Len(r)
  BY <1>1
<1>4. \A i, j \in 1..Len(s) : s[i] = s[j] => i = j
  BY <1>1, <1>2, <1>3
<1>5. \A i \in 1..Len(s) :
         IF i < Len(s) THEN Mode(threads[s[i]]) = "Waiting"
         ELSE Mode(threads[s[i]]) \in {"Normal", "Result"}
  BY <1>1, <1>2, <1>3
<1>. QED
  BY <1>4, <1>5 DEF Chained, s

Finished == {"Stopped", "Suspended"}

(* Facts of the chain, and of who is unfinished, before a step.            *)
LEMMA ChainFacts ==
  ASSUME IInv, thread_stack # <<>>
  PROVE  LET r == Front(thread_stack)
         IN  /\ r \in Seq(Threads) /\ Top \in Threads
             /\ thread_stack = Append(r, Top)
             /\ Top \notin ToSet(r) /\ ToSet(thread_stack) = ToSet(r) \cup {Top}
             /\ \A i, j \in 1..Len(r) : r[i] = r[j] => i = j
             /\ \A t \in ToSet(r) : Mode(state[t]) = "Waiting"
             /\ ToSet(r) \subseteq Threads
<1>1. thread_stack \in Seq(Threads) /\ ThreadChain
  BY DEF IInv, TypeOK
<1>2. Chained(thread_stack, state, Finished)
  BY <1>1, ChainByPosition DEF Finished
<1>. QED
  BY <1>1, <1>2, ChainOfFront, FrontAndLast, MembersOfFront, MembersOf DEF Top

LEMMA StaysSound ==
  ASSUME IInv, NEW changed, Changes(changed)
  PROVE  /\ state' \in [Threads -> ThreadState]
         /\ \A t \in Threads : WellFormed(state'[t])
  BY DEF IInv, Changes

(* What is left to show of the invariant after a step of the executor.     *)
LEMMA InvariantNext ==
  ASSUME IInv, NEW changed, Changes(changed),
         thread_stack' \in Seq(Threads), thread_stack' # <<>>,
         step' \in {"idle", "running", "true", "false"},
         abandoned' \subseteq Threads,
         Chained(thread_stack', state', Finished),
         \A t \in Threads :
           Mode(state'[t]) \in Unfinished => t \in ToSet(thread_stack') \cup abandoned'
  PROVE  IInv'
<1>1. TypeOK'
  BY StaysSound DEF TypeOK
<1>2. (\A t \in Threads : WellFormed(state[t]))'
  BY StaysSound
<1>3. ThreadChain'
  BY ChainByPositionNext DEF Finished
<1>4. NoLostThread'
  BY DEF NoLostThread
<1>. QED
  BY <1>1, <1>2, <1>3, <1>4 DEF IInv

LEMMA RanKeeps ==
  ASSUME IInv, Ran
  PROVE  IInv'
<1>. DEFINE r == Front(thread_stack)
<1>1. /\ Changes({Top}) /\ Mode(state'[Top]) \in {"Normal", "Result"}
      /\ thread_stack' = thread_stack /\ thread_stack # <<>>
      /\ step' \in {"running", "false"} /\ abandoned' = abandoned
  BY DEF IInv, Ran, EndIteration
<1>2. /\ r \in Seq(Threads) /\ Top \in Threads
      /\ thread_stack = Append(r, Top)
      /\ Top \notin ToSet(r) /\ ToSet(thread_stack) = ToSet(r) \cup {Top}
      /\ \A i, j \in 1..Len(r) : r[i] = r[j] => i = j
      /\ \A t \in ToSet(r) : Mode(state[t]) = "Waiting"
      /\ ToSet(r) \subseteq Threads
  BY <1>1, ChainFacts
<1>. HIDE DEF r
<1>3. \A t \in ToSet(r) : Mode(state'[t]) = "Waiting"
  BY <1>1, <1>2 DEF Changes
<1>4. Chained(Append(r, Top), state', Finished)
  BY <1>1, <1>2, <1>3, ChainOfAppend
<1>5. ASSUME NEW t \in Threads, Mode(state'[t]) \in Unfinished
      PROVE  t \in ToSet(thread_stack') \cup abandoned'
  BY <1>1, <1>2, <1>5 DEF IInv, NoLostThread, Changes
<1>. QED
  BY <1>1, <1>2, <1>4, <1>5, InvariantNext DEF IInv, TypeOK

LEMMA CreatedKeeps ==
  ASSUME IInv, NEW u \in Threads, Created(u)
  PROVE  IInv'
<1>. DEFINE r == Front(thread_stack)
<1>1. /\ Changes({Top, u}) /\ Mode(state'[Top]) \in {"Normal", "Result"}
      /\ Mode(state'[u]) = "Suspended" /\ u \notin ToSet(thread_stack)
      /\ thread_stack' = thread_stack /\ thread_stack # <<>>
      /\ step' \in {"running", "false"} /\ abandoned' = abandoned
  BY DEF IInv, Created, EndIteration, Free
<1>2. /\ r \in Seq(Threads) /\ Top \in Threads
      /\ thread_stack = Append(r, Top)
      /\ Top \notin ToSet(r) /\ ToSet(thread_stack) = ToSet(r) \cup {Top}
      /\ \A i, j \in 1..Len(r) : r[i] = r[j] => i = j
      /\ \A t \in ToSet(r) : Mode(state[t]) = "Waiting"
      /\ ToSet(r) \subseteq Threads
  BY <1>1, ChainFacts
<1>. HIDE DEF r
<1>3. \A t \in ToSet(r) : Mode(state'[t]) = "Waiting"
  BY <1>1, <1>2 DEF Changes
<1>4. Chained(Append(r, Top), state', Finished)
  BY <1>1, <1>2, <1>3, ChainOfAppend
<1>5. ASSUME NEW t \in Threads, Mode(state'[t]) \in Unfinished
      PROVE  t \in ToSet(thread_stack') \cup abandoned'
  BY <1>1, <1>2, <1>5 DEF IInv, NoLostThread, Changes, Unfinished
<1>. QED
  BY <1>1, <1>2, <1>4, <1>5, InvariantNext DEF IInv, TypeOK

LEMMA HandedOnKeeps ==
  ASSUME IInv, NEW u \in Threads, HandedOn(u)
  PROVE  IInv'
<1>. DEFINE r == Front(thread_stack)
<1>1. /\ Changes({Top, u}) /\ u # Top /\ Mode(state[u]) = "Suspended"
      /\ Mode(state'[u]) \in {"Normal", "Result"}
      /\ thread_stack # <<>> /\ thread_stack \in Seq(Threads)
      /\ step' \in {"running", "false"} /\ abandoned' = abandoned
      /\ abandoned \subseteq Threads
  BY DEF IInv, TypeOK, HandedOn, EndIteration
<1>2. /\ r \in Seq(Threads) /\ Top \in Threads
      /\ thread_stack = Append(r, Top)
      /\ Top \notin ToSet(r) /\ ToSet(thread_stack) = ToSet(r) \cup {Top}
      /\ \A i, j \in 1..Len(r) : r[i] = r[j] => i = j
      /\ \A t \in ToSet(r) : Mode(state[t]) = "Waiting"
      /\ ToSet(r) \subseteq Threads
  BY <1>1, ChainFacts
<1>. HIDE DEF r
<1>3. u \notin ToSet(r)
  BY <1>1, <1>2
<1>4. \A t \in ToSet(r) : Mode(state'[t]) = "Waiting"
  BY <1>1, <1>2, <1>3 DEF Changes
<1>5. CASE Mode(state'[Top]) = "Waiting" /\ thread_stack' = Append(thread_stack, u)
  <2>1. u \notin ToSet(thread_stack)
    BY <1>1, <1>2, <1>3
  <2>2. \A t \in ToSet(thread_stack) : Mode(state'[t]) = "Waiting"
    BY <1>2, <1>4, <1>5
  <2>3. \A i, j \in 1..Len(thread_stack) :
           thread_stack[i] = thread_stack[j] => i = j
    BY <1>1, LenProperties DEF IInv, ThreadChain
  <2>4. Chained(thread_stack', state', Finished)
    BY <1>1, <1>5, <2>1, <2>2, <2>3, ChainOfAppend
  <2>5. /\ thread_stack' \in Seq(Threads) /\ thread_stack' # <<>>
        /\ ToSet(thread_stack') = ToSet(thread_stack) \cup {u}
    BY <1>1, <1>5, AppendedSeq, MembersOfAppend
  <2>6. ASSUME NEW t \in Threads, Mode(state'[t]) \in Unfinished
        PROVE  t \in ToSet(thread_stack') \cup abandoned'
    BY <1>1, <1>2, <2>5, <2>6 DEF IInv, NoLostThread, Changes
  <2>. QED
    BY <1>1, <2>4, <2>5, <2>6, InvariantNext
<1>6. CASE /\ Mode(state'[Top]) \in {"Suspended", "Stopped"}
           /\ thread_stack' = Append(r, u)
  <2>1. Chained(thread_stack', state', Finished)
    BY <1>1, <1>2, <1>3, <1>4, <1>6, ChainOfAppend
  <2>2. /\ thread_stack' \in Seq(Threads) /\ thread_stack' # <<>>
        /\ ToSet(thread_stack') = ToSet(r) \cup {u}
    BY <1>2, <1>6, AppendedSeq, MembersOfAppend
  <2>3. ASSUME NEW t \in Threads, Mode(state'[t]) \in Unfinished
        PROVE  t \in ToSet(thread_stack') \cup abandoned'
    <3>1. t # Top
      BY <1>6, <2>3 DEF Unfinished
    <3>. QED
      BY <1>1, <1>2, <2>2, <2>3, <3>1 DEF IInv, NoLostThread, Changes
  <2>. QED
    BY <1>1, <2>1, <2>2, <2>3, InvariantNext
<1>. QED
  BY <1>5, <1>6 DEF HandedOn, r

LEMMA EndedKeeps ==
  ASSUME IInv, NEW waiting \in Threads, Ended(waiting)
  PROVE  IInv'
<1>. DEFINE r == Front(thread_stack)
<1>1. /\ Changes({Top, waiting}) /\ waiting # Top
      /\ Mode(state'[Top]) \in {"Stopped", "Suspended"}
      /\ Mode(state'[waiting]) = "Normal" /\ waiting = Last(r)
      /\ Len(thread_stack) > 1 /\ thread_stack # <<>>
      /\ thread_stack \in Seq(Threads)
      /\ thread_stack' = r /\ step' = step /\ abandoned' = abandoned
      /\ step = "running" /\ abandoned \subseteq Threads
  BY DEF IInv, TypeOK, Ended
<1>2. /\ r \in Seq(Threads) /\ Top \in Threads
      /\ Top \notin ToSet(r) /\ ToSet(thread_stack) = ToSet(r) \cup {Top}
      /\ \A i, j \in 1..Len(r) : r[i] = r[j] => i = j
      /\ \A t \in ToSet(r) : Mode(state[t]) = "Waiting"
  BY <1>1, ChainFacts
<1>3. Len(r) = Len(thread_stack) - 1 /\ Len(thread_stack) \in Nat
  BY <1>1, FrontAndLast
<1>4. waiting = r[Len(r)]
  BY <1>1 DEF Last
<1>. HIDE DEF r
<1>5. r # <<>>
  BY <1>1, <1>2, <1>3, LengthOfEmpty
<1>6. ASSUME NEW i \in 1..Len(r)
      PROVE  IF i < Len(r) THEN Mode(state'[r[i]]) = "Waiting"
             ELSE Mode(state'[r[i]]) = "Normal"
  <2>1. r[i] \in ToSet(r) /\ r[i] \in Threads
    BY <1>2, MembersOf
  <2>2. CASE i < Len(r)
    <3>1. r[i] # waiting
      <4>1. Len(r) \in 1..Len(r)
        BY <1>1, <1>3
      <4>. QED
        BY <1>2, <1>4, <2>2, <4>1
    <3>2. r[i] # Top
      BY <1>2, <2>1
    <3>3. state'[r[i]] = state[r[i]]
      BY <1>1, <2>1, <3>1, <3>2 DEF Changes
    <3>. QED
      BY <1>2, <2>1, <2>2, <3>3
  <2>3. CASE i = Len(r)
    BY <1>1, <1>4, <2>3
  <2>. QED
    BY <1>3, <2>2, <2>3
<1>7. Chained(r, state', Finished)
  BY <1>2, <1>6 DEF Chained
<1>8. ASSUME NEW t \in Threads, Mode(state'[t]) \in Unfinished
      PROVE  t \in ToSet(r) \cup abandoned
  <2>1. t # Top
    BY <1>1, <1>8 DEF Unfinished
  <2>2. waiting \in ToSet(r)
    BY <1>2, <1>5, MembersOfFront, <1>1
  <2>. QED
    BY <1>1, <1>2, <1>8, <2>1, <2>2 DEF IInv, NoLostThread, Changes
<1>. QED
  BY <1>1, <1>2, <1>5, <1>7, <1>8, InvariantNext

LEMMA HostSetsKeeps ==
  ASSUME IInv, NEW t \in Threads, HostSets(t)
  PROVE  IInv'
<1>1. /\ Changes({t}) /\ Mode(state'[t]) # "Waiting" /\ thread_stack' = <<t>>
      /\ step' = "idle"
      /\ abandoned' = {u \in (abandoned \cup ToSet(thread_stack)) \ ToSet(<<t>>) :
                         Mode(state'[u]) \in Unfinished}
  BY DEF HostSets, Idle, Abandon
<1>2. /\ <<t>> \in Seq(Threads) /\ <<t>> # <<>> /\ Len(<<t>>) = 1
      /\ <<t>>[1] = t /\ ToSet(<<t>>) = {t}
  BY MembersOfOne
<1>3. Mode(state'[t]) \in {"Stopped", "Normal", "Suspended", "Result"}
  BY <1>1, TopByMode DEF Changes
<1>4. Chained(<<t>>, state', Finished)
  <2>1. \A i \in 1..Len(<<t>>) : i = 1 /\ ~(i < Len(<<t>>)) /\ <<t>>[i] = t
    BY <1>2
  <2>. QED
    BY <1>3, <2>1 DEF Chained, Finished
<1>5. abandoned \subseteq Threads /\ ToSet(thread_stack) \subseteq Threads
  BY MembersOf DEF IInv, TypeOK
<1>6. ASSUME NEW u \in Threads, Mode(state'[u]) \in Unfinished
      PROVE  u \in ToSet(thread_stack') \cup abandoned'
  BY <1>1, <1>2, <1>6 DEF IInv, NoLostThread, Changes
<1>7. abandoned' \subseteq Threads
  BY <1>1, <1>5
<1>. QED
  BY <1>1, <1>2, <1>4, <1>6, <1>7, InvariantNext

LEMMA HostUpdatesKeeps ==
  ASSUME IInv, HostUpdates
  PROVE  IInv'
<1>1. /\ Changes({Main}) /\ Mode(state'[Main]) # "Waiting"
      /\ thread_stack' = thread_stack /\ abandoned' = abandoned
      /\ thread_stack \in Seq(Threads) /\ abandoned \subseteq Threads
      /\ thread_stack # <<>> /\ Len(thread_stack) = 1 /\ step' = "idle"
  BY DEF IInv, TypeOK, HostUpdates, Idle
<1>2. Main \in Threads /\ Main = thread_stack[1]
  BY <1>1, TopThread
<1>3. Mode(state'[Main]) \in {"Stopped", "Normal", "Suspended", "Result"}
  BY <1>1, <1>2, TopByMode DEF Changes
<1>4. Chained(thread_stack, state', Finished)
  <2>1. \A i \in 1..Len(thread_stack) :
           i = 1 /\ ~(i < Len(thread_stack)) /\ thread_stack[i] = Main
    BY <1>1, <1>2
  <2>. QED
    BY <1>3, <2>1 DEF Chained, Finished
<1>5. Main \in ToSet(thread_stack)
  <2>1. 1 \in 1..Len(thread_stack)
    BY <1>1
  <2>. QED
    BY <1>1, <1>2, <2>1, MembersOf
<1>6. ASSUME NEW u \in Threads, Mode(state'[u]) \in Unfinished
      PROVE  u \in ToSet(thread_stack') \cup abandoned'
  BY <1>1, <1>5, <1>6 DEF IInv, NoLostThread, Changes
<1>. QED
  BY <1>1, <1>4, <1>6, InvariantNext

LEMMA CollectKeeps ==
  ASSUME IInv, NEW t \in Threads, Collect(t)
  PROVE  IInv' /\ Changes({t})
<1>1. /\ t \notin ToSet(thread_stack) /\ state' = [state EXCEPT ![t] = NewThread]
      /\ thread_stack' = thread_stack /\ step' = step
      /\ abandoned' = abandoned \ {t}
      /\ thread_stack \in Seq(Threads)
  BY DEF Collect, IInv, TypeOK
<1>2. /\ Changes({t}) /\ state'[t] = NewThread
  BY <1>1, FreshSound, OneChange
<1>3. \A i \in 1..Len(thread_stack) : state'[thread_stack[i]] = state[thread_stack[i]]
  BY <1>1, <1>2, MembersOf, ElementOfSeq DEF Changes
<1>4. Chained(thread_stack, state', Finished)
  <2>1. Chained(thread_stack, state, Finished)
    BY <1>1, ChainByPosition DEF IInv, Finished
  <2>. QED
    BY <1>3, <2>1 DEF Chained
<1>5. ASSUME NEW u \in Threads, Mode(state'[u]) \in Unfinished
      PROVE  u \in ToSet(thread_stack') \cup abandoned'
  <2>1. u # t
    BY <1>2, <1>5, FreshSound DEF Unfinished
  <2>. QED
    BY <1>1, <1>2, <1>5, <2>1 DEF IInv, NoLostThread, Changes
<1>6. IInv'
  <2>1. TypeOK'
    BY <1>1, <1>2, StaysSound DEF IInv, TypeOK
  <2>2. (\A u \in Threads : WellFormed(state[u]))'
    BY <1>2, StaysSound
  <2>3. ThreadChain'
    BY <1>1, <1>4, ChainByPositionNext DEF Finished
  <2>4. NoLostThread'
    BY <1>5 DEF NoLostThread
  <2>. QED
    BY <1>1, <2>1, <2>2, <2>3, <2>4 DEF IInv
<1>. QED
  BY <1>2, <1>6

-----------------------------------------------------------------------------
(* What the invariant says of the frames and the values.                   *)

LEMMA SimpleTopInOrder ==
  ASSUME NEW fs \in Seq(FrameSet), fs # <<>>,
         \A i \in 1..Len(Front(fs)) : Resting(Front(fs)[i]),
         Last(fs).kind = "Lua" => ~Last(fs).pending,
         Last(fs).kind = "Start" => Front(fs) = <<>>
  PROVE  InOrder(fs)
<1>1. /\ Len(fs) \in Nat \ {0} /\ Last(fs) = fs[Len(fs)]
      /\ Front(fs) \in Seq(FrameSet) /\ Len(Front(fs)) = Len(fs) - 1
      /\ \A i \in 1..Len(fs) - 1 : Front(fs)[i] = fs[i]
      /\ DOMAIN fs = 1..Len(fs)
  BY FrontAndLast, LenProperties
<1>2. ASSUME NEW i \in 1..Len(fs), i < Len(fs)
      PROVE  /\ Resting(fs[i]) /\ ~TopOnly(fs[i])
             /\ fs[i].kind \in {"Lua", "Sequence"}
             /\ fs[i].kind = "Lua" => fs[i].pending
  <2>1. Resting(fs[i])
    BY <1>1, <1>2
  <2>. QED
    BY <2>1 DEF Resting, TopOnly
<1>3. ASSUME NEW i \in 1..Len(fs)
      PROVE  /\ TopOnly(fs[i]) => i = Len(fs)
             /\ fs[i].kind = "Start" => Len(fs) = 1
             /\ fs[i].kind = "Yielded" /\ i < Len(fs)
                  => i + 1 = Len(fs) /\ fs[i+1].kind = "Result"
             /\ fs[i].kind = "Lua" => (fs[i].pending <=> i < Len(fs))
             /\ fs[i].kind \in {"WaitThread", "Result", "Error"} /\ i > 1
                  => fs[i-1].kind \in {"Lua", "Sequence", "Yielded"}
  <2>1. CASE i < Len(fs)
    BY <1>1, <1>2, <2>1
  <2>2. CASE i = Len(fs)
    <3>1. fs[i] = Last(fs)
      BY <1>1, <2>2
    <3>2. fs[i].kind = "Start" => Len(fs) = 1
      BY <3>1, NoFramesBelow
    <3>3. fs[i].kind = "Lua" => (fs[i].pending <=> i < Len(fs))
      <4>1. ~(i < Len(fs))
        BY <1>1, <2>2
      <4>. QED
        BY <3>1, <4>1, Zenon
    <3>4. i > 1 => fs[i-1].kind \in {"Lua", "Sequence", "Yielded"}
      <4>1. i > 1 => i - 1 \in 1..Len(fs) /\ i - 1 < Len(fs)
        BY <1>1, <2>2
      <4>. QED
        BY <1>2, <4>1
    <3>. QED
      BY <1>1, <2>2, <3>2, <3>3, <3>4
  <2>. QED
    BY <1>1, <2>1, <2>2
<1>. QED
  BY <1>1, <1>3 DEF InOrder

(* Two frames above those at rest.                                         *)
LEMMA DoubleTopInOrder ==
  ASSUME NEW fs \in Seq(FrameSet), fs # <<>>, Front(fs) # <<>>,
         \A i \in 1..Len(Front(Front(fs))) : Resting(Front(Front(fs))[i]),
         \/ Last(fs).kind = "Result" /\ Last(Front(fs)).kind = "Yielded"
         \/ Last(fs).kind = "Error" /\ Last(Front(fs)).kind = "Lua"
  PROVE  InOrder(fs)
<1>1. /\ Len(fs) \in Nat \ {0} /\ Last(fs) = fs[Len(fs)]
      /\ Front(fs) \in Seq(FrameSet) /\ Len(Front(fs)) = Len(fs) - 1
      /\ \A i \in 1..Len(fs) - 1 : Front(fs)[i] = fs[i]
      /\ DOMAIN fs = 1..Len(fs)
  BY FrontAndLast, LenProperties
<1>2. /\ Len(Front(fs)) \in Nat \ {0} /\ Last(Front(fs)) = Front(fs)[Len(Front(fs))]
      /\ Front(Front(fs)) \in Seq(FrameSet)
      /\ Len(Front(Front(fs))) = Len(Front(fs)) - 1
      /\ \A i \in 1..Len(Front(fs)) - 1 : Front(Front(fs))[i] = Front(fs)[i]
  BY <1>1, FrontAndLast
<1>3. ASSUME NEW i \in 1..Len(fs), i < Len(fs) - 1
      PROVE  /\ Resting(fs[i]) /\ ~TopOnly(fs[i])
             /\ fs[i].kind \in {"Lua", "Sequence"}
             /\ fs[i].kind = "Lua" => fs[i].pending
  <2>1. i \in 1..Len(Front(Front(fs))) /\ Front(Front(fs))[i] = fs[i]
    BY <1>1, <1>2, <1>3
  <2>2. Resting(fs[i])
    BY <2>1
  <2>. QED
    BY <2>2 DEF Resting, TopOnly
<1>4. /\ Len(fs) - 1 \in 1..Len(fs) /\ fs[Len(fs) - 1] = Last(Front(fs))
      /\ Len(fs) \in 1..Len(fs) /\ fs[Len(fs)] = Last(fs)
  BY <1>1, <1>2
<1>5. ASSUME NEW i \in 1..Len(fs)
      PROVE  /\ TopOnly(fs[i]) => i = Len(fs)
             /\ fs[i].kind = "Start" => Len(fs) = 1
             /\ fs[i].kind = "Yielded" /\ i < Len(fs)
                  => i + 1 = Len(fs) /\ fs[i+1].kind = "Result"
             /\ fs[i].kind = "Lua" =>
                  \/ fs[i].pending <=> i < Len(fs)
                  \/ i + 1 = Len(fs) /\ fs[i+1].kind = "Error"
             /\ fs[i].kind \in {"WaitThread", "Result", "Error"} /\ i > 1
                  => fs[i-1].kind \in {"Lua", "Sequence", "Yielded"}
  <2>1. CASE i < Len(fs) - 1
    <3>1. i < Len(fs)
      BY <1>1, <2>1
    <3>. QED
      BY <1>3, <2>1, <3>1
  <2>2. CASE i = Len(fs) - 1
    <3>1. fs[i] = Last(Front(fs)) /\ i + 1 = Len(fs) /\ fs[i+1] = Last(fs)
      BY <1>1, <1>4, <2>2
    <3>2. ~TopOnly(fs[i])
      BY <3>1 DEF TopOnly
    <3>. QED
      BY <3>1, <3>2
  <2>3. CASE i = Len(fs)
    <3>1. fs[i] = Last(fs) /\ fs[i-1] = Last(Front(fs))
      BY <1>1, <1>4, <2>3
    <3>. QED
      BY <1>1, <2>3, <3>1
  <2>. QED
    BY <1>1, <2>1, <2>2, <2>3
<1>. QED
  BY <1>1, <1>5 DEF InOrder

LEMMA WellFormedInOrder ==
  ASSUME NEW ts, Sound(ts)
  PROVE  InOrder(ts.frames)
<1>1. ts.frames \in Seq(FrameSet)
  BY ThreadTypes DEF Sound
<1>2. ASSUME NEW fs \in Seq(FrameSet), NEW open, NEW level, AtRest(fs, open, level)
      PROVE  \A i \in 1..Len(fs) : Resting(fs[i])
  BY <1>2 DEF AtRest
<1>3. CASE Empty(ts)
  <2>1. DOMAIN ts.frames = 1..Len(ts.frames) /\ Len(ts.frames) = 0
    BY <1>1, <1>3, LenProperties, LengthOfEmpty DEF Empty
  <2>2. \A i \in 1..0 : FALSE
    OBVIOUS
  <2>. QED
    BY <2>1, <2>2, Zenon DEF InOrder
<1>4. CASE AtStart(ts)
  <2>1. ts.frames # <<>> /\ Front(ts.frames) = <<>> /\ Last(ts.frames).kind = "Start"
    BY <1>4 DEF AtStart, Topped
  <2>2. Front(ts.frames) \in Seq(FrameSet) /\ Len(Front(ts.frames)) = 0
    BY <1>1, <2>1, FrontAndLast, LengthOfEmpty
  <2>3. \A i \in 1..Len(Front(ts.frames)) : Resting(Front(ts.frames)[i])
    BY <2>2
  <2>. QED
    BY <1>1, <2>1, <2>3, SimpleTopInOrder
<1>5. CASE InHost(ts) \/ InLua(ts) \/ AtYield(ts) \/ InWait(ts)
  <2>1. /\ ts.frames # <<>> /\ Last(ts.frames).kind # "Start"
        /\ Last(ts.frames).kind = "Lua" => ~Last(ts.frames).pending
        /\ \E open, level : AtRest(Front(ts.frames), open, level)
    BY <1>5 DEF InHost, InLua, AtYield, InWait, LuaLast, Topped
  <2>2. \A i \in 1..Len(Front(ts.frames)) : Resting(Front(ts.frames)[i])
    BY <1>1, <1>2, <2>1, FrontAndLast
  <2>. QED
    BY <1>1, <2>1, <2>2, SimpleTopInOrder
<1>6. CASE WithResult(ts)
  <2>. DEFINE under == Front(ts.frames)
  <2>1. ts.frames # <<>> /\ Last(ts.frames).kind = "Result" /\ under \in Seq(FrameSet)
    BY <1>1, <1>6, FrontAndLast DEF WithResult, Topped
  <2>2. CASE under = <<>>
    <3>1. Len(under) = 0
      BY <2>1, <2>2, LengthOfEmpty
    <3>2. \A i \in 1..Len(under) : Resting(under[i])
      BY <3>1
    <3>. QED
      BY <1>1, <2>1, <3>2, SimpleTopInOrder
  <2>3. CASE under # <<>>
    <3>1. /\ Last(under).kind = "Yielded"
          /\ AtRest(Front(under), ts.open, Last(ts.frames).bottom)
      BY <1>6, <2>3 DEF WithResult
    <3>2. \A i \in 1..Len(Front(under)) : Resting(Front(under)[i])
      BY <1>2, <2>1, <2>3, <3>1, FrontAndLast
    <3>. QED
      BY <1>1, <2>1, <2>3, <3>1, <3>2, DoubleTopInOrder
  <2>. QED
    BY <2>2, <2>3
<1>7. CASE WithError(ts)
  <2>. DEFINE under == Front(ts.frames)
  <2>1. ts.frames # <<>> /\ Last(ts.frames).kind = "Error" /\ under \in Seq(FrameSet)
    BY <1>1, <1>7, FrontAndLast DEF WithError, Topped
  <2>2. CASE AtRest(under, ts.open, ts.stack)
    <3>1. \A i \in 1..Len(under) : Resting(under[i])
      BY <1>2, <2>1, <2>2
    <3>. QED
      BY <1>1, <2>1, <3>1, SimpleTopInOrder
  <2>3. CASE LuaLast(under, ts)
    <3>1. /\ under # <<>> /\ Last(under).kind = "Lua"
          /\ \E open, level : AtRest(Front(under), open, level)
      BY <2>3 DEF LuaLast
    <3>2. \A i \in 1..Len(Front(under)) : Resting(Front(under)[i])
      BY <1>2, <2>1, <3>1, FrontAndLast
    <3>. QED
      BY <1>1, <2>1, <3>1, <3>2, DoubleTopInOrder
  <2>. QED
    BY <1>7, <2>2, <2>3 DEF WithError
<1>. QED
  BY <1>3, <1>4, <1>5, <1>6, <1>7 DEF Sound, WellFormed

(* The frames above those at rest begin at the level.                      *)
LEMMA BoundsFromRest ==
  ASSUME NEW ts \in ThreadState, NEW base \in Seq(FrameSet),
         NEW open \in SUBSET Nat, NEW level \in Nat,
         AtRest(base, open, level), level <= ts.stack,
         Len(base) <= Len(ts.frames),
         \A i \in 1..Len(base) : base[i] = ts.frames[i],
         \A i \in 1..Len(ts.frames) :
           Len(base) < i /\ HasBottom(ts.frames[i]) => ts.frames[i].bottom = level,
         \A x \in ts.open \ open :
           /\ x < ts.stack
           /\ \E i \in 1..Len(ts.frames) :
                ts.frames[i].kind = "Lua" /\ ts.frames[i].bottom = x,
         \/ \E i \in 1..Len(ts.frames) : ts.frames[i].kind # "Error"
         \/ ts.stack = 0 /\ ts.open = {}
  PROVE  InBounds(ts)
<1>. DEFINE fs == ts.frames
<1>1. /\ fs \in Seq(FrameSet) /\ DOMAIN fs = 1..Len(fs) /\ Len(fs) \in Nat
      /\ Len(base) \in Nat /\ ts.stack \in Nat /\ ts.open \in SUBSET Nat
      /\ \A i \in 1..Len(fs) : fs[i] \in FrameSet
  BY ThreadTypes, LenProperties, ElementOfSeq
<1>2. \A i \in 1..Len(fs) : fs[i].bottom \in Nat
  BY <1>1, FieldTypes
<1>3. WithBottom(fs) = {i \in 1..Len(fs) : HasBottom(fs[i])}
  BY <1>1 DEF WithBottom
<1>. HIDE DEF fs
<1>4. \A i \in 1..Len(fs) : Len(base) < i \/ i \in 1..Len(base)
  BY <1>1
<1>5. \A i \in 1..Len(base) :
         /\ i \in 1..Len(fs) /\ base[i] = fs[i] /\ fs[i].bottom <= level
         /\ i = 1 => fs[i].bottom = 0
  BY <1>1 DEF AtRest, fs
<1>6. \A i \in 1..Len(fs) :
         Len(base) < i /\ HasBottom(fs[i]) => fs[i].bottom = level
  BY DEF fs
<1>7. ASSUME NEW i \in WithBottom(fs)
      PROVE  fs[i].bottom <= ts.stack /\ (i = 1 => fs[i].bottom = 0)
  <2>1. i \in 1..Len(fs) /\ HasBottom(fs[i]) /\ fs[i].bottom \in Nat
    BY <1>2, <1>3
  <2>2. CASE i \in 1..Len(base)
    BY <1>1, <1>5, <2>1, <2>2
  <2>3. CASE Len(base) < i
    <3>1. fs[i].bottom = level
      BY <1>6, <2>1, <2>3
    <3>2. i = 1 => level = 0
      <4>1. i = 1 => Len(base) = 0
        BY <1>1, <2>3
      <4>. QED
        BY <4>1, LengthOfEmpty DEF AtRest
    <3>. QED
      BY <3>1, <3>2
  <2>. QED
    BY <1>4, <2>1, <2>2, <2>3
<1>8. ASSUME NEW i \in WithBottom(fs), NEW j \in WithBottom(fs), i < j
      PROVE  fs[i].bottom <= fs[j].bottom
  <2>1. /\ i \in 1..Len(fs) /\ HasBottom(fs[i])
        /\ j \in 1..Len(fs) /\ HasBottom(fs[j])
    BY <1>3
  <2>2. CASE i \in 1..Len(base) /\ j \in 1..Len(base)
    BY <1>5, <1>8, <2>2 DEF AtRest
  <2>3. CASE i \in 1..Len(base) /\ Len(base) < j
    <3>1. fs[j].bottom = level
      BY <1>6, <2>1, <2>3
    <3>. QED
      BY <1>5, <2>3, <3>1
  <2>4. CASE Len(base) < i
    <3>1. Len(base) < j
      BY <1>1, <1>8, <2>1, <2>4
    <3>2. fs[i].bottom = level /\ fs[j].bottom = level
      BY <1>6, <2>1, <2>4, <3>1
    <3>. QED
      BY <3>2
  <2>. QED
    BY <1>4, <2>1, <2>2, <2>3, <2>4
<1>9. ASSUME NEW x \in ts.open
      PROVE  /\ x < ts.stack
             /\ \E i \in WithBottom(fs) : fs[i].kind = "Lua" /\ fs[i].bottom = x
  <2>1. x < ts.stack /\ \E i \in 1..Len(fs) : fs[i].kind = "Lua" /\ fs[i].bottom = x
    <3>1. CASE x \in open
      <4>1. x < level /\ \E j \in 1..Len(base) : OwnerOf(base, x, j)
        BY <3>1 DEF AtRest
      <4>2. PICK j \in 1..Len(base) : OwnerOf(base, x, j)
        BY <4>1
      <4>3. j \in 1..Len(fs) /\ fs[j].kind = "Lua" /\ fs[j].bottom = x
        BY <1>5, <4>2 DEF OwnerOf
      <4>4. x < ts.stack
        BY <1>1, <4>1
      <4>. QED
        BY <4>3, <4>4
    <3>2. CASE x \notin open
      BY <3>2 DEF fs
    <3>. QED
      BY <3>1, <3>2
  <2>2. PICK i \in 1..Len(fs) : fs[i].kind = "Lua" /\ fs[i].bottom = x
    BY <2>1
  <2>3. i \in WithBottom(fs)
    BY <1>3, <2>2 DEF HasBottom
  <2>. QED
    BY <2>1, <2>2, <2>3
<1>10. (\A i \in DOMAIN fs : fs[i].kind = "Error") => ts.stack = 0 /\ ts.open = {}
  BY <1>1 DEF fs
<1>. QED
  BY <1>7, <1>8, <1>9, <1>10 DEF InBounds, fs

(* One frame above those at rest.                                          *)
LEMMA SimpleTopInBounds ==
  ASSUME NEW ts \in ThreadState, ts.frames # <<>>,
         NEW open \in SUBSET Nat, NEW level \in Nat,
         AtRest(Front(ts.frames), open, level), level <= ts.stack,
         HasBottom(Last(ts.frames)) => Last(ts.frames).bottom = level,
         \A x \in ts.open \ open :
           /\ x < ts.stack
           /\ Last(ts.frames).kind = "Lua" /\ Last(ts.frames).bottom = x,
         Last(ts.frames).kind = "Error" => ts.stack = level /\ ts.open = open
  PROVE  InBounds(ts)
<1>. DEFINE fs == ts.frames
            base == Front(fs)
<1>1. /\ fs \in Seq(FrameSet) /\ base \in Seq(FrameSet) /\ Last(fs) = fs[Len(fs)]
      /\ Len(fs) \in Nat \ {0} /\ Len(base) = Len(fs) - 1
      /\ \A i \in 1..Len(fs) - 1 : base[i] = fs[i]
  BY ThreadTypes, FrontAndLast
<1>2. Len(fs) \in 1..Len(fs)
  BY <1>1
<1>3. ASSUME NEW i \in 1..Len(fs), Len(base) < i
      PROVE  i = Len(fs)
  BY <1>1, <1>3
<1>4. \A i \in 1..Len(fs) : Len(base) < i /\ HasBottom(fs[i]) => fs[i].bottom = level
  BY <1>1, <1>3
<1>5. \/ \E i \in 1..Len(fs) : fs[i].kind # "Error"
      \/ ts.stack = 0 /\ ts.open = {}
  <2>1. CASE Last(fs).kind # "Error"
    BY <1>1, <1>2, <2>1
  <2>2. CASE Last(fs).kind = "Error" /\ base = <<>>
    <3>1. level = 0 /\ open = {}
      BY <2>2, AtRestEmpty
    <3>. QED
      BY <2>2, <3>1
  <2>3. CASE base # <<>>
    <3>1. Len(base) # 0
      BY <1>1, <2>3, LengthOfEmpty
    <3>. HIDE DEF fs, base
    <3>. DEFINE n == Len(fs)
                m == Len(base)
    <3>1a. n \in Nat \ {0} /\ m = n - 1 /\ m # 0
      BY <1>1, <3>1
    <3>. HIDE DEF n, m
    <3>1b. 1 \in 1..m /\ 1 \in 1..n - 1 /\ 1 \in 1..n
      BY <3>1a
    <3>2. 1 \in 1..Len(base) /\ 1 \in 1..Len(fs) - 1 /\ 1 \in 1..Len(fs)
      BY <3>1b DEF n, m
    <3>2a. base[1] = fs[1]
      BY <1>1, <3>2
    <3>3. Resting(base[1])
      BY <3>2 DEF AtRest, base, fs
    <3>4. fs[1].kind # "Error"
      BY <3>2a, <3>3 DEF Resting
    <3>. QED
      BY <3>2, <3>4
  <2>. QED
    BY <2>1, <2>2, <2>3
<1>6. \A x \in ts.open \ open :
         /\ x < ts.stack
         /\ \E i \in 1..Len(fs) : fs[i].kind = "Lua" /\ fs[i].bottom = x
  BY <1>1, <1>2
<1>7. /\ Len(base) <= Len(fs)
      /\ \A i \in 1..Len(base) : base[i] = fs[i]
  BY <1>1
<1>. HIDE DEF base
<1>. QED
  BY <1>1, <1>4, <1>5, <1>6, <1>7, BoundsFromRest DEF base

(* Two frames above those at rest.                                         *)
LEMMA DoubleTopInBounds ==
  ASSUME NEW ts \in ThreadState, ts.frames # <<>>, Front(ts.frames) # <<>>,
         NEW open \in SUBSET Nat, NEW level \in Nat,
         AtRest(Front(Front(ts.frames)), open, level), level <= ts.stack,
         HasBottom(Last(ts.frames)) => Last(ts.frames).bottom = level,
         HasBottom(Last(Front(ts.frames))) => Last(Front(ts.frames)).bottom = level,
         \A x \in ts.open \ open :
           /\ x < ts.stack
           /\ Last(Front(ts.frames)).kind = "Lua" /\ Last(Front(ts.frames)).bottom = x,
         Last(Front(ts.frames)).kind # "Error"
  PROVE  InBounds(ts)
<1>. DEFINE fs == ts.frames
            under == Front(fs)
            base == Front(under)
<1>1. /\ fs \in Seq(FrameSet) /\ under \in Seq(FrameSet) /\ Last(fs) = fs[Len(fs)]
      /\ Len(fs) \in Nat \ {0} /\ Len(under) = Len(fs) - 1
      /\ \A i \in 1..Len(fs) - 1 : under[i] = fs[i]
  BY ThreadTypes, FrontAndLast
<1>2. under # <<>> /\ under \in Seq(FrameSet)
  BY <1>1
<1>. HIDE DEF under, fs
<1>2b. /\ Front(under) \in Seq(FrameSet) /\ Last(under) = under[Len(under)]
       /\ Len(under) \in Nat \ {0} /\ Len(Front(under)) = Len(under) - 1
       /\ \A i \in 1..Len(under) - 1 : Front(under)[i] = under[i]
  BY ONLY <1>2, FrontAndLast
<1>2a. /\ base \in Seq(FrameSet) /\ Last(under) = under[Len(under)]
       /\ Len(under) \in Nat \ {0} /\ Len(base) = Len(under) - 1
       /\ \A i \in 1..Len(under) - 1 : base[i] = under[i]
  BY <1>2b, Zenon
<1>. HIDE DEF base
<1>3. /\ Len(fs) - 1 \in 1..Len(fs) /\ fs[Len(fs) - 1] = Last(under)
  BY <1>1, <1>2a
<1>4. ASSUME NEW i \in 1..Len(fs), Len(base) < i
      PROVE  fs[i] = Last(fs) \/ fs[i] = Last(under)
  <2>1. i = Len(fs) \/ i = Len(fs) - 1
    BY <1>1, <1>2a, <1>4
  <2>. QED
    BY <1>1, <1>3, <2>1
<1>5. \A i \in 1..Len(fs) : Len(base) < i /\ HasBottom(fs[i]) => fs[i].bottom = level
  BY <1>4 DEF fs, under
<1>6. \E i \in 1..Len(fs) : fs[i].kind # "Error"
  BY <1>3 DEF under, fs
<1>7. \A x \in ts.open \ open :
         /\ x < ts.stack
         /\ \E i \in 1..Len(fs) : fs[i].kind = "Lua" /\ fs[i].bottom = x
  BY <1>3 DEF under, fs
<1>8. /\ Len(base) <= Len(fs)
      /\ \A i \in 1..Len(base) : base[i] = fs[i]
  BY <1>1, <1>2a
<1>9. AtRest(base, open, level)
  BY DEF base, under, fs
<1>. QED
  BY <1>2a, <1>5, <1>6, <1>7, <1>8, <1>9, BoundsFromRest DEF fs

LEMMA WellFormedInBounds ==
  ASSUME NEW ts, Sound(ts)
  PROVE  InBounds(ts)
<1>1. /\ ts \in ThreadState /\ ts.frames \in Seq(FrameSet)
      /\ ts.stack \in Nat /\ ts.open \in SUBSET Nat
  BY ThreadTypes DEF Sound
<1>2. ts.frames # <<>> => /\ Last(ts.frames).bottom \in Nat
                          /\ Front(ts.frames) \in Seq(FrameSet)
  BY <1>1, FrontAndLast, FieldTypes
<1>3. CASE Empty(ts)
  <2>1. DOMAIN ts.frames = 1..Len(ts.frames) /\ Len(ts.frames) = 0
    BY <1>1, <1>3, LenProperties, LengthOfEmpty DEF Empty
  <2>2. 1..0 = {}
    OBVIOUS
  <2>3. DOMAIN ts.frames = {}
    BY <2>1, <2>2, Zenon
  <2>4. WithBottom(ts.frames) = {}
    BY <2>3 DEF WithBottom
  <2>. QED
    BY <1>3, <2>4 DEF InBounds, Empty
<1>4. CASE InHost(ts)
  <2>1. /\ ts.frames # <<>> /\ Last(ts.frames).kind \in {"Callback", "Sequence"}
        /\ AtRest(Front(ts.frames), ts.open, Last(ts.frames).bottom)
        /\ Last(ts.frames).bottom <= ts.stack
    BY <1>4 DEF InHost, Topped
  <2>. QED
    BY <1>1, <1>2, <2>1, SimpleTopInBounds
<1>5. CASE InLua(ts)
  <2>. DEFINE b == Last(ts.frames).bottom
  <2>1. /\ ts.frames # <<>> /\ Last(ts.frames).kind = "Lua"
        /\ AtRest(Front(ts.frames), ts.open \ {b}, b)
        /\ ts.stack = b + 1 /\ b \in Nat
    BY <1>1, <1>2, <1>5 DEF InLua, LuaLast
  <2>2. /\ b <= ts.stack /\ ts.open \ {b} \in SUBSET Nat
        /\ \A x \in ts.open \ (ts.open \ {b}) : x = b /\ x < ts.stack
    BY <1>1, <2>1
  <2>. QED
    BY <1>1, <2>1, <2>2, SimpleTopInBounds
<1>6. CASE AtStart(ts)
  <2>1. /\ ts.frames # <<>> /\ Last(ts.frames).kind = "Start"
        /\ AtRest(Front(ts.frames), ts.open, ts.stack)
    BY <1>6, NothingAtRest DEF AtStart, Topped
  <2>2. /\ ~HasBottom(Last(ts.frames)) /\ Last(ts.frames).kind # "Error"
        /\ ts.stack <= ts.stack /\ ts.open \ ts.open = {}
    BY <1>1, <2>1 DEF HasBottom
  <2>. QED
    BY <1>1, <2>1, <2>2, SimpleTopInBounds
<1>7. CASE AtYield(ts) \/ InWait(ts)
  <2>1. /\ ts.frames # <<>> /\ Last(ts.frames).kind \in {"Yielded", "WaitThread"}
        /\ AtRest(Front(ts.frames), ts.open, ts.stack)
    BY <1>7 DEF AtYield, InWait, Topped
  <2>2. /\ ~HasBottom(Last(ts.frames)) /\ Last(ts.frames).kind # "Error"
        /\ ts.stack <= ts.stack /\ ts.open \ ts.open = {}
    BY <1>1, <2>1 DEF HasBottom
  <2>. QED
    BY <1>1, <2>1, <2>2, SimpleTopInBounds
<1>8. CASE WithResult(ts)
  <2>. DEFINE under == Front(ts.frames)
              level == Last(ts.frames).bottom
  <2>1. /\ ts.frames # <<>> /\ Last(ts.frames).kind = "Result"
        /\ level \in Nat /\ level <= ts.stack
    BY <1>2, <1>8 DEF WithResult, Topped
  <2>2. CASE under = <<>> /\ level = 0 /\ ts.open = {}
    <3>1. AtRest(under, ts.open, level)
      BY <2>2, NothingAtRest
    <3>. QED
      BY <1>1, <2>1, <3>1, SimpleTopInBounds
  <2>3. CASE under # <<>> /\ Last(under).kind = "Yielded"
             /\ AtRest(Front(under), ts.open, level)
    BY <1>1, <2>1, <2>3, DoubleTopInBounds DEF HasBottom
  <2>. QED
    BY <1>8, <2>2, <2>3 DEF WithResult
<1>9. CASE WithError(ts)
  <2>. DEFINE under == Front(ts.frames)
  <2>1. ts.frames # <<>> /\ Last(ts.frames).kind = "Error"
    BY <1>9 DEF WithError, Topped
  <2>2. CASE AtRest(under, ts.open, ts.stack)
    <3>1. /\ ~HasBottom(Last(ts.frames))
          /\ ts.stack <= ts.stack /\ ts.open \ ts.open = {}
      BY <1>1, <2>1 DEF HasBottom
    <3>. QED
      BY <1>1, <2>1, <2>2, <3>1, SimpleTopInBounds
  <2>3. CASE LuaLast(under, ts)
    <3>. DEFINE b == Last(under).bottom
    <3>1. /\ under # <<>> /\ Last(under).kind = "Lua" /\ b \in Nat
          /\ AtRest(Front(under), ts.open \ {b}, b) /\ ts.stack = b + 1
      BY <1>1, <1>2, <2>1, <2>3, LuaFacts
    <3>2. /\ b <= ts.stack /\ ts.open \ {b} \in SUBSET Nat
          /\ \A x \in ts.open \ (ts.open \ {b}) : x = b /\ x < ts.stack
      BY <1>1, <3>1
    <3>. QED
      BY <1>1, <2>1, <3>1, <3>2, DoubleTopInBounds DEF HasBottom
  <2>. QED
    BY <1>9, <2>2, <2>3 DEF WithError
<1>. QED
  BY <1>3, <1>4, <1>5, <1>6, <1>7, <1>8, <1>9 DEF Sound, WellFormed

-----------------------------------------------------------------------------
(* The invariant holds, and what follows from it.                          *)

LEMMA InvariantInit == Init => IInv
<1>. SUFFICES ASSUME Init
              PROVE  IInv
  OBVIOUS
<1>1. thread_stack \in Seq(Threads) /\ DOMAIN thread_stack = {}
  BY DEF Init
<1>2. \A t \in Threads : state[t] = NewThread
  BY DEF Init
<1>3. TypeOK
  BY <1>1, NewThreadFields DEF Init, TypeOK
<1>4. \A t \in Threads : WellFormed(state[t]) /\ Mode(state[t]) = "Stopped"
  BY <1>2, FreshSound DEF Sound
<1>5. ThreadChain
  BY <1>1 DEF ThreadChain
<1>6. NoLostThread
  BY <1>4 DEF NoLostThread, Unfinished
<1>. QED
  BY <1>3, <1>4, <1>5, <1>6 DEF IInv, Init

(* The shapes of a step.                                                   *)
LEMMA StepShapes ==
  ASSUME IInv, Next
  PROVE  \/ Ran
         \/ \E u \in Threads : Created(u)
         \/ \E u \in Threads : HandedOn(u)
         \/ \E waiting \in Threads : Ended(waiting)
         \/ StepReturnsTrue
         \/ Step
         \/ \E t \in Threads : HostSets(t)
         \/ HostUpdates /\ Updating
         \/ \E t \in Threads : Collect(t)
<1>1. CASE ExecutorStep
  <2>1. CASE LuaFrameStep
    BY <2>1, LuaRan
  <2>2. CASE HostFrameStep
    BY <2>2, HostStepsOn
  <2>3. CASE Unwind
    BY <2>3, UnwindRan
  <2>4. CASE Deliver
    BY <2>4, DeliverEnded
  <2>. QED
    BY <1>1, <2>1, <2>2, <2>3, <2>4 DEF ExecutorStep
<1>2. CASE HostStep
  BY <1>2, SetsOrUpdates
<1>. QED
  BY <1>1, <1>2 DEF Next

(* Only step changes.                                                      *)
LEMMA StillKeeps ==
  ASSUME IInv, thread_stack' = thread_stack, state' = state,
         abandoned' = abandoned,
         step' \in {"idle", "running", "true", "false"},
         step' = "running" => thread_stack # <<>>
  PROVE  IInv'
<1>1. TypeOK'
  BY DEF IInv, TypeOK
<1>2. ThreadChain'
  BY DEF IInv, ThreadChain
<1>3. NoLostThread'
  BY DEF IInv, NoLostThread
<1>. QED
  BY <1>1, <1>2, <1>3 DEF IInv

LEMMA InvariantStep == IInv /\ [Next]_vars => IInv'
<1>. SUFFICES ASSUME IInv, [Next]_vars
              PROVE  IInv'
  OBVIOUS
<1>1. CASE Ran
  BY <1>1, RanKeeps
<1>2. CASE \E u \in Threads : Created(u)
  BY <1>2, CreatedKeeps
<1>3. CASE \E u \in Threads : HandedOn(u)
  BY <1>3, HandedOnKeeps
<1>4. CASE \E waiting \in Threads : Ended(waiting)
  BY <1>4, EndedKeeps
<1>5. CASE StepReturnsTrue
  BY <1>5, StillKeeps DEF StepReturnsTrue
<1>6. CASE Step
  BY <1>6, StillKeeps DEF Step
<1>7. CASE \E t \in Threads : HostSets(t)
  BY <1>7, HostSetsKeeps
<1>8. CASE HostUpdates
  BY <1>8, HostUpdatesKeeps
<1>9. CASE \E t \in Threads : Collect(t)
  BY <1>9, CollectKeeps
<1>10. CASE UNCHANGED vars
  <2>1. step \in {"idle", "running", "true", "false"}
        /\ (step = "running" => thread_stack # <<>>)
    BY DEF IInv, TypeOK
  <2>. QED
    BY <1>10, <2>1, StillKeeps DEF vars
<1>. QED
  BY <1>1, <1>2, <1>3, <1>4, <1>5, <1>6, <1>7, <1>8, <1>9, <1>10, StepShapes

(* The invariant: every thread is in one of the shapes of WellFormed, and  *)
(* the threads are chained.  It says of every thread what Executor::step   *)
(* leaves on its stacks of frames and of values, whatever runs there.      *)
THEOREM Invariance == Spec => []IInv
  BY InvariantInit, InvariantStep, PTL DEF Spec

LEMMA AllSound ==
  ASSUME IInv
  PROVE  \A t \in Threads : Sound(state[t])
  BY DEF IInv, TypeOK, Sound

(* The asserts and panics of return_to, take_result, resume and of         *)
(* unwinding (thread.rs:299-324) are unreachable, for any number of        *)
(* threads and frames.                                                     *)
THEOREM FramesInOrder == Spec => []FrameDiscipline
<1>1. IInv => FrameDiscipline
  BY AllSound, WellFormedInOrder DEF FrameDiscipline, IInv
<1>. QED
  BY Invariance, <1>1, PTL

(* The values of a thread lie above the bottoms of its frames, no open     *)
(* upvalue outlives its frame, and none is left when the frames are gone   *)
(* (the asserts of ThreadState::mode and take_result).                     *)
THEOREM ValuesInBounds == Spec => []ValueDiscipline
<1>1. IInv => ValueDiscipline
  BY AllSound, WellFormedInBounds DEF ValueDiscipline
<1>. QED
  BY Invariance, <1>1, PTL

(* A sequence that is polled again finds its results, and nothing else,    *)
(* where it handed over the arguments (callback.rs:245-260).               *)
THEOREM SequencesFindResults == Spec => []SequenceStack
<1>1. ASSUME IInv, NEW t \in Threads, state[t].frames # <<>>,
             Last(state[t].frames).kind = "Sequence"
      PROVE  state[t].stack = Last(state[t].frames).handed
  <2>1. Topped(state[t], {"Callback", "Sequence"})
    BY <1>1 DEF Topped
  <2>2. InHost(state[t])
    BY <1>1, <2>1, AllSound, ShapeByTop
  <2>. QED
    BY <2>2 DEF InHost
<1>2. IInv => SequenceStack
  BY <1>1 DEF SequenceStack
<1>. QED
  BY Invariance, <1>2, PTL

(* No thread is twice on the stack of threads, and all but the one on top  *)
(* wait: Executor::step never finds a bad thread mode (executor.rs:177).   *)
THEOREM ThreadsChained == Spec => []ThreadChain
<1>1. IInv => ThreadChain
  BY DEF IInv
<1>. QED
  BY Invariance, <1>1, PTL

(* No coroutine that runs, waits or holds a result drops out of the        *)
(* executor, unless the host replaces the executor itself.                 *)
THEOREM NoThreadLost == Spec => []NoLostThread
<1>1. IInv => NoLostThread
  BY DEF IInv
<1>. QED
  BY Invariance, <1>1, PTL

-----------------------------------------------------------------------------
(* Who stops waiting.                                                      *)

LEMMA WaitingStep ==
  ASSUME IInv, Next, step = "running", NEW i \in DOMAIN thread_stack,
         Mode(state[thread_stack[i]]) = "Waiting",
         Mode(state'[thread_stack[i]]) # "Waiting"
  PROVE  /\ i = Len(thread_stack) - 1
         /\ Mode(state[Top]) = "Result"
         /\ (TopFrame.kind = "Error")
              <=> (Last(state'[thread_stack[i]].frames).kind = "Error")
<1>. DEFINE t == thread_stack[i]
<1>1. /\ thread_stack \in Seq(Threads) /\ i \in 1..Len(thread_stack)
      /\ Len(thread_stack) \in Nat /\ t \in Threads /\ t \in ToSet(thread_stack)
      /\ \A j, k \in 1..Len(thread_stack) :
           thread_stack[j] = thread_stack[k] => j = k
  BY LenProperties, ElementOfSeq, MembersOf DEF IInv, TypeOK, ThreadChain
<1>2. thread_stack # <<>>
  BY <1>1, LengthOfEmpty
<1>3. t # Top \/ Mode(state[Top]) = "Waiting"
  OBVIOUS
<1>4. Mode(state[t]) = "Waiting" /\ Mode(state'[t]) # "Waiting"
  OBVIOUS
<1>. HIDE DEF t
<1>5. CASE Ran
  BY <1>1, <1>3, <1>4, <1>5 DEF Ran, Changes
<1>6. CASE \E u \in Threads : Created(u)
  <2>1. PICK u \in Threads : Created(u)
    BY <1>6
  <2>2. t # Top /\ t # u
    BY <1>1, <1>3, <2>1 DEF Created, Free
  <2>. QED
    BY <1>1, <1>4, <2>1, <2>2 DEF Created, Changes
<1>7. CASE \E u \in Threads : HandedOn(u)
  <2>1. PICK u \in Threads : HandedOn(u)
    BY <1>7
  <2>2. t # Top /\ t # u
    BY <1>1, <1>3, <1>4, <2>1 DEF HandedOn
  <2>. QED
    BY <1>1, <1>4, <2>1, <2>2 DEF HandedOn, Changes
<1>8. CASE \E waiting \in Threads : Ended(waiting)
  <2>1. PICK waiting \in Threads : Ended(waiting)
    BY <1>8
  <2>2. Mode(state[Top]) = "Result"
    BY <2>1 DEF Ended
  <2>3. t # Top
    BY <1>3, <1>4, <2>2
  <2>4. t = waiting
    BY <1>1, <1>4, <2>1, <2>3 DEF Ended, Changes
  <2>5. /\ waiting = thread_stack[Len(thread_stack) - 1]
        /\ Len(thread_stack) - 1 \in 1..Len(thread_stack)
    BY <1>1, <2>1 DEF Ended
  <2>6. i = Len(thread_stack) - 1
    BY <1>1, <2>4, <2>5 DEF t
  <2>7. (TopFrame.kind = "Error") <=> (Last(state'[t].frames).kind = "Error")
    BY <2>1, <2>4 DEF Ended
  <2>. QED
    BY <2>2, <2>6, <2>7 DEF t
<1>9. CASE StepReturnsTrue
  BY <1>4, <1>9 DEF StepReturnsTrue
<1>10. CASE Step \/ (\E u \in Threads : HostSets(u)) \/ HostUpdates
  BY <1>10 DEF Step, HostSets, HostUpdates, Idle
<1>11. CASE \E u \in Threads : Collect(u)
  <2>1. PICK u \in Threads : Collect(u)
    BY <1>11
  <2>2. t # u /\ Changes({u})
    BY <1>1, <2>1, CollectKeeps DEF Collect
  <2>. QED
    BY <1>1, <1>4, <2>2 DEF Changes
<1>. QED
  BY <1>5, <1>6, <1>7, <1>8, <1>9, <1>10, <1>11, StepShapes

(* While the executor steps, only the end of the thread resumed last, or   *)
(* of one it yielded to, wakes a waiting thread, and it is given an error  *)
(* exactly when that thread failed.                                        *)
THEOREM ResultsGoToResumer == Spec => ResultGoesToResumer
<1>. DEFINE Wakes(i) ==
       LET t == thread_stack[i]
       IN  /\ step = "running"
           /\ Mode(state[t]) = "Waiting" /\ Mode(state'[t]) # "Waiting"
           => /\ i = Len(thread_stack) - 1
              /\ Mode(state[Top]) = "Result"
              /\ (TopFrame.kind = "Error")
                   <=> (Last(state'[t].frames).kind = "Error")
<1>1. IInv /\ [Next]_vars => [\A i \in DOMAIN thread_stack : Wakes(i)]_vars
  BY WaitingStep DEF vars
<1>. QED
  BY Invariance, <1>1, PTL DEF Spec, ResultGoesToResumer

-----------------------------------------------------------------------------
(* The executor as the session sees it.                                    *)

ResultModes == {"Returned", "Errored", "Yielded"}

(* abstractExecutor and abstractDepth, of a given state.                   *)
ExecutorSeen(stack, threads) ==
    IF stack = <<>> THEN "None"
    ELSE IF Len(stack) > 1 THEN "Normal" ELSE ModeSeen(threads[Head(stack)])

DepthSeen(stack, threads) ==
    IF Len(stack) < 2 THEN 0
    ELSE Len(stack) - (IF Mode(threads[Last(stack)]) = "Result" THEN 2 ELSE 1)

LEMMA AbstractSeen ==
  /\ abstractExecutor = ExecutorSeen(thread_stack, state)
  /\ abstractDepth = DepthSeen(thread_stack, state)
  BY Zenon DEF abstractExecutor, abstractDepth, ExecutorSeen, DepthSeen, Main, Top

LEMMA AbstractSeenNext ==
  /\ abstractExecutor' = ExecutorSeen(thread_stack', state')
  /\ abstractDepth' = DepthSeen(thread_stack', state')
  BY Zenon DEF abstractExecutor, abstractDepth, ExecutorSeen, DepthSeen, Main, Top

LEMMA ModesSeen ==
  ASSUME NEW ts \in ThreadState
  PROVE  /\ Mode(ts) # "Result" => ModeSeen(ts) = Mode(ts)
         /\ Mode(ts) = "Result" => ModeSeen(ts) \in ResultModes
         /\ ModeSeen(ts) = "Normal" => Mode(ts) = "Normal"
         /\ Mode(ts) # "Waiting" =>
              ModeSeen(ts) \in ResultModes \cup {"Normal", "Suspended", "Stopped"}
         /\ ModeSeen(ts) # "None"
  BY TopByMode DEF ModeSeen, ResultModes

(* A stack of one thread, and one of more.                                 *)
LEMMA SeenOne ==
  ASSUME NEW stack \in Seq(Threads), Len(stack) = 1, NEW threads
  PROVE  /\ stack # <<>> /\ Head(stack) = stack[1] /\ Last(stack) = stack[1]
         /\ ExecutorSeen(stack, threads) = ModeSeen(threads[stack[1]])
         /\ DepthSeen(stack, threads) = 0
<1>1. stack # <<>> /\ Head(stack) = stack[1] /\ Last(stack) = stack[1]
  <2>1. stack # <<>>
    BY LengthOfEmpty
  <2>2. Last(stack) = stack[Len(stack)]
    BY <2>1, FrontAndLast
  <2>3. Head(stack) = stack[1]
    BY <2>1
  <2>. QED
    BY <2>1, <2>2, <2>3, Zenon
<1>. QED
  BY <1>1 DEF ExecutorSeen, DepthSeen

LEMMA SeenMore ==
  ASSUME NEW stack \in Seq(Threads), Len(stack) > 1, NEW threads
  PROVE  /\ ExecutorSeen(stack, threads) = "Normal"
         /\ Mode(threads[Last(stack)]) = "Result" =>
              DepthSeen(stack, threads) = Len(stack) - 2
         /\ Mode(threads[Last(stack)]) # "Result" =>
              DepthSeen(stack, threads) = Len(stack) - 1
<1>1. Len(stack) \in Nat /\ stack # <<>>
  BY LengthOfEmpty
<1>. QED
  BY <1>1 DEF ExecutorSeen, DepthSeen

LEMMA OneOrMore ==
  ASSUME NEW n \in Nat \ {0}
  PROVE  (n = 1 \/ n > 1) /\ ~(n = 1 /\ n > 1)
  OBVIOUS

(* The same thread runs on, whatever the others do.                        *)
LEMMA RunsOn ==
  ASSUME IInv, thread_stack # <<>>, thread_stack' = thread_stack,
         Mode(state[Top]) = "Normal", step = "running", EndIteration,
         state' \in [Threads -> ThreadState],
         Mode(state'[Top]) \in {"Normal", "Result"}
  PROVE  Contract!Iterate
<1>1. /\ thread_stack \in Seq(Threads) /\ Top \in Threads
      /\ Len(thread_stack) \in Nat \ {0} /\ Top = Last(thread_stack)
      /\ state[Top] \in ThreadState /\ state'[Top] \in ThreadState
  BY TopThread DEF Top, Sound
<1>2. step' \in {"running", "false"}
  BY DEF EndIteration
<1>3. CASE Len(thread_stack) = 1
  <2>1. Top = thread_stack[1]
    BY <1>1, <1>3, SeenOne
  <2>2. abstractExecutor = "Normal" /\ abstractDepth = 0
    BY <1>1, <1>3, <2>1, SeenOne, ModesSeen, AbstractSeen
  <2>3. abstractExecutor' \in ResultModes \cup {"Normal"} /\ abstractDepth' = 0
    BY <1>1, <1>3, <2>1, SeenOne, ModesSeen, AbstractSeenNext
  <2>. QED
    BY <1>2, <2>2, <2>3 DEF Contract!Iterate, Contract!ResultModes, ResultModes
<1>4. CASE Len(thread_stack) > 1
  <2>1. abstractExecutor = "Normal" /\ abstractDepth = Len(thread_stack) - 1
    BY <1>1, <1>4, SeenMore, AbstractSeen
  <2>2. /\ abstractExecutor' = "Normal"
        /\ abstractDepth' \in {Len(thread_stack) - 1, Len(thread_stack) - 2}
    BY <1>1, <1>4, SeenMore, AbstractSeenNext
  <2>. DEFINE n == Len(thread_stack)
  <2>3. n \in Nat /\ n > 1
    BY <1>1, <1>4
  <2>. HIDE DEF n
  <2>4. n - 1 \in Nat /\ n - 2 \in Nat /\ n - 2 = (n - 1) - 1
    BY <2>3
  <2>. QED
    BY <1>2, <2>1, <2>2, <2>4 DEF Contract!Iterate, n
<1>. QED
  BY <1>1, <1>3, <1>4, OneOrMore

(* Control goes to another thread, above this one or in its place.         *)
LEMMA HandsOn ==
  ASSUME IInv, NEW u \in Threads, HandedOn(u)
  PROVE  Contract!Iterate
<1>1. /\ thread_stack \in Seq(Threads) /\ Len(thread_stack) \in Nat \ {0}
      /\ Top \in Threads /\ Top = Last(thread_stack) /\ thread_stack # <<>>
      /\ state[Top] \in ThreadState /\ Mode(state[Top]) = "Normal"
  BY TopThread DEF Top, Sound, HandedOn, IInv
<1>2. /\ step = "running" /\ step' \in {"running", "false"}
      /\ state'[u] \in ThreadState /\ Mode(state'[u]) \in {"Normal", "Result"}
  BY DEF HandedOn, EndIteration, Changes
<1>. DEFINE n == Len(thread_stack)
<1>3. n \in Nat \ {0}
  BY <1>1
<1>4. /\ Front(thread_stack) \in Seq(Threads) /\ Len(Front(thread_stack)) = n - 1
  BY <1>1, FrontAndLast
<1>5. abstractExecutor = "Normal" /\ abstractDepth = n - 1
  <2>1. CASE n = 1
    BY <1>1, <2>1, SeenOne, ModesSeen, AbstractSeen
  <2>2. CASE n > 1
    BY <1>1, <2>2, SeenMore, AbstractSeen
  <2>. QED
    BY <1>3, <2>1, <2>2, OneOrMore
<1>6. CASE thread_stack' = Append(thread_stack, u)
  <2>1. /\ thread_stack' \in Seq(Threads) /\ Len(thread_stack') = n + 1
        /\ Last(thread_stack') = u
    BY <1>1, <1>6, AppendedSeq
  <2>2. Len(thread_stack') > 1
    BY <1>3, <2>1
  <2>3. abstractExecutor' = "Normal" /\ abstractDepth' \in {n, n - 1}
    <3>1. (n + 1) - 2 = n - 1 /\ (n + 1) - 1 = n
      BY <1>3
    <3>. QED
      BY <1>2, <2>1, <2>2, <3>1, SeenMore, AbstractSeenNext
  <2>. HIDE DEF n
  <2>4. n - 1 \in Nat /\ n \in Nat /\ n = (n - 1) + 1
    BY <1>3
  <2>. QED
    BY <1>2, <1>5, <2>3, <2>4 DEF Contract!Iterate
<1>7. CASE thread_stack' = Append(Front(thread_stack), u)
  <2>1. /\ thread_stack' \in Seq(Threads) /\ Len(thread_stack') = (n - 1) + 1
        /\ Last(thread_stack') = u
    BY <1>4, <1>7, AppendedSeq
  <2>2. Len(thread_stack') = n
    BY <1>3, <2>1
  <2>3. CASE n = 1
    <3>1. thread_stack'[1] = u
      BY <2>1, <2>2, <2>3, SeenOne
    <3>2. abstractExecutor' \in ResultModes \cup {"Normal"} /\ abstractDepth' = 0
      BY <1>2, <2>1, <2>2, <2>3, <3>1, SeenOne, ModesSeen, AbstractSeenNext
    <3>3. abstractDepth = 0
      BY <1>5, <2>3
    <3>. QED
      BY <1>2, <1>5, <3>2, <3>3
      DEF Contract!Iterate, Contract!ResultModes, ResultModes
  <2>4. CASE n > 1
    <3>1. abstractExecutor' = "Normal" /\ abstractDepth' \in {n - 1, n - 2}
      BY <2>1, <2>2, <2>4, SeenMore, AbstractSeenNext
    <3>. HIDE DEF n
    <3>2. n - 1 \in Nat /\ n - 2 \in Nat /\ n - 2 = (n - 1) - 1
      BY <1>3, <2>4
    <3>. QED
      BY <1>2, <1>5, <3>1, <3>2 DEF Contract!Iterate
  <2>. QED
    BY <1>3, <2>3, <2>4, OneOrMore
<1>. QED
  BY <1>6, <1>7 DEF HandedOn

(* The end of a coroutine was counted when it got its result.              *)
LEMMA EndsUnseen ==
  ASSUME IInv, NEW waiting \in Threads, Ended(waiting)
  PROVE  UNCHANGED Contract!vars
<1>1. /\ thread_stack \in Seq(Threads) /\ thread_stack # <<>>
      /\ Len(thread_stack) \in Nat \ {0} /\ Top = Last(thread_stack)
      /\ Mode(state[Top]) = "Result" /\ Len(thread_stack) > 1
  BY TopThread, LengthOfEmpty DEF Top, Ended, IInv
<1>2. /\ thread_stack' = Front(thread_stack) /\ waiting = Last(Front(thread_stack))
      /\ Mode(state'[waiting]) = "Normal" /\ step' = step
      /\ state'[waiting] \in ThreadState
  BY DEF Ended, Changes
<1>. DEFINE n == Len(thread_stack)
<1>3. /\ thread_stack' \in Seq(Threads) /\ Len(thread_stack') = n - 1
      /\ Last(thread_stack') = waiting /\ n \in Nat /\ n > 1
  BY <1>1, <1>2, FrontAndLast
<1>4. abstractExecutor = "Normal" /\ abstractDepth = n - 2
  BY <1>1, SeenMore, AbstractSeen
<1>5. CASE n = 2
  <2>1. Len(thread_stack') = 1
    BY <1>3, <1>5
  <2>2. abstractExecutor' = "Normal" /\ abstractDepth' = 0
    BY <1>2, <1>3, <2>1, SeenOne, ModesSeen, AbstractSeenNext
  <2>. QED
    BY <1>2, <1>4, <1>5, <2>2 DEF Contract!vars
<1>6. CASE n > 2
  <2>1. Len(thread_stack') > 1 /\ (n - 1) - 1 = n - 2
    BY <1>3, <1>6
  <2>2. abstractExecutor' = "Normal" /\ abstractDepth' = n - 2
    BY <1>2, <1>3, <2>1, SeenMore, AbstractSeenNext
  <2>. QED
    BY <1>2, <1>4, <2>2 DEF Contract!vars
<1>. QED
  BY <1>3, <1>5, <1>6

LEMMA OneThread ==
  ASSUME IInv, Len(thread_stack) = 1
  PROVE  /\ Main \in Threads /\ Sound(state[Main]) /\ Main = thread_stack[1]
         /\ thread_stack \in Seq(Threads) /\ thread_stack # <<>>
         /\ abstractExecutor = ModeSeen(state[Main]) /\ abstractDepth = 0
<1>1. thread_stack \in Seq(Threads) /\ thread_stack # <<>>
  <2>1. thread_stack \in Seq(Threads)
    BY DEF IInv, TypeOK
  <2>. QED
    BY <2>1, SeenOne
<1>2. Main \in Threads /\ Sound(state[Main]) /\ Main = thread_stack[1]
  BY <1>1, TopThread
<1>. QED
  BY <1>1, <1>2, SeenOne, AbstractSeen

(* The host changes its main thread to ts.                                 *)
LEMMA OneThreadNext ==
  ASSUME IInv, Len(thread_stack) = 1, thread_stack' = thread_stack, NEW ts,
         state' = [state EXCEPT ![Main] = ts]
  PROVE  abstractExecutor' = ModeSeen(ts) /\ abstractDepth' = 0
<1>1. /\ Main \in Threads /\ Main = thread_stack[1]
      /\ thread_stack \in Seq(Threads)
  BY OneThread
<1>2. state'[Main] = ts
  BY <1>1 DEF IInv, TypeOK
<1>. QED
  BY <1>1, <1>2, SeenOne, AbstractSeenNext

LEMMA IdleCalls ==
  ASSUME Idle
  PROVE  Contract!HostCalls
  BY DEF Idle, Contract!HostCalls

LEMMA TakesResultSeen ==
  ASSUME IInv, HostTakesResult
  PROVE  Contract!TakeResult
<1>. DEFINE ts == state[Main]
            new == TakeResultOf(ts)
<1>1. /\ Idle /\ Len(thread_stack) = 1 /\ thread_stack' = thread_stack
      /\ Mode(ts) = "Result" /\ state' = [state EXCEPT ![Main] = new]
  BY DEF HostTakesResult
<1>2. /\ Sound(ts) /\ ts \in ThreadState
      /\ abstractExecutor = ModeSeen(ts) /\ abstractDepth = 0
  BY <1>1, OneThread DEF Sound
<1>3. abstractExecutor' = ModeSeen(new) /\ abstractDepth' = 0
  BY <1>1, OneThreadNext
<1>4. HoldsResult(ts)
  BY <1>1, <1>2, ResultByMode
<1>5. /\ Sound(new) /\ new \in ThreadState
      /\ Mode(new) = IF Len(ts.frames) = 1 THEN "Stopped" ELSE "Suspended"
  BY <1>2, <1>4, TakenMode DEF Sound
<1>6. Len(ts.frames) \in Nat \ {0}
  BY <1>2, <1>4, ThreadTypes, FrontAndLast DEF HoldsResult, Topped
<1>. HIDE DEF ts, new
<1>7. CASE Len(ts.frames) = 1
  <2>1. ModeSeen(ts) \in {"Returned", "Errored"}
    BY <1>1, <1>7 DEF ModeSeen
  <2>2. ModeSeen(new) = "Stopped"
    BY <1>5, <1>7 DEF ModeSeen
  <2>. QED
    BY <1>1, <1>2, <1>3, <2>1, <2>2, IdleCalls DEF Contract!TakeResult
<1>8. CASE Len(ts.frames) > 1
  <2>1. Len(ts.frames) # 1
    BY <1>6, <1>8, OneOrMore
  <2>2. Last(ts.frames).kind # "Error"
    BY <1>4, <2>1 DEF HoldsResult, Topped
  <2>3. ModeSeen(ts) = "Yielded"
    BY <1>1, <1>8, <2>2 DEF ModeSeen
  <2>4. ModeSeen(new) = "Suspended"
    BY <1>5, <2>1 DEF ModeSeen
  <2>. QED
    BY <1>1, <1>2, <1>3, <2>3, <2>4, IdleCalls DEF Contract!TakeResult
<1>. QED
  BY <1>6, <1>7, <1>8, OneOrMore

LEMMA ResumesSeen ==
  ASSUME IInv, NEW n \in 0..MaxValues, NEW function \in Functions,
         Resume(n, function)
  PROVE  Contract!Resume
<1>. DEFINE ts == state[Main]
            new == Resumed(ts, n, function)
<1>1. /\ Idle /\ Len(thread_stack) = 1 /\ thread_stack' = thread_stack
      /\ Mode(ts) = "Suspended" /\ state' = [state EXCEPT ![Main] = new]
  BY DEF Resume, HostSuspended
<1>2. /\ Sound(ts) /\ ts \in ThreadState
      /\ abstractExecutor = ModeSeen(ts) /\ abstractDepth = 0
  BY <1>1, OneThread DEF Sound
<1>3. abstractExecutor' = ModeSeen(new) /\ abstractDepth' = 0
  BY <1>1, OneThreadNext
<1>4. n \in Nat /\ Topped(ts, {"Start", "Yielded"})
  BY <1>1, <1>2, TopByMode, ConstantsAssumption
<1>5. /\ Sound(new)
      /\ \/ Topped(new, {"Lua", "Callback", "Sequence"})
         \/ Topped(new, {"Result"}) /\ Len(new.frames) = 1
  BY <1>2, <1>4, ResumedSound
<1>6. new \in ThreadState
  BY <1>5 DEF Sound
<1>. HIDE DEF ts, new
<1>7. ModeSeen(ts) = "Suspended"
  BY <1>1 DEF ModeSeen
<1>8. ModeSeen(new) \in {"Normal", "Returned"}
  <2>1. CASE Topped(new, {"Lua", "Callback", "Sequence"})
    BY <1>6, <2>1, ModeByTop DEF ModeSeen
  <2>2. CASE Topped(new, {"Result"}) /\ Len(new.frames) = 1
    BY <1>6, <2>2, ModeByTop DEF ModeSeen, Topped
  <2>. QED
    BY <1>5, <2>1, <2>2
<1>. QED
  BY <1>1, <1>2, <1>3, <1>7, <1>8, IdleCalls DEF Contract!Resume

LEMMA ResumesErrSeen ==
  ASSUME IInv, ResumeErr
  PROVE  Contract!Resume
<1>. DEFINE ts == state[Main]
            new == Push(Pop(ts), Frame("Error", 0))
<1>1. /\ Idle /\ Len(thread_stack) = 1 /\ thread_stack' = thread_stack
      /\ Mode(ts) = "Suspended" /\ state' = [state EXCEPT ![Main] = new]
  BY DEF ResumeErr, HostSuspended
<1>2. /\ ts \in ThreadState
      /\ abstractExecutor = ModeSeen(ts) /\ abstractDepth = 0
  BY <1>1, OneThread DEF Sound
<1>3. abstractExecutor' = ModeSeen(new) /\ abstractDepth' = 0
  BY <1>1, OneThreadNext
<1>4. ts.frames # <<>>
  BY <1>1, <1>2, TopByMode DEF Topped
<1>5. new \in ThreadState /\ Topped(new, {"Error"})
  <2>. DEFINE under == Pop(ts)
              f == Frame("Error", 0)
  <2>1. under \in ThreadState
    BY <1>2, <1>4, PopFields
  <2>2. "Error" \in FrameKinds
    BY DEF FrameKinds
  <2>3. f \in FrameSet /\ f.kind = "Error"
    BY <2>2, FrameFields
  <2>. HIDE DEF under, f
  <2>4. /\ Push(under, f) \in ThreadState
        /\ Push(under, f).frames # <<>> /\ Last(Push(under, f).frames) = f
    BY <2>1, <2>3, PushFields
  <2>5. Push(under, f) \in ThreadState /\ Topped(Push(under, f), {"Error"})
    BY <2>3, <2>4 DEF Topped
  <2>. QED
    BY <2>5 DEF under, f
<1>. HIDE DEF ts, new
<1>6. ModeSeen(ts) = "Suspended"
  BY <1>1 DEF ModeSeen
<1>7. ModeSeen(new) \in {"Normal", "Errored"}
  BY <1>5, ModeByTop DEF ModeSeen, Topped
<1>. QED
  BY <1>1, <1>2, <1>3, <1>6, <1>7, IdleCalls DEF Contract!Resume

(* Start, restart, run and stop: the executor drives one thread.           *)
LEMMA SetsSeen ==
  ASSUME IInv, NEW t \in Threads, HostSets(t)
  PROVE  Contract!Run
<1>1. /\ Idle /\ Mode(state'[t]) # "Waiting" /\ thread_stack' = <<t>>
      /\ state'[t] \in ThreadState
  BY DEF HostSets, Changes
<1>2. <<t>> \in Seq(Threads) /\ Len(<<t>>) = 1 /\ <<t>>[1] = t
  BY MembersOfOne
<1>3. abstractExecutor' = ModeSeen(state'[t]) /\ abstractDepth' = 0
  BY <1>1, <1>2, SeenOne, AbstractSeenNext
<1>4. ModeSeen(state'[t]) \in ResultModes \cup {"Normal", "Suspended", "Stopped"}
  BY <1>1, ModesSeen
<1>. QED
  BY <1>1, <1>3, <1>4, IdleCalls
  DEF Contract!Run, Contract!ResultModes, ResultModes

(* The executor, and the modes of its threads, stay as they are.           *)
LEMMA StillSeen ==
  ASSUME thread_stack' = thread_stack, state' = state
  PROVE  abstractExecutor' = abstractExecutor /\ abstractDepth' = abstractDepth
  BY AbstractSeen, AbstractSeenNext

LEMMA StepSeen ==
  ASSUME IInv, Step
  PROVE  Contract!Step
<1>1. /\ step # "running" /\ thread_stack # <<>> /\ step' = "running"
      /\ thread_stack' = thread_stack /\ state' = state
  BY DEF Step
<1>2. abstractExecutor # "None"
  <2>1. /\ thread_stack \in Seq(Threads) /\ Len(thread_stack) \in Nat \ {0}
        /\ Sound(state[Main]) /\ Main = thread_stack[1]
    BY <1>1, TopThread
  <2>2. CASE Len(thread_stack) = 1
    BY <2>1, <2>2, OneThread, ModesSeen DEF Sound
  <2>3. CASE Len(thread_stack) > 1
    BY <2>1, <2>3, SeenMore, AbstractSeen
  <2>. QED
    BY <2>1, <2>2, <2>3, OneOrMore
<1>. QED
  BY <1>1, <1>2, StillSeen DEF Contract!Step, Contract!HostCalls

LEMMA ReturnsTrueSeen ==
  ASSUME IInv, StepReturnsTrue
  PROVE  Contract!ReturnTrue
<1>1. /\ step = "running" /\ step' = "true" /\ Len(thread_stack) = 1
      /\ Mode(state[Top]) \in {"Stopped", "Suspended", "Result"}
      /\ thread_stack' = thread_stack /\ state' = state
  BY DEF StepReturnsTrue
<1>2. /\ thread_stack \in Seq(Threads) /\ thread_stack # <<>>
      /\ Sound(state[Main]) /\ Main = thread_stack[1]
      /\ abstractExecutor = ModeSeen(state[Main])
  BY <1>1, OneThread
<1>3. Top = Main
  BY <1>1, <1>2, SeenOne DEF Top
<1>4. abstractExecutor # "Normal"
  BY <1>1, <1>2, <1>3, ModesSeen DEF Sound
<1>. QED
  BY <1>1, <1>4, StillSeen DEF Contract!ReturnTrue

(* Collecting a thread the executor does not drive is not seen.            *)
LEMMA CollectUnseen ==
  ASSUME IInv, NEW t \in Threads, Collect(t)
  PROVE  UNCHANGED Contract!vars
<1>1. /\ thread_stack' = thread_stack /\ step' = step
      /\ t \notin ToSet(thread_stack) /\ thread_stack \in Seq(Threads)
      /\ Changes({t})
  BY CollectKeeps DEF Collect, IInv, TypeOK
<1>2. CASE thread_stack = <<>>
  <2>1. Len(thread_stack) < 2
    BY <1>1, <1>2, LengthOfEmpty
  <2>. QED
    BY <1>1, <1>2, <2>1, AbstractSeen, AbstractSeenNext
    DEF ExecutorSeen, DepthSeen, Contract!vars
<1>3. CASE thread_stack # <<>>
  <2>1. /\ Top \in Threads /\ Top = thread_stack[Len(thread_stack)]
        /\ Main \in Threads /\ Main = thread_stack[1]
        /\ Len(thread_stack) \in Nat \ {0}
    BY <1>3, TopThread
  <2>2. Top \in ToSet(thread_stack) /\ Main \in ToSet(thread_stack)
    <3>. DEFINE n == Len(thread_stack)
    <3>1. n \in Nat \ {0}
      BY <2>1
    <3>. HIDE DEF n
    <3>2. n \in 1..n /\ 1 \in 1..n
      BY <3>1
    <3>. QED
      BY <1>1, <2>1, <3>2, MembersOf DEF n
  <2>3. state'[Top] = state[Top] /\ state'[Main] = state[Main]
    BY <1>1, <2>1, <2>2 DEF Changes
  <2>4. Top = Last(thread_stack) /\ Main = Head(thread_stack)
    BY DEF Top, Main
  <2>5. ExecutorSeen(thread_stack, state') = ExecutorSeen(thread_stack, state)
    BY <2>3, <2>4, Zenon DEF ExecutorSeen
  <2>6. DepthSeen(thread_stack, state') = DepthSeen(thread_stack, state)
    BY <2>3, <2>4, Zenon DEF DepthSeen
  <2>. QED
    BY <1>1, <2>5, <2>6, AbstractSeen, AbstractSeenNext DEF Contract!vars
<1>. QED
  BY <1>2, <1>3

LEMMA ContractInit == Init => Contract!Init
<1>. SUFFICES ASSUME Init
              PROVE  Contract!Init
  OBVIOUS
<1>1. thread_stack = <<>> /\ step = "idle" /\ Len(<<>>) = 0
  BY DEF Init
<1>. QED
  BY <1>1 DEF Contract!Init, abstractExecutor, abstractDepth

LEMMA ContractStep == IInv /\ [Next]_vars => [Contract!Next]_(Contract!vars)
<1>. SUFFICES ASSUME IInv, [Next]_vars
              PROVE  Contract!Next \/ UNCHANGED Contract!vars
  OBVIOUS
<1>1. CASE Ran
  <2>1. /\ thread_stack # <<>> /\ step = "running" /\ EndIteration
        /\ thread_stack' = thread_stack /\ Mode(state[Top]) = "Normal"
        /\ state' \in [Threads -> ThreadState]
        /\ Mode(state'[Top]) \in {"Normal", "Result"}
    BY <1>1 DEF Ran, Changes, IInv
  <2>. QED
    BY <2>1, RunsOn DEF Contract!Next
<1>2. CASE \E u \in Threads : Created(u)
  <2>1. /\ thread_stack # <<>> /\ step = "running" /\ EndIteration
        /\ thread_stack' = thread_stack /\ Mode(state[Top]) = "Normal"
        /\ state' \in [Threads -> ThreadState]
        /\ Mode(state'[Top]) \in {"Normal", "Result"}
    BY <1>2 DEF Created, Changes, IInv
  <2>. QED
    BY <2>1, RunsOn DEF Contract!Next
<1>3. CASE \E u \in Threads : HandedOn(u)
  BY <1>3, HandsOn DEF Contract!Next
<1>4. CASE \E waiting \in Threads : Ended(waiting)
  BY <1>4, EndsUnseen
<1>5. CASE StepReturnsTrue
  BY <1>5, ReturnsTrueSeen DEF Contract!Next
<1>6. CASE Step
  BY <1>6, StepSeen DEF Contract!Next
<1>7. CASE \E t \in Threads : HostSets(t)
  BY <1>7, SetsSeen DEF Contract!Next
<1>8. CASE Updating
  BY <1>8, TakesResultSeen, ResumesSeen, ResumesErrSeen
  DEF Updating, Contract!Next
<1>9. CASE \E t \in Threads : Collect(t)
  BY <1>9, CollectUnseen
<1>10. CASE UNCHANGED vars
  BY <1>10, StillSeen DEF vars, Contract!vars
<1>. QED
  BY <1>1, <1>2, <1>3, <1>4, <1>5, <1>6, <1>7, <1>8, <1>9, <1>10, StepShapes

(* Threads, frames, yields and unwinding implement the executor the        *)
(* session drives: its mode, how deep coroutines nest, and what step       *)
(* returns.                                                                *)
THEOREM ExecutorImplementsContract == Spec => ImplementsContract
<1>1. Spec => Contract!Init /\ [][Contract!Next]_(Contract!vars)
  BY ContractInit, ContractStep, Invariance, PTL DEF Spec
<1>. QED
  BY <1>1 DEF ImplementsContract, Contract!Spec

=============================================================================
