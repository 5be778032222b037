---- MODULE OpfsFilesProofs ----
(* Theorems about OpfsFiles, for any tree, sessions and requests. *)
EXTENDS OpfsFiles, SequenceTheorems, TLAPS

(* ---- What a move calls, counted from its end ---- *)

(* How many directories lie above p. *)
Depth(p) == IF Len(p) = 0 THEN 0 ELSE Len(p) - 1

Moves == {"enter", "open", "load", "make", "create", "replace", "fill", "commit", "remove"}
CallsOn(names) == [do : Moves, path : Seq(names)]

LEMMA AlongIs ==
    ASSUME NEW names, NEW p \in Seq(names), NEW do \in Moves
    PROVE  /\ Along(do, p, Len(p) - 1) \in Seq(CallsOn(names))
           /\ Len(Along(do, p, Len(p) - 1)) = Depth(p)
           /\ \A i \in 1..Depth(p) : Along(do, p, Len(p) - 1)[i] = Call(do, SubSeq(p, 1, i))
<1>1. Len(p) \in Nat /\ Depth(p) \in Nat /\ 1..Len(p) - 1 = 1..Depth(p)
  BY DEF Depth
<1>2. \A i \in 1..Depth(p) : SubSeq(p, 1, i) \in Seq(names)
  BY DEF Depth
<1>3. \A i \in 1..Depth(p) : Call(do, SubSeq(p, 1, i)) \in CallsOn(names)
  BY <1>2 DEF Call, CallsOn
<1>4. Along(do, p, Len(p) - 1) = [i \in 1..Depth(p) |-> Call(do, SubSeq(p, 1, i))]
  BY <1>1 DEF Along
<1> DEFINE s == Along(do, p, Len(p) - 1)
<1>5. s \in [1..Depth(p) -> CallsOn(names)]
  BY <1>3, <1>4
<1>6. s \in Seq(CallsOn(names)) /\ Len(s) = Depth(p)
  <2> HIDE DEF s
  <2> QED BY <1>1, <1>5
<1> QED
  BY <1>4, <1>6

(* The call of a move of `from' to `to' that has m - 1 calls after it. *)
CallOfMove(from, to, m, c) ==
    LET a == Depth(from) b == Depth(to)
    IN  /\ m = 1 => c = Call("remove", from)
        /\ m \in 2..a + 1 => c.do = "enter"
        /\ m = a + 2 => c = Call("commit", to)
        /\ m = a + 3 => c = Call("fill", to)
        /\ m = a + 4 => c = Call("replace", to)
        /\ m = a + 5 => c = Call("create", to)
        /\ m \in a + 6..a + b + 5 => c = Call("make", SubSeq(to, 1, a + b + 6 - m))
        /\ m = a + b + 6 => c = Call("load", from)
        /\ m = a + b + 7 => c = Call("open", from)
        /\ m \in a + b + 8..2 * a + b + 7 => c.do = "enter"

Lasts(from, to, todo) == \A i \in 1..Len(todo) : CallOfMove(from, to, Len(todo) - i + 1, todo[i])

LEMMA Joined ==
    ASSUME NEW S, NEW s \in Seq(S), NEW t \in Seq(S)
    PROVE  /\ s \o t \in Seq(S) /\ Len(s \o t) = Len(s) + Len(t)
           /\ \A i \in 1..Len(s) : (s \o t)[i] = s[i]
           /\ \A i \in 1..Len(t) : (s \o t)[Len(s) + i] = t[i]
<1>1. /\ s \o t \in Seq(S) /\ Len(s \o t) = Len(s) + Len(t)
      /\ \A i \in 1..Len(s) + Len(t) : (s \o t)[i] = IF i <= Len(s) THEN s[i] ELSE t[i - Len(s)]
  BY ConcatProperties
<1> QED
  BY <1>1

LEMMA Lengthened ==
    ASSUME NEW S, NEW s \in Seq(S), NEW e \in S, NEW m \in Nat, Len(s) = m
    PROVE  /\ s \o <<e>> \in Seq(S) /\ Len(s \o <<e>>) = m + 1
           /\ \A i \in 1..m : (s \o <<e>>)[i] = s[i]
           /\ (s \o <<e>>)[m + 1] = e
<1>1. <<e>> \in Seq(S) /\ Len(<<e>>) = 1 /\ <<e>>[1] = e
  OBVIOUS
<1> QED
  BY <1>1, ConcatProperties

LEMMA CallsAreCalls ==
    ASSUME NEW names, NEW p \in Seq(names)
    PROVE  \A do \in Moves : Call(do, p) \in CallsOn(names)
  BY DEF Call, CallsOn

LEMMA ReadIs ==
    ASSUME NEW names, NEW p \in Seq(names)
    PROVE  /\ Read(p) \in Seq(CallsOn(names)) /\ Len(Read(p)) = Depth(p) + 2
           /\ \A i \in 1..Depth(p) : Read(p)[i].do = "enter"
           /\ Read(p)[Depth(p) + 1] = Call("open", p)
           /\ Read(p)[Depth(p) + 2] = Call("load", p)
<1> DEFINE S == CallsOn(names) n == Depth(p) s == ResolveParent(p)
<1>1. n \in Nat
  BY DEF Depth
<1>2. /\ s \in Seq(S) /\ Len(s) = n
      /\ \A i \in 1..n : s[i] = Call("enter", SubSeq(p, 1, i))
  <2>1. "enter" \in Moves
    BY DEF Moves
  <2> QED
    BY <2>1, AlongIs, Zenon DEF ResolveParent
<1>3. Call("open", p) \in S /\ Call("load", p) \in S
  BY CallsAreCalls DEF Moves
<1>4. \A i \in 1..n : s[i].do = "enter"
  BY <1>2 DEF Call
<1>5. Read(p) = (s \o <<Call("open", p)>>) \o <<Call("load", p)>>
  BY DEF Read, ResolveFile
<1> HIDE DEF S, n, s
<1> DEFINE t == s \o <<Call("open", p)>>
<1>6. t \in Seq(S) /\ Len(t) = n + 1 /\ (\A i \in 1..n : t[i] = s[i]) /\ t[n + 1] = Call("open", p)
  BY <1>1, <1>2, <1>3, Lengthened
<1> HIDE DEF t
<1> DEFINE u == t \o <<Call("load", p)>>
<1>7. u \in Seq(S) /\ Len(u) = n + 1 + 1 /\ (\A i \in 1..n + 1 : u[i] = t[i]) /\ u[n + 1 + 1] = Call("load", p)
  BY <1>1, <1>3, <1>6, Lengthened
<1>8. Read(p) = u
  BY <1>5 DEF t
<1> HIDE DEF u
<1> QED
  BY <1>1, <1>4, <1>6, <1>7, <1>8 DEF S, n

LEMMA WriteIs ==
    ASSUME NEW names, NEW p \in Seq(names)
    PROVE  /\ Write(p) \in Seq(CallsOn(names)) /\ Len(Write(p)) = Depth(p) + 4
           /\ \A i \in 1..Depth(p) : Write(p)[i] = Call("make", SubSeq(p, 1, i))
           /\ Write(p)[Depth(p) + 1] = Call("create", p)
           /\ Write(p)[Depth(p) + 2] = Call("replace", p)
           /\ Write(p)[Depth(p) + 3] = Call("fill", p)
           /\ Write(p)[Depth(p) + 4] = Call("commit", p)
<1> DEFINE S == CallsOn(names) n == Depth(p) s == Along("make", p, Len(p) - 1) w == WriteToHandle(p, "replace")
<1>1. n \in Nat
  BY DEF Depth
<1>2. /\ s \in Seq(S) /\ Len(s) = n
      /\ \A i \in 1..n : s[i] = Call("make", SubSeq(p, 1, i))
  <2>1. "make" \in Moves
    BY DEF Moves
  <2> QED
    BY <2>1, AlongIs, Zenon
<1>3. Call("create", p) \in S /\ Call("replace", p) \in S /\ Call("fill", p) \in S /\ Call("commit", p) \in S
  BY CallsAreCalls DEF Moves
<1>4. w = <<Call("replace", p), Call("fill", p), Call("commit", p)>>
  BY DEF WriteToHandle
<1>5. Write(p) = (s \o <<Call("create", p)>>) \o w
  BY DEF Write, ResolveFileCreate
<1> HIDE DEF S, n, s, w
<1>6. /\ w \in Seq(S) /\ Len(w) = 3
      /\ w[1] = Call("replace", p) /\ w[2] = Call("fill", p) /\ w[3] = Call("commit", p)
  BY <1>3, <1>4
<1> DEFINE t == s \o <<Call("create", p)>>
<1>7. t \in Seq(S) /\ Len(t) = n + 1 /\ (\A i \in 1..n : t[i] = s[i]) /\ t[n + 1] = Call("create", p)
  BY <1>1, <1>2, <1>3, Lengthened
<1> HIDE DEF t
<1> DEFINE u == t \o w
<1>8. /\ u \in Seq(S) /\ Len(u) = n + 1 + 3
      /\ \A i \in 1..n + 1 : u[i] = t[i]
      /\ \A i \in 1..3 : u[n + 1 + i] = w[i]
  <2>1. t \in Seq(S) /\ w \in Seq(S)
    BY <1>6, <1>7
  <2>2. /\ u \in Seq(S) /\ Len(u) = Len(t) + Len(w)
        /\ \A i \in 1..Len(t) : u[i] = t[i]
        /\ \A i \in 1..Len(w) : u[Len(t) + i] = w[i]
    BY <2>1, Joined
  <2> HIDE DEF u
  <2> QED
    BY <1>1, <1>6, <1>7, <2>2
<1>9. Write(p) = u
  BY <1>5 DEF t
<1> HIDE DEF u
<1> QED
  BY <1>1, <1>2, <1>6, <1>7, <1>8, <1>9 DEF S, n

LEMMA DeleteIs ==
    ASSUME NEW names, NEW p \in Seq(names)
    PROVE  /\ Delete(p) \in Seq(CallsOn(names)) /\ Len(Delete(p)) = Depth(p) + 1
           /\ \A i \in 1..Depth(p) : Delete(p)[i].do = "enter"
           /\ Delete(p)[Depth(p) + 1] = Call("remove", p)
<1> DEFINE S == CallsOn(names) n == Depth(p) s == ResolveParent(p)
<1>1. n \in Nat
  BY DEF Depth
<1>2. /\ s \in Seq(S) /\ Len(s) = n
      /\ \A i \in 1..n : s[i] = Call("enter", SubSeq(p, 1, i))
  <2>1. "enter" \in Moves
    BY DEF Moves
  <2> QED
    BY <2>1, AlongIs, Zenon DEF ResolveParent
<1>3. Call("remove", p) \in S
  BY CallsAreCalls DEF Moves
<1>4. \A i \in 1..n : s[i].do = "enter"
  BY <1>2 DEF Call
<1>5. Delete(p) = s \o <<Call("remove", p)>>
  BY DEF Delete
<1> HIDE DEF S, n, s
<1> DEFINE t == s \o <<Call("remove", p)>>
<1>6. t \in Seq(S) /\ Len(t) = n + 1 /\ (\A i \in 1..n : t[i] = s[i]) /\ t[n + 1] = Call("remove", p)
  BY <1>1, <1>2, <1>3, Lengthened
<1>7. Delete(p) = t
  BY <1>5
<1> HIDE DEF t
<1> QED
  BY <1>1, <1>4, <1>6, <1>7 DEF S, n

LEMMA RenameIs ==
    ASSUME NEW names, NEW from \in Seq(names), NEW to \in Seq(names)
    PROVE  /\ Rename(from, to) \in Seq(CallsOn(names))
           /\ Len(Rename(from, to)) = 2 * Depth(from) + Depth(to) + 7
           /\ Lasts(from, to, Rename(from, to))
<1> DEFINE S == CallsOn(names) a == Depth(from) b == Depth(to) x == Read(from) y == Write(to) z == Delete(from)
<1>1. a \in Nat /\ b \in Nat
  BY DEF Depth
<1>2. /\ x \in Seq(S) /\ Len(x) = a + 2
      /\ \A i \in 1..a : x[i].do = "enter"
      /\ x[a + 1] = Call("open", from)
      /\ x[a + 2] = Call("load", from)
  BY ReadIs
<1>3. /\ y \in Seq(S) /\ Len(y) = b + 4
      /\ \A i \in 1..b : y[i] = Call("make", SubSeq(to, 1, i))
      /\ y[b + 1] = Call("create", to)
      /\ y[b + 2] = Call("replace", to)
      /\ y[b + 3] = Call("fill", to)
      /\ y[b + 4] = Call("commit", to)
  BY WriteIs
<1>4. /\ z \in Seq(S) /\ Len(z) = a + 1
      /\ \A i \in 1..a : z[i].do = "enter"
      /\ z[a + 1] = Call("remove", from)
  BY DeleteIs
<1>5. Rename(from, to) = (x \o y) \o z
  BY DEF Rename
<1> HIDE DEF S, a, b, x, y, z
<1> DEFINE u == x \o y
<1>6. /\ u \in Seq(S) /\ Len(u) = a + 2 + (b + 4)
      /\ \A i \in 1..a + 2 : u[i] = x[i]
      /\ \A i \in 1..b + 4 : u[a + 2 + i] = y[i]
  <2>1. x \in Seq(S) /\ y \in Seq(S)
    BY <1>2, <1>3
  <2>2. /\ u \in Seq(S) /\ Len(u) = Len(x) + Len(y)
        /\ \A i \in 1..Len(x) : u[i] = x[i]
        /\ \A i \in 1..Len(y) : u[Len(x) + i] = y[i]
    BY <2>1, Joined
  <2> HIDE DEF u
  <2> QED
    BY <1>1, <1>2, <1>3, <2>2
<1> HIDE DEF u
<1> DEFINE v == u \o z
<1>7. /\ v \in Seq(S) /\ Len(v) = a + b + 6 + (a + 1)
      /\ \A i \in 1..a + b + 6 : v[i] = u[i]
      /\ \A i \in 1..a + 1 : v[a + b + 6 + i] = z[i]
  <2>1. u \in Seq(S) /\ z \in Seq(S)
    BY <1>4, <1>6
  <2>2. /\ v \in Seq(S) /\ Len(v) = Len(u) + Len(z)
        /\ \A i \in 1..Len(u) : v[i] = u[i]
        /\ \A i \in 1..Len(z) : v[Len(u) + i] = z[i]
    BY <2>1, Joined
  <2> HIDE DEF v
  <2> QED
    BY <1>1, <1>4, <1>6, <2>2
<1> HIDE DEF v
<1>8. /\ \A i \in 1..a : v[i].do = "enter"
      /\ v[a + 1] = Call("open", from) /\ v[a + 2] = Call("load", from)
  <2>1. \A i \in 1..a + 2 : v[i] = x[i]
    <3>1. \A i \in 1..a + 2 : i \in 1..a + b + 6
      BY <1>1
    <3> QED
      BY <1>6, <1>7, <3>1
  <2>2. 1..a \subseteq 1..a + 2 /\ a + 1 \in 1..a + 2 /\ a + 2 \in 1..a + 2
    BY <1>1
  <2> QED
    BY <1>2, <2>1, <2>2
<1>9. \A i \in 1..b + 4 : v[a + 2 + i] = y[i]
  <2>1. \A i \in 1..b + 4 : a + 2 + i \in 1..a + b + 6
    BY <1>1
  <2> QED
    BY <1>6, <1>7, <2>1
<1>10. \A i \in 1..b : v[a + 2 + i] = Call("make", SubSeq(to, 1, i))
  <2>1. 1..b \subseteq 1..b + 4
    BY <1>1
  <2> QED
    BY <1>3, <1>9, <2>1
<1>11. v[a + 2 + (b + 1)] = Call("create", to)
  <2>1. b + 1 \in 1..b + 4
    BY <1>1
  <2> QED
    BY <1>3, <1>9, <2>1
<1>12. v[a + 2 + (b + 2)] = Call("replace", to)
  <2>1. b + 2 \in 1..b + 4
    BY <1>1
  <2> QED
    BY <1>3, <1>9, <2>1
<1>13. v[a + 2 + (b + 3)] = Call("fill", to)
  <2>1. b + 3 \in 1..b + 4
    BY <1>1
  <2> QED
    BY <1>3, <1>9, <2>1
<1>14. v[a + 2 + (b + 4)] = Call("commit", to)
  <2>1. b + 4 \in 1..b + 4
    BY <1>1
  <2> QED
    BY <1>3, <1>9, <2>1
<1>15. \A i \in 1..a : v[a + b + 6 + i].do = "enter"
  <2>1. 1..a \subseteq 1..a + 1
    BY <1>1
  <2> QED
    BY <1>4, <1>7, <2>1
<1>16. v[a + b + 6 + (a + 1)] = Call("remove", from)
  <2>1. a + 1 \in 1..a + 1
    BY <1>1
  <2> QED
    BY <1>4, <1>7, <2>1
<1>17. Len(v) = 2 * a + b + 7
  BY <1>1, <1>7
<1>18. ASSUME NEW i \in 1..Len(v) PROVE CallOfMove(from, to, Len(v) - i + 1, v[i])
  <2> DEFINE m == Len(v) - i + 1
  <2>1. m \in 1..2 * a + b + 7 /\ i = 2 * a + b + 8 - m
    BY <1>1, <1>17
  <2> HIDE DEF m
  <2>2. m = 1 => v[i] = Call("remove", from)
    <3>1. m = 1 => i = a + b + 6 + (a + 1)
      BY <1>1, <2>1
    <3> QED
      BY <1>16, <3>1
  <2>3. m \in 2..a + 1 => v[i].do = "enter"
    <3> SUFFICES ASSUME m \in 2..a + 1 PROVE v[i].do = "enter"
      OBVIOUS
    <3>1. a + 2 - m \in 1..a /\ i = a + b + 6 + (a + 2 - m)
      BY <1>1, <2>1
    <3> QED
      BY <1>15, <3>1
  <2>4. m = a + 2 => v[i] = Call("commit", to)
    <3> SUFFICES ASSUME m = a + 2 PROVE v[i] = Call("commit", to)
      OBVIOUS
    <3>1. i = a + 2 + (b + 4)
      BY <1>1, <2>1
    <3> QED
      BY <1>14, <3>1
  <2>5. m = a + 3 => v[i] = Call("fill", to)
    <3> SUFFICES ASSUME m = a + 3 PROVE v[i] = Call("fill", to)
      OBVIOUS
    <3>1. i = a + 2 + (b + 3)
      BY <1>1, <2>1
    <3> QED
      BY <1>13, <3>1
  <2>6. m = a + 4 => v[i] = Call("replace", to)
    <3> SUFFICES ASSUME m = a + 4 PROVE v[i] = Call("replace", to)
      OBVIOUS
    <3>1. i = a + 2 + (b + 2)
      BY <1>1, <2>1
    <3> QED
      BY <1>12, <3>1
  <2>7. m = a + 5 => v[i] = Call("create", to)
    <3> SUFFICES ASSUME m = a + 5 PROVE v[i] = Call("create", to)
      OBVIOUS
    <3>1. i = a + 2 + (b + 1)
      BY <1>1, <2>1
    <3> QED
      BY <1>11, <3>1
  <2>8. m \in a + 6..a + b + 5 => v[i] = Call("make", SubSeq(to, 1, a + b + 6 - m))
    <3> SUFFICES ASSUME m \in a + 6..a + b + 5 PROVE v[i] = Call("make", SubSeq(to, 1, a + b + 6 - m))
      OBVIOUS
    <3>1. a + b + 6 - m \in 1..b /\ i = a + 2 + (a + b + 6 - m)
      BY <1>1, <2>1
    <3> QED
      BY <1>10, <3>1
  <2>9. /\ m = a + b + 6 => v[i] = Call("load", from)
        /\ m = a + b + 7 => v[i] = Call("open", from)
    <3>1. (m = a + b + 6 => i = a + 2) /\ (m = a + b + 7 => i = a + 1)
      BY <1>1, <2>1
    <3> QED
      BY <1>8, <3>1
  <2>10. m \in a + b + 8..2 * a + b + 7 => v[i].do = "enter"
    <3> SUFFICES ASSUME m \in a + b + 8..2 * a + b + 7 PROVE v[i].do = "enter"
      OBVIOUS
    <3>1. i \in 1..a
      BY <1>1, <2>1
    <3> QED
      BY <1>8, <3>1
  <2> QED
    BY <2>2, <2>3, <2>4, <2>5, <2>6, <2>7, <2>8, <2>9, <2>10 DEF CallOfMove, a, b, m
<1>19. Rename(from, to) = v
  BY <1>5 DEF u, v
<1> QED
  BY <1>7, <1>18, <1>19, <1>17 DEF Lasts, S, a, b

(* ---- Types ---- *)

(* todo, before, stream and result are as they come. *)
IsSession(me) ==
    me \in [request : Requests \union {Nobody}, todo : {me.todo}, bytes : Seq(Int), at : Nat, stream : {me.stream},
            swap : Seq(Int), result : {me.result}, before : {me.before}, alone : {me.alone}]

FileTypes ==
    /\ \A p \in DOMAIN files : files[p] \in Seq(Int)
    /\ \A s \in Sessions : IsSession(sessions[s])

LEMMA FileTypesInit == FilesInit => FileTypes
<1>1. IsSession(Idle)
  BY DEF IsSession, Idle
<1> QED
  BY <1>1, FilesAssumption DEF FilesInit, FileTypes

LEMMA FieldsOfDisturbed ==
    ASSUME NEW me, IsSession(me)
    PROVE  IsSession([me EXCEPT !.alone = FALSE]) /\ [me EXCEPT !.alone = FALSE].alone = FALSE
  BY DEF IsSession

(* A step of its own leaves the request, and what is known of the tree before it. *)
SameRequest(you, me) ==
    you.request = me.request /\ you.before = me.before /\ you.alone = me.alone

LEMMA FieldsOfOnward ==
    ASSUME NEW s, IsSession(sessions[s])
    PROVE  /\ IsSession(Onward(s)) /\ SameRequest(Onward(s), sessions[s])
           /\ Onward(s).todo = Tail(sessions[s].todo) /\ Onward(s).result = sessions[s].result
           /\ Onward(s).bytes = sessions[s].bytes /\ Onward(s).swap = sessions[s].swap
  BY DEF IsSession, Onward, SameRequest

LEMMA FieldsOfEnds ==
    ASSUME NEW s, IsSession(sessions[s]), NEW result
    PROVE  /\ IsSession(Ends(s, result)) /\ SameRequest(Ends(s, result), sessions[s])
           /\ Ends(s, result).result = result
<1>1. <<>> \in Seq(Int)
  OBVIOUS
<1> QED
  BY <1>1 DEF IsSession, Ends, SameRequest

LEMMA Others ==
    ASSUME NEW s \in Sessions, NEW next, NEW disturbs, GoesOn(s, next, disturbs), FileTypes
    PROVE  /\ sessions'[s] = next
           /\ \A t \in Sessions \ {s} :
                /\ IsSession(sessions'[t])
                /\ sessions'[t] = sessions[t] \/ (sessions'[t].alone = FALSE /\ disturbs)
                /\ disturbs => sessions'[t].alone = FALSE
<1>1. \A t \in Sessions : IsSession(sessions[t]) /\ IsSession([sessions[t] EXCEPT !.alone = FALSE])
                          /\ [sessions[t] EXCEPT !.alone = FALSE].alone = FALSE
  BY FieldsOfDisturbed DEF FileTypes
<1> QED
  BY <1>1 DEF GoesOn

LEMMA OverwrittenIs ==
    ASSUME NEW old \in Seq(Int), NEW data \in Seq(Int), NEW at \in Nat
    PROVE  /\ Overwritten(old, at, data) \in Seq(Int)
           /\ old = <<>> /\ at = 0 => Overwritten(old, at, data) = data
<1> DEFINE end == at + Len(data)
           size == IF Len(old) > end THEN Len(old) ELSE end
           byte(i) == IF i \in at + 1..end THEN data[i - at] ELSE IF i <= Len(old) THEN old[i] ELSE 0
<1>1. size \in Nat /\ end \in Nat
  OBVIOUS
<1>2. \A i \in 1..size : byte(i) \in Int
  <2> SUFFICES ASSUME NEW i \in 1..size PROVE byte(i) \in Int
    OBVIOUS
  <2>1. i \in at + 1..end => data[i - at] \in Int
    OBVIOUS
  <2>2. i <= Len(old) => old[i] \in Int
    OBVIOUS
  <2> QED
    BY <2>1, <2>2
<1>3. Overwritten(old, at, data) = [i \in 1..size |-> byte(i)]
  BY DEF Overwritten
<1>4. [i \in 1..size |-> byte(i)] \in Seq(Int)
  <2> HIDE DEF size, byte
  <2> QED BY <1>1, <1>2
<1>5. ASSUME old = <<>>, at = 0 PROVE [i \in 1..size |-> byte(i)] = data
  <2>1. size = Len(data) /\ end = Len(data)
    BY <1>5
  <2>2. \A i \in 1..Len(data) : byte(i) = data[i]
    BY <1>5
  <2>3. data = [i \in 1..Len(data) |-> data[i]]
    OBVIOUS
  <2> HIDE DEF size, byte
  <2> QED
    BY <2>1, <2>2, <2>3
<1> HIDE DEF size, byte
<1> QED
  BY <1>3, <1>4, <1>5

LEMMA RangeIs ==
    ASSUME NEW bytes \in Seq(Int), NEW offset \in Nat, NEW len \in Nat
    PROVE  RangeOf(bytes, offset, len) \in Seq(Int)
<1> DEFINE start == offset % Usize
           sum == (start + len) % Usize
           end == IF sum < Len(bytes) THEN sum ELSE Len(bytes)
<1>1. start \in Nat /\ sum \in Nat
  BY FilesAssumption
<1>2. RangeOf(bytes, offset, len) = IF start >= Len(bytes) THEN <<>> ELSE SubSeq(bytes, start + 1, end)
  BY DEF RangeOf
<1> HIDE DEF start, sum
<1>3. end \in Int /\ end <= Len(bytes) /\ start + 1 \in Int
  BY <1>1
<1> HIDE DEF end
<1>4. \A i \in start + 1..end : bytes[i] \in Int
  <2>1. \A i \in start + 1..end : i \in 1..Len(bytes)
    BY <1>1, <1>3
  <2> QED
    BY <2>1
<1>5. SubSeq(bytes, start + 1, end) \in Seq(Int)
  BY <1>3, <1>4, SubSeqProperties
<1> QED
  BY <1>2, <1>5

(* A call goes on to the file it found. *)
LEMMA FoundFile ==
    ASSUME NEW s, Possible(s), Current(s).do \in {"open", "load", "measure", "replace", "edit", "commit"}
    PROVE  IsFile(Current(s).path)
<1> DEFINE do == Current(s).do p == Current(s).path
<1>1. Finds(do, p)
  <2> HIDE DEF do, p
  <2>1. Refusal(do, p) = "none"
    BY DEF Possible, do, p
  <2> QED
    BY <2>1 DEF Refusal
<1> HIDE DEF do, p
<1>2. do \in {"open", "load", "measure", "replace", "edit", "commit"}
  BY DEF do
<1>3. Finds(do, p) => IsFile(p)
  BY <1>2 DEF Finds
<1> QED
  BY <1>1, <1>3 DEF p

LEMMA StartTypes ==
    ASSUME FileTypes, NEW s \in Sessions, NEW r \in Requests, Start(s, r)
    PROVE  FileTypes' /\ sessions'[s].request = r
<1> DEFINE refused == ~r.sound /\ r.call \in {"write", "append", "update"}
           begun == [Idle EXCEPT !.request = r, !.bytes = r.data, !.at = r.offset,
                                 !.todo = IF refused THEN <<>> ELSE Plan(r),
                                 !.result = IF refused THEN "E_INVALID_ENCODING" ELSE "busy",
                                 !.before = [dirs |-> dirs, files |-> files],
                                 !.alone = Writers = {} /\ leaked = {}]
<1>1. GoesOn(s, begun, FALSE) /\ files' = files
  BY DEF Start
<1>2. IsSession(begun) /\ begun.request = r
  <2> DEFINE todo == IF refused THEN <<>> ELSE Plan(r)
             result == IF refused THEN "E_INVALID_ENCODING" ELSE "busy"
             alone == Writers = {} /\ leaked = {}
             before == [dirs |-> dirs, files |-> files]
  <2> HIDE DEF todo, result, alone, before
  <2>1. r.data \in Seq(Int) /\ r.offset \in Nat /\ <<>> \in Seq(Int)
    BY FilesAssumption
  <2> QED
    BY <2>1 DEF IsSession, Idle, todo, result, alone, before
<1> HIDE DEF begun
<1> QED
  BY <1>1, <1>2, Others DEF FileTypes

LEMMA OverwriteTypes ==
    ASSUME FileTypes, NEW s \in Sessions, Fill(s)
    PROVE  FileTypes'
<1> DEFINE me == sessions[s]
           swap == Overwritten(me.swap, IF me.request.call \in {"append", "update"} THEN me.at ELSE 0, me.bytes)
           next == [Onward(s) EXCEPT !.swap = swap]
<1>1. GoesOn(s, next, FALSE) /\ files' = files
  BY DEF Fill
<1>2. swap \in Seq(Int)
  BY OverwrittenIs DEF FileTypes, IsSession
<1> HIDE DEF swap
<1>3. IsSession(next)
  BY <1>2, FieldsOfOnward DEF FileTypes, IsSession
<1> HIDE DEF next
<1> QED
  BY <1>1, <1>3, Others DEF FileTypes

LEMMA FinishTypes ==
    ASSUME FileTypes, NEW s \in Sessions, Finish(s)
    PROVE  /\ FileTypes' /\ SameRequest(sessions'[s], sessions[s])
           /\ sessions'[s].result # "busy"
<1> DEFINE me == sessions[s] r == me.request
           next == CASE r.call = "range" /\ RangeTraps(me.bytes, r.offset, r.len) -> Ends(s, "trap")
                     [] r.call = "range" /\ ~RangeTraps(me.bytes, r.offset, r.len) -> [Ends(s, "ok") EXCEPT !.bytes = RangeOf(@, r.offset, r.len)]
                     [] r.call = "hash" /\ ~r.sound -> Ends(s, "E_INVALID_ENCODING")
                     [] OTHER -> Ends(s, "ok")
<1>1. GoesOn(s, next, FALSE) /\ files' = files
  BY DEF Finish
<1>2. IsSession(me) /\ r.offset \in Nat /\ r.len \in Nat
  BY FilesAssumption DEF FileTypes, IsSession, Nobody, Request
<1> DEFINE ranged == [Ends(s, "ok") EXCEPT !.bytes = RangeOf(@, r.offset, r.len)]
<1>3. IsSession(ranged) /\ SameRequest(ranged, me) /\ ranged.result = "ok"
  <2>1. IsSession(Ends(s, "ok")) /\ SameRequest(Ends(s, "ok"), me) /\ Ends(s, "ok").result = "ok"
    BY <1>2, FieldsOfEnds
  <2> DEFINE e == Ends(s, "ok")
  <2>2. e.bytes \in Seq(Int)
    BY <2>1 DEF IsSession
  <2>3. RangeOf(e.bytes, r.offset, r.len) \in Seq(Int)
    <3> HIDE DEF e, r
    <3> QED BY <1>2, <2>2, RangeIs
  <2> HIDE DEF e
  <2>4. IsSession([e EXCEPT !.bytes = RangeOf(@, r.offset, r.len)])
        /\ SameRequest([e EXCEPT !.bytes = RangeOf(@, r.offset, r.len)], e)
        /\ [e EXCEPT !.bytes = RangeOf(@, r.offset, r.len)].result = e.result
    BY <2>1, <2>3 DEF IsSession, SameRequest, e
  <2> QED
    BY <2>1, <2>4 DEF SameRequest, e
<1>4. \A result : IsSession(Ends(s, result)) /\ SameRequest(Ends(s, result), me) /\ Ends(s, result).result = result
  BY <1>2, FieldsOfEnds
<1>5. next = Ends(s, "trap") \/ next = ranged \/ next = Ends(s, "E_INVALID_ENCODING") \/ next = Ends(s, "ok")
  <2> HIDE DEF ranged
  <2> QED BY Zenon DEF ranged
<1> HIDE DEF next, ranged
<1>6. IsSession(next) /\ SameRequest(next, me) /\ next.result # "busy"
  BY <1>3, <1>4, <1>5
<1> QED
  BY <1>1, <1>6, Others DEF FileTypes

(* A request that looked for a file may go on in another way, any other ends. *)
LEMMA InsteadIs ==
    ASSUME FileTypes, NEW s \in Sessions, NEW error
    PROVE  /\ IsSession(Instead(s, error)) /\ SameRequest(Instead(s, error), sessions[s])
           /\ sessions[s].request.call = "move" => Instead(s, error).result = error
<1> DEFINE me == sessions[s] r == me.request
<1>1. IsSession(me)
  BY DEF FileTypes
<1>2. \A result : IsSession(Ends(s, result)) /\ SameRequest(Ends(s, result), me) /\ Ends(s, result).result = result
  BY <1>1, FieldsOfEnds
<1>3. \A todo : IsSession([me EXCEPT !.todo = todo]) /\ SameRequest([me EXCEPT !.todo = todo], me)
  BY <1>1 DEF IsSession, SameRequest
<1>4. \/ Instead(s, error) = [me EXCEPT !.todo = ResolveDir(r.path)] /\ r.call # "move"
      \/ Instead(s, error) = [me EXCEPT !.todo = ResolveFileCreate(r.path) \o Appending(r.path)] /\ r.call # "move"
      \/ Instead(s, error) = Ends(s, IF r.call = "exists" THEN "absent" ELSE error)
  BY DEF Instead
<1> HIDE DEF me, r
<1> QED
  BY <1>2, <1>3, <1>4 DEF me, r

LEMMA LoadTypes ==
    ASSUME FileTypes, NEW s \in Sessions, Load(s)
    PROVE  FileTypes'
<1> DEFINE bytes == files[Current(s).path] next == [Onward(s) EXCEPT !.bytes = bytes]
<1>1. GoesOn(s, next, FALSE) /\ files' = files
  BY DEF Load
<1>2. bytes \in Seq(Int)
  BY FoundFile DEF Load, Does, IsFile, FileTypes
<1> HIDE DEF bytes
<1>3. IsSession(next)
  BY <1>2, FieldsOfOnward DEF FileTypes, IsSession
<1> HIDE DEF next
<1> QED
  BY <1>1, <1>3, Others DEF FileTypes

LEMMA MeasureTypes ==
    ASSUME FileTypes, NEW s \in Sessions, Measure(s)
    PROVE  FileTypes'
<1> DEFINE size == Len(files[Current(s).path]) next == [Onward(s) EXCEPT !.at = size]
<1>1. GoesOn(s, next, FALSE) /\ files' = files
  BY DEF Measure
<1>2. size \in Nat
  <2>1. files[Current(s).path] \in Seq(Int)
    BY FoundFile DEF Measure, Does, IsFile, FileTypes
  <2> QED
    BY <2>1
<1> HIDE DEF size
<1>3. IsSession(next)
  BY <1>2, FieldsOfOnward DEF FileTypes, IsSession
<1> HIDE DEF next
<1> QED
  BY <1>1, <1>3, Others DEF FileTypes

LEMMA OpenStreamTypes ==
    ASSUME FileTypes, NEW s \in Sessions, OpenStream(s)
    PROVE  FileTypes'
<1> DEFINE kept == IF Current(s).do = "edit" THEN files[Current(s).path] ELSE <<>>
           next == [Onward(s) EXCEPT !.stream = TRUE, !.swap = kept]
<1>1. GoesOn(s, next, TRUE) /\ files' = files
  BY DEF OpenStream
<1>2. kept \in Seq(Int)
  <2>1. files[Current(s).path] \in Seq(Int)
    BY FoundFile DEF OpenStream, Does, IsFile, FileTypes
  <2> QED
    BY <2>1
<1> HIDE DEF kept
<1>3. IsSession(next)
  BY <1>2, FieldsOfOnward DEF FileTypes, IsSession
<1> HIDE DEF next
<1> QED
  BY <1>1, <1>3, Others DEF FileTypes

LEMMA CommitTypes ==
    ASSUME FileTypes, NEW s \in Sessions, Commit(s)
    PROVE  FileTypes'
<1> DEFINE next == [Onward(s) EXCEPT !.stream = FALSE, !.swap = <<>>]
<1>1. GoesOn(s, next, TRUE)
  BY DEF Commit
<1>2. <<>> \in Seq(Int)
  OBVIOUS
<1>3. IsSession(next)
  BY <1>2, FieldsOfOnward DEF FileTypes, IsSession
<1>4. \A p \in DOMAIN files' : files'[p] \in Seq(Int)
  BY DEF Commit, FileTypes, IsSession
<1> HIDE DEF next
<1> QED
  BY <1>1, <1>3, <1>4, Others DEF FileTypes

LEMMA CreatedIs ==
    ASSUME NEW s \in Sessions, Create(s)
    PROVE  /\ DOMAIN files' = DOMAIN files \union {Current(s).path}
           /\ \A p \in DOMAIN files' : files'[p] = IF p \in DOMAIN files THEN files[p] ELSE <<>>
  BY DEF Create, IsFile

LEMMA FileTypesKept ==
    ASSUME FileTypes, NEW s \in Sessions, NEW next, NEW disturbs, GoesOn(s, next, disturbs), IsSession(next),
           \A p \in DOMAIN files' : files'[p] \in Seq(Int)
    PROVE  FileTypes'
<1>1. /\ sessions'[s] = next
      /\ \A t \in Sessions \ {s} : IsSession(sessions'[t])
  BY Others
<1> QED
  BY <1>1 DEF FileTypes

LEMMA FileTypesStep == ASSUME FileTypes, [FilesNext]_fileVars PROVE FileTypes'
<1>1. ASSUME NEW s \in Sessions, NEW r \in Requests, Start(s, r) PROVE FileTypes'
  BY <1>1, StartTypes
<1>2. ASSUME NEW s \in Sessions, Look(s) \/ Make(s) PROVE FileTypes'
  <2>1. PICK d : files' = files /\ GoesOn(s, Onward(s), d)
    BY <1>2 DEF Look, Make
  <2>4. IsSession(Onward(s)) /\ \A p \in DOMAIN files : files[p] \in Seq(Int)
    BY FieldsOfOnward DEF FileTypes
  <2> QED
    BY <2>1, <2>4, FileTypesKept
<1>3. ASSUME NEW s \in Sessions, Create(s) PROVE FileTypes'
  <2>1. PICK d : GoesOn(s, Onward(s), d)
    BY <1>3 DEF Create
  <2>2. <<>> \in Seq(Int)
    OBVIOUS
  <2>3. \A p \in DOMAIN files' : files'[p] \in Seq(Int)
    BY <1>3, <2>2, CreatedIs DEF FileTypes
  <2>4. IsSession(Onward(s))
    BY FieldsOfOnward DEF FileTypes
  <2> QED
    BY <2>1, <2>3, <2>4, FileTypesKept
<1>4. ASSUME NEW s \in Sessions, RemoveEntry(s) PROVE FileTypes'
  <2>1. GoesOn(s, Onward(s), TRUE)
    BY <1>4 DEF RemoveEntry
  <2>2. \A p \in DOMAIN files' : files'[p] \in Seq(Int)
    BY <1>4 DEF RemoveEntry, FileTypes
  <2>4. IsSession(Onward(s))
    BY FieldsOfOnward DEF FileTypes
  <2> QED
    BY <2>1, <2>2, <2>4, FileTypesKept
<1>5. ASSUME NEW s \in Sessions, Refuse(s) \/ Fault(s) PROVE FileTypes'
  <2>1. PICK error, d : files' = files /\ GoesOn(s, Instead(s, error), d)
    BY <1>5 DEF Refuse, Fault
  <2>2. IsSession(Instead(s, error)) /\ \A p \in DOMAIN files : files[p] \in Seq(Int)
    BY InsteadIs DEF FileTypes
  <2> QED
    BY <2>1, <2>2, FileTypesKept
<1>6. ASSUME NEW s \in Sessions, Crash(s) PROVE FileTypes'
  <2>1. files' = files /\ GoesOn(s, Ends(s, "crashed"), FALSE)
    BY <1>6 DEF Crash
  <2>2. IsSession(Ends(s, "crashed")) /\ \A p \in DOMAIN files : files[p] \in Seq(Int)
    BY FieldsOfEnds DEF FileTypes
  <2> QED
    BY <2>1, <2>2, FileTypesKept
<1>7. CASE UNCHANGED <<files, sessions>>
  BY <1>7 DEF FileTypes
<1>8. ASSUME Collect \/ UNCHANGED fileVars PROVE UNCHANGED <<files, sessions>>
  BY <1>8 DEF Collect, fileVars
<1> QED
  BY <1>1, <1>2, <1>3, <1>4, <1>5, <1>6, <1>7, <1>8, LoadTypes, MeasureTypes, OpenStreamTypes, OverwriteTypes,
     CommitTypes, FinishTypes DEF FilesNext

(* ---- A move that nobody disturbs ---- *)

Moving(me) ==
    LET r == me.request
    IN  me.alone /\ r.call = "move" /\ r.path # r.to /\ Kept(me.before, r.path)

Names(r) == Range(r.path) \union Range(r.to)

(* What holds with n calls left: the file is at its old path until the last of them, and
   at its new one before that. *)
Underway(me) ==
    LET from == me.request.path
        to == me.request.to
        a == Depth(from)
        b == Depth(to)
        n == Len(me.todo)
        content == me.before.files[from]
    IN  /\ me.todo \in Seq(CallsOn(Names(me.request))) /\ Lasts(from, to, me.todo)
        /\ n <= 2 * a + b + 7
        /\ n <= a + b + 6 => from # <<>>
        /\ n > 0 => IsFile(from) /\ files[from] = content
        /\ n <= a + b + 5 => me.bytes = content
        /\ \A j \in 1..b : n <= a + b + 5 - j => SubSeq(to, 1, j) # from
        /\ n <= a + 4 => IsFile(to)
        /\ n = a + 3 => me.swap = <<>>
        /\ n = a + 2 => me.swap = content
        /\ n <= a + 1 => files[to] = content

Landed(me) ==
    \E p \in {me.request.path, me.request.to} : IsFile(p) /\ files[p] = me.before.files[me.request.path]

MovesInv ==
    \A s \in Sessions : Moving(sessions[s]) => IF Busy(s) THEN Underway(sessions[s]) ELSE Landed(sessions[s])

LEMMA PathsOfRequest ==
    ASSUME NEW me, IsSession(me)
    PROVE  /\ me.request.path \in Seq(Names(me.request)) /\ me.request.to \in Seq(Names(me.request))
           /\ Len(me.request.path) \in Nat /\ Len(me.request.to) \in Nat
           /\ Depth(me.request.path) \in Nat /\ Depth(me.request.to) \in Nat
<1> DEFINE r == me.request
<1>1. r.path \in Seq(Range(r.path)) /\ r.to \in Seq(Range(r.to))
  <2>1. CASE r \in Requests
    BY <2>1, FilesAssumption
  <2>2. CASE r = Nobody
    <3>1. r.path = <<>> /\ r.to = <<>>
      BY <2>2 DEF Nobody, Request
    <3>2. <<>> \in Seq(Range(<<>>))
      OBVIOUS
    <3> QED
      BY <3>1, <3>2
  <2> QED
    BY <2>1, <2>2 DEF IsSession
<1> HIDE DEF r
<1>2. r.path \in Seq(Names(r)) /\ r.to \in Seq(Names(r))
  <2>1. Range(r.path) \subseteq Names(r) /\ Range(r.to) \subseteq Names(r)
    BY DEF Names
  <2> QED
    BY <1>1, <2>1, SeqMonotonic
<1> QED
  BY <1>2 DEF Depth, r

LEMMA UnderwayLands ==
    ASSUME NEW me, IsSession(me), Underway(me)
    PROVE  Landed(me)
<1> DEFINE n == Len(me.todo) a == Depth(me.request.path)
<1>1. n \in Nat /\ a \in Nat
  BY PathsOfRequest DEF Underway
<1>2. CASE n > 0
  BY <1>2 DEF Underway, Landed
<1>3. CASE n = 0
  <2>1. n <= a + 4 /\ n <= a + 1
    BY <1>1, <1>3
  <2> QED
    BY <2>1 DEF Underway, Landed
<1> QED
  BY <1>1, <1>2, <1>3

(* Where a move is, from its next call. *)
LEMMA Whereabouts ==
    ASSUME NEW s, IsSession(sessions[s]), Underway(sessions[s]), sessions[s].todo # <<>>
    PROVE  LET me == sessions[s] c == Current(s)
               from == me.request.path to == me.request.to
               a == Depth(from) b == Depth(to) n == Len(me.todo)
           IN  /\ n \in 1..2 * a + b + 7
               /\ Tail(me.todo) \in Seq(CallsOn(Names(me.request))) /\ Len(Tail(me.todo)) = n - 1
               /\ Lasts(from, to, Tail(me.todo))
               /\ CallOfMove(from, to, n, c)
<1> DEFINE me == sessions[s] from == me.request.path to == me.request.to todo == me.todo
           a == Depth(from) b == Depth(to) n == Len(todo)
<1>1. a \in Nat /\ b \in Nat
  BY PathsOfRequest
<1>2. todo \in Seq(CallsOn(Names(me.request))) /\ todo # <<>> /\ Lasts(from, to, todo) /\ n <= 2 * a + b + 7
  BY DEF Underway
<1>3. Current(s) = Head(todo)
  BY DEF Current
<1> HIDE DEF me, from, to, todo, a, b
<1>4. n \in Nat /\ n > 0 /\ Head(todo) = todo[1]
  BY <1>2
<1>5. Tail(todo) \in Seq(CallsOn(Names(me.request))) /\ Len(Tail(todo)) = n - 1
      /\ \A i \in 1..n - 1 : Tail(todo)[i] = todo[i + 1]
  BY <1>2, <1>4, HeadTailProperties
<1>6. Lasts(from, to, Tail(todo))
  <2> SUFFICES ASSUME NEW i \in 1..n - 1 PROVE CallOfMove(from, to, n - 1 - i + 1, Tail(todo)[i])
    BY <1>5 DEF Lasts
  <2>1. i + 1 \in 1..n /\ n - (i + 1) + 1 = n - 1 - i + 1
    BY <1>4
  <2>2. CallOfMove(from, to, n - (i + 1) + 1, todo[i + 1])
    BY <1>2, <2>1 DEF Lasts
  <2> QED
    BY <1>5, <2>1, <2>2
<1>7. CallOfMove(from, to, n, todo[1])
  <2>1. 1 \in 1..n /\ n - 1 + 1 = n
    BY <1>4
  <2>2. CallOfMove(from, to, n - 1 + 1, todo[1])
    BY <1>2, <2>1 DEF Lasts
  <2> QED
    BY <2>1, <2>2
<1> QED
  BY <1>1, <1>2, <1>3, <1>4, <1>5, <1>6, <1>7 DEF me, from, to, todo, a, b

CountsDown(a, b, n, m) ==
    /\ m <= 2 * a + b + 7
    /\ m <= a + b + 6 => n = a + b + 7 \/ n <= a + b + 6
    /\ m > 0 => n > 1
    /\ m <= a + b + 5 => n = a + b + 6 \/ n <= a + b + 5
    /\ \A j \in 1..b : m <= a + b + 5 - j => n = a + b + 6 - j \/ n <= a + b + 5 - j
    /\ m <= a + 4 => n <= a + 5
    /\ m = a + 3 => n = a + 4
    /\ m = a + 2 => n = a + 3
    /\ m <= a + 1 => n <= a + 2

LEMMA CountDown ==
    ASSUME NEW a \in Nat, NEW b \in Nat, NEW n \in 1..2 * a + b + 7
    PROVE  CountsDown(a, b, n, n - 1)
  BY DEF CountsDown

(* What a call of a move has to do for the next to find what it needs. *)
Advances(s) ==
    LET me == sessions[s]
        you == sessions'[s]
        from == me.request.path
        to == me.request.to
        a == Depth(from)
        b == Depth(to)
        n == Len(me.todo)
        content == me.before.files[from]
    IN  /\ SameRequest(you, me) /\ you.todo = Tail(me.todo) /\ you.result = me.result
        /\ n = a + b + 7 => from # <<>>
        /\ n > 1 => from \in DOMAIN files' /\ files'[from] = content
        /\ n = a + b + 6 => you.bytes = content
        /\ n <= a + b + 5 => you.bytes = me.bytes
        /\ \A j \in 1..b : n = a + b + 6 - j => SubSeq(to, 1, j) # from
        /\ n <= a + 5 => to \in DOMAIN files'
        /\ n = a + 4 => you.swap = <<>>
        /\ n = a + 3 => you.swap = content
        /\ n <= a + 2 => files'[to] = content

LEMMA GoesUnderway ==
    ASSUME NEW s, IsSession(sessions[s]), Underway(sessions[s]), sessions[s].todo # <<>>, Advances(s)
    PROVE  Underway(sessions[s])'
<1> DEFINE me == sessions[s] you == sessions'[s] from == me.request.path to == me.request.to
           a == Depth(from) b == Depth(to) n == Len(me.todo) content == me.before.files[from] m == Len(you.todo)
<1>1. a \in Nat /\ b \in Nat
  BY PathsOfRequest
<1>2. /\ n \in 1..2 * a + b + 7 /\ m = n - 1
      /\ you.todo \in Seq(CallsOn(Names(you.request))) /\ Lasts(from, to, you.todo)
  BY Whereabouts DEF Advances, SameRequest
<1>3. you.request.path = from /\ you.request.to = to /\ you.before.files[from] = content
  BY DEF Advances, SameRequest
<1>4. /\ n <= a + b + 6 => from # <<>>
      /\ n <= a + b + 5 => me.bytes = content
      /\ \A j \in 1..b : n <= a + b + 5 - j => SubSeq(to, 1, j) # from
  BY DEF Underway
<1>11. /\ n = a + b + 7 => from # <<>>
       /\ n > 1 => from \in DOMAIN files' /\ files'[from] = content
       /\ n = a + b + 6 => you.bytes = content
       /\ n <= a + b + 5 => you.bytes = me.bytes
       /\ \A j \in 1..b : n = a + b + 6 - j => SubSeq(to, 1, j) # from
       /\ n <= a + 5 => to \in DOMAIN files'
       /\ n = a + 4 => you.swap = <<>>
       /\ n = a + 3 => you.swap = content
       /\ n <= a + 2 => files'[to] = content
  BY DEF Advances
<1>12. /\ Depth(you.request.path) = a /\ Depth(you.request.to) = b
  BY <1>3
<1> HIDE DEF me, you, from, to, a, b, n, content, m
<1>5. CountsDown(a, b, n, m)
  <2>1. CountsDown(a, b, n, n - 1)
    BY <1>1, <1>2, CountDown
  <2> QED
    BY <1>2, <2>1
<1>6. m <= a + b + 6 => from # <<>>
  BY <1>4, <1>5, <1>11, Zenon DEF CountsDown
<1>7. m > 0 => from \in DOMAIN files' /\ files'[from] = content
  BY <1>5, <1>11, Zenon DEF CountsDown
<1>8. m <= a + b + 5 => you.bytes = content
  BY <1>4, <1>5, <1>11, Zenon DEF CountsDown
<1>9. \A j \in 1..b : m <= a + b + 5 - j => SubSeq(to, 1, j) # from
  BY <1>4, <1>5, <1>11, Zenon DEF CountsDown
<1>10. /\ m <= a + 4 => to \in DOMAIN files'
       /\ m = a + 3 => you.swap = <<>>
       /\ m = a + 2 => you.swap = content
       /\ m <= a + 1 => files'[to] = content
  BY <1>5, <1>11, Zenon DEF CountsDown
<1> QED
  BY <1>2, <1>3, <1>5, <1>6, <1>7, <1>8, <1>9, <1>10, <1>12, Zenon DEF Underway, IsFile, CountsDown, you, m

(* Which calls a move makes, and when. *)
Placed(from, to, n, c) ==
    LET a == Depth(from) b == Depth(to)
    IN  /\ c.do = "remove" => n = 1 /\ c.path = from
        /\ c.do = "commit" => n = a + 2 /\ c.path = to
        /\ c.do = "fill" => n = a + 3
        /\ c.do = "replace" => n = a + 4
        /\ c.do = "create" => n = a + 5 /\ c.path = to
        /\ c.do = "make" => \E j \in 1..b : n = a + b + 6 - j /\ c.path = SubSeq(to, 1, j)
        /\ c.do = "load" => n = a + b + 6 /\ c.path = from
        /\ c.do = "open" => n = a + b + 7 /\ c.path = from
        /\ c.do = "enter" => n \in 2..a + 1 \/ n > a + b + 7
        /\ c.do \notin {"entries", "measure", "edit"}

LEMMA CallsPlaced ==
    ASSUME NEW from, NEW to, NEW n, NEW c, Depth(from) \in Nat, Depth(to) \in Nat,
           n \in 1..2 * Depth(from) + Depth(to) + 7, CallOfMove(from, to, n, c)
    PROVE  Placed(from, to, n, c)
<1> DEFINE a == Depth(from) b == Depth(to)
<1>1. a \in Nat /\ b \in Nat /\ n \in 1..2 * a + b + 7
  OBVIOUS
<1>2. /\ n = 1 => c = Call("remove", from)
      /\ n \in 2..a + 1 => c.do = "enter"
      /\ n = a + 2 => c = Call("commit", to)
      /\ n = a + 3 => c = Call("fill", to)
      /\ n = a + 4 => c = Call("replace", to)
      /\ n = a + 5 => c = Call("create", to)
      /\ n \in a + 6..a + b + 5 => c = Call("make", SubSeq(to, 1, a + b + 6 - n))
      /\ n = a + b + 6 => c = Call("load", from)
      /\ n = a + b + 7 => c = Call("open", from)
      /\ n \in a + b + 8..2 * a + b + 7 => c.do = "enter"
  BY DEF CallOfMove
<1> HIDE DEF a, b
<1>3. \/ n = 1 \/ n \in 2..a + 1 \/ n = a + 2 \/ n = a + 3 \/ n = a + 4 \/ n = a + 5 \/ n \in a + 6..a + b + 5
      \/ n = a + b + 6 \/ n = a + b + 7 \/ n \in a + b + 8..2 * a + b + 7
  BY <1>1
<1>4. CASE n \in 2..a + 1
  <2>1. c.do = "enter"
    BY <1>2, <1>4
  <2> QED
    BY <1>4, <2>1, Zenon DEF Placed, a, b
<1>5. CASE n \in a + b + 8..2 * a + b + 7
  <2>1. c.do = "enter" /\ n > a + b + 7
    BY <1>1, <1>2, <1>5
  <2> QED
    BY <2>1, Zenon DEF Placed, a, b
<1>7. CASE n = 1
  <2>1. c.do = "remove" /\ c.path = from
    BY <1>2, <1>7 DEF Call
  <2> QED
    BY <1>7, <2>1, Zenon DEF Placed, a, b
<1>8. CASE n = a + 2
  <2>1. c.do = "commit" /\ c.path = to
    BY <1>2, <1>8 DEF Call
  <2> QED
    BY <1>8, <2>1, Zenon DEF Placed, a, b
<1>9. CASE n = a + 3
  <2>1. c.do = "fill" /\ c.path = to
    BY <1>2, <1>9 DEF Call
  <2> QED
    BY <1>9, <2>1, Zenon DEF Placed, a, b
<1>10. CASE n = a + 4
  <2>1. c.do = "replace" /\ c.path = to
    BY <1>2, <1>10 DEF Call
  <2> QED
    BY <1>10, <2>1, Zenon DEF Placed, a, b
<1>11. CASE n = a + 5
  <2>1. c.do = "create" /\ c.path = to
    BY <1>2, <1>11 DEF Call
  <2> QED
    BY <1>11, <2>1, Zenon DEF Placed, a, b
<1>12. CASE n = a + b + 6
  <2>1. c.do = "load" /\ c.path = from
    BY <1>2, <1>12 DEF Call
  <2> QED
    BY <1>12, <2>1, Zenon DEF Placed, a, b
<1>13. CASE n = a + b + 7
  <2>1. c.do = "open" /\ c.path = from
    BY <1>2, <1>13 DEF Call
  <2> QED
    BY <1>13, <2>1, Zenon DEF Placed, a, b
<1>6. CASE n \in a + 6..a + b + 5
  <2> DEFINE j == a + b + 6 - n
  <2>1. j \in 1..b /\ n = a + b + 6 - j
    BY <1>1, <1>6
  <2>2. c.do = "make" /\ c.path = SubSeq(to, 1, j)
    BY <1>2, <1>6 DEF Call
  <2> HIDE DEF j
  <2> QED
    BY <2>1, <2>2, Zenon DEF Placed, a, b
<1> QED
  BY <1>3, <1>4, <1>5, <1>6, <1>7, <1>8, <1>9, <1>10, <1>11, <1>12, <1>13

(* ---- Its calls, one by one ---- *)

LEMMA AtCall ==
    ASSUME FileTypes, NEW s \in Sessions, Underway(sessions[s]), sessions[s].todo # <<>>
    PROVE  LET me == sessions[s] from == me.request.path to == me.request.to
           IN  /\ Depth(from) \in Nat /\ Depth(to) \in Nat /\ Len(me.todo) \in 1..2 * Depth(from) + Depth(to) + 7
               /\ Placed(from, to, Len(me.todo), Current(s)) /\ IsSession(me)
<1> DEFINE me == sessions[s] from == me.request.path to == me.request.to n == Len(me.todo)
<1>1. IsSession(me)
  BY DEF FileTypes
<1>2. Depth(from) \in Nat /\ Depth(to) \in Nat
  BY <1>1, PathsOfRequest
<1>3. n \in 1..2 * Depth(from) + Depth(to) + 7 /\ CallOfMove(from, to, n, Current(s))
  BY <1>1, Whereabouts
<1>4. Placed(from, to, n, Current(s))
  <2> HIDE DEF from, to, n
  <2> QED BY <1>2, <1>3, CallsPlaced
<1> QED
  BY <1>1, <1>2, <1>3, <1>4

LEMMA LookAdvances ==
    ASSUME FileTypes, NEW s \in Sessions, Underway(sessions[s]), Look(s)
    PROVE  Advances(s)
<1> DEFINE me == sessions[s] from == me.request.path to == me.request.to c == Current(s)
           a == Depth(from) b == Depth(to) n == Len(me.todo) content == me.before.files[from] you == sessions'[s]
<1>0. me.todo # <<>>
  BY DEF Look, Does
<1>1. /\ a \in Nat /\ b \in Nat /\ n \in 1..2 * a + b + 7
      /\ Placed(from, to, n, c) /\ IsSession(me)
  BY <1>0, AtCall
<1>2. /\ from \in DOMAIN files /\ files[from] = content
      /\ n <= a + b + 5 => me.bytes = content
      /\ n <= a + 4 => to \in DOMAIN files
      /\ n = a + 3 => me.swap = <<>>
      /\ n = a + 2 => me.swap = content
      /\ n <= a + 1 => files[to] = content
  BY <1>1 DEF Underway, IsFile
<1>3. SameRequest(you, me) /\ you.todo = Tail(me.todo) /\ you.result = me.result /\ you.bytes = me.bytes /\ you.swap = me.swap
  BY <1>1, FieldsOfOnward, Others DEF Look
<1>4. files' = files /\ c.do \in {"enter", "open", "entries"}
  BY DEF Look, Does
<1>5. n \in 2..a + 1 \/ n > a + b + 7 \/ n = a + b + 7
  <2> HIDE DEF from, to, n, c, a, b
  <2> QED
    BY <1>4, <1>1, Zenon DEF Placed, a, b
<1>6. n = a + b + 7 => from # <<>>
  <2> SUFFICES ASSUME n = a + b + 7 PROVE from # <<>>
    OBVIOUS
  <2>1. c.do = "open"
    <3>1. ~(n \in 2..a + 1) /\ ~(n > a + b + 7)
      BY <1>1
    <3> HIDE DEF from, to, n, c, a, b
    <3> QED
      BY <1>4, <1>1, <3>1, Zenon DEF Placed, a, b
  <2>2. c.path = from
    <3> HIDE DEF from, to, n, c, a, b
    <3> QED
      BY <1>1, <2>1 DEF Placed
  <2> QED
    BY <2>1, <2>2 DEF Look, Possible, Refusal
<1> HIDE DEF me, from, to, c, a, b, n, content, you
<1>9. /\ n = a + b + 7 => from # <<>>
      /\ n > 1 => from \in DOMAIN files' /\ files'[from] = content
      /\ n = a + b + 6 => you.bytes = content
      /\ n <= a + b + 5 => you.bytes = me.bytes
      /\ \A j \in 1..b : n = a + b + 6 - j => SubSeq(to, 1, j) # from
      /\ n <= a + 5 => to \in DOMAIN files'
      /\ n = a + 4 => you.swap = <<>>
      /\ n = a + 3 => you.swap = content
      /\ n <= a + 2 => files'[to] = content
  <2>1. /\ n <= a + 5 => n <= a + 1 /\ n <= a + 4
        /\ n # a + b + 6 /\ n # a + 4 /\ n # a + 3
        /\ n <= a + 2 => n <= a + 1
        /\ \A j \in 1..b : n # a + b + 6 - j
    BY <1>1, <1>5
  <2> QED
    BY <1>2, <1>3, <1>4, <1>6, <2>1, Zenon
<1> QED
  BY <1>3, <1>9 DEF Advances, me, from, to, a, b, n, content, you

LEMMA MakeAdvances ==
    ASSUME FileTypes, NEW s \in Sessions, Underway(sessions[s]), Make(s)
    PROVE  Advances(s)
<1> DEFINE me == sessions[s] from == me.request.path to == me.request.to c == Current(s)
           a == Depth(from) b == Depth(to) n == Len(me.todo) content == me.before.files[from] you == sessions'[s]
<1>0. me.todo # <<>>
  BY DEF Make, Does
<1>1. /\ a \in Nat /\ b \in Nat /\ n \in 1..2 * a + b + 7
      /\ Placed(from, to, n, c) /\ IsSession(me)
  BY <1>0, AtCall
<1>2. /\ from \in DOMAIN files /\ files[from] = content
      /\ n <= a + b + 5 => me.bytes = content
      /\ n <= a + 4 => to \in DOMAIN files
      /\ n = a + 3 => me.swap = <<>>
      /\ n = a + 2 => me.swap = content
      /\ n <= a + 1 => files[to] = content
  BY <1>1 DEF Underway, IsFile
<1>3. SameRequest(you, me) /\ you.todo = Tail(me.todo) /\ you.result = me.result /\ you.bytes = me.bytes /\ you.swap = me.swap
  BY <1>1, FieldsOfOnward, Others DEF Make
<1>4. files' = files /\ c.do = "make"
  BY DEF Make, Does
<1>5. PICK i \in 1..b : n = a + b + 6 - i /\ c.path = SubSeq(to, 1, i)
  <2> HIDE DEF from, to, n, c, a, b
  <2> QED
    BY <1>4, <1>1, Zenon DEF Placed, a, b
<1>6. c.path # from
  BY <1>2, <1>4 DEF Make, Possible, Refusal, IsFile
<1>7. \A j \in 1..b : n = a + b + 6 - j => SubSeq(to, 1, j) # from
  <2>1. \A j \in 1..b : n = a + b + 6 - j => j = i
    BY <1>1, <1>5
  <2> QED
    BY <1>5, <1>6, <2>1
<1> HIDE DEF me, from, to, c, a, b, n, content, you
<1>9. /\ n = a + b + 7 => from # <<>>
      /\ n > 1 => from \in DOMAIN files' /\ files'[from] = content
      /\ n = a + b + 6 => you.bytes = content
      /\ n <= a + b + 5 => you.bytes = me.bytes
      /\ \A j \in 1..b : n = a + b + 6 - j => SubSeq(to, 1, j) # from
      /\ n <= a + 5 => to \in DOMAIN files'
      /\ n = a + 4 => you.swap = <<>>
      /\ n = a + 3 => you.swap = content
      /\ n <= a + 2 => files'[to] = content
  BY <1>1, <1>2, <1>3, <1>4, <1>5, <1>7
<1> QED
  BY <1>3, <1>9 DEF Advances, me, from, to, a, b, n, content, you

LEMMA CreateAdvances ==
    ASSUME FileTypes, NEW s \in Sessions, Underway(sessions[s]), Create(s)
    PROVE  Advances(s)
<1> DEFINE me == sessions[s] from == me.request.path to == me.request.to c == Current(s)
           a == Depth(from) b == Depth(to) n == Len(me.todo) content == me.before.files[from] you == sessions'[s]
<1>0. me.todo # <<>>
  BY DEF Create, Does
<1>1. /\ a \in Nat /\ b \in Nat /\ n \in 1..2 * a + b + 7
      /\ Placed(from, to, n, c) /\ IsSession(me)
  BY <1>0, AtCall
<1>2. /\ from \in DOMAIN files /\ files[from] = content
      /\ n <= a + b + 5 => me.bytes = content
      /\ n <= a + 4 => to \in DOMAIN files
      /\ n = a + 3 => me.swap = <<>>
      /\ n = a + 2 => me.swap = content
      /\ n <= a + 1 => files[to] = content
  BY <1>1 DEF Underway, IsFile
<1>3. SameRequest(you, me) /\ you.todo = Tail(me.todo) /\ you.result = me.result /\ you.bytes = me.bytes /\ you.swap = me.swap
  <2>1. PICK d : GoesOn(s, Onward(s), d)
    BY DEF Create
  <2> QED
    BY <1>1, <2>1, FieldsOfOnward, Others
<1>4. c.do = "create"
  BY DEF Create, Does
<1>5. n = a + 5 /\ c.path = to
  <2> HIDE DEF from, to, n, c, a, b
  <2> QED
    BY <1>4, <1>1, Zenon DEF Placed, a, b
<1>6. /\ from \in DOMAIN files' /\ files'[from] = content
      /\ to \in DOMAIN files'
  BY <1>2, <1>5, CreatedIs
<1> HIDE DEF me, from, to, c, a, b, n, content, you
<1>9. /\ n = a + b + 7 => from # <<>>
      /\ n > 1 => from \in DOMAIN files' /\ files'[from] = content
      /\ n = a + b + 6 => you.bytes = content
      /\ n <= a + b + 5 => you.bytes = me.bytes
      /\ \A j \in 1..b : n = a + b + 6 - j => SubSeq(to, 1, j) # from
      /\ n <= a + 5 => to \in DOMAIN files'
      /\ n = a + 4 => you.swap = <<>>
      /\ n = a + 3 => you.swap = content
      /\ n <= a + 2 => files'[to] = content
  BY <1>1, <1>2, <1>3, <1>5, <1>6
<1> QED
  BY <1>3, <1>9 DEF Advances, me, from, to, a, b, n, content, you

LEMMA LoadAdvances ==
    ASSUME FileTypes, NEW s \in Sessions, Underway(sessions[s]), Load(s)
    PROVE  Advances(s)
<1> DEFINE me == sessions[s] from == me.request.path to == me.request.to c == Current(s)
           a == Depth(from) b == Depth(to) n == Len(me.todo) content == me.before.files[from] you == sessions'[s]
<1>0. me.todo # <<>>
  BY DEF Load, Does
<1>1. /\ a \in Nat /\ b \in Nat /\ n \in 1..2 * a + b + 7
      /\ Placed(from, to, n, c) /\ IsSession(me)
  BY <1>0, AtCall
<1>2. /\ from \in DOMAIN files /\ files[from] = content
      /\ n <= a + b + 5 => me.bytes = content
      /\ n <= a + 4 => to \in DOMAIN files
      /\ n = a + 3 => me.swap = <<>>
      /\ n = a + 2 => me.swap = content
      /\ n <= a + 1 => files[to] = content
  BY <1>1 DEF Underway, IsFile
<1>3. SameRequest(you, me) /\ you.todo = Tail(me.todo) /\ you.result = me.result /\ you.bytes = files[c.path]
  <2>1. you = [Onward(s) EXCEPT !.bytes = files[c.path]]
    BY Others DEF Load
  <2>2. IsSession(Onward(s)) /\ SameRequest(Onward(s), me) /\ Onward(s).todo = Tail(me.todo) /\ Onward(s).result = me.result
    BY <1>1, FieldsOfOnward
  <2> DEFINE o == Onward(s)
  <2> HIDE DEF o, me, you, c
  <2> QED
    BY <2>1, <2>2 DEF IsSession, SameRequest, o
<1>4. files' = files /\ c.do = "load"
  BY DEF Load, Does
<1>5. n = a + b + 6 /\ c.path = from
  <2> HIDE DEF from, to, n, c, a, b
  <2> QED
    BY <1>4, <1>1, Zenon DEF Placed, a, b
<1> HIDE DEF me, from, to, c, a, b, n, content, you
<1>9. /\ n = a + b + 7 => from # <<>>
      /\ n > 1 => from \in DOMAIN files' /\ files'[from] = content
      /\ n = a + b + 6 => you.bytes = content
      /\ n <= a + b + 5 => you.bytes = me.bytes
      /\ \A j \in 1..b : n = a + b + 6 - j => SubSeq(to, 1, j) # from
      /\ n <= a + 5 => to \in DOMAIN files'
      /\ n = a + 4 => you.swap = <<>>
      /\ n = a + 3 => you.swap = content
      /\ n <= a + 2 => files'[to] = content
  <2>1. /\ n # a + b + 7 /\ ~(n <= a + b + 5) /\ ~(n <= a + 5) /\ n # a + 4 /\ n # a + 3 /\ ~(n <= a + 2)
        /\ \A j \in 1..b : n # a + b + 6 - j
    BY <1>1, <1>5
  <2>2. files'[c.path] = content /\ you.bytes = content /\ from \in DOMAIN files'
    BY <1>2, <1>3, <1>4, <1>5
  <2> QED
    BY <1>2, <1>4, <2>1, <2>2, Zenon
<1> QED
  BY <1>3, <1>9 DEF Advances, me, from, to, a, b, n, content, you

LEMMA OpenStreamAdvances ==
    ASSUME FileTypes, NEW s \in Sessions, Underway(sessions[s]), OpenStream(s)
    PROVE  Advances(s)
<1> DEFINE me == sessions[s] from == me.request.path to == me.request.to c == Current(s)
           a == Depth(from) b == Depth(to) n == Len(me.todo) content == me.before.files[from] you == sessions'[s]
<1>0. me.todo # <<>>
  BY DEF OpenStream, Does
<1>1. /\ a \in Nat /\ b \in Nat /\ n \in 1..2 * a + b + 7
      /\ Placed(from, to, n, c) /\ IsSession(me)
  BY <1>0, AtCall
<1>2. /\ from \in DOMAIN files /\ files[from] = content
      /\ n <= a + b + 5 => me.bytes = content
      /\ n <= a + 4 => to \in DOMAIN files
      /\ n = a + 3 => me.swap = <<>>
      /\ n = a + 2 => me.swap = content
      /\ n <= a + 1 => files[to] = content
  BY <1>1 DEF Underway, IsFile
<1>3. SameRequest(you, me) /\ you.todo = Tail(me.todo) /\ you.result = me.result /\ you.bytes = me.bytes
      /\ (c.do = "replace" => you.swap = <<>>)
  <2> DEFINE o == Onward(s) kept == IF c.do = "edit" THEN files[c.path] ELSE <<>>
  <2>1. you = [o EXCEPT !.stream = TRUE, !.swap = kept]
    BY Others DEF OpenStream
  <2>2. IsSession(o) /\ SameRequest(o, me) /\ o.todo = Tail(me.todo) /\ o.result = me.result
        /\ o.bytes = me.bytes
    BY <1>1, FieldsOfOnward
  <2>3. c.do = "replace" => kept = <<>>
    OBVIOUS
  <2> HIDE DEF o, me, you, c, kept
  <2> QED
    BY <2>1, <2>2, <2>3 DEF IsSession, SameRequest
<1>4. files' = files /\ c.do \in {"replace", "edit"}
  BY DEF OpenStream, Does
<1>5. n = a + 4 /\ c.do = "replace"
  <2> HIDE DEF from, to, n, c, a, b
  <2> QED
    BY <1>4, <1>1, Zenon DEF Placed, a, b
<1> HIDE DEF me, from, to, c, a, b, n, content, you
<1>9. /\ n = a + b + 7 => from # <<>>
      /\ n > 1 => from \in DOMAIN files' /\ files'[from] = content
      /\ n = a + b + 6 => you.bytes = content
      /\ n <= a + b + 5 => you.bytes = me.bytes
      /\ \A j \in 1..b : n = a + b + 6 - j => SubSeq(to, 1, j) # from
      /\ n <= a + 5 => to \in DOMAIN files'
      /\ n = a + 4 => you.swap = <<>>
      /\ n = a + 3 => you.swap = content
      /\ n <= a + 2 => files'[to] = content
  BY <1>1, <1>2, <1>3, <1>4, <1>5
<1> QED
  BY <1>3, <1>9 DEF Advances, me, from, to, a, b, n, content, you

LEMMA FillAdvances ==
    ASSUME FileTypes, NEW s \in Sessions, Moving(sessions[s]), Underway(sessions[s]), Fill(s)
    PROVE  Advances(s)
<1> DEFINE me == sessions[s] from == me.request.path to == me.request.to c == Current(s)
           a == Depth(from) b == Depth(to) n == Len(me.todo) content == me.before.files[from] you == sessions'[s]
<1>0. me.todo # <<>>
  BY DEF Fill, Does
<1>1. /\ a \in Nat /\ b \in Nat /\ n \in 1..2 * a + b + 7
      /\ Placed(from, to, n, c) /\ IsSession(me)
  BY <1>0, AtCall
<1>2. /\ from \in DOMAIN files /\ files[from] = content
      /\ n <= a + b + 5 => me.bytes = content
      /\ n <= a + 4 => to \in DOMAIN files
      /\ n = a + 3 => me.swap = <<>>
      /\ n = a + 2 => me.swap = content
      /\ n <= a + 1 => files[to] = content
  BY <1>1 DEF Underway, IsFile
<1>3. SameRequest(you, me) /\ you.todo = Tail(me.todo) /\ you.result = me.result /\ you.bytes = me.bytes
      /\ (me.request.call = "move" => you.swap = Overwritten(me.swap, 0, me.bytes))
  <2> DEFINE o == Onward(s)
             kept == Overwritten(me.swap, IF me.request.call \in {"append", "update"} THEN me.at ELSE 0, me.bytes)
  <2>1. you = [o EXCEPT !.swap = kept]
    BY Others DEF Fill
  <2>2. IsSession(o) /\ SameRequest(o, me) /\ o.todo = Tail(me.todo) /\ o.result = me.result
        /\ o.bytes = me.bytes
    BY <1>1, FieldsOfOnward
  <2>3. me.request.call = "move" => kept = Overwritten(me.swap, 0, me.bytes)
    OBVIOUS
  <2> HIDE DEF o, me, you, kept
  <2> QED
    BY <2>1, <2>2, <2>3 DEF IsSession, SameRequest
<1>4. files' = files /\ c.do = "fill"
  BY DEF Fill, Does
<1>5. n = a + 3
  <2> HIDE DEF from, to, n, c, a, b
  <2> QED
    BY <1>4, <1>1, Zenon DEF Placed, a, b
<1>6. me.bytes = content /\ me.swap = <<>> /\ me.request.call = "move"
  BY <1>1, <1>2, <1>5 DEF Moving
<1>7. you.swap = content
  <2>1. me.bytes \in Seq(Int) /\ me.swap \in Seq(Int)
    BY <1>1 DEF IsSession
  <2> HIDE DEF me, you, content
  <2> QED
    BY <1>3, <1>6, <2>1, OverwrittenIs
<1> HIDE DEF me, from, to, c, a, b, n, content, you
<1>9. /\ n = a + b + 7 => from # <<>>
      /\ n > 1 => from \in DOMAIN files' /\ files'[from] = content
      /\ n = a + b + 6 => you.bytes = content
      /\ n <= a + b + 5 => you.bytes = me.bytes
      /\ \A j \in 1..b : n = a + b + 6 - j => SubSeq(to, 1, j) # from
      /\ n <= a + 5 => to \in DOMAIN files'
      /\ n = a + 4 => you.swap = <<>>
      /\ n = a + 3 => you.swap = content
      /\ n <= a + 2 => files'[to] = content
  BY <1>1, <1>2, <1>3, <1>4, <1>5, <1>7
<1> QED
  BY <1>3, <1>9 DEF Advances, me, from, to, a, b, n, content, you

LEMMA CommitAdvances ==
    ASSUME FileTypes, NEW s \in Sessions, Underway(sessions[s]), Commit(s)
    PROVE  Advances(s)
<1> DEFINE me == sessions[s] from == me.request.path to == me.request.to c == Current(s)
           a == Depth(from) b == Depth(to) n == Len(me.todo) content == me.before.files[from] you == sessions'[s]
<1>0. me.todo # <<>>
  BY DEF Commit, Does
<1>1. /\ a \in Nat /\ b \in Nat /\ n \in 1..2 * a + b + 7
      /\ Placed(from, to, n, c) /\ IsSession(me)
  BY <1>0, AtCall
<1>2. /\ from \in DOMAIN files /\ files[from] = content
      /\ n <= a + b + 5 => me.bytes = content
      /\ n <= a + 4 => to \in DOMAIN files
      /\ n = a + 3 => me.swap = <<>>
      /\ n = a + 2 => me.swap = content
      /\ n <= a + 1 => files[to] = content
  BY <1>1 DEF Underway, IsFile
<1>3. SameRequest(you, me) /\ you.todo = Tail(me.todo) /\ you.result = me.result /\ you.bytes = me.bytes
  <2> DEFINE o == Onward(s)
  <2>1. you = [o EXCEPT !.stream = FALSE, !.swap = <<>>]
    BY Others DEF Commit
  <2>2. IsSession(o) /\ SameRequest(o, me) /\ o.todo = Tail(me.todo) /\ o.result = me.result
        /\ o.bytes = me.bytes
    BY <1>1, FieldsOfOnward
  <2> HIDE DEF o, me, you
  <2> QED
    BY <2>1, <2>2 DEF IsSession, SameRequest
<1>4. c.do = "commit" /\ files' = [files EXCEPT ![c.path] = me.swap]
  BY DEF Commit, Does
<1>5. n = a + 2 /\ c.path = to
  <2> HIDE DEF from, to, n, c, a, b
  <2> QED
    BY <1>4, <1>1, Zenon DEF Placed, a, b
<1>6. me.swap = content /\ to \in DOMAIN files
  BY <1>1, <1>2, <1>5
<1>7. /\ from \in DOMAIN files' /\ files'[from] = content
      /\ to \in DOMAIN files' /\ files'[to] = content
  <2> HIDE DEF from, to, me, content, c
  <2> QED
    BY <1>2, <1>4, <1>5, <1>6
<1> HIDE DEF me, from, to, c, a, b, n, content, you
<1>9. /\ n = a + b + 7 => from # <<>>
      /\ n > 1 => from \in DOMAIN files' /\ files'[from] = content
      /\ n = a + b + 6 => you.bytes = content
      /\ n <= a + b + 5 => you.bytes = me.bytes
      /\ \A j \in 1..b : n = a + b + 6 - j => SubSeq(to, 1, j) # from
      /\ n <= a + 5 => to \in DOMAIN files'
      /\ n = a + 4 => you.swap = <<>>
      /\ n = a + 3 => you.swap = content
      /\ n <= a + 2 => files'[to] = content
  BY <1>1, <1>2, <1>3, <1>5, <1>7
<1> QED
  BY <1>3, <1>9 DEF Advances, me, from, to, a, b, n, content, you

(* The new path of a move is not below the old one: that is a file, not a directory. *)
LEMMA NotBelow ==
    ASSUME NEW me, IsSession(me), Underway(me), Len(me.todo) = 1, me.request.path # me.request.to
    PROVE  ~IsPrefix(me.request.path, me.request.to)
<1> DEFINE from == me.request.path to == me.request.to a == Depth(from) b == Depth(to)
<1>1. /\ from \in Seq(Names(me.request)) /\ to \in Seq(Names(me.request))
      /\ Len(from) \in Nat /\ Len(to) \in Nat /\ a \in Nat /\ b \in Nat
  BY PathsOfRequest
<1>2. from # <<>> /\ \A j \in 1..b : SubSeq(to, 1, j) # from
  <2>1. 1 <= a + b + 6 /\ \A j \in 1..b : 1 <= a + b + 5 - j
    BY <1>1
  <2> QED
    BY <2>1 DEF Underway
<1>3. Len(to) > 0 => b = Len(to) - 1
  BY <1>1 DEF Depth
<1>4. SubSeq(from, 1, Len(from)) = from /\ SubSeq(to, 1, Len(to)) = to
  BY <1>1, SubSeqFull
<1>5. Len(from) > 0
  BY <1>1, <1>2, EmptySeq
<1> HIDE DEF from, to, a, b
<1> SUFFICES ASSUME IsPrefix(from, to) PROVE FALSE
  BY DEF from, to
<1>6. Len(from) <= Len(to) /\ from = SubSeq(to, 1, Len(from))
  BY <1>4 DEF IsPrefix
<1>7. CASE Len(from) = Len(to)
  BY <1>4, <1>6, <1>7 DEF from, to
<1>8. CASE Len(from) < Len(to)
  <2>1. Len(from) \in 1..b
    BY <1>1, <1>3, <1>5, <1>8
  <2> QED
    BY <1>2, <1>6, <2>1
<1> QED
  BY <1>1, <1>6, <1>7, <1>8

LEMMA RemoveEntryAdvances ==
    ASSUME FileTypes, NEW s \in Sessions, Moving(sessions[s]), Underway(sessions[s]), RemoveEntry(s)
    PROVE  Advances(s)
<1> DEFINE me == sessions[s] from == me.request.path to == me.request.to c == Current(s)
           a == Depth(from) b == Depth(to) n == Len(me.todo) content == me.before.files[from] you == sessions'[s]
<1>0. me.todo # <<>>
  BY DEF RemoveEntry, Does
<1>1. /\ a \in Nat /\ b \in Nat /\ n \in 1..2 * a + b + 7
      /\ Placed(from, to, n, c) /\ IsSession(me)
  BY <1>0, AtCall
<1>2. /\ from \in DOMAIN files /\ files[from] = content
      /\ n <= a + b + 5 => me.bytes = content
      /\ n <= a + 4 => to \in DOMAIN files
      /\ n = a + 3 => me.swap = <<>>
      /\ n = a + 2 => me.swap = content
      /\ n <= a + 1 => files[to] = content
  BY <1>1 DEF Underway, IsFile
<1>3. SameRequest(you, me) /\ you.todo = Tail(me.todo) /\ you.result = me.result /\ you.bytes = me.bytes /\ you.swap = me.swap
  BY <1>1, FieldsOfOnward, Others DEF RemoveEntry
<1>4. c.do = "remove"
  BY DEF RemoveEntry, Does
<1>5. n = 1 /\ c.path = from
  <2> HIDE DEF from, to, n, c, a, b
  <2> QED
    BY <1>4, <1>1, Zenon DEF Placed, a, b
<1>6. ~IsPrefix(from, to)
  BY <1>1, <1>5, NotBelow DEF Moving
<1>7. to \in DOMAIN files /\ files[to] = content
  BY <1>1, <1>2, <1>5
<1>8. to \in DOMAIN files' /\ files'[to] = content
  <2>1. files' = [p \in {q \in DOMAIN files : ~IsPrefix(c.path, q)} |-> files[p]]
    BY DEF RemoveEntry
  <2> HIDE DEF from, to, content, c
  <2> QED
    BY <2>1, <1>5, <1>6, <1>7
<1> HIDE DEF me, from, to, c, a, b, n, content, you
<1>9. /\ n = a + b + 7 => from # <<>>
      /\ n > 1 => from \in DOMAIN files' /\ files'[from] = content
      /\ n = a + b + 6 => you.bytes = content
      /\ n <= a + b + 5 => you.bytes = me.bytes
      /\ \A j \in 1..b : n = a + b + 6 - j => SubSeq(to, 1, j) # from
      /\ n <= a + 5 => to \in DOMAIN files'
      /\ n = a + 4 => you.swap = <<>>
      /\ n = a + 3 => you.swap = content
      /\ n <= a + 2 => files'[to] = content
  BY <1>1, <1>2, <1>3, <1>5, <1>8
<1> QED
  BY <1>3, <1>9 DEF Advances, me, from, to, a, b, n, content, you

(* ---- Every step ---- *)

Advancing(s) ==
    Look(s) \/ Make(s) \/ Create(s) \/ Load(s) \/ OpenStream(s) \/ Fill(s) \/ Commit(s) \/ RemoveEntry(s)
Stopping(s) == Refuse(s) \/ Fault(s) \/ Finish(s) \/ Crash(s)

SafeMove(s) == Moving(sessions[s]) => IF Busy(s) THEN Underway(sessions[s]) ELSE Landed(sessions[s])

LEMMA PlanOfMove ==
    ASSUME NEW r, r.call = "move"
    PROVE  Plan(r) = Rename(r.path, r.to)
  BY DEF Plan

LEMMA StartIsSafe ==
    ASSUME FileTypes, NEW s \in Sessions, NEW r \in Requests, Start(s, r)
    PROVE  SafeMove(s)'
<1> DEFINE refused == ~r.sound /\ r.call \in {"write", "append", "update"}
           todo == IF refused THEN <<>> ELSE Plan(r)
           result == IF refused THEN "E_INVALID_ENCODING" ELSE "busy"
           before == [dirs |-> dirs, files |-> files]
           alone == Writers = {} /\ leaked = {}
           you == sessions'[s] from == r.path to == r.to a == Depth(from) b == Depth(to) names == Names(r)
<1> SUFFICES ASSUME Moving(you) PROVE Busy(s)' /\ Underway(sessions[s])'
  BY DEF SafeMove
<1>1. you = [Idle EXCEPT !.request = r, !.bytes = r.data, !.at = r.offset,
                         !.todo = todo, !.result = result, !.before = before, !.alone = alone]
      /\ files' = files
  BY Others DEF Start
<1>2. you.request = r /\ you.todo = todo /\ you.result = result /\ you.before = before
  <2> HIDE DEF todo, result, before, alone, you
  <2> QED BY <1>1 DEF Idle
<1>3. r.call = "move" /\ from \in DOMAIN files /\ from # to
  BY <1>2 DEF Moving, Kept
<1>4. result = "busy" /\ todo = Rename(from, to) /\ before.files[from] = files[from]
  BY <1>3, PlanOfMove
<1>5. IsSession(you)
  BY StartTypes DEF FileTypes
<1>6. from \in Seq(names) /\ to \in Seq(names) /\ a \in Nat /\ b \in Nat
  <2> HIDE DEF you
  <2> QED BY <1>2, <1>5, PathsOfRequest
<1>7. todo \in Seq(CallsOn(names)) /\ Len(todo) = 2 * a + b + 7 /\ Lasts(from, to, todo)
  <2> HIDE DEF names, from, to, todo
  <2> QED BY <1>4, <1>6, RenameIs DEF a, b
<1>8. LET n == Len(you.todo)
      IN  /\ n <= 2 * a + b + 7
          /\ ~(n <= a + b + 6) /\ ~(n <= a + b + 5) /\ ~(n <= a + 4) /\ n # a + 3 /\ n # a + 2 /\ ~(n <= a + 1)
          /\ \A j \in 1..b : ~(n <= a + b + 5 - j)
  <2> HIDE DEF a, b, todo, you
  <2> QED BY <1>2, <1>6, <1>7
<1>9. /\ you.todo \in Seq(CallsOn(Names(you.request))) /\ Lasts(you.request.path, you.request.to, you.todo)
      /\ you.request.path = from /\ you.request.to = to
      /\ from \in DOMAIN files' /\ files'[from] = you.before.files[from]
  BY <1>1, <1>2, <1>3, <1>4, <1>7
<1>10. Busy(s)'
  BY <1>2, <1>4 DEF Busy
<1>11. Underway(sessions[s])'
  <2> HIDE DEF you, from, to, todo, result, before, alone
  <2> QED
    BY <1>8, <1>9, Zenon DEF Underway, IsFile, a, b, you
<1> QED
  BY <1>10, <1>11

LEMMA OwnStepKeeps ==
    ASSUME FileTypes, NEW s \in Sessions, Advancing(s) \/ Measure(s)
    PROVE  SameRequest(sessions'[s], sessions[s])
<1> DEFINE o == Onward(s)
<1>1. IsSession(o) /\ SameRequest(o, sessions[s])
  BY FieldsOfOnward DEF FileTypes
<1>2. \/ sessions'[s] = o
      \/ \E bytes : sessions'[s] = [o EXCEPT !.bytes = bytes]
      \/ \E at : sessions'[s] = [o EXCEPT !.at = at]
      \/ \E swap : sessions'[s] = [o EXCEPT !.swap = swap]
      \/ \E stream, swap : sessions'[s] = [o EXCEPT !.stream = stream, !.swap = swap]
  <2>1. CASE Look(s) \/ Make(s) \/ Create(s) \/ RemoveEntry(s)
    <3>1. PICK d : GoesOn(s, o, d)
      BY <2>1 DEF Look, Make, Create, RemoveEntry
    <3> QED
      BY <3>1, Others
  <2>2. CASE Load(s)
    <3> DEFINE bytes == files[Current(s).path]
    <3>1. sessions'[s] = [o EXCEPT !.bytes = bytes]
      BY <2>2, Others DEF Load
    <3> HIDE DEF bytes, o
    <3> QED
      BY <3>1
  <2>3. CASE Measure(s)
    <3> DEFINE at == Len(files[Current(s).path])
    <3>1. sessions'[s] = [o EXCEPT !.at = at]
      BY <2>3, Others DEF Measure
    <3> HIDE DEF at, o
    <3> QED
      BY <3>1
  <2>4. CASE OpenStream(s)
    <3> DEFINE swap == IF Current(s).do = "edit" THEN files[Current(s).path] ELSE <<>>
    <3>1. sessions'[s] = [o EXCEPT !.stream = TRUE, !.swap = swap]
      BY <2>4, Others DEF OpenStream
    <3> HIDE DEF swap, o
    <3> QED
      BY <3>1
  <2>5. CASE Fill(s)
    <3> DEFINE me == sessions[s]
               swap == Overwritten(me.swap, IF me.request.call \in {"append", "update"} THEN me.at ELSE 0, me.bytes)
    <3>1. sessions'[s] = [o EXCEPT !.swap = swap]
      BY <2>5, Others DEF Fill
    <3> HIDE DEF swap, o
    <3> QED
      BY <3>1
  <2>6. CASE Commit(s)
    <3>1. sessions'[s] = [o EXCEPT !.stream = FALSE, !.swap = <<>>]
      BY <2>6, Others DEF Commit
    <3> HIDE DEF o
    <3> QED
      BY <3>1
  <2> QED
    BY <2>1, <2>2, <2>3, <2>4, <2>5, <2>6 DEF Advancing
<1> HIDE DEF o
<1> QED
  BY <1>1, <1>2 DEF IsSession, SameRequest

(* Only append measures a file. *)
LEMMA MeasuresNoMove ==
    ASSUME FileTypes, NEW s \in Sessions, SafeMove(s), Measure(s)
    PROVE  SafeMove(s)'
<1>1. Busy(s) /\ sessions[s].todo # <<>> /\ Current(s).do = "measure"
  BY DEF Measure, Does
<1>2. SameRequest(sessions'[s], sessions[s])
  BY OwnStepKeeps
<1>3. ~Underway(sessions[s])
  <2> SUFFICES ASSUME Underway(sessions[s]) PROVE FALSE
    OBVIOUS
  <2> QED
    BY <1>1, AtCall DEF Placed
<1> QED
  BY <1>1, <1>2, <1>3 DEF SafeMove, Moving, SameRequest

LEMMA AdvancingIsSafe ==
    ASSUME FileTypes, NEW s \in Sessions, SafeMove(s), Advancing(s)
    PROVE  SafeMove(s)'
<1>1. Busy(s) /\ sessions[s].todo # <<>>
  BY DEF Advancing, Look, Make, Create, Load, OpenStream, Fill, Commit, RemoveEntry, Does
<1>2. IsSession(sessions[s])
  BY DEF FileTypes
<1>3. SameRequest(sessions'[s], sessions[s])
  BY OwnStepKeeps
<1> SUFFICES ASSUME Moving(sessions'[s]) PROVE SafeMove(s)'
  BY DEF SafeMove
<1>4. Moving(sessions[s])
  BY <1>3 DEF Moving, SameRequest
<1>5. Underway(sessions[s])
  BY <1>1, <1>4 DEF SafeMove
<1>6. Advances(s)
  BY <1>4, <1>5, LookAdvances, MakeAdvances, CreateAdvances, LoadAdvances, OpenStreamAdvances, FillAdvances,
     CommitAdvances, RemoveEntryAdvances DEF Advancing
<1>7. Underway(sessions[s])'
  BY <1>1, <1>2, <1>5, <1>6, GoesUnderway
<1>8. Busy(s)'
  BY <1>1, <1>6 DEF Busy, Advances
<1> QED
  BY <1>7, <1>8 DEF SafeMove

(* What ends leaves the file where it is. *)
LEMMA StoppingIsSafe ==
    ASSUME FileTypes, NEW s \in Sessions, SafeMove(s), Stopping(s)
    PROVE  SafeMove(s)'
<1>1. Busy(s) /\ files' = files
  BY DEF Stopping, Refuse, Fault, Finish, Crash
<1>2. IsSession(sessions[s])
  BY DEF FileTypes
<1>3. /\ SameRequest(sessions'[s], sessions[s])
      /\ sessions[s].request.call = "move" => sessions'[s].result # "busy"
  <2>1. CASE Refuse(s)
    <3> DEFINE error == Refusal(Current(s).do, Current(s).path)
    <3>1. sessions'[s] = Instead(s, error)
      BY <2>1, Others DEF Refuse
    <3>2. error # "busy"
      BY DEF Refusal
    <3> QED
      BY <3>1, <3>2, InsteadIs
  <2>2. CASE Fault(s)
    <3>1. sessions'[s] = Instead(s, "E_IO")
      BY <2>2, Others DEF Fault
    <3> QED
      BY <3>1, InsteadIs
  <2>3. CASE Finish(s)
    BY <2>3, FinishTypes
  <2>4. CASE Crash(s)
    <3>1. sessions'[s] = Ends(s, "crashed")
      BY <2>4, Others DEF Crash
    <3> QED
      BY <1>2, <3>1, FieldsOfEnds
  <2> QED
    BY <2>1, <2>2, <2>3, <2>4 DEF Stopping
<1> SUFFICES ASSUME Moving(sessions'[s]) PROVE SafeMove(s)'
  BY DEF SafeMove
<1>4. Moving(sessions[s])
  BY <1>3 DEF Moving, SameRequest
<1>5. Landed(sessions[s])
  BY <1>1, <1>2, <1>4, UnderwayLands DEF SafeMove
<1>6. Landed(sessions[s])'
  BY <1>1, <1>3, <1>5 DEF Landed, SameRequest, IsFile
<1>7. ~Busy(s)'
  BY <1>3, <1>4 DEF Busy, Moving
<1> QED
  BY <1>6, <1>7 DEF SafeMove

(* Who changes the files disturbs all others. *)
LEMMA OthersAreSafe ==
    ASSUME FileTypes, NEW s \in Sessions, NEW t \in Sessions \ {s}, SafeMove(t),
           (\E r \in Requests : Start(s, r)) \/ Advancing(s) \/ Measure(s) \/ Stopping(s)
    PROVE  SafeMove(t)'
<1>1. \/ sessions'[t] = sessions[t] /\ files' = files
      \/ sessions'[t].alone = FALSE
  <2>1. PICK next, d : GoesOn(s, next, d) /\ (d \/ files' = files)
    BY DEF Start, Advancing, Measure, Stopping, Look, Make, Create, Load, OpenStream, Fill, Commit, RemoveEntry,
           Refuse, Fault, Finish, Crash
  <2> QED
    BY <2>1, Others
<1>2. CASE sessions'[t].alone = FALSE
  BY <1>2 DEF SafeMove, Moving
<1>3. CASE sessions'[t] = sessions[t] /\ files' = files
  BY <1>3 DEF SafeMove, Moving, Busy, Underway, Landed, IsFile
<1> QED
  BY <1>1, <1>2, <1>3

LEMMA MovesStep == ASSUME FileTypes, MovesInv, [FilesNext]_fileVars PROVE MovesInv'
<1>1. ASSUME NEW s \in Sessions,
             (\E r \in Requests : Start(s, r)) \/ Advancing(s) \/ Measure(s) \/ Stopping(s)
      PROVE  MovesInv'
  <2>1. SafeMove(s)'
    BY <1>1, StartIsSafe, AdvancingIsSafe, StoppingIsSafe, MeasuresNoMove DEF MovesInv, SafeMove
  <2>2. \A t \in Sessions \ {s} : SafeMove(t)'
    BY <1>1, OthersAreSafe DEF MovesInv, SafeMove
  <2> QED
    BY <2>1, <2>2 DEF MovesInv, SafeMove
<1>2. CASE UNCHANGED <<files, sessions>>
  BY <1>2 DEF MovesInv, Moving, Busy, Underway, Landed, IsFile
<1>3. ASSUME Collect \/ UNCHANGED fileVars PROVE UNCHANGED <<files, sessions>>
  BY <1>3 DEF Collect, fileVars
<1> QED
  BY <1>1, <1>2, <1>3 DEF FilesNext, Advancing, Stopping

FilesInv == FileTypes /\ MovesInv

(* With n calls left a move between two paths has its file at the old one until the last
   call, and at the new one before it, whatever fails (OpfsFs::rename). *)
THEOREM FilesInvariant == FilesSpec => []FilesInv
<1>1. FilesInit => FilesInv
  <2> SUFFICES ASSUME FilesInit PROVE FilesInv
    OBVIOUS
  <2>1. \A s \in Sessions : ~Moving(sessions[s])
    BY DEF FilesInit, Idle, Moving
  <2> QED
    BY <2>1, FileTypesInit DEF FilesInv, MovesInv
<1>2. FilesInv /\ [FilesNext]_fileVars => FilesInv'
  BY FileTypesStep, MovesStep DEF FilesInv
<1> QED
  BY <1>1, <1>2, PTL DEF FilesSpec

(* Nobody asks to move a path onto itself, which deletes the file. *)
NoMoveOntoItself == \A r \in Requests : r.call = "move" => r.path # r.to

(* Whatever fails or ends during a move that no other session disturbs, the bytes are at
   the old path or at the new one (OpfsFs::rename: read, write, delete). *)
THEOREM MovesLoseNothing == ASSUME NoMoveOntoItself PROVE FilesSpec => []MoveNeverLoses
<1>1. FilesInv => MoveNeverLoses
  <2> SUFFICES ASSUME FilesInv, NEW s \in Sessions, sessions[s].alone, sessions[s].request.call = "move",
                      Kept(sessions[s].before, sessions[s].request.path)
               PROVE  Landed(sessions[s])
    BY DEF MoveNeverLoses, Landed
  <2>1. IsSession(sessions[s])
    BY DEF FilesInv, FileTypes
  <2>2. sessions[s].request \in Requests
    <3>1. Nobody.call # "move"
      BY DEF Nobody, Request
    <3> QED
      BY <2>1, <3>1 DEF IsSession
  <2>3. Moving(sessions[s])
    BY <2>2 DEF Moving, NoMoveOntoItself
  <2> QED
    BY <2>1, <2>3, UnderwayLands DEF FilesInv, MovesInv
<1> QED
  BY <1>1, FilesInvariant, PTL

(* ---- An operation that nobody disturbs ---- *)

Name == UNION ({Range(r.path) \union Range(r.to) : r \in Requests} \union {Range(p) : p \in Directories \union DOMAIN Contents})
Path == Seq(Name)

(* A tree: what holds a directory or file are directories, and no name is both. *)
Sound(t) ==
    /\ t = [dirs |-> t.dirs, files |-> t.files]
    /\ t.dirs \subseteq Path /\ DOMAIN t.files \subseteq Path
    /\ t.files \in [DOMAIN t.files -> Seq(Int)]
    /\ <<>> \notin t.dirs /\ <<>> \notin DOMAIN t.files
    /\ t.dirs \intersect DOMAIN t.files = {}
    /\ \A p \in t.dirs \union DOMAIN t.files : Above(p) \subseteq t.dirs

Deeds == {"enter", "entries", "open", "load", "make", "create", "measure", "replace", "edit", "fill", "commit", "remove"}
Calls == {c \in [do : Deeds, path : Path] : c.do = "make" => c.path # <<>>}

(* What a call finds possible in the tree the operation began with, when all calls before
   it have done their work. *)
Allows(t, c) ==
    /\ c.do \in {"enter", "entries"} => Folder(t, c.path)
    /\ c.do = "open" => Kept(t, c.path)
    /\ c.do = "make" => ~Kept(t, c.path)
    /\ c.do = "create" => ~Folder(t, c.path)
    /\ c.do = "remove" => c.path # <<>> /\ (Kept(t, c.path) \/ Folder(t, c.path))

Deed(done) == {c.do : c \in done}
Made(done) == {c.path : c \in {x \in done : x.do = "make"}}
Goal(r) == IF r.call \in {"copy", "move"} THEN r.to ELSE r.path

ParentMade(done, p) == Len(p) > 1 => Call("make", SubSeq(p, 1, Len(p) - 1)) \in done
Ready(r, done) == Call("open", Goal(r)) \in done \/ Call("create", Goal(r)) \in done
Prepared(r, did) ==
    \/ r.call = "write" /\ "replace" \in did /\ did \intersect {"load", "measure", "edit"} = {}
    \/ r.call \in {"copy", "move"} /\ {"replace", "load"} \subseteq did /\ did \intersect {"measure", "edit"} = {}
    \/ r.call = "append" /\ {"measure", "edit"} \subseteq did /\ "load" \notin did
    \/ r.call = "update" /\ "edit" \in did /\ did \intersect {"load", "measure"} = {}

(* The order of the calls of an operation: c comes after those of done. *)
Looks(r, done, c) ==
    /\ c.do \in {"enter", "entries"} =>
          \/ Deed(done) \subseteq {"enter"}
          \/ /\ r.call = "move" /\ c.do = "enter" /\ "commit" \in Deed(done)
             /\ Call("open", r.path) \in done /\ c.path \in Above(r.path)
    /\ c.do = "open" => c.path = r.path /\ Deed(done) \subseteq {"enter"}
    /\ c.do = "load" => c.path = r.path /\ Call("open", r.path) \in done /\ Deed(done) \subseteq {"enter", "open"}
Grows(r, done, c) ==
    /\ c.do = "make" => Deed(done) \subseteq {"enter", "open", "load", "make"} /\ ParentMade(done, c.path)
    /\ c.do = "create" =>
          /\ c.path = Goal(r) /\ Deed(done) \subseteq {"enter", "open", "load", "make"}
          /\ ParentMade(done, c.path) /\ Goal(r) \notin Made(done)
Writes(r, done, c) ==
    /\ c.do \in {"measure", "replace", "edit", "fill", "commit"} => c.path = Goal(r) /\ Ready(r, done) /\ "commit" \notin Deed(done)
    /\ c.do = "measure" => Deed(done) \intersect {"replace", "edit"} = {}
    /\ c.do \in {"replace", "edit"} => Deed(done) \intersect {"replace", "edit", "fill"} = {}
    /\ c.do = "fill" => "fill" \notin Deed(done) /\ Prepared(r, Deed(done))
    /\ c.do = "commit" => "fill" \in Deed(done) /\ Prepared(r, Deed(done))
Removes(r, done, c) ==
    /\ "remove" \notin Deed(done)
    /\ "commit" \in Deed(done) => r.call = "move"
    /\ c.do = "remove" =>
          /\ c.path = r.path
          /\ \/ r.call = "delete" /\ Deed(done) \subseteq {"enter"}
             \/ r.call = "move" /\ "commit" \in Deed(done) /\ Call("open", r.path) \in done
Follows(r, done, c) == Looks(r, done, c) /\ Grows(r, done, c) /\ Writes(r, done, c) /\ Removes(r, done, c)

Orderly(r, done, todo) ==
    \A i \in 1..Len(todo) : Follows(r, done \union {todo[j] : j \in 1..i - 1}, todo[i])

(* What the operation has done to the tree t, and holds in its hands. *)
OldContent(r, t) == IF Kept(t, Goal(r)) THEN t.files[Goal(r)] ELSE <<>>
Content(r, t) ==
    CASE r.call \in {"copy", "move"} -> t.files[r.path]
      [] r.call = "write" -> r.data
      [] r.call = "append" -> OldContent(r, t) \o r.data
      [] r.call = "update" -> Overwritten(OldContent(r, t), r.offset, r.data)

GrownDirs(t, done) == t.dirs \union Made(done)
GrownFiles(r, t, done) ==
    IF "commit" \in Deed(done) THEN Put(t.files, Goal(r), Content(r, t))
    ELSE IF "create" \in Deed(done) /\ ~Kept(t, Goal(r)) THEN Put(t.files, Goal(r), <<>>)
    ELSE t.files
Grown(r, t, done) == [dirs |-> GrownDirs(t, done), files |-> GrownFiles(r, t, done)]
After(r, t, done) == IF "remove" \in Deed(done) THEN Without(Grown(r, t, done), r.path) ELSE Grown(r, t, done)

Streaming(done) == Deed(done) \intersect {"replace", "edit"} # {} /\ "commit" \notin Deed(done)
Holds(me, done) ==
    LET r == me.request t == me.before
    IN  /\ me.bytes = IF "load" \in Deed(done) THEN t.files[r.path] ELSE r.data
        /\ me.at = IF "measure" \in Deed(done) THEN Len(OldContent(r, t)) ELSE r.offset
        /\ me.stream = Streaming(done)
        /\ Streaming(done) => me.swap = IF "fill" \in Deed(done) THEN Content(r, t)
                                        ELSE IF "edit" \in Deed(done) THEN OldContent(r, t) ELSE <<>>

SecondPlan(r) ==
    IF r.call = "append" THEN ResolveFileCreate(r.path) \o Appending(r.path) ELSE ResolveDir(r.path)
LooksTwice(r) == r.call \in {"stat", "exists", "append"}

(* done and what is left are one of the plans of the request. *)
OneOf(r, done, todo) ==
    \/ done \union Range(todo) = Range(Plan(r))
    \/ LooksTwice(r) /\ done \union Range(todo) = Range(SecondPlan(r))

OnCourse(me, done) ==
    LET r == me.request t == me.before
    IN  /\ Sound(t)
        /\ Orderly(r, done, me.todo) /\ OneOf(r, done, me.todo)
        /\ \A c \in done : Allows(t, c)
        /\ Tree = After(r, t, done)
        /\ Holds(me, done)
        /\ (faults = 0 /\ r.call \in {"stat", "exists"} /\ "open" \notin Deed(done \union Range(me.todo))) => ~Kept(t, r.path)

SoundRequests ==
    \A r \in Requests :
        /\ r.call \in {"read", "range", "hash", "stat", "exists", "list", "mkdir", "delete", "copy", "move", "write", "append", "update"}
        /\ ~r.sound => r.call \in {"write", "append", "update", "hash"}
        /\ r.call = "move" => r.path # r.to

(* ---- Paths and trees ---- *)

(* The beginnings of a path are paths. *)
LEMMA PathIs ==
    ASSUME NEW p \in Path
    PROVE  /\ Len(p) \in Nat /\ SubSeq(p, 1, Len(p)) = p
           /\ p # <<>> <=> Len(p) > 0
           /\ \A i \in 0..Len(p) : /\ SubSeq(p, 1, i) \in Path /\ Len(SubSeq(p, 1, i)) = i
                                   /\ \A j \in 0..i : SubSeq(SubSeq(p, 1, i), 1, j) = SubSeq(p, 1, j)
<1>1. Len(p) \in Nat /\ SubSeq(p, 1, Len(p)) = p /\ (p # <<>> <=> Len(p) > 0)
  BY SubSeqFull, EmptySeq DEF Path
<1>2. ASSUME NEW i \in 0..Len(p)
      PROVE  /\ SubSeq(p, 1, i) \in Path /\ Len(SubSeq(p, 1, i)) = i
             /\ \A k \in 1..i : SubSeq(p, 1, i)[k] = p[k]
  <2>1. \A k \in 1..i : p[k] \in Name
    BY <1>1 DEF Path
  <2>2. /\ SubSeq(p, 1, i) \in Seq(Name) /\ Len(SubSeq(p, 1, i)) = IF 1 <= i THEN i - 1 + 1 ELSE 0
        /\ \A k \in 1..i - 1 + 1 : SubSeq(p, 1, i)[k] = p[1 + k - 1]
    BY <2>1, SubSeqProperties
  <2>3. Len(SubSeq(p, 1, i)) = i
    BY <1>1, <2>2
  <2>4. \A k \in 1..i : k \in 1..i - 1 + 1 /\ 1 + k - 1 = k
    BY <1>1
  <2> QED
    BY <2>2, <2>3, <2>4 DEF Path
<1>3. ASSUME NEW i \in 0..Len(p), NEW j \in 0..i
      PROVE  SubSeq(SubSeq(p, 1, i), 1, j) = SubSeq(p, 1, j)
  <2> DEFINE q == SubSeq(p, 1, i)
  <2>1. q \in Path /\ Len(q) = i /\ \A k \in 1..i : q[k] = p[k]
    BY <1>2
  <2>2. j \in 0..Len(p)
    BY <1>1
  <2>3. SubSeq(p, 1, j) \in Path /\ Len(SubSeq(p, 1, j)) = j /\ \A k \in 1..j : SubSeq(p, 1, j)[k] = p[k]
    BY <1>2, <2>2
  <2> HIDE DEF q
  <2>4. \A k \in 1..j : q[k] \in Name
    BY <1>1, <2>1 DEF Path
  <2>5. /\ SubSeq(q, 1, j) \in Seq(Name) /\ Len(SubSeq(q, 1, j)) = IF 1 <= j THEN j - 1 + 1 ELSE 0
        /\ \A k \in 1..j - 1 + 1 : SubSeq(q, 1, j)[k] = q[1 + k - 1]
    BY <2>4, SubSeqProperties
  <2>6. Len(SubSeq(q, 1, j)) = j
    BY <2>5
  <2>7. \A k \in 1..j : k \in 1..j - 1 + 1 /\ 1 + k - 1 = k /\ k \in 1..i
    BY <1>1
  <2>8. \A k \in 1..j : SubSeq(q, 1, j)[k] = SubSeq(p, 1, j)[k]
    BY <2>1, <2>3, <2>5, <2>7
  <2>9. SubSeq(q, 1, j) = SubSeq(p, 1, j)
    BY <2>3, <2>5, <2>6, <2>8, SeqEqual DEF Path
  <2> QED
    BY <2>9 DEF q
<1> QED
  BY <1>1, <1>2, <1>3

LEMMA EmptyPath == <<>> \in Path /\ Len(<<>>) = 0 /\ Above(<<>>) = {}
<1>1. <<>> \in Path /\ Len(<<>>) = 0
  BY EmptySeq DEF Path
<1>2. 1..Len(<<>>) - 1 = {}
  BY <1>1
<1> QED
  BY <1>1, <1>2 DEF Above

(* The directories above a path, and its nearest one. *)
LEMMA AboveIs ==
    ASSUME NEW p \in Path
    PROVE  /\ Above(p) \subseteq Path /\ p \notin Above(p)
           /\ \A q \in Above(p) : q # <<>> /\ q # p /\ IsPrefix(q, p) /\ Above(q) \subseteq Above(p)
           /\ Len(p) <= 1 => Above(p) = {}
           /\ Len(p) = 1 => Front(p) = <<>>
           /\ Len(p) > 1 => Front(p) \in Above(p) /\ Above(p) = Above(Front(p)) \union {Front(p)}
<1>1. /\ Len(p) \in Nat /\ SubSeq(p, 1, Len(p)) = p
      /\ \A i \in 0..Len(p) : /\ SubSeq(p, 1, i) \in Path /\ Len(SubSeq(p, 1, i)) = i
                              /\ \A j \in 0..i : SubSeq(SubSeq(p, 1, i), 1, j) = SubSeq(p, 1, j)
  BY PathIs
<1>2. ASSUME NEW q \in Above(p)
      PROVE  q \in Path /\ q # <<>> /\ q # p /\ IsPrefix(q, p) /\ Above(q) \subseteq Above(p)
  <2>1. PICK i \in 1..Len(p) - 1 : q = SubSeq(p, 1, i)
    BY DEF Above
  <2>2. i \in 0..Len(p) /\ i > 0 /\ i < Len(p) /\ i \in 0..i
    BY <1>1
  <2>3. q \in Path /\ Len(q) = i /\ \A j \in 0..i : SubSeq(q, 1, j) = SubSeq(p, 1, j)
    BY <1>1, <2>1, <2>2
  <2>4. q # <<>> /\ q # p
    BY <2>2, <2>3, EmptyPath
  <2>5. IsPrefix(q, p)
    BY <2>2, <2>3, <1>1 DEF IsPrefix
  <2>6. ASSUME NEW x \in Above(q) PROVE x \in Above(p)
    <3>1. PICK j \in 1..Len(q) - 1 : x = SubSeq(q, 1, j)
      BY <2>6 DEF Above
    <3>2. j \in 0..i /\ j \in 1..Len(p) - 1
      BY <1>1, <2>2, <2>3
    <3>3. x = SubSeq(p, 1, j)
      BY <2>3, <3>1, <3>2
    <3> QED
      BY <3>2, <3>3 DEF Above
  <2> QED
    BY <2>3, <2>4, <2>5, <2>6
<1>3. Len(p) <= 1 => Above(p) = {}
  <2>1. Len(p) <= 1 => 1..Len(p) - 1 = {}
    BY <1>1
  <2> QED
    BY <2>1 DEF Above
<1>4. ASSUME Len(p) = 1 PROVE Front(p) = <<>>
  <2>1. Front(p) = SubSeq(p, 1, 0)
    BY <1>4 DEF Front
  <2> QED
    BY <2>1, SubSeqEmpty
<1>5. ASSUME Len(p) > 1 PROVE Front(p) \in Above(p) /\ Above(p) = Above(Front(p)) \union {Front(p)}
  <2> DEFINE n == Len(p) - 1 f == SubSeq(p, 1, n)
  <2>1. n \in 1..Len(p) - 1 /\ n \in 0..Len(p)
    BY <1>1, <1>5
  <2>2. f \in Above(p) /\ Front(p) = f
    BY <2>1 DEF Above, Front
  <2>3. Len(f) = n /\ \A j \in 0..n : SubSeq(f, 1, j) = SubSeq(p, 1, j)
    BY <1>1, <2>1
  <2>4. Above(f) \subseteq Above(p)
    BY <1>2, <2>2
  <2>5. ASSUME NEW x \in Above(p) PROVE x \in Above(f) \union {f}
    <3>1. PICK i \in 1..n : x = SubSeq(p, 1, i)
      BY <2>5 DEF Above
    <3>2. CASE i = n
      BY <3>1, <3>2
    <3>3. CASE i # n
      <4>1. i \in 1..Len(f) - 1 /\ i \in 0..n
        <5>1. Len(f) = n /\ n \in Nat
          BY <1>1, <2>1, <2>3
        <5> HIDE DEF n, f
        <5> QED
          BY <3>3, <5>1
      <4>2. x = SubSeq(f, 1, i)
        BY <2>3, <3>1, <4>1
      <4> QED
        BY <4>1, <4>2 DEF Above
    <3> QED
      BY <3>2, <3>3
  <2> HIDE DEF f
  <2> QED
    BY <2>2, <2>4, <2>5
<1>6. p \notin Above(p)
  BY <1>2
<1> QED
  BY <1>2, <1>3, <1>4, <1>5, <1>6

LEMMA PrefixDown ==
    ASSUME NEW p \in Path, NEW c \in Path, NEW q \in Above(p), IsPrefix(c, q)
    PROVE  IsPrefix(c, p)
<1>1. PICK i \in 1..Len(p) - 1 : q = SubSeq(p, 1, i)
  BY DEF Above
<1>2. Len(p) \in Nat /\ Len(c) \in Nat /\ i \in 0..Len(p)
  BY PathIs
<1>3. Len(q) = i /\ \A j \in 0..i : SubSeq(q, 1, j) = SubSeq(p, 1, j)
  BY <1>1, <1>2, PathIs
<1>4. Len(c) <= i /\ SubSeq(c, 1, Len(c)) = SubSeq(q, 1, Len(c))
  BY <1>3 DEF IsPrefix
<1>5. Len(c) \in 0..i /\ Len(c) <= Len(p)
  BY <1>2, <1>4
<1> QED
  BY <1>3, <1>4, <1>5 DEF IsPrefix

LEMMA PrefixSelf == ASSUME NEW p \in Path PROVE IsPrefix(p, p)
  BY PathIs DEF IsPrefix

(* In a sound tree what is there lies in a directory. *)
LEMMA InDirectory ==
    ASSUME NEW t, Sound(t), NEW p \in Path, Kept(t, p) \/ Folder(t, p), p # <<>>
    PROVE  Folder(t, Front(p)) /\ Above(p) \subseteq t.dirs
<1>1. p \in t.dirs \union DOMAIN t.files
  BY DEF Kept, Folder
<1>2. Above(p) \subseteq t.dirs
  BY <1>1 DEF Sound
<1>3. Len(p) \in Nat /\ Len(p) > 0
  BY PathIs
<1>4. Len(p) = 1 \/ Len(p) > 1
  <2> DEFINE n == Len(p)
  <2> HIDE DEF n
  <2>1. n \in Nat /\ n > 0 => n = 1 \/ n > 1
    OBVIOUS
  <2> QED
    BY <1>3, <2>1 DEF n
<1> QED
  BY <1>2, <1>4, AboveIs DEF Folder

(* The paths of a request are made of names that occur. *)
LEMMA PathsAsked ==
    ASSUME NEW r \in Requests
    PROVE  r.path \in Path /\ r.to \in Path /\ Goal(r) \in Path
<1>1. r.path \in Seq(Range(r.path)) /\ r.to \in Seq(Range(r.to))
  BY FilesAssumption
<1>2. Range(r.path) \subseteq Name /\ Range(r.to) \subseteq Name
  BY DEF Name
<1>3. r.path \in Path /\ r.to \in Path
  BY <1>1, <1>2, SeqMonotonic DEF Path
<1> QED
  BY <1>3 DEF Goal

(* ---- Plans ---- *)

(* An orderly list of calls may be taken apart and put together. *)
LEMMA OrderlyTail ==
    ASSUME NEW S, NEW r, NEW done, NEW todo \in Seq(S), todo # <<>>
    PROVE  /\ Head(todo) \in S /\ Tail(todo) \in Seq(S)
           /\ Range(todo) = {Head(todo)} \union Range(Tail(todo))
           /\ Orderly(r, done, todo) =>
                Follows(r, done, Head(todo)) /\ Orderly(r, done \union {Head(todo)}, Tail(todo))
<1> DEFINE h == Head(todo) t == Tail(todo) n == Len(todo)
<1>1. /\ h \in S /\ t \in Seq(S) /\ Len(t) = n - 1 /\ h = todo[1] /\ n \in Nat /\ n > 0
      /\ \A i \in 1..n - 1 : t[i] = todo[i + 1]
  BY HeadTailProperties, EmptySeq
<1>2. DOMAIN todo = 1..n /\ DOMAIN t = 1..n - 1
  BY <1>1
<1> HIDE DEF h, t, n
<1>3. Range(todo) = {h} \union Range(t)
  <2>1. \A i \in 1..n : i = 1 \/ (i - 1 \in 1..n - 1 /\ todo[i] = t[i - 1])
    BY <1>1
  <2>2. \A i \in 1..n - 1 : i + 1 \in 1..n
    BY <1>1
  <2>3. 1 \in 1..n
    BY <1>1
  <2>4. Range(todo) = {todo[i] : i \in 1..n} /\ Range(t) = {t[i] : i \in 1..n - 1}
    BY <1>2 DEF Range
  <2>5. \A x \in Range(todo) : x \in {h} \union Range(t)
    <3> SUFFICES ASSUME NEW i \in 1..n PROVE todo[i] \in {h} \union Range(t)
      BY <2>4
    <3>1. CASE i = 1
      BY <1>1, <3>1
    <3>2. CASE i # 1
      <4>1. i - 1 \in 1..n - 1 /\ todo[i] = t[i - 1]
        BY <2>1, <3>2
      <4> QED
        BY <2>4, <4>1
    <3> QED
      BY <3>1, <3>2
  <2>6. \A x \in {h} \union Range(t) : x \in Range(todo)
    BY <1>1, <2>2, <2>3, <2>4
  <2> QED
    BY <2>5, <2>6
<1>4. ASSUME Orderly(r, done, todo) PROVE Follows(r, done, h)
  <2>1. 1 \in 1..n
    BY <1>1
  <2>2. Follows(r, done \union {todo[j] : j \in 1..1 - 1}, todo[1])
    BY <1>4, <2>1 DEF Orderly, n
  <2>3. done \union {todo[j] : j \in 1..1 - 1} = done
    <3>1. 1..1 - 1 = {}
      OBVIOUS
    <3> QED
      BY <3>1
  <2> QED
    BY <1>1, <2>2, <2>3
<1>5. ASSUME Orderly(r, done, todo) PROVE Orderly(r, done \union {h}, t)
  <2> SUFFICES ASSUME NEW i \in 1..n - 1
               PROVE  Follows(r, done \union {h} \union {t[j] : j \in 1..i - 1}, t[i])
    BY <1>1 DEF Orderly
  <2>1. i + 1 \in 1..n /\ i \in Int
    BY <1>1
  <2>2. Follows(r, done \union {todo[j] : j \in 1..i + 1 - 1}, todo[i + 1])
    <3> DEFINE at(k) == Follows(r, done \union {todo[j] : j \in 1..k - 1}, todo[k])
    <3>1. \A k \in 1..n : at(k)
      BY <1>5 DEF Orderly, n
    <3>2. at(i + 1)
      <4> HIDE DEF at
      <4> QED
        BY <2>1, <3>1, Zenon
    <3> QED
      BY <3>2
  <2>3. {todo[j] : j \in 1..i + 1 - 1} = {h} \union {t[j] : j \in 1..i - 1}
    <3>1. \A j \in 1..i + 1 - 1 : j = 1 \/ (j - 1 \in 1..i - 1 /\ j - 1 \in 1..n - 1 /\ j - 1 + 1 = j)
      <4> SUFFICES ASSUME NEW j \in 1..i + 1 - 1, j # 1
                   PROVE  j - 1 \in 1..i - 1 /\ j - 1 \in 1..n - 1 /\ j - 1 + 1 = j
        OBVIOUS
      <4>1. n \in Nat /\ i \in Int /\ i <= n - 1 /\ j \in Int /\ j >= 1 /\ j <= i
        BY <1>1
      <4> QED
        BY <4>1
    <3>2. \A j \in 1..i - 1 : j + 1 \in 1..i + 1 - 1 /\ j \in 1..n - 1
      BY <1>1, <2>1
    <3>3. 1 \in 1..i + 1 - 1
      BY <2>1
    <3>4. \A x \in {todo[j] : j \in 1..i + 1 - 1} : x \in {h} \union {t[j] : j \in 1..i - 1}
      <4> SUFFICES ASSUME NEW j \in 1..i + 1 - 1 PROVE todo[j] \in {h} \union {t[k] : k \in 1..i - 1}
        OBVIOUS
      <4>1. CASE j = 1
        BY <1>1, <4>1
      <4>2. CASE j # 1
        <5>1. j - 1 \in 1..i - 1 /\ todo[j] = t[j - 1]
          BY <1>1, <3>1, <4>2
        <5> QED
          BY <5>1
      <4> QED
        BY <4>1, <4>2
    <3>5. \A x \in {h} \union {t[j] : j \in 1..i - 1} : x \in {todo[j] : j \in 1..i + 1 - 1}
      BY <1>1, <3>2, <3>3
    <3> QED
      BY <3>4, <3>5
  <2>4. done \union {todo[j] : j \in 1..i + 1 - 1} = done \union {h} \union {t[j] : j \in 1..i - 1}
    BY <2>3
  <2> QED
    BY <1>1, <2>2, <2>4
<1> QED
  BY <1>1, <1>3, <1>4, <1>5 DEF h, t

LEMMA RangeJoined ==
    ASSUME NEW S, NEW s \in Seq(S), NEW t \in Seq(S)
    PROVE  s \o t \in Seq(S) /\ Range(s \o t) = Range(s) \union Range(t)
<1> DEFINE u == s \o t m == Len(s) n == Len(t)
<1>1. /\ u \in Seq(S) /\ Len(u) = m + n /\ m \in Nat /\ n \in Nat
      /\ \A i \in 1..m : u[i] = s[i]
      /\ \A i \in 1..n : u[m + i] = t[i]
  BY Joined
<1>2. DOMAIN u = 1..m + n /\ DOMAIN s = 1..m /\ DOMAIN t = 1..n
  BY <1>1
<1> HIDE DEF u, m, n
<1>3. \A i \in 1..m + n : i \in 1..m \/ (i - m \in 1..n /\ m + (i - m) = i)
  BY <1>1
<1>4. \A i \in 1..m : i \in 1..m + n
  BY <1>1
<1>5. \A i \in 1..n : m + i \in 1..m + n
  BY <1>1
<1>6. Range(u) = {u[i] : i \in 1..m + n} /\ Range(s) = {s[i] : i \in 1..m} /\ Range(t) = {t[i] : i \in 1..n}
  BY <1>2 DEF Range
<1>7. \A x \in Range(u) : x \in Range(s) \union Range(t)
  <2> SUFFICES ASSUME NEW i \in 1..m + n PROVE u[i] \in Range(s) \union Range(t)
    BY <1>6
  <2>1. CASE i \in 1..m
    BY <1>1, <1>6, <2>1
  <2>2. CASE i - m \in 1..n /\ m + (i - m) = i
    <3>1. u[m + (i - m)] = t[i - m]
      BY <1>1, <2>2
    <3> QED
      BY <1>6, <2>2, <3>1
  <2> QED
    BY <1>3, <2>1, <2>2
<1>8. \A x \in Range(s) \union Range(t) : x \in Range(u)
  BY <1>1, <1>4, <1>5, <1>6
<1> QED
  BY <1>1, <1>7, <1>8 DEF u

LEMMA OrderlyJoined ==
    ASSUME NEW S, NEW s \in Seq(S), NEW t \in Seq(S), NEW r, NEW done,
           Orderly(r, done, s), Orderly(r, done \union Range(s), t)
    PROVE  Orderly(r, done, s \o t)
<1> DEFINE u == s \o t m == Len(s) n == Len(t)
<1>1. /\ u \in Seq(S) /\ Len(u) = m + n /\ m \in Nat /\ n \in Nat
      /\ \A i \in 1..m : u[i] = s[i]
      /\ \A i \in 1..n : u[m + i] = t[i]
  BY Joined
<1>2. Range(s) = {s[j] : j \in 1..m}
  BY DEF Range
<1>3. \A i \in 1..m : Follows(r, done \union {s[j] : j \in 1..i - 1}, s[i])
  BY DEF Orderly
<1>4. \A i \in 1..n : Follows(r, done \union Range(s) \union {t[j] : j \in 1..i - 1}, t[i])
  BY DEF Orderly
<1> HIDE DEF u, m, n
<1> SUFFICES ASSUME NEW i \in 1..m + n PROVE Follows(r, done \union {u[j] : j \in 1..i - 1}, u[i])
  BY <1>1 DEF Orderly, u
<1>5. CASE i \in 1..m
  <2>1. \A j \in 1..i - 1 : j \in 1..m
    BY <1>1, <1>5
  <2>2. {u[j] : j \in 1..i - 1} = {s[j] : j \in 1..i - 1}
    BY <1>1, <2>1
  <2> QED
    BY <1>1, <1>3, <1>5, <2>2
<1>6. CASE i \notin 1..m
  <2> DEFINE k == i - m
  <2>1. k \in 1..n /\ m + k = i
    BY <1>1, <1>6
  <2> HIDE DEF k
  <2>2. \A j \in 1..i - 1 : j \in 1..m \/ (j - m \in 1..k - 1 /\ j - m \in 1..n /\ m + (j - m) = j)
    BY <1>1, <2>1
  <2>3. \A j \in 1..m : j \in 1..i - 1
    BY <1>1, <2>1
  <2>4. \A j \in 1..k - 1 : m + j \in 1..i - 1 /\ j \in 1..n
    BY <1>1, <2>1
  <2>5. \A x \in {u[j] : j \in 1..i - 1} : x \in Range(s) \union {t[j] : j \in 1..k - 1}
    <3> SUFFICES ASSUME NEW j \in 1..i - 1 PROVE u[j] \in Range(s) \union {t[l] : l \in 1..k - 1}
      OBVIOUS
    <3>1. CASE j \in 1..m
      BY <1>1, <1>2, <3>1
    <3>2. CASE j \notin 1..m
      <4>1. j - m \in 1..k - 1 /\ u[m + (j - m)] = t[j - m] /\ m + (j - m) = j
        BY <1>1, <2>2, <3>2
      <4> QED
        BY <4>1
    <3> QED
      BY <3>1, <3>2
  <2>6. \A x \in Range(s) \union {t[j] : j \in 1..k - 1} : x \in {u[j] : j \in 1..i - 1}
    BY <1>1, <1>2, <2>3, <2>4
  <2>7. done \union {u[j] : j \in 1..i - 1} = done \union Range(s) \union {t[j] : j \in 1..k - 1}
    BY <2>5, <2>6
  <2>8. u[i] = t[k]
    BY <1>1, <2>1
  <2> QED
    BY <1>4, <2>1, <2>7, <2>8
<1> QED
  BY <1>5, <1>6

LEMMA OrderlyOne ==
    ASSUME NEW S, NEW c \in S, NEW r, NEW done, Follows(r, done, c)
    PROVE  <<c>> \in Seq(S) /\ Range(<<c>>) = {c} /\ Orderly(r, done, <<c>>)
<1>1. <<c>> \in Seq(S) /\ Len(<<c>>) = 1 /\ <<c>>[1] = c /\ DOMAIN <<c>> = {1}
  OBVIOUS
<1>2. Range(<<c>>) = {c}
  BY <1>1 DEF Range
<1>3. ASSUME NEW i \in 1..1 PROVE Follows(r, done \union {<<c>>[j] : j \in 1..i - 1}, <<c>>[i])
  <2>1. i = 1 /\ 1..i - 1 = {}
    OBVIOUS
  <2>2. done \union {<<c>>[j] : j \in 1..i - 1} = done
    BY <2>1
  <2> QED
    BY <1>1, <2>1, <2>2
<1> QED
  BY <1>1, <1>2, <1>3 DEF Orderly

(* One more call. *)
LEMMA OrderlyMore ==
    ASSUME NEW S, NEW s \in Seq(S), NEW c \in S, NEW r, NEW done,
           Orderly(r, done, s), Follows(r, done \union Range(s), c)
    PROVE  s \o <<c>> \in Seq(S) /\ Range(s \o <<c>>) = Range(s) \union {c} /\ Orderly(r, done, s \o <<c>>)
<1>1. <<c>> \in Seq(S) /\ Range(<<c>>) = {c} /\ Orderly(r, done \union Range(s), <<c>>)
  BY OrderlyOne
<1>2. s \o <<c>> \in Seq(S) /\ Range(s \o <<c>>) = Range(s) \union Range(<<c>>)
  BY <1>1, RangeJoined
<1>3. Orderly(r, done, s \o <<c>>)
  BY <1>1, OrderlyJoined
<1> QED
  BY <1>1, <1>2, <1>3

LEMMA OrderlyNone ==
    ASSUME NEW S, NEW r, NEW done
    PROVE  <<>> \in Seq(S) /\ Range(<<>>) = {} /\ Orderly(r, done, <<>>)
<1>1. <<>> \in Seq(S) /\ Len(<<>>) = 0 /\ DOMAIN <<>> = {} /\ 1..0 = {}
  BY EmptySeq
<1> QED
  BY <1>1 DEF Orderly, Range

(* ---- What each operation calls ---- *)

LEMMA DeedsJoined ==
    ASSUME NEW a, NEW b
    PROVE  /\ Deed(a \union b) = Deed(a) \union Deed(b) /\ Made(a \union b) = Made(a) \union Made(b)
           /\ Deed({}) = {} /\ Made({}) = {}
           /\ \A do, p : /\ Deed({Call(do, p)}) = {do} /\ Call(do, p).do = do /\ Call(do, p).path = p
                         /\ Made({Call(do, p)}) = IF do = "make" THEN {p} ELSE {}
<1>1. Deed(a \union b) = Deed(a) \union Deed(b) /\ Deed({}) = {}
  BY DEF Deed
<1>2. Made(a \union b) = Made(a) \union Made(b) /\ Made({}) = {}
  BY DEF Made
<1>3. ASSUME NEW do, NEW p
      PROVE  /\ Deed({Call(do, p)}) = {do} /\ Call(do, p).do = do /\ Call(do, p).path = p
             /\ Made({Call(do, p)}) = IF do = "make" THEN {p} ELSE {}
  <2> DEFINE c == Call(do, p)
  <2>1. c.do = do /\ c.path = p
    BY DEF Call
  <2> HIDE DEF c
  <2>2. Deed({c}) = {do}
    BY <2>1 DEF Deed
  <2>3. Made({c}) = IF do = "make" THEN {p} ELSE {}
    BY <2>1 DEF Made
  <2> QED
    BY <2>1, <2>2, <2>3 DEF c
<1> QED
  BY <1>1, <1>2, <1>3

LEMMA CallIs ==
    ASSUME NEW do \in Deeds, NEW p \in Path
    PROVE  Call(do, p).do = do /\ Call(do, p).path = p /\ (do # "make" \/ p # <<>> => Call(do, p) \in Calls)
  BY DEF Call, Calls

Tops(p) == {SubSeq(p, 1, i) : i \in 1..Len(p)}

LEMMA TopsAre ==
    ASSUME NEW p \in Path
    PROVE  Tops(p) = Above(p) \union ({p} \ {<<>>}) /\ Tops(p) \subseteq Path /\ <<>> \notin Tops(p)
<1>1. /\ Len(p) \in Nat /\ SubSeq(p, 1, Len(p)) = p /\ (p # <<>> <=> Len(p) > 0)
      /\ \A i \in 1..Len(p) : SubSeq(p, 1, i) \in Path /\ Len(SubSeq(p, 1, i)) = i
  BY PathIs
<1>2. ASSUME NEW x \in Tops(p) PROVE x \in Above(p) \union ({p} \ {<<>>}) /\ x \in Path /\ x # <<>>
  <2>1. PICK i \in 1..Len(p) : x = SubSeq(p, 1, i)
    BY DEF Tops
  <2>2. x \in Path /\ Len(x) = i /\ i > 0 /\ Len(p) > 0
    BY <1>1, <2>1
  <2>3. x # <<>>
    BY <2>2, EmptyPath
  <2>4. CASE i = Len(p)
    <3>1. x = p
      BY <1>1, <2>1, <2>4, Zenon
    <3> QED
      BY <2>2, <2>3, <3>1
  <2>5. CASE i # Len(p)
    <3>1. i \in 1..Len(p) - 1
      <4>1. Len(p) \in Nat
        BY <1>1
      <4> QED
        BY <2>5, <4>1
    <3> QED
      BY <2>1, <2>2, <2>3, <3>1 DEF Above
  <2> QED
    BY <2>4, <2>5
<1>3. ASSUME NEW x \in Above(p) PROVE x \in Tops(p)
  <2>1. PICK i \in 1..Len(p) - 1 : x = SubSeq(p, 1, i)
    BY DEF Above
  <2>2. i \in 1..Len(p)
    BY <1>1
  <2> QED
    BY <2>1, <2>2 DEF Tops
<1>4. p # <<>> => p \in Tops(p)
  <2>1. p # <<>> => Len(p) \in 1..Len(p)
    BY <1>1
  <2> QED
    BY <1>1, <2>1 DEF Tops
<1> QED
  BY <1>2, <1>3, <1>4

LEMMA AlongCalls ==
    ASSUME NEW do \in Deeds, NEW p \in Path, NEW n \in 0..Len(p)
    PROVE  /\ Along(do, p, n) \in Seq(Calls) /\ Len(Along(do, p, n)) = n
           /\ \A i \in 1..n : Along(do, p, n)[i] = Call(do, SubSeq(p, 1, i)) /\ Call(do, SubSeq(p, 1, i)) \in Calls
           /\ Range(Along(do, p, n)) = {Call(do, SubSeq(p, 1, i)) : i \in 1..n}
<1>1. Len(p) \in Nat /\ n \in Nat
  BY PathIs
<1>2. ASSUME NEW i \in 1..n PROVE Call(do, SubSeq(p, 1, i)) \in Calls
  <2>1. i \in 0..Len(p) /\ i > 0
    BY <1>1
  <2>2. SubSeq(p, 1, i) \in Path /\ Len(SubSeq(p, 1, i)) = i
    BY <2>1, PathIs
  <2>3. SubSeq(p, 1, i) # <<>>
    BY <2>1, <2>2, EmptyPath
  <2> QED
    BY <2>2, <2>3, CallIs
<1> DEFINE s == Along(do, p, n)
<1>3. s = [i \in 1..n |-> Call(do, SubSeq(p, 1, i))]
  BY DEF Along
<1>4. DOMAIN s = 1..n /\ \A i \in 1..n : s[i] = Call(do, SubSeq(p, 1, i))
  BY <1>3
<1>5. s \in [1..n -> Calls]
  BY <1>2, <1>3
<1> HIDE DEF s
<1>6. s \in Seq(Calls) /\ Len(s) = n
  BY <1>1, <1>5
<1>7. Range(s) = {Call(do, SubSeq(p, 1, i)) : i \in 1..n}
  BY <1>4 DEF Range
<1> QED
  BY <1>2, <1>4, <1>6, <1>7 DEF s

(* The calls along p, with or without its last name. *)
LEMMA AlongRange ==
    ASSUME NEW do \in Deeds, NEW p \in Path
    PROVE  /\ Along(do, p, Len(p)) \in Seq(Calls) /\ Range(Along(do, p, Len(p))) = {Call(do, q) : q \in Tops(p)}
           /\ Along(do, p, Len(p) - 1) = Along(do, p, Depth(p)) /\ Depth(p) \in 0..Len(p)
           /\ Along(do, p, Len(p) - 1) \in Seq(Calls) /\ Range(Along(do, p, Len(p) - 1)) = {Call(do, q) : q \in Above(p)}
<1>1. Len(p) \in Nat /\ Len(p) \in 0..Len(p) /\ Depth(p) \in 0..Len(p) /\ 1..Len(p) - 1 = 1..Depth(p)
  BY PathIs DEF Depth
<1>2. Along(do, p, Len(p) - 1) = Along(do, p, Depth(p))
  BY <1>1 DEF Along
<1>3. {Call(do, q) : q \in Above(p)} = {Call(do, SubSeq(p, 1, i)) : i \in 1..Depth(p)}
  BY <1>1 DEF Above
<1>4. {Call(do, q) : q \in Tops(p)} = {Call(do, SubSeq(p, 1, i)) : i \in 1..Len(p)}
  BY DEF Tops
<1>5. Along(do, p, Len(p)) \in Seq(Calls) /\ Range(Along(do, p, Len(p))) = {Call(do, SubSeq(p, 1, i)) : i \in 1..Len(p)}
  BY <1>1, AlongCalls
<1>6. Along(do, p, Depth(p)) \in Seq(Calls) /\ Range(Along(do, p, Depth(p))) = {Call(do, SubSeq(p, 1, i)) : i \in 1..Depth(p)}
  BY <1>1, AlongCalls
<1> QED
  BY <1>1, <1>2, <1>3, <1>4, <1>5, <1>6

LEMMA EnterFollows ==
    ASSUME NEW r, NEW done, NEW q,
           \/ Deed(done) \subseteq {"enter"}
           \/ /\ r.call = "move" /\ "commit" \in Deed(done) /\ "remove" \notin Deed(done)
              /\ Call("open", r.path) \in done /\ q \in Above(r.path)
    PROVE  Follows(r, done, Call("enter", q))
<1> DEFINE c == Call("enter", q)
<1>1. c.do = "enter" /\ c.path = q
  BY DEF Call
<1> HIDE DEF c
<1> QED
  BY <1>1 DEF Follows, Looks, Grows, Writes, Removes, c

LEMMA DeedAlong ==
    ASSUME NEW do, NEW P
    PROVE  /\ Deed({Call(do, q) : q \in P}) \subseteq {do}
           /\ Made({Call(do, q) : q \in P}) = IF do = "make" THEN P ELSE {}
<1>1. \A q : Call(do, q).do = do /\ Call(do, q).path = q
  BY DEF Call
<1>2. Deed({Call(do, q) : q \in P}) \subseteq {do}
  BY <1>1 DEF Deed
<1>3. Made({Call(do, q) : q \in P}) = IF do = "make" THEN P ELSE {}
  BY <1>1 DEF Made
<1> QED
  BY <1>2, <1>3

LEMMA EnteringFirst ==
    ASSUME NEW r, NEW p \in Path, NEW n \in 0..Len(p)
    PROVE  Orderly(r, {}, Along("enter", p, n))
<1>1. "enter" \in Deeds
  BY DEF Deeds
<1> DEFINE s == Along("enter", p, n)
<1>2. Len(s) = n /\ \A i \in 1..n : s[i] = Call("enter", SubSeq(p, 1, i))
  BY <1>1, AlongCalls
<1> HIDE DEF s
<1> SUFFICES ASSUME NEW i \in 1..n PROVE Follows(r, {} \union {s[j] : j \in 1..i - 1}, s[i])
  BY <1>2 DEF Orderly, s
<1>3. Len(p) \in Nat
  BY PathIs
<1>4. \A j \in 1..i - 1 : j \in 1..n
  BY <1>3
<1>5. {} \union {s[j] : j \in 1..i - 1} \subseteq {Call("enter", q) : q \in {SubSeq(p, 1, j) : j \in 1..n}}
  BY <1>2, <1>4
<1>6. Deed({} \union {s[j] : j \in 1..i - 1}) \subseteq {"enter"}
  <2>1. Deed({Call("enter", q) : q \in {SubSeq(p, 1, j) : j \in 1..n}}) \subseteq {"enter"}
    BY DeedAlong
  <2> QED
    BY <1>5, <2>1 DEF Deed
<1> QED
  BY <1>2, <1>6, EnterFollows

LEMMA EnteringAgain ==
    ASSUME NEW r, NEW done, r.path \in Path, r.call = "move",
           "commit" \in Deed(done), "remove" \notin Deed(done), Call("open", r.path) \in done
    PROVE  Orderly(r, done, Along("enter", r.path, Len(r.path) - 1))
<1> DEFINE p == r.path n == Depth(p) s == Along("enter", p, n)
<1>1. "enter" \in Deeds
  BY DEF Deeds
<1>2. Along("enter", p, Len(p) - 1) = s /\ n \in 0..Len(p)
  BY <1>1, AlongRange
<1>3. Len(s) = n /\ \A i \in 1..n : s[i] = Call("enter", SubSeq(p, 1, i))
  BY <1>1, <1>2, AlongCalls
<1>4. Len(p) \in Nat /\ 1..n = 1..Len(p) - 1
  BY PathIs DEF Depth
<1> HIDE DEF s, n
<1> SUFFICES ASSUME NEW i \in 1..n PROVE Follows(r, done \union {s[j] : j \in 1..i - 1}, s[i])
  BY <1>2, <1>3 DEF Orderly
<1> DEFINE more == {s[j] : j \in 1..i - 1}
<1>5. more \subseteq {Call("enter", q) : q \in {SubSeq(p, 1, j) : j \in 1..n}}
  <2>1. n \in Nat
    BY <1>2, <1>4
  <2>2. \A j \in 1..i - 1 : j \in 1..n
    BY <2>1
  <2> QED
    BY <1>3, <2>2
<1>6. Deed(more) \subseteq {"enter"}
  <2>1. Deed({Call("enter", q) : q \in {SubSeq(p, 1, j) : j \in 1..n}}) \subseteq {"enter"}
    BY DeedAlong
  <2> QED
    BY <1>5, <2>1 DEF Deed
<1>7. SubSeq(p, 1, i) \in Above(p)
  BY <1>4 DEF Above
<1> HIDE DEF more
<1>8. "commit" \in Deed(done \union more) /\ "remove" \notin Deed(done \union more) /\ Call("open", p) \in done \union more
  BY <1>6, DeedsJoined
<1>9. Follows(r, done \union more, Call("enter", SubSeq(p, 1, i)))
  BY <1>7, <1>8, EnterFollows
<1> QED
  BY <1>3, <1>9 DEF more

(* The directories of p are made one in another. *)
LEMMA Making ==
    ASSUME NEW r, NEW done, NEW p \in Path, NEW n \in 0..Len(p), Deed(done) \subseteq {"enter", "open", "load"}
    PROVE  Orderly(r, done, Along("make", p, n))
<1>1. "make" \in Deeds
  BY DEF Deeds
<1> DEFINE s == Along("make", p, n)
<1>2. Len(s) = n /\ \A i \in 1..n : s[i] = Call("make", SubSeq(p, 1, i))
  BY <1>1, AlongCalls
<1> HIDE DEF s
<1> SUFFICES ASSUME NEW i \in 1..n PROVE Follows(r, done \union {s[j] : j \in 1..i - 1}, s[i])
  BY <1>2 DEF Orderly, s
<1>3. Len(p) \in Nat /\ i \in 0..Len(p) /\ n \in Nat
  BY PathIs
<1> DEFINE more == {s[j] : j \in 1..i - 1} q == SubSeq(p, 1, i) c == Call("make", q)
<1>4. \A j \in 1..i - 1 : j \in 1..n
  BY <1>3
<1>5. Deed(more) \subseteq {"make"}
  <2>1. Deed({Call("make", x) : x \in {SubSeq(p, 1, j) : j \in 1..n}}) \subseteq {"make"}
    BY DeedAlong
  <2>2. more \subseteq {Call("make", x) : x \in {SubSeq(p, 1, j) : j \in 1..n}}
    BY <1>2, <1>4
  <2> QED
    BY <2>1, <2>2 DEF Deed
<1>6. Len(q) = i /\ \A j \in 0..i : SubSeq(q, 1, j) = SubSeq(p, 1, j)
  BY <1>3, PathIs
<1>7. ParentMade(done \union more, q)
  <2> SUFFICES ASSUME i > 1 PROVE Call("make", SubSeq(q, 1, i - 1)) \in more
    BY <1>6 DEF ParentMade
  <2>1. i - 1 \in 1..i - 1 /\ i - 1 \in 1..n /\ i - 1 \in 0..i
    BY <1>3
  <2>2. SubSeq(q, 1, i - 1) = SubSeq(p, 1, i - 1) /\ s[i - 1] = Call("make", SubSeq(p, 1, i - 1))
    BY <1>2, <1>6, <2>1
  <2> QED
    BY <2>1, <2>2
<1>8. Deed(done \union more) \subseteq {"enter", "open", "load", "make"}
  <2> HIDE DEF more
  <2> QED
    BY <1>5, DeedsJoined
<1>9. c.do = "make" /\ c.path = q
  BY DEF Call
<1> HIDE DEF more, c, q
<1>10. Follows(r, done \union more, c)
  BY <1>7, <1>8, <1>9 DEF Follows, Looks, Grows, Writes, Removes
<1> QED
  BY <1>2, <1>10 DEF more, c, q

All(do, P) == {Call(do, q) : q \in P}

(* The plans of each operation: their calls in order, and what they are as a set. *)
LEMMA ReadPlan ==
    ASSUME NEW r, r.path \in Path
    PROVE  /\ ResolveFile(r.path) \in Seq(Calls) /\ Orderly(r, {}, ResolveFile(r.path))
           /\ Range(ResolveFile(r.path)) = All("enter", Above(r.path)) \union {Call("open", r.path)}
           /\ Read(r.path) \in Seq(Calls) /\ Orderly(r, {}, Read(r.path))
           /\ Range(Read(r.path)) = All("enter", Above(r.path)) \union {Call("open", r.path)} \union {Call("load", r.path)}
<1> DEFINE p == r.path s == ResolveParent(p) E == All("enter", Above(p)) o == Call("open", p) l == Call("load", p)
<1>1. s \in Seq(Calls) /\ Orderly(r, {}, s) /\ Range(s) = E
  <2>1. "enter" \in Deeds
    BY DEF Deeds
  <2>2. s = Along("enter", p, Depth(p)) /\ Depth(p) \in 0..Len(p) /\ s \in Seq(Calls) /\ Range(s) = E
    BY <2>1, AlongRange DEF ResolveParent, All
  <2>3. Orderly(r, {}, s)
    BY <2>2, EnteringFirst
  <2> QED
    BY <2>2, <2>3
<1>2. o \in Calls /\ l \in Calls /\ o.do = "open" /\ o.path = p /\ l.do = "load" /\ l.path = p
  BY CallIs DEF Deeds
<1>3. Deed(E) \subseteq {"enter"} /\ Deed({o}) = {"open"}
  BY DeedAlong, DeedsJoined DEF All
<1>4. Follows(r, {} \union E, o)
  <2> HIDE DEF E, o
  <2>1. Deed({} \union E) \subseteq {"enter"}
    BY <1>3, DeedsJoined
  <2> QED
    BY <1>2, <2>1 DEF Follows, Looks, Grows, Writes, Removes
<1>5. Follows(r, {} \union (E \union {o}), l)
  <2>1. Deed({} \union (E \union {o})) \subseteq {"enter", "open"}
    <3> HIDE DEF E, o
    <3> QED BY <1>3, DeedsJoined
  <2>2. Call("open", r.path) \in {} \union (E \union {o})
    OBVIOUS
  <2> HIDE DEF E, o, l
  <2> QED
    BY <1>2, <2>1, <2>2 DEF Follows, Looks, Grows, Writes, Removes
<1> HIDE DEF s, E, o, l
<1> DEFINE t == s \o <<o>>
<1>6. t \in Seq(Calls) /\ Range(t) = E \union {o} /\ Orderly(r, {}, t)
  BY <1>1, <1>2, <1>4, OrderlyMore
<1> HIDE DEF t
<1> DEFINE u == t \o <<l>>
<1>7. u \in Seq(Calls) /\ Range(u) = E \union {o} \union {l} /\ Orderly(r, {}, u)
  BY <1>2, <1>5, <1>6, OrderlyMore
<1>8. ResolveFile(p) = t /\ Read(p) = u
  BY DEF ResolveFile, Read, s, o, l, t, u
<1> HIDE DEF u
<1> QED
  BY <1>6, <1>7, <1>8 DEF E, o, l

LEMMA DirPlan ==
    ASSUME NEW r, r.path \in Path
    PROVE  /\ ResolveDir(r.path) \in Seq(Calls) /\ Orderly(r, {}, ResolveDir(r.path))
           /\ Range(ResolveDir(r.path)) = All("enter", Tops(r.path))
           /\ ResolveDir(r.path) \o <<Call("entries", r.path)>> \in Seq(Calls)
           /\ Orderly(r, {}, ResolveDir(r.path) \o <<Call("entries", r.path)>>)
           /\ Range(ResolveDir(r.path) \o <<Call("entries", r.path)>>) = All("enter", Tops(r.path)) \union {Call("entries", r.path)}
<1> DEFINE p == r.path s == ResolveDir(p) E == All("enter", Tops(p)) c == Call("entries", p)
<1>1. s \in Seq(Calls) /\ Orderly(r, {}, s) /\ Range(s) = E
  <2>1. "enter" \in Deeds /\ Len(p) \in 0..Len(p)
    BY PathIs DEF Deeds
  <2>2. s = Along("enter", p, Len(p)) /\ s \in Seq(Calls) /\ Range(s) = E
    BY <2>1, AlongRange DEF ResolveDir, All
  <2> QED
    BY <2>1, <2>2, EnteringFirst
<1>2. c \in Calls /\ c.do = "entries" /\ c.path = p
  BY CallIs DEF Deeds
<1>3. Follows(r, {} \union E, c)
  <2>1. Deed(E) \subseteq {"enter"}
    BY DeedAlong DEF All
  <2> HIDE DEF E, c
  <2>2. Deed({} \union E) \subseteq {"enter"}
    BY <2>1, DeedsJoined
  <2> QED
    BY <1>2, <2>2 DEF Follows, Looks, Grows, Writes, Removes
<1> HIDE DEF s, E, c
<1>4. s \o <<c>> \in Seq(Calls) /\ Range(s \o <<c>>) = E \union {c} /\ Orderly(r, {}, s \o <<c>>)
  BY <1>1, <1>2, <1>3, OrderlyMore
<1> QED
  BY <1>1, <1>4 DEF s, E, c

LEMMA MakePlan ==
    ASSUME NEW r, r.path \in Path
    PROVE  /\ ResolveDirCreate(r.path) \in Seq(Calls) /\ Orderly(r, {}, ResolveDirCreate(r.path))
           /\ Range(ResolveDirCreate(r.path)) = All("make", Tops(r.path))
<1> DEFINE p == r.path s == ResolveDirCreate(p)
<1>1. "make" \in Deeds /\ Len(p) \in 0..Len(p)
  BY PathIs DEF Deeds
<1>2. s = Along("make", p, Len(p)) /\ s \in Seq(Calls) /\ Range(s) = All("make", Tops(p))
  BY <1>1, AlongRange DEF ResolveDirCreate, All
<1>3. Deed({}) \subseteq {"enter", "open", "load"}
  BY DeedsJoined
<1> QED
  BY <1>1, <1>2, <1>3, Making

LEMMA DeletePlan ==
    ASSUME NEW r, r.path \in Path, NEW done,
           \/ r.call = "delete" /\ done = {}
           \/ r.call = "move" /\ "commit" \in Deed(done) /\ "remove" \notin Deed(done) /\ Call("open", r.path) \in done
    PROVE  /\ Delete(r.path) \in Seq(Calls) /\ Orderly(r, done, Delete(r.path))
           /\ Range(Delete(r.path)) = All("enter", Above(r.path)) \union {Call("remove", r.path)}
<1> DEFINE p == r.path s == ResolveParent(p) E == All("enter", Above(p)) c == Call("remove", p)
<1>1. s \in Seq(Calls) /\ Orderly(r, done, s) /\ Range(s) = E
  <2>1. "enter" \in Deeds
    BY DEF Deeds
  <2>2. /\ s = Along("enter", p, Len(p) - 1) /\ s = Along("enter", p, Depth(p)) /\ Depth(p) \in 0..Len(p)
        /\ s \in Seq(Calls) /\ Range(s) = E
    BY <2>1, AlongRange DEF ResolveParent, All
  <2>3. Orderly(r, done, s)
    BY <2>2, EnteringFirst, EnteringAgain
  <2> QED
    BY <2>2, <2>3
<1>2. c \in Calls /\ c.do = "remove" /\ c.path = p
  BY CallIs DEF Deeds
<1>3. Follows(r, done \union E, c)
  <2>1. Deed(E) \subseteq {"enter"}
    BY DeedAlong DEF All
  <2> HIDE DEF E, c
  <2>2. Deed(done \union E) = Deed(done) \union Deed(E) /\ Deed({}) = {}
    BY DeedsJoined
  <2>3. CASE r.call = "delete" /\ done = {}
    <3>1. Deed(done \union E) \subseteq {"enter"}
      BY <2>1, <2>2, <2>3
    <3> QED
      BY <1>2, <2>3, <3>1 DEF Follows, Looks, Grows, Writes, Removes
  <2>4. CASE r.call = "move" /\ "commit" \in Deed(done) /\ "remove" \notin Deed(done) /\ Call("open", r.path) \in done
    <3>1. "commit" \in Deed(done \union E) /\ "remove" \notin Deed(done \union E) /\ Call("open", r.path) \in done \union E
      BY <2>1, <2>2, <2>4
    <3> QED
      BY <1>2, <2>4, <3>1 DEF Follows, Looks, Grows, Writes, Removes
  <2> QED
    BY <2>3, <2>4
<1> HIDE DEF s, E, c
<1>4. s \o <<c>> \in Seq(Calls) /\ Range(s \o <<c>>) = E \union {c} /\ Orderly(r, done, s \o <<c>>)
  BY <1>1, <1>2, <1>3, OrderlyMore
<1>5. Delete(p) = s \o <<c>>
  BY DEF Delete, s, c
<1> QED
  BY <1>4, <1>5 DEF E, c

LEMMA CreatePlan ==
    ASSUME NEW r, Goal(r) \in Path, NEW done, Deed(done) \subseteq {"enter", "open", "load"}
    PROVE  /\ ResolveFileCreate(Goal(r)) \in Seq(Calls) /\ Orderly(r, done, ResolveFileCreate(Goal(r)))
           /\ Range(ResolveFileCreate(Goal(r))) = All("make", Above(Goal(r))) \union {Call("create", Goal(r))}
<1> DEFINE p == Goal(r) s == Along("make", p, Len(p) - 1) E == All("make", Above(p)) c == Call("create", p)
<1>1. s \in Seq(Calls) /\ Orderly(r, done, s) /\ Range(s) = E
  <2>1. "make" \in Deeds
    BY DEF Deeds
  <2>2. /\ s = Along("make", p, Depth(p)) /\ Depth(p) \in 0..Len(p)
        /\ s \in Seq(Calls) /\ Range(s) = E
    BY <2>1, AlongRange DEF All
  <2>3. Orderly(r, done, s)
    BY <2>2, Making
  <2> QED
    BY <2>2, <2>3
<1>2. c \in Calls /\ c.do = "create" /\ c.path = p
  BY CallIs DEF Deeds
<1>3. Follows(r, done \union E, c)
  <2>1. Deed(E) \subseteq {"make"} /\ Made(E) = Above(p)
    BY DeedAlong DEF All
  <2>2. Made(done) = {}
    BY DEF Made, Deed
  <2>3. Len(p) > 1 => Call("make", SubSeq(p, 1, Len(p) - 1)) \in E
    BY AboveIs DEF All, Front
  <2>4. p \notin Above(p)
    BY AboveIs
  <2> HIDE DEF E, c, p
  <2>5. Deed(done \union E) = Deed(done) \union Deed(E) /\ Made(done \union E) = Made(done) \union Made(E)
    BY DeedsJoined
  <2>6. Deed(done \union E) \subseteq {"enter", "open", "load", "make"} /\ p \notin Made(done \union E)
    BY <2>1, <2>2, <2>4, <2>5
  <2>7. ParentMade(done \union E, p)
    BY <2>3 DEF ParentMade
  <2> QED
    BY <1>2, <2>6, <2>7 DEF Follows, Looks, Grows, Writes, Removes, p
<1> HIDE DEF s, E, c
<1>4. s \o <<c>> \in Seq(Calls) /\ Range(s \o <<c>>) = E \union {c} /\ Orderly(r, done, s \o <<c>>)
  BY <1>1, <1>2, <1>3, OrderlyMore
<1>5. ResolveFileCreate(p) = s \o <<c>>
  BY DEF ResolveFileCreate, s, c
<1> QED
  BY <1>4, <1>5 DEF E, c

LEMMA ThreeInARow ==
    ASSUME NEW S, NEW a \in S, NEW b \in S, NEW c \in S
    PROVE  (<<a>> \o <<b>>) \o <<c>> = <<a, b, c>>
<1> DEFINE t == <<a>> \o <<b>> u == t \o <<c>> v == <<a, b, c>>
<1>1. <<a>> \in Seq(S) /\ Len(<<a>>) = 1 /\ <<a>>[1] = a
  OBVIOUS
<1>2. t \in Seq(S) /\ Len(t) = 2 /\ t[1] = a /\ t[2] = b
  <2>1. t \in Seq(S) /\ Len(t) = 1 + 1 /\ (\A i \in 1..1 : t[i] = <<a>>[i]) /\ t[1 + 1] = b
    BY <1>1, Lengthened
  <2> HIDE DEF t
  <2> QED
    BY <1>1, <2>1
<1> HIDE DEF t
<1>3. u \in Seq(S) /\ Len(u) = 3 /\ u[1] = a /\ u[2] = b /\ u[3] = c
  <2> DEFINE n == 2
  <2>1. n \in Nat /\ Len(t) = n
    BY <1>2
  <2> HIDE DEF n
  <2>2. u \in Seq(S) /\ Len(u) = n + 1 /\ (\A i \in 1..n : u[i] = t[i]) /\ u[n + 1] = c
    BY <1>2, <2>1, Lengthened
  <2> HIDE DEF u
  <2> QED
    BY <1>2, <2>2 DEF n
<1>4. v \in Seq(S) /\ Len(v) = 3 /\ v[1] = a /\ v[2] = b /\ v[3] = c
  OBVIOUS
<1> HIDE DEF u, v
<1>6. \A i \in 1..3 : u[i] = v[i]
  BY <1>3, <1>4
<1>7. u = v
  BY <1>3, <1>4, <1>6, SeqEqual
<1> QED
  BY <1>7 DEF t, u, v

LEMMA HandlePlan ==
    ASSUME NEW r, Goal(r) \in Path, NEW done, NEW stream \in {"replace", "edit"}, Ready(r, done),
           Deed(done) \intersect {"replace", "edit", "fill", "commit", "remove"} = {},
           Prepared(r, Deed(done) \union {stream})
    PROVE  /\ WriteToHandle(Goal(r), stream) \in Seq(Calls) /\ Orderly(r, done, WriteToHandle(Goal(r), stream))
           /\ Range(WriteToHandle(Goal(r), stream)) =
                {Call(stream, Goal(r))} \union {Call("fill", Goal(r))} \union {Call("commit", Goal(r))}
<1> DEFINE p == Goal(r) c == Call(stream, p) f == Call("fill", p) m == Call("commit", p)
<1>1. /\ c \in Calls /\ c.do = stream /\ c.path = p /\ f \in Calls /\ f.do = "fill" /\ f.path = p
      /\ m \in Calls /\ m.do = "commit" /\ m.path = p
  BY CallIs DEF Deeds
<1>2. Deed({c}) = {stream} /\ Deed({f}) = {"fill"}
  BY DeedsJoined
<1> DEFINE d1 == done \union {c} d2 == done \union ({c} \union {f})
<1>3. Deed(d1) = Deed(done) \union {stream} /\ Deed(d2) = Deed(done) \union {stream} \union {"fill"}
  <2> HIDE DEF c, f
  <2> QED BY <1>2, DeedsJoined
<1>4. Ready(r, d1) /\ Ready(r, d2)
  BY DEF Ready
<1> HIDE DEF c, f, m, d1, d2
<1>5. Follows(r, done, c)
  BY <1>1 DEF Follows, Looks, Grows, Writes, Removes, p
<1>6. Follows(r, d1, f)
  BY <1>1, <1>3, <1>4 DEF Follows, Looks, Grows, Writes, Removes, p
<1>7. Follows(r, d2, m)
  <2>1. Prepared(r, Deed(d2))
    BY <1>3 DEF Prepared
  <2> QED
    BY <1>1, <1>3, <1>4, <2>1 DEF Follows, Looks, Grows, Writes, Removes, p
<1>8. <<c>> \in Seq(Calls) /\ Range(<<c>>) = {c} /\ Orderly(r, done, <<c>>)
  BY <1>1, <1>5, OrderlyOne
<1> DEFINE one == <<c>> t == one \o <<f>>
<1> HIDE DEF one
<1>9. t \in Seq(Calls) /\ Range(t) = {c} \union {f} /\ Orderly(r, done, t)
  <2>1. Follows(r, done \union Range(<<c>>), f)
    BY <1>6, <1>8 DEF d1
  <2>2. one \in Seq(Calls) /\ Range(one) = {c} /\ Orderly(r, done, one) /\ Follows(r, done \union Range(one), f)
    BY <1>8, <2>1 DEF one
  <2> QED
    BY <1>1, <2>2, OrderlyMore
<1>10. WriteToHandle(p, stream) = t \o <<m>>
  <2>1. WriteToHandle(p, stream) = <<c, f, m>>
    BY DEF WriteToHandle, c, f, m
  <2>2. (<<c>> \o <<f>>) \o <<m>> = <<c, f, m>>
    BY <1>1, ThreeInARow
  <2> QED
    BY <2>1, <2>2 DEF t, one
<1> HIDE DEF t
<1>11. t \o <<m>> \in Seq(Calls) /\ Range(t \o <<m>>) = ({c} \union {f}) \union {m} /\ Orderly(r, done, t \o <<m>>)
  <2>1. Follows(r, done \union Range(t), m)
    BY <1>7, <1>9 DEF d2
  <2> QED
    BY <1>1, <1>9, <2>1, OrderlyMore
<1> QED
  BY <1>10, <1>11 DEF c, f, m

(* What an operation needs done, by its parts. *)
Opening(p) == All("enter", Above(p)) \union {Call("open", p)}
Reading(p) == Opening(p) \union {Call("load", p)}
Creating(p) == All("make", Above(p)) \union {Call("create", p)}
Handling(p, stream) == {Call(stream, p)} \union {Call("fill", p)} \union {Call("commit", p)}
Writing(p) == Creating(p) \union Handling(p, "replace")
Measuring(p) == {Call("measure", p)} \union Handling(p, "edit")
Deleting(p) == All("enter", Above(p)) \union {Call("remove", p)}

Needs(r) ==
    CASE r.call \in {"read", "range", "hash", "stat", "exists"} -> Reading(r.path)
      [] r.call = "list" -> All("enter", Tops(r.path)) \union {Call("entries", r.path)}
      [] r.call = "mkdir" -> All("make", Tops(r.path))
      [] r.call = "delete" -> Deleting(r.path)
      [] r.call = "copy" -> Reading(r.path) \union Writing(r.to)
      [] r.call = "move" -> (Reading(r.path) \union Writing(r.to)) \union Deleting(r.path)
      [] r.call = "write" -> Writing(r.path)
      [] r.call = "append" -> Opening(r.path) \union Measuring(r.path)
      [] r.call = "update" -> Opening(r.path) \union Handling(r.path, "edit")
SecondNeeds(r) ==
    IF r.call = "append" THEN Creating(r.path) \union Measuring(r.path) ELSE All("enter", Tops(r.path))

(* What those parts do, and which directories they make. *)
LEMMA DeedsOfNeeds ==
    ASSUME NEW p
    PROVE  /\ Deed(Opening(p)) \subseteq {"enter", "open"} /\ Deed(Reading(p)) \subseteq {"enter", "open", "load"}
           /\ "load" \in Deed(Reading(p)) /\ Call("open", p) \in Opening(p) /\ Call("open", p) \in Reading(p)
           /\ Deed(Creating(p)) \subseteq {"make", "create"} /\ Call("create", p) \in Creating(p)
           /\ \A stream : Deed(Handling(p, stream)) = {stream, "fill", "commit"}
           /\ Deed(Writing(p)) \subseteq {"make", "create", "replace", "fill", "commit"} /\ "commit" \in Deed(Writing(p))
           /\ Deed(Measuring(p)) = {"measure", "edit", "fill", "commit"}
           /\ Made(Creating(p)) = Above(p) /\ \A stream \in {"replace", "edit"} : Made(Handling(p, stream)) = {}
           /\ Deed(Deleting(p)) \subseteq {"enter", "remove"} /\ "remove" \in Deed(Deleting(p))
           /\ Made(Opening(p)) = {} /\ Made(Reading(p)) = {} /\ Made(Measuring(p)) = {} /\ Made(Deleting(p)) = {}
           /\ Made(Writing(p)) = Above(p)
<1> DEFINE E == All("enter", Above(p)) M == All("make", Above(p))
<1>1. Deed(E) \subseteq {"enter"} /\ Deed(M) \subseteq {"make"} /\ Made(E) = {} /\ Made(M) = Above(p)
  <2>1. Deed(E) \subseteq {"enter"} /\ Made(E) = {}
    <3> DEFINE do == "enter"
    <3>1. E = {Call(do, q) : q \in Above(p)}
      BY DEF All
    <3>2. do = "enter"
      OBVIOUS
    <3> HIDE DEF E, do
    <3>3. Deed(E) \subseteq {do} /\ Made(E) = IF do = "make" THEN Above(p) ELSE {}
      BY <3>1, DeedAlong
    <3> QED
      BY <3>2, <3>3
  <2>2. Deed(M) \subseteq {"make"} /\ Made(M) = Above(p)
    <3> DEFINE do == "make"
    <3>1. M = {Call(do, q) : q \in Above(p)}
      BY DEF All
    <3>2. do = "make"
      OBVIOUS
    <3> HIDE DEF M, do
    <3>3. Deed(M) \subseteq {do} /\ Made(M) = IF do = "make" THEN Above(p) ELSE {}
      BY <3>1, DeedAlong
    <3> QED
      BY <3>2, <3>3
  <2> QED
    BY <2>1, <2>2
<1>2. \A do : Deed({Call(do, p)}) = {do} /\ (do # "make" => Made({Call(do, p)}) = {})
  BY DeedsJoined
<1> HIDE DEF E, M
<1> DEFINE o == {Call("open", p)} l == {Call("load", p)} c == {Call("create", p)} f == {Call("fill", p)}
           m == {Call("commit", p)} e == {Call("edit", p)} n == {Call("measure", p)} v == {Call("remove", p)} x == {Call("replace", p)}
<1>3. /\ Deed(o) = {"open"} /\ Deed(l) = {"load"} /\ Deed(c) = {"create"} /\ Deed(f) = {"fill"} /\ Deed(m) = {"commit"}
      /\ Deed(e) = {"edit"} /\ Deed(n) = {"measure"} /\ Deed(v) = {"remove"} /\ Deed(x) = {"replace"}
  BY <1>2
<1>4. Made(o) = {} /\ Made(l) = {} /\ Made(c) = {} /\ Made(f) = {} /\ Made(m) = {} /\ Made(e) = {} /\ Made(n) = {} /\ Made(v) = {} /\ Made(x) = {}
  BY <1>2
<1>5. \A a, b : Deed(a \union b) = Deed(a) \union Deed(b) /\ Made(a \union b) = Made(a) \union Made(b)
  BY DeedsJoined
<1>6. /\ Opening(p) = E \union o /\ Reading(p) = Opening(p) \union l /\ Creating(p) = M \union c
      /\ Writing(p) = Creating(p) \union Handling(p, "replace") /\ Measuring(p) = n \union Handling(p, "edit")
      /\ Deleting(p) = E \union v
      /\ Handling(p, "edit") = (e \union f) \union m /\ Handling(p, "replace") = (x \union f) \union m
  BY DEF Opening, Reading, Creating, Writing, Measuring, Deleting, Handling, E, M
<1>7. ASSUME NEW stream PROVE Deed(Handling(p, stream)) = {stream, "fill", "commit"}
  <2> DEFINE s == {Call(stream, p)}
  <2>1. Deed(s) = {stream} /\ Handling(p, stream) = (s \union f) \union m
    BY <1>2 DEF Handling
  <2> HIDE DEF s, f, m
  <2>2. Deed(Handling(p, stream)) = (Deed(s) \union Deed(f)) \union Deed(m)
    <3>1. Deed((s \union f) \union m) = Deed(s \union f) \union Deed(m) /\ Deed(s \union f) = Deed(s) \union Deed(f)
      BY <1>5
    <3> QED
      BY <2>1, <3>1
  <2> QED
    BY <1>3, <2>1, <2>2
<1>8. Call("open", p) \in Opening(p) /\ Call("open", p) \in Reading(p) /\ Call("create", p) \in Creating(p)
  BY DEF Opening, Reading, Creating
<1> HIDE DEF o, l, c, f, m, e, n, v, x
<1>9. Deed(Opening(p)) \subseteq {"enter", "open"} /\ Made(Opening(p)) = {}
  <2>1. Deed(Opening(p)) = Deed(E) \union Deed(o) /\ Made(Opening(p)) = Made(E) \union Made(o)
    BY <1>5, <1>6
  <2> QED
    BY <1>1, <1>3, <1>4, <2>1
<1>10. Deed(Reading(p)) \subseteq {"enter", "open", "load"} /\ "load" \in Deed(Reading(p)) /\ Made(Reading(p)) = {}
  <2>1. Deed(Reading(p)) = Deed(Opening(p)) \union Deed(l) /\ Made(Reading(p)) = Made(Opening(p)) \union Made(l)
    BY <1>5, <1>6
  <2> QED
    BY <1>9, <1>3, <1>4, <2>1
<1>11. Deed(Creating(p)) \subseteq {"make", "create"} /\ Made(Creating(p)) = Above(p)
  <2>1. Deed(Creating(p)) = Deed(M) \union Deed(c) /\ Made(Creating(p)) = Made(M) \union Made(c)
    BY <1>5, <1>6
  <2> QED
    BY <1>1, <1>3, <1>4, <2>1
<1>12. Made(Handling(p, "edit")) = {} /\ Made(Handling(p, "replace")) = {}
  <2>1. Made(Handling(p, "edit")) = (Made(e) \union Made(f)) \union Made(m) /\ Made(Handling(p, "replace")) = (Made(x) \union Made(f)) \union Made(m)
    <3>1. Made((e \union f) \union m) = Made(e \union f) \union Made(m) /\ Made(e \union f) = Made(e) \union Made(f)
      BY <1>5
    <3>2. Made((x \union f) \union m) = Made(x \union f) \union Made(m) /\ Made(x \union f) = Made(x) \union Made(f)
      BY <1>5
    <3> QED
      BY <1>6, <3>1, <3>2
  <2> QED
    BY <1>4, <2>1
<1>13. /\ Deed(Writing(p)) \subseteq {"make", "create", "replace", "fill", "commit"}
       /\ "commit" \in Deed(Writing(p)) /\ Made(Writing(p)) = Above(p)
  <2>1. /\ Deed(Writing(p)) = Deed(Creating(p)) \union Deed(Handling(p, "replace"))
        /\ Made(Writing(p)) = Made(Creating(p)) \union Made(Handling(p, "replace"))
    BY <1>5, <1>6
  <2> QED
    BY <1>7, <1>11, <1>12, <2>1
<1>14. Deed(Measuring(p)) = {"measure", "edit", "fill", "commit"} /\ Made(Measuring(p)) = {}
  <2>1. Deed(Measuring(p)) = Deed(n) \union Deed(Handling(p, "edit")) /\ Made(Measuring(p)) = Made(n) \union Made(Handling(p, "edit"))
    BY <1>5, <1>6
  <2>2. Deed(Handling(p, "edit")) = {"edit", "fill", "commit"}
    BY <1>7
  <2> QED
    BY <1>3, <1>4, <1>12, <2>1, <2>2
<1>15. Deed(Deleting(p)) \subseteq {"enter", "remove"} /\ "remove" \in Deed(Deleting(p)) /\ Made(Deleting(p)) = {}
  <2>1. Deed(Deleting(p)) = Deed(E) \union Deed(v) /\ Made(Deleting(p)) = Made(E) \union Made(v)
    BY <1>5, <1>6
  <2> QED
    BY <1>1, <1>3, <1>4, <2>1
<1> QED
  BY <1>7, <1>8, <1>9, <1>10, <1>11, <1>12, <1>13, <1>14, <1>15

LEMMA WritePlan ==
    ASSUME NEW r, Goal(r) \in Path, NEW done, Deed(done) \subseteq {"enter", "open", "load"},
           \/ r.call = "write" /\ "load" \notin Deed(done)
           \/ r.call \in {"copy", "move"} /\ "load" \in Deed(done)
    PROVE  /\ Write(Goal(r)) \in Seq(Calls) /\ Orderly(r, done, Write(Goal(r)))
           /\ Range(Write(Goal(r))) = Writing(Goal(r))
<1> DEFINE p == Goal(r) s == ResolveFileCreate(p) t == WriteToHandle(p, "replace") d == done \union Range(s)
<1>1. s \in Seq(Calls) /\ Orderly(r, done, s) /\ Range(s) = Creating(p)
  BY CreatePlan DEF Creating
<1>2. Deed(d) = Deed(done) \union Deed(Creating(p)) /\ Call("create", p) \in d
  BY <1>1, DeedsJoined, DeedsOfNeeds
<1>3. Deed(d) \subseteq {"enter", "open", "load", "make", "create"} /\ ("load" \in Deed(d) <=> "load" \in Deed(done))
  BY <1>2, DeedsOfNeeds
<1> HIDE DEF d
<1>4. Ready(r, d) /\ Deed(d) \intersect {"replace", "edit", "fill", "commit", "remove"} = {}
  BY <1>2, <1>3 DEF Ready
<1>5. Prepared(r, Deed(d) \union {"replace"})
  BY <1>3 DEF Prepared
<1>6. t \in Seq(Calls) /\ Orderly(r, d, t) /\ Range(t) = Handling(p, "replace")
  BY <1>4, <1>5, HandlePlan DEF Handling
<1> HIDE DEF s, t
<1>7. s \o t \in Seq(Calls) /\ Range(s \o t) = Writing(p)
  BY <1>1, <1>6, RangeJoined DEF Writing
<1>8. Orderly(r, done, s \o t)
  BY <1>1, <1>6, OrderlyJoined DEF d
<1>9. Write(p) = s \o t
  BY DEF Write, s, t
<1> QED
  BY <1>7, <1>8, <1>9

LEMMA AppendPlan ==
    ASSUME NEW r, r.call = "append", r.path \in Path, NEW done, Ready(r, done),
           Deed(done) \subseteq {"enter", "open", "make", "create"}
    PROVE  /\ Appending(r.path) \in Seq(Calls) /\ Orderly(r, done, Appending(r.path))
           /\ Range(Appending(r.path)) = Measuring(r.path)
<1> DEFINE p == r.path c == Call("measure", p) t == WriteToHandle(p, "edit") d == done \union {c}
<1>1. c \in Calls /\ c.do = "measure" /\ c.path = p /\ Goal(r) = p /\ Deed({c}) = {"measure"}
  <2>1. c \in Calls /\ c.do = "measure" /\ c.path = p
    BY CallIs DEF Deeds
  <2>2. Goal(r) = p
    BY DEF Goal
  <2>3. Deed({c}) = {"measure"}
    BY DeedsJoined
  <2> QED
    BY <2>1, <2>2, <2>3
<1> HIDE DEF c
<1>2. Follows(r, done, c)
  BY <1>1 DEF Follows, Looks, Grows, Writes, Removes
<1> DEFINE one == <<c>>
<1>3. one \in Seq(Calls) /\ Range(one) = {c} /\ Orderly(r, done, one)
  BY <1>1, <1>2, OrderlyOne
<1>4. Deed(d) = Deed(done) \union {"measure"}
  BY <1>1, DeedsJoined
<1>5. Ready(r, d)
  BY DEF Ready
<1> HIDE DEF d
<1>6. Prepared(r, Deed(d) \union {"edit"}) /\ Deed(d) \intersect {"replace", "edit", "fill", "commit", "remove"} = {}
  BY <1>4 DEF Prepared
<1>7. t \in Seq(Calls) /\ Orderly(r, d, t) /\ Range(t) = Handling(p, "edit")
  BY <1>1, <1>5, <1>6, HandlePlan DEF Handling
<1>8. Appending(p) = one \o t
  BY DEF Appending, c
<1> HIDE DEF one, t
<1>9. one \o t \in Seq(Calls) /\ Range(one \o t) = Measuring(p)
  BY <1>3, <1>7, RangeJoined DEF Measuring, c
<1>10. Orderly(r, done, one \o t)
  BY <1>3, <1>7, OrderlyJoined DEF d
<1> QED
  BY <1>8, <1>9, <1>10

Planned(r, plan, calls) == plan \in Seq(Calls) /\ Orderly(r, {}, plan) /\ Range(plan) = calls

LEMMA JoinPlans ==
    ASSUME NEW r, NEW s, NEW t, NEW a, NEW b, Planned(r, s, a),
           t \in Seq(Calls) /\ Orderly(r, a, t) /\ Range(t) = b
    PROVE  Planned(r, s \o t, a \union b)
<1>1. s \in Seq(Calls) /\ t \in Seq(Calls) /\ Orderly(r, {}, s) /\ Range(s) = a
  BY DEF Planned
<1>2. Orderly(r, {} \union Range(s), t)
  <2>1. {} \union Range(s) = a
    BY <1>1
  <2> QED
    BY <2>1
<1>3. s \o t \in Seq(Calls) /\ Range(s \o t) = Range(s) \union Range(t)
  BY <1>1, RangeJoined
<1>4. Orderly(r, {}, s \o t)
  BY <1>1, <1>2, OrderlyJoined
<1> QED
  BY <1>1, <1>3, <1>4 DEF Planned

(* Every plan is orderly, and makes just the calls the operation needs. *)
LEMMA PlanIs ==
    ASSUME SoundRequests, NEW r \in Requests
    PROVE  Planned(r, Plan(r), Needs(r))
<1> DEFINE p == r.path
<1>1. r.path \in Path /\ r.to \in Path /\ Goal(r) \in Path
  BY PathsAsked
<1>2. CASE r.call \in {"read", "range", "hash", "stat", "exists"}
  <2>1. Plan(r) = Read(p) /\ Needs(r) = Reading(p)
    BY <1>2 DEF Plan, Needs
  <2> QED
    BY <1>1, <2>1, ReadPlan DEF Planned, Reading, Opening
<1>3. CASE r.call = "list"
  <2>1. Plan(r) = ResolveDir(p) \o <<Call("entries", p)>> /\ Needs(r) = All("enter", Tops(p)) \union {Call("entries", p)}
    BY <1>3 DEF Plan, Needs
  <2> QED
    BY <1>1, <2>1, DirPlan DEF Planned
<1>4. CASE r.call = "mkdir"
  <2>1. Plan(r) = ResolveDirCreate(p) /\ Needs(r) = All("make", Tops(p))
    BY <1>4 DEF Plan, Needs
  <2> QED
    BY <1>1, <2>1, MakePlan DEF Planned
<1>5. CASE r.call = "delete"
  <2>1. Plan(r) = Delete(p) /\ Needs(r) = Deleting(p)
    BY <1>5 DEF Plan, Needs
  <2> QED
    BY <1>1, <1>5, <2>1, DeletePlan DEF Planned, Deleting
<1> DEFINE u == Read(p) \o Write(r.to)
<1>6. ASSUME r.call \in {"copy", "move"} PROVE Planned(r, u, Reading(p) \union Writing(r.to))
  <2>1. Planned(r, Read(p), Reading(p))
    BY <1>1, ReadPlan DEF Reading, Opening, Planned
  <2>2. Goal(r) = r.to
    BY <1>6 DEF Goal
  <2>3. Deed(Reading(p)) \subseteq {"enter", "open", "load"} /\ "load" \in Deed(Reading(p))
    BY DeedsOfNeeds
  <2>4. Write(r.to) \in Seq(Calls) /\ Orderly(r, Reading(p), Write(r.to)) /\ Range(Write(r.to)) = Writing(r.to)
    BY <1>1, <1>6, <2>2, <2>3, WritePlan
  <2> QED
    BY <2>1, <2>4, JoinPlans
<1>7. CASE r.call = "copy"
  <2>1. Plan(r) = u /\ Needs(r) = Reading(p) \union Writing(r.to)
    BY <1>7 DEF Plan, Needs
  <2> QED
    BY <1>6, <1>7, <2>1
<1>8. CASE r.call = "move"
  <2>1. Plan(r) = u \o Delete(p) /\ Needs(r) = (Reading(p) \union Writing(r.to)) \union Deleting(p)
    BY <1>8 DEF Plan, Needs, Rename
  <2> DEFINE d == Reading(p) \union Writing(r.to)
  <2>2. Planned(r, u, d)
    BY <1>6, <1>8
  <2>3. Deed(d) = Deed(Reading(p)) \union Deed(Writing(r.to)) /\ Call("open", r.path) \in d
    <3>1. Call("open", p) \in Reading(p)
      BY DeedsOfNeeds
    <3> QED
      BY <3>1, DeedsJoined
  <2>4. "commit" \in Deed(d) /\ "remove" \notin Deed(d)
    BY <2>3, DeedsOfNeeds
  <2> HIDE DEF d
  <2>5. Delete(p) \in Seq(Calls) /\ Orderly(r, d, Delete(p)) /\ Range(Delete(p)) = Deleting(p)
    BY <1>1, <1>8, <2>3, <2>4, DeletePlan DEF Deleting
  <2> HIDE DEF u
  <2>6. Planned(r, u \o Delete(p), d \union Deleting(p))
    BY <2>2, <2>5, JoinPlans
  <2> QED
    BY <2>1, <2>6 DEF d
<1>9. CASE r.call = "write"
  <2>1. Plan(r) = Write(p) /\ Needs(r) = Writing(p) /\ Goal(r) = p
    BY <1>9 DEF Plan, Needs, Goal
  <2>2. Deed({}) \subseteq {"enter", "open", "load"} /\ "load" \notin Deed({})
    BY DeedsJoined
  <2>3. Goal(r) \in Path
    BY <1>1
  <2>4. Write(Goal(r)) \in Seq(Calls) /\ Orderly(r, {}, Write(Goal(r))) /\ Range(Write(Goal(r))) = Writing(Goal(r))
    BY <1>9, <2>2, <2>3, WritePlan
  <2> QED
    BY <2>1, <2>4 DEF Planned
<1>10. CASE r.call = "append"
  <2>1. Plan(r) = ResolveFile(p) \o Appending(p) /\ Needs(r) = Opening(p) \union Measuring(p) /\ Goal(r) = p
    BY <1>10 DEF Plan, Needs, Goal
  <2>2. Planned(r, ResolveFile(p), Opening(p))
    BY <1>1, ReadPlan DEF Opening, Planned
  <2>3. Deed(Opening(p)) \subseteq {"enter", "open", "make", "create"} /\ Ready(r, Opening(p))
    BY <2>1, DeedsOfNeeds DEF Ready
  <2>4. Appending(p) \in Seq(Calls) /\ Orderly(r, Opening(p), Appending(p)) /\ Range(Appending(p)) = Measuring(p)
    BY <1>1, <1>10, <2>3, AppendPlan
  <2> QED
    BY <2>1, <2>2, <2>4, JoinPlans
<1>11. CASE r.call = "update"
  <2>1. Plan(r) = ResolveFile(p) \o WriteToHandle(p, "edit") /\ Needs(r) = Opening(p) \union Handling(p, "edit") /\ Goal(r) = p
    BY <1>11 DEF Plan, Needs, Goal
  <2>2. Planned(r, ResolveFile(p), Opening(p))
    BY <1>1, ReadPlan DEF Opening, Planned
  <2>3. Deed(Opening(p)) \subseteq {"enter", "open"} /\ Ready(r, Opening(p))
    BY <2>1, DeedsOfNeeds DEF Ready
  <2> DEFINE d == Opening(p)
  <2>4. Prepared(r, Deed(d) \union {"edit"}) /\ Deed(d) \intersect {"replace", "edit", "fill", "commit", "remove"} = {}
    <3> HIDE DEF d
    <3>1. Deed(d) \subseteq {"enter", "open"}
      BY <2>3 DEF d
    <3> QED BY <1>11, <3>1 DEF Prepared
  <2>5. WriteToHandle(p, "edit") \in Seq(Calls) /\ Orderly(r, d, WriteToHandle(p, "edit")) /\ Range(WriteToHandle(p, "edit")) = Handling(p, "edit")
    BY <1>1, <2>1, <2>3, <2>4, HandlePlan DEF Handling
  <2> QED
    BY <2>1, <2>2, <2>5, JoinPlans
<1> QED
  BY <1>2, <1>3, <1>4, <1>5, <1>7, <1>8, <1>9, <1>10, <1>11 DEF SoundRequests

LEMMA SecondPlanIs ==
    ASSUME NEW r \in Requests, LooksTwice(r)
    PROVE  Planned(r, SecondPlan(r), SecondNeeds(r))
<1> DEFINE p == r.path
<1>1. p \in Path
  BY PathsAsked
<1>2. CASE r.call = "append"
  <2>1. SecondPlan(r) = ResolveFileCreate(p) \o Appending(p) /\ SecondNeeds(r) = Creating(p) \union Measuring(p) /\ Goal(r) = p
    BY <1>2 DEF SecondPlan, SecondNeeds, Goal
  <2>2. Deed({}) \subseteq {"enter", "open", "load"}
    BY DeedsJoined
  <2>3. Planned(r, ResolveFileCreate(p), Creating(p))
    BY <1>1, <2>1, <2>2, CreatePlan DEF Creating, Planned
  <2>4. Deed(Creating(p)) \subseteq {"enter", "open", "make", "create"} /\ Ready(r, Creating(p))
    BY <2>1, DeedsOfNeeds DEF Ready
  <2>5. Appending(p) \in Seq(Calls) /\ Orderly(r, Creating(p), Appending(p)) /\ Range(Appending(p)) = Measuring(p)
    BY <1>1, <1>2, <2>4, AppendPlan
  <2> QED
    BY <2>1, <2>3, <2>5, JoinPlans
<1>3. CASE r.call # "append"
  <2>1. SecondPlan(r) = ResolveDir(p) /\ SecondNeeds(r) = All("enter", Tops(p))
    BY <1>3 DEF SecondPlan, SecondNeeds
  <2> QED
    BY <1>1, <2>1, DirPlan DEF Planned
<1> QED
  BY <1>2, <1>3

(* ---- When a plan goes through ---- *)

AllAllowed(t, calls) == \A c \in calls : Allows(t, c)

(* What each call, and each part of a plan, needs of the tree. *)
LEMMA AllowsIs ==
    ASSUME NEW t, NEW p
    PROVE  /\ Allows(t, Call("enter", p)) <=> Folder(t, p)
           /\ Allows(t, Call("entries", p)) <=> Folder(t, p)
           /\ Allows(t, Call("open", p)) <=> Kept(t, p)
           /\ Allows(t, Call("make", p)) <=> ~Kept(t, p)
           /\ Allows(t, Call("create", p)) <=> ~Folder(t, p)
           /\ Allows(t, Call("remove", p)) <=> p # <<>> /\ (Kept(t, p) \/ Folder(t, p))
           /\ \A do \in {"load", "measure", "replace", "edit", "fill", "commit"} : Allows(t, Call(do, p))
<1>1. \A do : Call(do, p).do = do /\ Call(do, p).path = p
  BY DEF Call
<1> DEFINE K == Kept(t, p) F == Folder(t, p)
<1>2. ASSUME NEW do
      PROVE  Allows(t, Call(do, p)) <=> /\ do \in {"enter", "entries"} => F
                                        /\ do = "open" => K
                                        /\ do = "make" => ~K
                                        /\ do = "create" => ~F
                                        /\ do = "remove" => p # <<>> /\ (K \/ F)
  <2> DEFINE c == Call(do, p)
  <2>1. c.do = do /\ c.path = p
    BY <1>1
  <2> HIDE DEF c
  <2>2. Allows(t, c) <=> /\ c.do \in {"enter", "entries"} => Folder(t, c.path)
                         /\ c.do = "open" => Kept(t, c.path)
                         /\ c.do = "make" => ~Kept(t, c.path)
                         /\ c.do = "create" => ~Folder(t, c.path)
                         /\ c.do = "remove" => c.path # <<>> /\ (Kept(t, c.path) \/ Folder(t, c.path))
    BY DEF Allows
  <2> QED
    BY <2>1, <2>2 DEF c
<1> HIDE DEF K, F
<1>3. /\ Allows(t, Call("enter", p)) <=> F
      /\ Allows(t, Call("entries", p)) <=> F
      /\ Allows(t, Call("open", p)) <=> K
      /\ Allows(t, Call("make", p)) <=> ~K
      /\ Allows(t, Call("create", p)) <=> ~F
      /\ Allows(t, Call("remove", p)) <=> p # <<>> /\ (K \/ F)
  BY <1>2
<1>4. \A do \in {"load", "measure", "replace", "edit", "fill", "commit"} : Allows(t, Call(do, p))
  BY <1>2
<1> QED
  BY <1>3, <1>4 DEF K, F

LEMMA AllAllowedJoined ==
    ASSUME NEW t, NEW a, NEW b
    PROVE  AllAllowed(t, a \union b) <=> (AllAllowed(t, a) /\ AllAllowed(t, b))
  BY DEF AllAllowed

LEMMA AllAllowedOne == ASSUME NEW t, NEW c PROVE AllAllowed(t, {c}) <=> Allows(t, c)
  BY DEF AllAllowed

LEMMA AllAllowedAlong ==
    ASSUME NEW t, NEW P
    PROVE  /\ AllAllowed(t, All("enter", P)) <=> \A q \in P : Folder(t, q)
           /\ AllAllowed(t, All("make", P)) <=> \A q \in P : ~Kept(t, q)
<1>1. \A q : (Allows(t, Call("enter", q)) <=> Folder(t, q)) /\ (Allows(t, Call("make", q)) <=> ~Kept(t, q))
  BY AllowsIs
<1>2. AllAllowed(t, All("enter", P)) <=> \A q \in P : Allows(t, Call("enter", q))
  BY Zenon DEF AllAllowed, All
<1>3. AllAllowed(t, All("make", P)) <=> \A q \in P : Allows(t, Call("make", q))
  BY Zenon DEF AllAllowed, All
<1> QED
  BY <1>1, <1>2, <1>3

(* A part of a plan goes through as a whole just when the documentation says so. *)
LEMMA AllowedParts ==
    ASSUME NEW t, Sound(t), NEW p \in Path
    PROVE  /\ AllAllowed(t, Opening(p)) <=> Kept(t, p)
           /\ AllAllowed(t, Reading(p)) <=> Kept(t, p)
           /\ AllAllowed(t, Creating(p)) <=> Placeable(t, p)
           /\ AllAllowed(t, Writing(p)) <=> Placeable(t, p)
           /\ \A stream \in {"replace", "edit"} : AllAllowed(t, Handling(p, stream))
           /\ AllAllowed(t, Measuring(p))
           /\ AllAllowed(t, Deleting(p)) <=> p # <<>> /\ (Kept(t, p) \/ Folder(t, p))
           /\ AllAllowed(t, All("enter", Tops(p))) <=> Folder(t, p)
           /\ AllAllowed(t, All("make", Tops(p))) <=> \A q \in Above(p) \union {p} : ~Kept(t, q)
<1>1. \A x \in {"open", "load", "create", "fill", "commit", "edit", "measure", "remove", "replace"} :
         AllAllowed(t, {Call(x, p)}) <=> Allows(t, Call(x, p))
  BY AllAllowedOne
<1> DEFINE K == Kept(t, p) F == Folder(t, p) D == \A q \in Above(p) : Folder(t, q) N == \A q \in Above(p) : ~Kept(t, q)
<1>2. /\ AllAllowed(t, {Call("open", p)}) <=> K
      /\ AllAllowed(t, {Call("create", p)}) <=> ~F
      /\ AllAllowed(t, {Call("remove", p)}) <=> p # <<>> /\ (K \/ F)
  BY <1>1, AllowsIs
<1>3. \A x \in {"load", "fill", "commit", "edit", "measure", "replace"} : AllAllowed(t, {Call(x, p)})
  BY <1>1, AllowsIs
<1>4. AllAllowed(t, All("enter", Above(p))) <=> D
  BY AllAllowedAlong
<1>5. AllAllowed(t, All("make", Above(p))) <=> N
  BY AllAllowedAlong
<1>6. (p # <<>> /\ (K \/ F)) => D
  BY InDirectory DEF Folder
<1>7. K => p # <<>>
  BY DEF Sound, Kept
<1>8. Folder(t, <<>>)
  BY DEF Folder
<1>9. Placeable(t, p) <=> (~F /\ N)
  BY <1>8 DEF Placeable
<1>10. \A a, b : AllAllowed(t, a \union b) <=> (AllAllowed(t, a) /\ AllAllowed(t, b))
  BY AllAllowedJoined
<1>11. AllAllowed(t, Opening(p)) <=> (D /\ K)
  BY <1>2, <1>4, <1>10, Zenon DEF Opening
<1>12. AllAllowed(t, Reading(p)) <=> (D /\ K)
  <2>1. AllAllowed(t, {Call("load", p)})
    BY <1>3
  <2> QED
    BY <1>10, <1>11, <2>1, Zenon DEF Reading
<1>13. AllAllowed(t, Creating(p)) <=> (N /\ ~F)
  BY <1>2, <1>5, <1>10, Zenon DEF Creating
<1>14. ASSUME NEW stream \in {"replace", "edit"} PROVE AllAllowed(t, Handling(p, stream))
  <2>1. AllAllowed(t, {Call(stream, p)}) /\ AllAllowed(t, {Call("fill", p)}) /\ AllAllowed(t, {Call("commit", p)})
    BY <1>3
  <2> QED
    BY <1>10, <2>1, Zenon DEF Handling
<1>15. AllAllowed(t, Writing(p)) <=> (N /\ ~F)
  <2>1. AllAllowed(t, Handling(p, "replace"))
    BY <1>14
  <2> QED
    BY <1>10, <1>13, <2>1, Zenon DEF Writing
<1>16. AllAllowed(t, Measuring(p))
  <2>1. AllAllowed(t, Handling(p, "edit")) /\ AllAllowed(t, {Call("measure", p)})
    BY <1>3, <1>14
  <2> QED
    BY <1>10, <2>1, Zenon DEF Measuring
<1>17. AllAllowed(t, Deleting(p)) <=> (D /\ (p # <<>> /\ (K \/ F)))
  BY <1>2, <1>4, <1>10, Zenon DEF Deleting
<1>18. AllAllowed(t, All("enter", Tops(p))) <=> F
  <2>1. AllAllowed(t, All("enter", Tops(p))) <=> \A q \in Above(p) \union ({p} \ {<<>>}) : Folder(t, q)
    BY AllAllowedAlong, TopsAre
  <2>2. p = <<>> => F /\ Above(p) = {}
    BY <1>8, EmptyPath
  <2> QED
    BY <1>6, <2>1, <2>2
<1>19. AllAllowed(t, All("make", Tops(p))) <=> \A q \in Above(p) \union {p} : ~Kept(t, q)
  <2>1. AllAllowed(t, All("make", Tops(p))) <=> \A q \in Above(p) \union ({p} \ {<<>>}) : ~Kept(t, q)
    BY AllAllowedAlong, TopsAre
  <2> QED
    BY <1>7, <2>1
<1> HIDE DEF K, F, D, N
<1>20. AllAllowed(t, Opening(p)) <=> K
  BY <1>6, <1>7, <1>11
<1>21. AllAllowed(t, Reading(p)) <=> K
  BY <1>6, <1>7, <1>12
<1>22. AllAllowed(t, Creating(p)) <=> Placeable(t, p)
  BY <1>9, <1>13
<1>23. AllAllowed(t, Writing(p)) <=> Placeable(t, p)
  BY <1>9, <1>15
<1>24. AllAllowed(t, Deleting(p)) <=> p # <<>> /\ (K \/ F)
  BY <1>6, <1>17
<1> QED
  BY <1>14, <1>16, <1>18, <1>19, <1>20, <1>21, <1>22, <1>23, <1>24, Zenon DEF K, F

(* The calls all go through just when the documentation promises success. *)
LEMMA PromisedIs ==
    ASSUME SoundRequests, NEW r \in Requests, NEW t, Sound(t)
    PROVE  /\ r.call \notin {"stat", "exists", "append"} =>
                (Promised(r, t) <=> AllAllowed(t, Needs(r)) /\ (r.sound \/ r.call \notin {"write", "update", "hash"}))
           /\ r.call = "append" => /\ Promised(r, t) <=> AllAllowed(t, SecondNeeds(r)) /\ r.sound
                                   /\ AllAllowed(t, Needs(r)) /\ r.sound => Promised(r, t)
           /\ r.call \in {"stat", "exists"} =>
                /\ Promised(r, t) <=> AllAllowed(t, Needs(r)) \/ AllAllowed(t, SecondNeeds(r))
                /\ AllAllowed(t, Needs(r)) <=> Kept(t, r.path)
<1> DEFINE p == r.path
<1>1. p \in Path /\ r.to \in Path
  BY PathsAsked
<1>2. ~r.sound => r.call \in {"write", "append", "update", "hash"}
  BY DEF SoundRequests
<1>3. ASSUME NEW q \in Path
      PROVE  /\ AllAllowed(t, Reading(q)) <=> Kept(t, q)
             /\ AllAllowed(t, Opening(q)) <=> Kept(t, q)
             /\ AllAllowed(t, Writing(q)) <=> Placeable(t, q)
             /\ AllAllowed(t, Creating(q)) <=> Placeable(t, q)
             /\ AllAllowed(t, Handling(q, "edit")) /\ AllAllowed(t, Measuring(q))
             /\ AllAllowed(t, Deleting(q)) <=> q # <<>> /\ (Kept(t, q) \/ Folder(t, q))
  BY AllowedParts
<1>4. \A a, b : AllAllowed(t, a \union b) <=> (AllAllowed(t, a) /\ AllAllowed(t, b))
  BY AllAllowedJoined
<1>5. CASE r.call \in {"read", "range", "hash"}
  <2>1. Needs(r) = Reading(p) /\ (Promised(r, t) <=> Kept(t, p) /\ r.sound)
    BY <1>5 DEF Needs, Promised
  <2> QED
    BY <1>1, <1>2, <1>3, <1>5, <2>1
<1>6. CASE r.call \in {"stat", "exists"}
  <2>1. Needs(r) = Reading(p) /\ SecondNeeds(r) = All("enter", Tops(p)) /\ (Promised(r, t) <=> Kept(t, p) \/ Folder(t, p))
    BY <1>6 DEF Needs, SecondNeeds, Promised
  <2>2. AllAllowed(t, All("enter", Tops(p))) <=> Folder(t, p)
    BY <1>1, AllowedParts
  <2> QED
    BY <1>1, <1>3, <1>6, <2>1, <2>2
<1>7. CASE r.call = "list"
  <2>1. Needs(r) = All("enter", Tops(p)) \union {Call("entries", p)} /\ (Promised(r, t) <=> Folder(t, p))
    BY <1>7 DEF Needs, Promised
  <2>2. AllAllowed(t, All("enter", Tops(p))) <=> Folder(t, p)
    BY <1>1, AllowedParts
  <2>3. AllAllowed(t, {Call("entries", p)}) <=> Folder(t, p)
    BY AllAllowedOne, AllowsIs
  <2>4. AllAllowed(t, Needs(r)) <=> Folder(t, p)
    BY <1>4, <2>1, <2>2, <2>3, Zenon
  <2> QED
    BY <1>7, <2>1, <2>4
<1>8. CASE r.call = "mkdir"
  <2>1. Needs(r) = All("make", Tops(p)) /\ (Promised(r, t) <=> \A q \in Above(p) \union {p} : ~Kept(t, q))
    BY <1>8 DEF Needs, Promised
  <2>2. AllAllowed(t, All("make", Tops(p))) <=> \A q \in Above(p) \union {p} : ~Kept(t, q)
    BY <1>1, AllowedParts
  <2> HIDE DEF p
  <2> QED
    BY <1>8, <2>1, <2>2
<1>9. CASE r.call = "delete"
  <2>1. Needs(r) = Deleting(p) /\ (Promised(r, t) <=> p # <<>> /\ (Kept(t, p) \/ Folder(t, p)))
    BY <1>9 DEF Needs, Promised
  <2> QED
    BY <1>1, <1>3, <1>9, <2>1
<1>10. CASE r.call \in {"copy", "move"}
  <2>1. Promised(r, t) <=> Kept(t, p) /\ Placeable(t, r.to)
    BY <1>10 DEF Promised
  <2>2. AllAllowed(t, Reading(p) \union Writing(r.to)) <=> (Kept(t, p) /\ Placeable(t, r.to))
    BY <1>1, <1>3, <1>4, Zenon
  <2>3. Kept(t, p) => AllAllowed(t, Deleting(p))
    <3>1. Kept(t, p) => p # <<>>
      BY DEF Sound, Kept
    <3> QED
      BY <1>1, <1>3, <3>1
  <2>4. CASE r.call = "copy"
    <3>1. Needs(r) = Reading(p) \union Writing(r.to)
      BY <2>4 DEF Needs
    <3> QED
      BY <2>1, <2>2, <2>4, <3>1
  <2>5. CASE r.call = "move"
    <3>1. Needs(r) = (Reading(p) \union Writing(r.to)) \union Deleting(p)
      BY <2>5 DEF Needs
    <3>2. AllAllowed(t, (Reading(p) \union Writing(r.to)) \union Deleting(p)) <=> (Kept(t, p) /\ Placeable(t, r.to))
      BY <1>4, <2>2, <2>3, Zenon
    <3> QED
      BY <2>1, <2>5, <3>1, <3>2
  <2> QED
    BY <1>10, <2>4, <2>5
<1>11. CASE r.call = "write"
  <2>1. Needs(r) = Writing(p) /\ (Promised(r, t) <=> Placeable(t, p) /\ r.sound)
    BY <1>11 DEF Needs, Promised
  <2> QED
    BY <1>1, <1>3, <1>11, <2>1
<1>12. CASE r.call = "update"
  <2>1. Needs(r) = Opening(p) \union Handling(p, "edit") /\ (Promised(r, t) <=> Kept(t, p) /\ r.sound)
    BY <1>12 DEF Needs, Promised
  <2>2. AllAllowed(t, Opening(p) \union Handling(p, "edit")) <=> Kept(t, p)
    BY <1>1, <1>3, <1>4, Zenon
  <2> QED
    BY <1>12, <2>1, <2>2
<1>13. CASE r.call = "append"
  <2>1. /\ Needs(r) = Opening(p) \union Measuring(p) /\ SecondNeeds(r) = Creating(p) \union Measuring(p)
        /\ Promised(r, t) <=> Placeable(t, p) /\ r.sound
    BY <1>13 DEF Needs, SecondNeeds, Promised
  <2>2. AllAllowed(t, Opening(p) \union Measuring(p)) <=> Kept(t, p)
    BY <1>1, <1>3, <1>4, Zenon
  <2>3. AllAllowed(t, Creating(p) \union Measuring(p)) <=> Placeable(t, p)
    BY <1>1, <1>3, <1>4, Zenon
  <2>4. Kept(t, p) => Placeable(t, p)
    <3> SUFFICES ASSUME Kept(t, p) PROVE Placeable(t, p)
      OBVIOUS
    <3>1. p # <<>> /\ ~Folder(t, p)
      BY DEF Sound, Kept, Folder
    <3>2. Above(p) \subseteq t.dirs
      BY <1>1, <3>1, InDirectory
    <3>3. \A q \in Above(p) : ~Kept(t, q)
      BY <3>2 DEF Sound, Kept
    <3> QED
      BY <3>1, <3>3 DEF Placeable
  <2> QED
    BY <1>13, <2>1, <2>2, <2>3, <2>4
<1> QED
  BY <1>5, <1>6, <1>7, <1>8, <1>9, <1>10, <1>11, <1>12, <1>13 DEF SoundRequests

(* ---- Bytes ---- *)

(* What is in a stream after a write, byte by byte. *)
LEMMA OverwrittenItems ==
    ASSUME NEW old \in Seq(Int), NEW data \in Seq(Int), NEW at \in Nat
    PROVE  /\ Overwritten(old, at, data) \in Seq(Int)
           /\ Len(Overwritten(old, at, data)) = IF Len(old) > at + Len(data) THEN Len(old) ELSE at + Len(data)
           /\ \A i \in 1..Len(Overwritten(old, at, data)) :
                Overwritten(old, at, data)[i] =
                    IF i \in at + 1..at + Len(data) THEN data[i - at] ELSE IF i <= Len(old) THEN old[i] ELSE 0
<1> DEFINE end == at + Len(data)
           size == IF Len(old) > end THEN Len(old) ELSE end
           byte(i) == IF i \in at + 1..end THEN data[i - at] ELSE IF i <= Len(old) THEN old[i] ELSE 0
           s == Overwritten(old, at, data)
<1>1. s \in Seq(Int)
  BY OverwrittenIs
<1>2. s = [i \in 1..size |-> byte(i)]
  BY DEF Overwritten
<1>3. size \in Nat
  OBVIOUS
<1>4. DOMAIN s = 1..size /\ \A i \in 1..size : s[i] = byte(i)
  <2> HIDE DEF size, byte, s
  <2> QED BY <1>2
<1>5. Len(s) = size
  <2> HIDE DEF size, byte, s
  <2> QED BY <1>1, <1>3, <1>4
<1> QED
  BY <1>1, <1>4, <1>5

(* At the end of the file bytes are appended. *)
LEMMA AppendedIs ==
    ASSUME NEW old \in Seq(Int), NEW data \in Seq(Int)
    PROVE  Overwritten(old, Len(old), data) = old \o data
<1> DEFINE s == Overwritten(old, Len(old), data) t == old \o data m == Len(old) n == Len(data)
<1>1. m \in Nat /\ n \in Nat
  OBVIOUS
<1>2. /\ s \in Seq(Int) /\ Len(s) = m + n
      /\ \A i \in 1..Len(s) : s[i] = IF i \in m + 1..m + n THEN data[i - m] ELSE IF i <= m THEN old[i] ELSE 0
  <2>1. /\ s \in Seq(Int) /\ Len(s) = IF m > m + n THEN m ELSE m + n
        /\ \A i \in 1..Len(s) : s[i] = IF i \in m + 1..m + n THEN data[i - m] ELSE IF i <= m THEN old[i] ELSE 0
    BY <1>1, OverwrittenItems
  <2> HIDE DEF s, m, n
  <2> QED BY <1>1, <2>1
<1>3. /\ t \in Seq(Int) /\ Len(t) = m + n
      /\ \A i \in 1..m + n : t[i] = IF i <= m THEN old[i] ELSE data[i - m]
  BY ConcatProperties
<1> HIDE DEF s, t, m, n
<1>4. ASSUME NEW i \in 1..m + n PROVE s[i] = t[i]
  <2>1. i \in 1..Len(s)
    BY <1>1, <1>2
  <2>2. CASE i <= m
    <3>1. i \notin m + 1..m + n
      BY <1>1, <2>2
    <3> QED
      BY <1>2, <1>3, <2>1, <2>2, <3>1
  <2>3. CASE ~(i <= m)
    <3>1. i \in m + 1..m + n
      BY <1>1, <2>3
    <3> QED
      BY <1>2, <1>3, <2>1, <2>3, <3>1
  <2> QED
    BY <2>2, <2>3
<1>5. s = t
  BY <1>2, <1>3, <1>4, SeqEqual
<1> QED
  BY <1>5 DEF s, t, m

(* Bytes written at an offset, as the documentation puts it. *)
LEMMA UpdatedIs ==
    ASSUME NEW old \in Seq(Int), NEW data \in Seq(Int), NEW offset \in Nat
    PROVE  LET zeros == [i \in 1..(offset - Len(old)) |-> 0]
           IN  Overwritten(old, offset, data) =
                  SubSeq(old \o zeros, 1, offset) \o data \o SubSeq(old, offset + Len(data) + 1, Len(old))
<1> DEFINE zeros == [i \in 1..(offset - Len(old)) |-> 0] m == Len(old) n == Len(data)
           z == old \o zeros a == SubSeq(z, 1, offset) b == a \o data
           e == SubSeq(old, offset + n + 1, m) t == b \o e s == Overwritten(old, offset, data)
<1>1. m \in Nat /\ n \in Nat
  OBVIOUS
<1>2. zeros \in Seq(Int) /\ Len(zeros) = (IF offset > m THEN offset - m ELSE 0) /\ \A i \in 1..Len(zeros) : zeros[i] = 0
  <2> DEFINE k == IF offset > m THEN offset - m ELSE 0
  <2>1. k \in Nat /\ 1..(offset - m) = 1..k
    BY <1>1
  <2> HIDE DEF k, m
  <2>2. zeros = [i \in 1..k |-> 0]
    BY <2>1 DEF m
  <2> HIDE DEF zeros
  <2>3. zeros \in Seq(Int) /\ Len(zeros) = k /\ \A i \in 1..k : zeros[i] = 0
    BY <2>1, <2>2
  <2> QED
    BY <2>3 DEF k
<1> HIDE DEF zeros
<1>3. /\ z \in Seq(Int) /\ Len(z) = m + Len(zeros)
      /\ \A i \in 1..m + Len(zeros) : z[i] = IF i <= m THEN old[i] ELSE zeros[i - m]
  BY <1>2, ConcatProperties
<1> HIDE DEF z
<1>4. \A i \in 1..offset : i \in 1..m + Len(zeros) /\ (i > m => i - m \in 1..Len(zeros))
  <2>1. Len(zeros) \in Nat /\ (offset > m => Len(zeros) = offset - m)
    BY <1>1, <1>2
  <2> HIDE DEF m
  <2> QED BY <1>1, <2>1
<1>5. \A i \in 1..offset : z[i] = (IF i <= m THEN old[i] ELSE 0) /\ z[i] \in Int
  <2> SUFFICES ASSUME NEW i \in 1..offset PROVE z[i] = (IF i <= m THEN old[i] ELSE 0) /\ z[i] \in Int
    OBVIOUS
  <2>1. CASE i <= m
    <3>1. i \in 1..Len(old)
      BY <1>1, <2>1
    <3>2. old[i] \in Int
      BY <3>1
    <3> QED
      BY <1>3, <1>4, <2>1, <3>2
  <2>2. CASE ~(i <= m)
    <3>1. i > m
      BY <1>1, <2>2
    <3>2. zeros[i - m] = 0
      BY <1>2, <1>4, <3>1
    <3> QED
      BY <1>3, <1>4, <2>2, <3>2
  <2> QED
    BY <2>1, <2>2
<1>6. /\ a \in Seq(Int) /\ Len(a) = offset
      /\ \A i \in 1..offset : a[i] = IF i <= m THEN old[i] ELSE 0
  <2>1. /\ a \in Seq(Int) /\ Len(a) = (IF 1 <= offset THEN offset - 1 + 1 ELSE 0)
        /\ \A i \in 1..offset - 1 + 1 : a[i] = z[1 + i - 1]
    BY <1>5, SubSeqProperties
  <2> HIDE DEF a
  <2>2. Len(a) = offset
    BY <2>1
  <2>3. \A i \in 1..offset : i \in 1..offset - 1 + 1 /\ 1 + i - 1 = i
    OBVIOUS
  <2> QED
    BY <1>5, <2>1, <2>2, <2>3
<1> HIDE DEF a
<1>7. /\ b \in Seq(Int) /\ Len(b) = offset + n
      /\ \A i \in 1..offset + n : b[i] = IF i <= offset THEN a[i] ELSE data[i - offset]
  BY <1>6, ConcatProperties
<1> HIDE DEF b
<1>8. /\ e \in Seq(Int) /\ Len(e) = (IF offset + n + 1 <= m THEN m - (offset + n + 1) + 1 ELSE 0)
      /\ \A i \in 1..m - (offset + n + 1) + 1 : e[i] = old[offset + n + 1 + i - 1]
  <2>1. \A i \in offset + n + 1..m : i \in 1..Len(old)
    BY <1>1
  <2>2. \A i \in offset + n + 1..m : old[i] \in Int
    BY <2>1
  <2>3. offset + n + 1 \in Int /\ m \in Int
    BY <1>1
  <2> HIDE DEF m, n
  <2> QED
    BY <2>2, <2>3, SubSeqProperties
<1> HIDE DEF e
<1>9. /\ t \in Seq(Int) /\ Len(t) = offset + n + Len(e)
      /\ \A i \in 1..offset + n + Len(e) : t[i] = IF i <= offset + n THEN b[i] ELSE e[i - (offset + n)]
  <2>1. /\ t \in Seq(Int) /\ Len(t) = Len(b) + Len(e)
        /\ \A i \in 1..Len(b) + Len(e) : t[i] = IF i <= Len(b) THEN b[i] ELSE e[i - Len(b)]
    BY <1>7, <1>8, ConcatProperties
  <2> HIDE DEF t, n
  <2> QED
    BY <1>7, <2>1
<1>10. /\ s \in Seq(Int) /\ Len(s) = (IF m > offset + n THEN m ELSE offset + n)
       /\ \A i \in 1..Len(s) : s[i] = IF i \in offset + 1..offset + n THEN data[i - offset] ELSE IF i <= m THEN old[i] ELSE 0
  BY OverwrittenItems
<1> HIDE DEF t, s, m, n
<1>11. Len(e) \in Nat /\ (offset + n < m => Len(e) = m - (offset + n)) /\ (offset + n >= m => Len(e) = 0)
  BY <1>1, <1>8
<1>12. Len(t) = Len(s) /\ Len(s) \in Nat
  BY <1>1, <1>9, <1>10, <1>11
<1>13. ASSUME NEW i \in 1..Len(s) PROVE s[i] = t[i]
  <2>1. i \in 1..offset + n + Len(e)
    BY <1>9, <1>12
  <2>2. CASE i <= offset
    <3>1. i \in 1..offset /\ i \in 1..offset + n /\ i <= offset + n
      BY <1>1, <2>2
    <3>2. t[i] = IF i <= m THEN old[i] ELSE 0
      BY <1>6, <1>7, <1>9, <2>1, <2>2, <3>1
    <3>3. i \notin offset + 1..offset + n
      BY <2>2
    <3> QED
      BY <1>10, <3>2, <3>3
  <2>3. CASE i > offset /\ i <= offset + n
    <3>1. i \in 1..offset + n /\ i \in offset + 1..offset + n /\ ~(i <= offset)
      BY <1>1, <2>3
    <3>2. t[i] = data[i - offset]
      BY <1>7, <1>9, <2>1, <2>3, <3>1
    <3> QED
      BY <1>10, <3>1, <3>2
  <2>4. CASE i > offset + n
    <3>1. i <= m /\ offset + n < m
      BY <1>1, <1>10, <2>4
    <3> DEFINE k == i - (offset + n)
    <3>2. k \in 1..m - (offset + n + 1) + 1 /\ offset + n + 1 + k - 1 = i /\ ~(i <= offset + n)
      BY <1>1, <2>4, <3>1
    <3>3. t[i] = e[k]
      BY <1>9, <2>1, <3>2
    <3>4. e[k] = old[i]
      <4> HIDE DEF k
      <4>1. e[k] = old[offset + n + 1 + k - 1]
        BY <1>8, <3>2
      <4> QED
        BY <3>2, <4>1
    <3>5. i \notin offset + 1..offset + n
      BY <1>1, <2>4
    <3> QED
      BY <1>10, <3>1, <3>3, <3>4, <3>5
  <2> QED
    BY <1>1, <2>2, <2>3, <2>4
<1>14. s = t
  BY <1>9, <1>10, <1>12, <1>13, SeqEqual
<1> QED
  BY <1>14 DEF s, t, b, a, z, e, m, n, zeros

(* ---- What a plan does ---- *)

(* The tree after the deeds of an operation, in its four cases. *)
LEMMA AfterIs ==
    ASSUME NEW r, NEW t, NEW done
    PROVE  LET D == Deed(done)
               made == t.dirs \union Made(done)
               grown == [dirs |-> made, files |-> t.files]
               written == [dirs |-> made, files |-> Put(t.files, Goal(r), Content(r, t))]
           IN  /\ D \intersect {"remove", "commit", "create"} = {} => After(r, t, done) = grown
               /\ D \intersect {"remove", "commit", "create"} = {"remove"} => After(r, t, done) = Without(grown, r.path)
               /\ "commit" \in D /\ "remove" \notin D => After(r, t, done) = written
               /\ "commit" \in D /\ "remove" \in D => After(r, t, done) = Without(written, r.path)
<1> DEFINE D == Deed(done)
           made == t.dirs \union Made(done)
           commit == Put(t.files, Goal(r), Content(r, t))
           grown == [dirs |-> made, files |-> t.files]
           written == [dirs |-> made, files |-> commit]
           g == Grown(r, t, done)
<1>1. After(r, t, done) = IF "remove" \in D THEN Without(g, r.path) ELSE g
  BY DEF After
<1>2. /\ "commit" \in D => g = written
      /\ "commit" \notin D /\ "create" \notin D => g = grown
  BY DEF Grown, GrownDirs, GrownFiles
<1>3. /\ D \intersect {"remove", "commit", "create"} = {} => After(r, t, done) = grown
      /\ D \intersect {"remove", "commit", "create"} = {"remove"} => After(r, t, done) = Without(grown, r.path)
      /\ "commit" \in D /\ "remove" \notin D => After(r, t, done) = written
      /\ "commit" \in D /\ "remove" \in D => After(r, t, done) = Without(written, r.path)
  <2> HIDE DEF D, g, grown, written
  <2> QED
    BY <1>1, <1>2
<1> QED
  BY <1>3

LEMMA AllDo ==
    ASSUME NEW do, NEW P
    PROVE  Deed(All(do, P)) \subseteq {do} /\ Made(All(do, P)) = IF do = "make" THEN P ELSE {}
<1>1. Deed({Call(do, q) : q \in P}) \subseteq {do} /\ Made({Call(do, q) : q \in P}) = IF do = "make" THEN P ELSE {}
  BY DeedAlong
<1> QED
  BY <1>1 DEF All

(* All calls of a plan together make the documented tree. *)
LEMMA EffectIs ==
    ASSUME SoundRequests, NEW r \in Requests, NEW t, Sound(t), NEW done,
           \/ done = Needs(r) /\ AllAllowed(t, Needs(r))
           \/ LooksTwice(r) /\ done = SecondNeeds(r) /\ AllAllowed(t, SecondNeeds(r))
    PROVE  After(r, t, done) = Effect(r, t)
<1> DEFINE p == r.path
<1>1. p \in Path /\ r.to \in Path
  BY PathsAsked
<1>2. t = [dirs |-> t.dirs, files |-> t.files]
  BY DEF Sound
<1>3. \A a, b : Deed(a \union b) = Deed(a) \union Deed(b) /\ Made(a \union b) = Made(a) \union Made(b)
  BY DeedsJoined
<1>4. /\ Deed(Reading(p)) \subseteq {"enter", "open", "load"} /\ Made(Reading(p)) = {}
      /\ Deed(Opening(p)) \subseteq {"enter", "open"} /\ Made(Opening(p)) = {}
      /\ Deed(Deleting(p)) \subseteq {"enter", "remove"} /\ "remove" \in Deed(Deleting(p)) /\ Made(Deleting(p)) = {}
  BY DeedsOfNeeds
<1>5. \A q : /\ Deed(Writing(q)) \subseteq {"make", "create", "replace", "fill", "commit"}
             /\ "commit" \in Deed(Writing(q)) /\ Made(Writing(q)) = Above(q)
             /\ Deed(Creating(q)) \subseteq {"make", "create"} /\ Made(Creating(q)) = Above(q)
             /\ Deed(Measuring(q)) = {"measure", "edit", "fill", "commit"} /\ Made(Measuring(q)) = {}
             /\ Deed(Handling(q, "edit")) = {"edit", "fill", "commit"} /\ Made(Handling(q, "edit")) = {}
  BY DeedsOfNeeds
<1>6. \A P : /\ Deed(All("enter", P)) \subseteq {"enter"} /\ Made(All("enter", P)) = {}
             /\ Deed(All("make", P)) \subseteq {"make"} /\ Made(All("make", P)) = P
  <2> SUFFICES ASSUME NEW P
               PROVE  /\ Deed(All("enter", P)) \subseteq {"enter"} /\ Made(All("enter", P)) = {}
                      /\ Deed(All("make", P)) \subseteq {"make"} /\ Made(All("make", P)) = P
    OBVIOUS
  <2>1. /\ Deed(All("enter", P)) \subseteq {"enter"} /\ Made(All("enter", P)) = IF "enter" = "make" THEN P ELSE {}
        /\ Deed(All("make", P)) \subseteq {"make"} /\ Made(All("make", P)) = IF "make" = "make" THEN P ELSE {}
    BY AllDo
  <2> QED
    BY <2>1
<1> DEFINE made == t.dirs \union Made(done)
           D == Deed(done)
           grown == [dirs |-> made, files |-> t.files]
           written == [dirs |-> made, files |-> Put(t.files, Goal(r), Content(r, t))]
<1>7. /\ D \intersect {"remove", "commit", "create"} = {} => After(r, t, done) = grown
      /\ D \intersect {"remove", "commit", "create"} = {"remove"} => After(r, t, done) = Without(grown, p)
      /\ "commit" \in D /\ "remove" \notin D => After(r, t, done) = written
      /\ "commit" \in D /\ "remove" \in D => After(r, t, done) = Without(written, p)
  BY AfterIs
<1>8. Kept(t, p) => Above(p) \subseteq t.dirs
  BY <1>1 DEF Sound, Kept
<1>9. \A q, c : With(t, q, c) = [dirs |-> t.dirs \union Above(q), files |-> Put(t.files, q, c)]
  BY DEF With
<1>10. CASE r.call \in {"read", "range", "hash", "list"} \/ r.call \in {"stat", "exists"}
  <2>1. D \subseteq {"enter", "open", "load", "entries"} /\ Made(done) = {}
    <3>1. CASE done = Reading(p)
      BY <1>4, <3>1
    <3>2. CASE done = All("enter", Tops(p))
      BY <1>6, <3>2
    <3>3. CASE done = All("enter", Tops(p)) \union {Call("entries", p)}
      <4>1. Deed({Call("entries", p)}) = {"entries"} /\ Made({Call("entries", p)}) = {}
        BY DeedsJoined
      <4>2. /\ Deed(done) = Deed(All("enter", Tops(p))) \union Deed({Call("entries", p)})
            /\ Made(done) = Made(All("enter", Tops(p))) \union Made({Call("entries", p)})
        BY <1>3, <3>3
      <4> QED
        BY <1>6, <4>1, <4>2
    <3> QED
      BY <1>10, <3>1, <3>2, <3>3 DEF Needs, SecondNeeds, LooksTwice
  <2>2. Effect(r, t) = t
    BY <1>10 DEF Effect
  <2> HIDE DEF D
  <2>3. After(r, t, done) = grown
    BY <1>7, <2>1
  <2>4. grown = t
    BY <1>2, <2>1
  <2> QED
    BY <2>2, <2>3, <2>4
<1>11. CASE r.call = "mkdir"
  <2>1. done = All("make", Tops(p))
    BY <1>11 DEF Needs, LooksTwice
  <2>2. D \subseteq {"make"} /\ Made(done) = Tops(p)
    BY <1>6, <2>1
  <2>3. Tops(p) = Above(p) \union ({p} \ {<<>>})
    BY <1>1, TopsAre
  <2>4. Effect(r, t) = [t EXCEPT !.dirs = @ \union Above(p) \union ({p} \ {<<>>})]
    BY <1>11 DEF Effect
  <2>5. Effect(r, t) = [dirs |-> t.dirs \union Above(p) \union ({p} \ {<<>>}), files |-> t.files]
    BY <1>2, <2>4
  <2>6. After(r, t, done) = grown
    <3> HIDE DEF D
    <3> QED BY <1>7, <2>2
  <2>7. made = t.dirs \union Above(p) \union ({p} \ {<<>>})
    BY <2>2, <2>3
  <2> QED
    BY <2>5, <2>6, <2>7
<1>12. CASE r.call = "delete"
  <2>1. done = Deleting(p)
    BY <1>12 DEF Needs, LooksTwice
  <2>2. D \subseteq {"enter", "remove"} /\ "remove" \in D /\ Made(done) = {}
    BY <1>4, <2>1
  <2>3. D \intersect {"remove", "commit", "create"} = {"remove"}
    BY <2>2
  <2>4. Effect(r, t) = Without(t, p)
    BY <1>12 DEF Effect
  <2>5. After(r, t, done) = Without(grown, p)
    <3> HIDE DEF D
    <3> QED BY <1>7, <2>3
  <2>6. grown = t
    BY <1>2, <2>2
  <2> QED
    BY <2>4, <2>5, <2>6
<1>13. CASE r.call = "copy"
  <2>1. done = Reading(p) \union Writing(r.to) /\ Goal(r) = r.to /\ Content(r, t) = t.files[p]
    BY <1>13 DEF Needs, LooksTwice, Goal, Content
  <2>2. D = Deed(Reading(p)) \union Deed(Writing(r.to)) /\ Made(done) = Made(Reading(p)) \union Made(Writing(r.to))
    BY <1>3, <2>1
  <2>3. "commit" \in D /\ "remove" \notin D /\ made = t.dirs \union Above(r.to)
    BY <1>4, <1>5, <2>2
  <2>4. After(r, t, done) = written
    <3> HIDE DEF D
    <3> QED BY <1>7, <2>3
  <2>5. Effect(r, t) = With(t, r.to, t.files[p])
    BY <1>13 DEF Effect
  <2> QED
    BY <1>9, <2>1, <2>3, <2>4, <2>5
<1>14. CASE r.call = "move"
  <2>1. done = (Reading(p) \union Writing(r.to)) \union Deleting(p) /\ Goal(r) = r.to /\ Content(r, t) = t.files[p]
    BY <1>14 DEF Needs, LooksTwice, Goal, Content
  <2>2. /\ D = (Deed(Reading(p)) \union Deed(Writing(r.to))) \union Deed(Deleting(p))
        /\ Made(done) = (Made(Reading(p)) \union Made(Writing(r.to))) \union Made(Deleting(p))
    <3> DEFINE x == Reading(p) y == Writing(r.to) z == Deleting(p)
    <3>1. done = (x \union y) \union z
      BY <2>1
    <3> HIDE DEF x, y, z
    <3>2. Deed(x \union y) = Deed(x) \union Deed(y) /\ Made(x \union y) = Made(x) \union Made(y)
      BY <1>3
    <3>3. /\ Deed((x \union y) \union z) = Deed(x \union y) \union Deed(z)
          /\ Made((x \union y) \union z) = Made(x \union y) \union Made(z)
      BY <1>3
    <3> QED
      BY <3>1, <3>2, <3>3 DEF x, y, z
  <2>3. "commit" \in D /\ "remove" \in D /\ made = t.dirs \union Above(r.to)
    BY <1>4, <1>5, <2>2
  <2>4. After(r, t, done) = Without(written, p)
    <3> HIDE DEF D
    <3> QED BY <1>7, <2>3
  <2>5. r.to # p
    BY <1>14 DEF SoundRequests
  <2>6. Effect(r, t) = Without(With(t, r.to, t.files[p]), p)
    BY <1>14, <2>5 DEF Effect
  <2>7. With(t, r.to, t.files[p]) = written
    BY <1>9, <2>1, <2>3
  <2> QED
    BY <2>4, <2>6, <2>7
<1>15. CASE r.call = "write"
  <2>1. done = Writing(p) /\ Goal(r) = p /\ Content(r, t) = r.data
    BY <1>15 DEF Needs, LooksTwice, Goal, Content
  <2>3. "commit" \in D /\ "remove" \notin D /\ made = t.dirs \union Above(p)
    BY <1>5, <2>1
  <2>4. After(r, t, done) = written
    <3> HIDE DEF D
    <3> QED BY <1>7, <2>3
  <2>5. Effect(r, t) = With(t, p, r.data)
    BY <1>15 DEF Effect
  <2> QED
    BY <1>9, <2>1, <2>3, <2>4, <2>5
<1>16. CASE r.call = "append"
  <2>1. /\ Goal(r) = p
        /\ Content(r, t) = (IF Kept(t, p) THEN t.files[p] ELSE <<>>) \o r.data
    BY <1>16 DEF Goal, Content, OldContent
  <2>2. "commit" \in D /\ "remove" \notin D /\ made = t.dirs \union Above(p)
    <3>1. CASE done = Opening(p) \union Measuring(p) /\ AllAllowed(t, Needs(r))
      <4>1. AllAllowed(t, Opening(p))
        BY <1>16, <3>1, AllAllowedJoined DEF Needs
      <4>2. Kept(t, p)
        BY <1>1, <4>1, AllowedParts
      <4>3. D = Deed(Opening(p)) \union Deed(Measuring(p)) /\ Made(done) = Made(Opening(p)) \union Made(Measuring(p))
        BY <1>3, <3>1
      <4> QED
        BY <1>4, <1>5, <1>8, <4>2, <4>3
    <3>2. CASE done = Creating(p) \union Measuring(p)
      <4>1. D = Deed(Creating(p)) \union Deed(Measuring(p)) /\ Made(done) = Made(Creating(p)) \union Made(Measuring(p))
        BY <1>3, <3>2
      <4> QED
        BY <1>5, <4>1
    <3> QED
      BY <1>16, <3>1, <3>2 DEF Needs, SecondNeeds
  <2>4. After(r, t, done) = written
    <3> HIDE DEF D
    <3> QED BY <1>7, <2>2
  <2>5. Effect(r, t) = With(t, p, (IF Kept(t, p) THEN t.files[p] ELSE <<>>) \o r.data)
    BY <1>16 DEF Effect
  <2> DEFINE x == (IF Kept(t, p) THEN t.files[p] ELSE <<>>) \o r.data
  <2> HIDE DEF x
  <2>6. Effect(r, t) = With(t, p, x) /\ Content(r, t) = x
    BY <2>1, <2>5 DEF x
  <2> QED
    BY <1>9, <2>1, <2>2, <2>4, <2>6
<1>17. CASE r.call = "update"
  <2> DEFINE old == t.files[p]
             zeros == [i \in 1..(r.offset - Len(old)) |-> 0]
             x == SubSeq(old \o zeros, 1, r.offset) \o r.data \o SubSeq(old, r.offset + Len(r.data) + 1, Len(old))
  <2>1. done = Opening(p) \union Handling(p, "edit") /\ AllAllowed(t, Opening(p))
    BY <1>17, AllAllowedJoined DEF Needs, LooksTwice
  <2>2. Kept(t, p) /\ Goal(r) = p
    BY <1>1, <1>17, <2>1, AllowedParts DEF Goal
  <2>3. old \in Seq(Int) /\ r.data \in Seq(Int) /\ r.offset \in Nat
    BY <2>2, FilesAssumption DEF Sound, Kept
  <2>4. Content(r, t) = Overwritten(old, r.offset, r.data)
    BY <1>17, <2>2 DEF Content, OldContent
  <2>5. Effect(r, t) = With(t, p, x)
    BY <1>17 DEF Effect
  <2>6. Overwritten(old, r.offset, r.data) = x
    <3> HIDE DEF old
    <3> QED BY <2>3, UpdatedIs
  <2>7. D = Deed(Opening(p)) \union Deed(Handling(p, "edit")) /\ Made(done) = Made(Opening(p)) \union Made(Handling(p, "edit"))
    BY <1>3, <2>1
  <2>8. "commit" \in D /\ "remove" \notin D /\ made = t.dirs \union Above(p)
    BY <1>4, <1>5, <1>8, <2>2, <2>7
  <2>9. After(r, t, done) = written
    <3> HIDE DEF D
    <3> QED BY <1>7, <2>8
  <2> HIDE DEF x
  <2> QED
    BY <1>9, <2>2, <2>4, <2>5, <2>6, <2>8, <2>9
<1> QED
  BY <1>10, <1>11, <1>12, <1>13, <1>14, <1>15, <1>16, <1>17 DEF SoundRequests

(* ---- How far an operation has come ---- *)

LEMMA PutIs == \A f, p, c :
    /\ DOMAIN Put(f, p, c) = DOMAIN f \union {p}
    /\ Put(f, p, c)[p] = c
    /\ \A q : q \in DOMAIN f /\ q # p => Put(f, p, c)[q] = f[q]
  BY DEF Put

(* The tree an operation has before it removes anything. *)
TreeOf(r, t, done) ==
    /\ dirs = t.dirs \union Made(done) /\ files = GrownFiles(r, t, done)

LEMMA TreeSoFar ==
    ASSUME NEW r, NEW t, NEW done, Tree = After(r, t, done), "remove" \notin Deed(done)
    PROVE  TreeOf(r, t, done)
<1>1. After(r, t, done) = Grown(r, t, done)
  BY DEF After
<1>2. Tree.dirs = dirs /\ Tree.files = files
  BY DEF Tree
<1>3. Grown(r, t, done).dirs = t.dirs \union Made(done) /\ Grown(r, t, done).files = GrownFiles(r, t, done)
  BY DEF Grown, GrownDirs
<1> QED
  BY <1>1, <1>2, <1>3 DEF TreeOf

(* What of the files is as it was, and what is not. *)
LEMMA FilesSoFar ==
    ASSUME NEW r, NEW t, NEW done, TreeOf(r, t, done)
    PROVE  /\ Deed(done) \intersect {"create", "commit"} = {} => files = t.files
           /\ "make" \notin Deed(done) => dirs = t.dirs
           /\ t.dirs \subseteq dirs
           /\ \A p \in DOMAIN t.files : p \in DOMAIN files
           /\ Deed(done) \intersect {"create", "commit"} # {} => Goal(r) \in DOMAIN files
           /\ \A p : p \in DOMAIN files => p \in DOMAIN t.files \/ p = Goal(r)
           /\ \A p \in DOMAIN t.files : p # Goal(r) => files[p] = t.files[p]
           /\ "commit" \notin Deed(done) /\ Goal(r) \in DOMAIN files => files[Goal(r)] = OldContent(r, t)
           /\ "commit" \in Deed(done) => files[Goal(r)] = Content(r, t)
<1> DEFINE g == Goal(r) D == Deed(done)
<1>1. files = IF "commit" \in D THEN Put(t.files, g, Content(r, t))
              ELSE IF "create" \in D /\ ~Kept(t, g) THEN Put(t.files, g, <<>>)
              ELSE t.files
  BY DEF TreeOf, GrownFiles
<1>2. ASSUME NEW c
      PROVE  /\ DOMAIN Put(t.files, g, c) = DOMAIN t.files \union {g}
             /\ Put(t.files, g, c)[g] = c
             /\ \A q : q \in DOMAIN t.files /\ q # g => Put(t.files, g, c)[q] = t.files[q]
  <2> DEFINE f == t.files
  <2> HIDE DEF f, g
  <2>1. DOMAIN Put(f, g, c) = DOMAIN f \union {g}
    BY PutIs
  <2>2. Put(f, g, c)[g] = c
    BY PutIs
  <2>3. \A q : q \in DOMAIN f /\ q # g => Put(f, g, c)[q] = f[q]
    BY PutIs
  <2> QED
    BY <2>1, <2>2, <2>3 DEF f
<1>3. OldContent(r, t) = IF Kept(t, g) THEN t.files[g] ELSE <<>>
  BY DEF OldContent
<1>4. Kept(t, g) <=> g \in DOMAIN t.files
  BY DEF Kept
<1>5. dirs = t.dirs \union Made(done)
  BY DEF TreeOf
<1>6. "make" \notin D => Made(done) = {}
  BY DEF Deed, Made
<1> HIDE DEF g, D
<1>7. /\ D \intersect {"create", "commit"} = {} => files = t.files
      /\ \A p \in DOMAIN t.files : p \in DOMAIN files
      /\ D \intersect {"create", "commit"} # {} => g \in DOMAIN files
      /\ \A p : p \in DOMAIN files => p \in DOMAIN t.files \/ p = g
      /\ \A p \in DOMAIN t.files : p # g => files[p] = t.files[p]
  BY <1>1, <1>2, <1>4
<1>8. /\ "commit" \notin D /\ g \in DOMAIN files => files[g] = OldContent(r, t)
      /\ "commit" \in D => files[g] = Content(r, t)
  BY <1>1, <1>2, <1>3, <1>4
<1> QED
  BY <1>5, <1>6, <1>7, <1>8 DEF g, D

LEMMA DoneDeeds ==
    ASSUME NEW done
    PROVE  \A do, p : Call(do, p) \in done => do \in Deed(done) /\ (do = "make" => p \in Made(done))
<1> SUFFICES ASSUME NEW do, NEW p, Call(do, p) \in done
             PROVE  do \in Deed(done) /\ (do = "make" => p \in Made(done))
  OBVIOUS
<1>1. Call(do, p).do = do /\ Call(do, p).path = p
  BY DEF Call
<1> QED
  BY <1>1 DEF Deed, Made

LEMMA ParentIs ==
    ASSUME NEW p \in Path, p # <<>>
    PROVE  Front(p) = SubSeq(p, 1, Len(p) - 1) /\ (Len(p) > 1 \/ Front(p) = <<>>)
<1>1. Len(p) \in Nat /\ Len(p) > 0
  BY PathIs
<1>2. Len(p) > 1 \/ Len(p) = 1
  <2> DEFINE n == Len(p)
  <2> HIDE DEF n
  <2>1. n \in Nat /\ n > 0
    BY <1>1 DEF n
  <2>2. n > 1 \/ n = 1
    BY <2>1
  <2> QED
    BY <2>2 DEF n
<1>3. Len(p) = 1 => Front(p) = <<>>
  BY AboveIs
<1>4. Front(p) = SubSeq(p, 1, Len(p) - 1)
  BY Zenon DEF Front
<1> QED
  BY <1>2, <1>3, <1>4

LEMMA TreeNow ==
    \A p : /\ Folder(Tree, p) <=> IsDirectory(p)
           /\ Kept(Tree, p) <=> IsFile(p)
<1>1. Tree.dirs = dirs /\ Tree.files = files
  BY DEF Tree
<1> QED
  BY <1>1 DEF Folder, Kept, IsDirectory, IsFile

(* What is refused, in a sound tree. *)
LEMMA RefusalIs ==
    ASSUME Sound(Tree), NEW do, NEW p \in Path
    PROVE  /\ do \in {"enter", "entries"} => (Refusal(do, p) = "none" <=> IsDirectory(p))
           /\ do \in {"open", "load", "measure", "replace", "edit", "commit"} => (Refusal(do, p) = "none" <=> IsFile(p))
           /\ do = "fill" /\ IsFile(p) => Refusal(do, p) = "none"
           /\ do = "make" /\ p # <<>> /\ IsDirectory(Front(p)) => (Refusal(do, p) = "none" <=> ~IsFile(p))
           /\ do = "create" /\ p = <<>> => Refusal(do, p) # "none"
           /\ do = "create" /\ p # <<>> /\ IsDirectory(Front(p)) => (Refusal(do, p) = "none" <=> ~IsDirectory(p))
           /\ do = "remove" /\ ~InUse(p) => (Refusal(do, p) = "none" <=> p # <<>> /\ Exists(p))
<1> DEFINE E == p = <<>> F == IsFile(p) D == IsDirectory(p) U == IsDirectory(Front(p)) X == Exists(p) I == InUse(p)
<1>1. X <=> F \/ D
  BY DEF Exists
<1>2. E => D
  BY DEF IsDirectory
<1>3. ~(F /\ D)
  <2>1. <<>> \notin DOMAIN files /\ dirs \intersect DOMAIN files = {}
    BY DEF Sound, Tree
  <2> QED
    BY <2>1 DEF IsFile, IsDirectory
<1>4. (F \/ D) /\ ~E => U
  <2> SUFFICES ASSUME F \/ D, ~E PROVE U
    OBVIOUS
  <2>1. Kept(Tree, p) \/ Folder(Tree, p)
    BY TreeNow
  <2>2. Folder(Tree, Front(p))
    BY <2>1, InDirectory
  <2> QED
    BY <2>2, TreeNow
<1>5. Finds(do, p) <=> CASE do \in {"enter", "entries"} -> D
                         [] do \in {"make", "create", "fill"} -> TRUE
                         [] do = "remove" -> X
                         [] do \in {"open", "load", "measure", "replace", "edit", "commit"} -> F
  BY DEF Finds
<1>6. Refusal(do, p) = IF E /\ do \in {"open", "create", "remove"} THEN "E_INVALID_PATH"
                       ELSE IF ~E /\ ~U THEN "E_NOT_FOUND"
                       ELSE IF (do \in {"enter", "make"} /\ F) \/ (do \in {"open", "create"} /\ D) THEN "E_NOT_FILE"
                       ELSE IF do = "remove" /\ X /\ I THEN "E_PERMISSION_DENIED"
                       ELSE IF Finds(do, p) THEN "none" ELSE "E_NOT_FOUND"
  BY DEF Refusal
<1> HIDE DEF E, F, D, U, X, I
<1>7. do \in {"enter", "entries"} => (Refusal(do, p) = "none" <=> D)
  BY <1>2, <1>3, <1>4, <1>5, <1>6
<1>8. do \in {"open", "load", "measure", "replace", "edit", "commit"} => (Refusal(do, p) = "none" <=> F)
  BY <1>2, <1>3, <1>4, <1>5, <1>6
<1>9. /\ do = "fill" /\ F => Refusal(do, p) = "none"
      /\ do = "make" /\ ~E /\ U => (Refusal(do, p) = "none" <=> ~F)
      /\ do = "create" /\ E => Refusal(do, p) # "none"
      /\ do = "create" /\ ~E /\ U => (Refusal(do, p) = "none" <=> ~D)
  BY <1>2, <1>3, <1>4, <1>5, <1>6
<1>10. do = "remove" /\ ~I => (Refusal(do, p) = "none" <=> ~E /\ X)
  BY <1>1, <1>2, <1>3, <1>4, <1>5, <1>6
<1> QED
  BY <1>7, <1>8, <1>9, <1>10 DEF E, F, D, U, X, I

(* An undisturbed operation that is about to make a call. *)
Standing(s, r, t, done) ==
    /\ Sound(Tree) /\ Sound(t) /\ TreeOf(r, t, done) /\ "remove" \notin Deed(done)
    /\ \A c \in done : Allows(t, c)
    /\ Current(s) \in Calls /\ Follows(r, done, Current(s))
    /\ r.path \in Path /\ Goal(r) \in Path
    /\ leaked = {} /\ Writers \subseteq {s} /\ sessions[s].stream = Streaming(done)

(* Whether a call goes through, kind by kind. *)
LEMMA StandingLooks ==
    ASSUME NEW s \in Sessions, NEW r, NEW t, NEW done, Standing(s, r, t, done), Current(s).do \in {"enter", "entries", "open", "load"}
    PROVE  Possible(s) <=> Allows(t, Current(s))
<1> DEFINE do == Current(s).do p == Current(s).path
<1>1. p \in Path /\ Sound(Tree)
  BY DEF Standing, Calls
<1>2. Possible(s) <=> Refusal(do, p) = "none"
  BY DEF Possible
<1>3. /\ do \in {"enter", "entries"} => (Allows(t, Current(s)) <=> Folder(t, p))
      /\ do = "open" => (Allows(t, Current(s)) <=> Kept(t, p))
      /\ do = "load" => Allows(t, Current(s))
  BY DEF Allows
<1>4. Looks(r, done, Current(s))
  BY DEF Standing, Follows
<1>5. ASSUME Deed(done) \subseteq {"enter", "open"}
      PROVE  (Folder(t, p) <=> IsDirectory(p)) /\ (Kept(t, p) <=> IsFile(p))
  <2>1. files = t.files /\ dirs = t.dirs
    BY <1>5, FilesSoFar DEF Standing
  <2> QED
    BY <2>1 DEF Folder, Kept, IsDirectory, IsFile
<1>6. Call("open", r.path) \in done => Kept(t, r.path)
  BY AllowsIs DEF Standing
<1>7. CASE do \in {"enter", "entries"}
  <2>1. CASE Deed(done) \subseteq {"enter"}
    BY <1>1, <1>2, <1>3, <1>5, <1>7, <2>1, RefusalIs
  <2>2. CASE Call("open", r.path) \in done /\ p \in Above(r.path)
    <3>1. p \in t.dirs
      BY <1>6, <2>2 DEF Standing, Sound, Kept
    <3>2. p \in dirs
      BY <3>1, FilesSoFar DEF Standing
    <3> QED
      BY <1>1, <1>2, <1>3, <1>7, <3>1, <3>2, RefusalIs DEF IsDirectory, Folder
  <2> QED
    BY <1>4, <1>7, <2>1, <2>2 DEF Looks
<1>8. CASE do = "open"
  <2>1. Deed(done) \subseteq {"enter"}
    BY <1>4, <1>8 DEF Looks
  <2> QED
    BY <1>1, <1>2, <1>3, <1>5, <1>8, <2>1, RefusalIs
<1>9. CASE do = "load"
  <2>1. p = r.path /\ Call("open", r.path) \in done /\ Deed(done) \subseteq {"enter", "open"}
    BY <1>4, <1>9 DEF Looks
  <2>2. IsFile(p)
    BY <1>5, <1>6, <2>1
  <2> QED
    BY <1>1, <1>2, <1>3, <1>9, <2>2, RefusalIs
<1> QED
  BY <1>7, <1>8, <1>9

LEMMA StandingGrows ==
    ASSUME NEW s \in Sessions, NEW r, NEW t, NEW done, Standing(s, r, t, done), Current(s).do \in {"make", "create"}
    PROVE  Possible(s) <=> Allows(t, Current(s))
<1> DEFINE do == Current(s).do p == Current(s).path
<1>1. p \in Path /\ Sound(Tree) /\ (do = "make" => p # <<>>)
  BY DEF Standing, Calls
<1>2. Possible(s) <=> Refusal(do, p) = "none"
  BY DEF Possible
<1>3. /\ do = "make" => (Allows(t, Current(s)) <=> ~Kept(t, p))
      /\ do = "create" => (Allows(t, Current(s)) <=> ~Folder(t, p))
  BY DEF Allows
<1>4. Grows(r, done, Current(s))
  BY DEF Standing, Follows
<1>5. Deed(done) \subseteq {"enter", "open", "load", "make"} /\ ParentMade(done, p)
  BY <1>4 DEF Grows
<1>6. files = t.files /\ dirs = t.dirs \union Made(done)
  BY <1>5, FilesSoFar DEF Standing, TreeOf
<1>7. p # <<>> => IsDirectory(Front(p))
  <2> SUFFICES ASSUME p # <<>> PROVE IsDirectory(Front(p))
    OBVIOUS
  <2>1. Front(p) = SubSeq(p, 1, Len(p) - 1) /\ (Len(p) > 1 \/ Front(p) = <<>>)
    BY <1>1, ParentIs
  <2>2. CASE Front(p) = <<>>
    BY <2>2 DEF IsDirectory
  <2>3. CASE Len(p) > 1
    <3>1. Call("make", Front(p)) \in done
      BY <1>5, <2>1, <2>3 DEF ParentMade
    <3>2. Front(p) \in Made(done)
      BY <3>1, DoneDeeds
    <3> QED
      BY <1>6, <3>2 DEF IsDirectory
  <2> QED
    BY <2>1, <2>2, <2>3
<1>8. CASE do = "make"
  <2>1. Kept(t, p) <=> IsFile(p)
    BY <1>6 DEF Kept, IsFile
  <2>2. Refusal(do, p) = "none" <=> ~IsFile(p)
    BY <1>1, <1>7, <1>8, RefusalIs
  <2> QED
    BY <1>2, <1>3, <1>8, <2>1, <2>2
<1>9. CASE do = "create"
  <2>1. p = Goal(r) /\ Goal(r) \notin Made(done)
    BY <1>4, <1>9 DEF Grows
  <2>2. Folder(t, p) <=> IsDirectory(p)
    BY <1>6, <2>1 DEF Folder, IsDirectory
  <2>3. CASE p = <<>>
    <3>1. Refusal(do, p) # "none"
      BY <1>1, <1>9, <2>3, RefusalIs
    <3> QED
      BY <1>2, <1>3, <1>9, <2>3, <3>1 DEF Folder
  <2>4. CASE p # <<>>
    <3>1. Refusal(do, p) = "none" <=> ~IsDirectory(p)
      BY <1>1, <1>7, <1>9, <2>4, RefusalIs
    <3> QED
      BY <1>2, <1>3, <1>9, <2>2, <3>1
  <2> QED
    BY <2>3, <2>4
<1> QED
  BY <1>8, <1>9

(* The file that an operation writes is there when it does. *)
LEMMA GoalIsThere ==
    ASSUME NEW r, NEW t, NEW done, TreeOf(r, t, done), \A c \in done : Allows(t, c), Ready(r, done)
    PROVE  /\ IsFile(Goal(r)) /\ ("create" \notin Deed(done) => Kept(t, Goal(r)))
<1>1. CASE Call("open", Goal(r)) \in done
  <2>1. Kept(t, Goal(r))
    BY <1>1, AllowsIs
  <2> QED
    BY <2>1, FilesSoFar DEF Kept, IsFile
<1>2. CASE Call("create", Goal(r)) \in done
  <2>1. "create" \in Deed(done)
    BY <1>2, DoneDeeds
  <2> QED
    BY <2>1, FilesSoFar DEF IsFile
<1> QED
  BY <1>1, <1>2 DEF Ready

LEMMA StandingWrites ==
    ASSUME NEW s \in Sessions, NEW r, NEW t, NEW done, Standing(s, r, t, done),
           Current(s).do \in {"measure", "replace", "edit", "fill", "commit"}
    PROVE  /\ Possible(s) <=> Allows(t, Current(s))
           /\ Possible(s)
<1> DEFINE do == Current(s).do p == Current(s).path
<1>1. p \in Path /\ Sound(Tree)
  BY DEF Standing, Calls
<1>2. Possible(s) <=> Refusal(do, p) = "none"
  BY DEF Possible
<1>3. Allows(t, Current(s))
  BY DEF Allows
<1>4. p = Goal(r) /\ Ready(r, done)
  BY DEF Standing, Follows, Writes
<1>5. IsFile(p)
  BY <1>4, GoalIsThere DEF Standing
<1>6. Refusal(do, p) = "none"
  BY <1>1, <1>5, RefusalIs
<1> QED
  BY <1>2, <1>3, <1>6

LEMMA StandingRemoves ==
    ASSUME NEW s \in Sessions, NEW r, NEW t, NEW done, Standing(s, r, t, done), Current(s).do = "remove"
    PROVE  Possible(s) <=> Allows(t, Current(s))
<1> DEFINE do == Current(s).do p == Current(s).path
<1>1. p \in Path /\ Sound(Tree) /\ Sound(t)
  BY DEF Standing, Calls
<1>2. Possible(s) <=> Refusal(do, p) = "none"
  BY DEF Possible
<1>3. Allows(t, Current(s)) <=> p # <<>> /\ (Kept(t, p) \/ Folder(t, p))
  BY DEF Allows
<1>4. /\ p = r.path
      /\ \/ Deed(done) \subseteq {"enter"}
         \/ "commit" \in Deed(done) /\ Call("open", p) \in done
  BY DEF Standing, Follows, Removes
<1>5. ~sessions[s].stream
  <2>1. ~Streaming(done)
    BY <1>4 DEF Streaming
  <2> QED
    BY <2>1, Zenon DEF Standing
<1>6. ~InUse(p)
  <2>1. Writers = {}
    BY <1>5 DEF Standing, Writers
  <2> QED
    BY <2>1 DEF Standing, InUse
<1>7. Refusal(do, p) = "none" <=> p # <<>> /\ Exists(p)
  BY <1>1, <1>6, RefusalIs
<1>8. CASE Deed(done) \subseteq {"enter"}
  <2>1. files = t.files /\ dirs = t.dirs
    BY <1>8, FilesSoFar DEF Standing
  <2>2. Exists(p) <=> Kept(t, p) \/ Folder(t, p)
    BY <2>1 DEF Exists, IsFile, IsDirectory, Kept, Folder
  <2> QED
    BY <1>2, <1>3, <1>7, <2>2
<1>9. CASE Call("open", p) \in done
  <2>1. Kept(t, p)
    BY <1>9, AllowsIs DEF Standing
  <2>2. IsFile(p) /\ p # <<>>
    BY <1>1, <2>1, FilesSoFar DEF Standing, Kept, IsFile, Sound
  <2> QED
    BY <1>2, <1>3, <1>7, <2>1, <2>2 DEF Exists
<1> QED
  BY <1>4, <1>8, <1>9

(* A call goes through just when the tree at the beginning allowed it. *)
LEMMA PossibleIs ==
    ASSUME NEW s \in Sessions, NEW r, NEW t, NEW done, Standing(s, r, t, done)
    PROVE  Possible(s) <=> Allows(t, Current(s))
<1>1. Current(s).do \in Deeds
  BY DEF Standing, Calls
<1> QED
  BY <1>1, StandingLooks, StandingGrows, StandingWrites, StandingRemoves DEF Deeds

(* ---- The tree is always sound ---- *)

SoundParts(d, f) ==
    /\ d \subseteq Path /\ DOMAIN f \subseteq Path
    /\ f \in [DOMAIN f -> Seq(Int)]
    /\ <<>> \notin d /\ <<>> \notin DOMAIN f
    /\ d \intersect DOMAIN f = {}
    /\ \A p \in d \union DOMAIN f : Above(p) \subseteq d

LEMMA SoundIs ==
    ASSUME NEW d, NEW f
    PROVE  Sound([dirs |-> d, files |-> f]) <=> SoundParts(d, f)
<1> DEFINE t == [dirs |-> d, files |-> f]
<1>1. t.dirs = d /\ t.files = f /\ t = [dirs |-> t.dirs, files |-> t.files]
  OBVIOUS
<1> HIDE DEF t
<1>2. Sound(t) <=> SoundParts(d, f)
  BY <1>1 DEF Sound, SoundParts
<1> QED
  BY <1>2 DEF t

LEMMA TreeParts ==
    /\ Sound(Tree) <=> SoundParts(dirs, files)
    /\ Sound(Tree)' <=> SoundParts(dirs', files')
<1>1. Sound([dirs |-> dirs, files |-> files]) <=> SoundParts(dirs, files)
  BY SoundIs
<1>2. Sound([dirs |-> dirs', files |-> files']) <=> SoundParts(dirs', files')
  BY SoundIs
<1> QED
  BY <1>1, <1>2 DEF Tree

(* What a call that grows the tree has found. *)
LEMMA RoomIs ==
    ASSUME Sound(Tree), NEW s, Current(s) \in Calls, Current(s).do \in {"make", "create"}, Possible(s)
    PROVE  LET p == Current(s).path
           IN  /\ p \in Path /\ p # <<>> /\ Above(p) \subseteq dirs
               /\ Current(s).do = "make" => p \notin DOMAIN files
               /\ Current(s).do = "create" => p \notin dirs
<1> DEFINE do == Current(s).do p == Current(s).path U == IsDirectory(Front(p))
<1>1. p \in Path /\ (do = "make" => p # <<>>)
  BY DEF Calls
<1>2. Refusal(do, p) = "none"
  BY DEF Possible
<1>3. /\ p # <<>> /\ U
      /\ do = "make" => ~IsFile(p)
      /\ do = "create" => ~IsDirectory(p)
  <2> HIDE DEF U, do, p
  <2>1. /\ ~(p = <<>> /\ do \in {"open", "create", "remove"})
        /\ ~(p # <<>> /\ ~IsDirectory(Front(p)))
        /\ ~((do \in {"enter", "make"} /\ IsFile(p)) \/ (do \in {"open", "create"} /\ IsDirectory(p)))
    BY <1>2 DEF Refusal
  <2>2. do \in {"make", "create"}
    BY DEF do
  <2> QED
    BY <1>1, <2>1, <2>2 DEF U
<1>4. Above(p) \subseteq dirs
  <2>1. Front(p) = SubSeq(p, 1, Len(p) - 1) /\ (Len(p) > 1 \/ Front(p) = <<>>)
    BY <1>1, <1>3, ParentIs
  <2>2. CASE Len(p) > 1
    <3>1. Front(p) \in Above(p) /\ Above(p) = Above(Front(p)) \union {Front(p)} /\ Front(p) # <<>>
      BY <1>1, <2>2, AboveIs
    <3>2. Front(p) \in dirs
      BY <1>3, <3>1 DEF IsDirectory
    <3>3. Above(Front(p)) \subseteq dirs
      BY <3>2, TreeParts DEF SoundParts
    <3> QED
      BY <3>1, <3>2, <3>3
  <2>3. CASE Front(p) = <<>> /\ ~(Len(p) > 1)
    <3>1. Len(p) <= 1
      <4> DEFINE n == Len(p)
      <4>1. n \in Nat /\ ~(n > 1)
        BY <1>1, <2>3, PathIs
      <4> HIDE DEF n
      <4>2. n <= 1
        BY <4>1
      <4> QED
        BY <4>2 DEF n
    <3>2. Above(p) = {}
      BY <1>1, <3>1, AboveIs
    <3> QED
      BY <3>2
  <2> QED
    BY <2>1, <2>2, <2>3
<1> QED
  BY <1>1, <1>3, <1>4 DEF IsFile, IsDirectory

(* Every call keeps the tree sound. *)
LEMMA MakeSound ==
    ASSUME Sound(Tree), NEW s \in Sessions, Current(s) \in Calls, Make(s)
    PROVE  Sound(Tree)'
<1> DEFINE p == Current(s).path
<1>1. dirs' = dirs \union {p} /\ files' = files /\ Possible(s) /\ Current(s).do = "make"
  BY DEF Make, Does
<1>2. p \in Path /\ p # <<>> /\ Above(p) \subseteq dirs /\ p \notin DOMAIN files
  BY <1>1, RoomIs
<1> HIDE DEF p
<1>3. SoundParts(dirs, files)
  BY TreeParts
<1>4. SoundParts(dirs', files')
  BY <1>1, <1>2, <1>3 DEF SoundParts
<1> QED
  BY <1>4, TreeParts

LEMMA CreateSound ==
    ASSUME Sound(Tree), NEW s \in Sessions, Current(s) \in Calls, Create(s)
    PROVE  Sound(Tree)'
<1> DEFINE p == Current(s).path
<1>1. /\ files' = [q \in DOMAIN files \union {p} |-> IF IsFile(q) THEN files[q] ELSE <<>>]
      /\ dirs' = dirs /\ Possible(s) /\ Current(s).do = "create"
  BY DEF Create, Does
<1>2. p \in Path /\ p # <<>> /\ Above(p) \subseteq dirs /\ p \notin dirs
  BY <1>1, RoomIs
<1> HIDE DEF p
<1>3. SoundParts(dirs, files)
  BY TreeParts
<1>4. DOMAIN files' = DOMAIN files \union {p}
  BY <1>1
<1>5. files' \in [DOMAIN files' -> Seq(Int)]
  <2>1. \A q \in DOMAIN files : files[q] \in Seq(Int)
    BY <1>3 DEF SoundParts
  <2>2. <<>> \in Seq(Int)
    OBVIOUS
  <2> QED
    BY <1>1, <2>1, <2>2 DEF IsFile
<1>6. SoundParts(dirs', files')
  BY <1>1, <1>2, <1>3, <1>4, <1>5 DEF SoundParts
<1> QED
  BY <1>6, TreeParts

LEMMA CommitSound ==
    ASSUME Sound(Tree), FileTypes, NEW s \in Sessions, Commit(s)
    PROVE  Sound(Tree)'
<1> DEFINE p == Current(s).path c == sessions[s].swap
<1>1. files' = [files EXCEPT ![p] = c] /\ dirs' = dirs /\ Possible(s) /\ Current(s).do = "commit"
  BY DEF Commit, Does
<1>2. c \in Seq(Int)
  BY DEF FileTypes, IsSession
<1> HIDE DEF p, c
<1>3. SoundParts(dirs, files)
  BY TreeParts
<1>4. DOMAIN files' = DOMAIN files
  BY <1>1
<1>5. files' \in [DOMAIN files' -> Seq(Int)]
  BY <1>1, <1>2, <1>3 DEF SoundParts
<1>6. SoundParts(dirs', files')
  BY <1>1, <1>3, <1>4, <1>5 DEF SoundParts
<1> QED
  BY <1>6, TreeParts

LEMMA RemoveSound ==
    ASSUME Sound(Tree), NEW s \in Sessions, Current(s) \in Calls, RemoveEntry(s)
    PROVE  Sound(Tree)'
<1> DEFINE c == Current(s).path
<1>1. /\ dirs' = {q \in dirs : ~IsPrefix(c, q)}
      /\ files' = [q \in {x \in DOMAIN files : ~IsPrefix(c, x)} |-> files[q]]
  BY DEF RemoveEntry
<1>2. c \in Path
  BY DEF Calls
<1> HIDE DEF c
<1>3. SoundParts(dirs, files)
  BY TreeParts
<1>4. DOMAIN files' = {x \in DOMAIN files : ~IsPrefix(c, x)}
  BY <1>1
<1>5. files' \in [DOMAIN files' -> Seq(Int)]
  <2>1. \A q \in DOMAIN files : files[q] \in Seq(Int)
    BY <1>3 DEF SoundParts
  <2> QED
    BY <1>1, <1>4, <2>1
<1>6. ASSUME NEW p \in dirs' \union DOMAIN files' PROVE Above(p) \subseteq dirs'
  <2>1. p \in Path /\ Above(p) \subseteq dirs /\ ~IsPrefix(c, p)
    BY <1>1, <1>3, <1>4, <1>6 DEF SoundParts
  <2>2. \A q \in Above(p) : q \in Path /\ ~IsPrefix(c, q)
    <3>1. SUFFICES ASSUME NEW q \in Above(p), IsPrefix(c, q) PROVE FALSE
      BY <1>3, <2>1 DEF SoundParts
    <3>2. IsPrefix(c, p)
      BY <1>2, <2>1, <3>1, PrefixDown
    <3> QED
      BY <2>1, <3>2
  <2> QED
    BY <1>1, <2>1, <2>2
<1>7. SoundParts(dirs', files')
  BY <1>1, <1>3, <1>4, <1>5, <1>6 DEF SoundParts
<1> QED
  BY <1>7, TreeParts

TreeInv == Sound(Tree) /\ \A s \in Sessions : sessions[s].todo \in Seq(Calls)

LEMMA TreeInit == FilesInit => TreeInv
<1> SUFFICES ASSUME FilesInit PROVE TreeInv
  OBVIOUS
<1>1. dirs = Directories /\ files = Contents /\ \A s \in Sessions : sessions[s] = Idle
  BY DEF FilesInit
<1>2. ASSUME NEW p \in Directories \union DOMAIN Contents PROVE p \in Path
  <2>1. p \in Seq(Range(p))
    BY OriginAssumption
  <2>2. Range(p) \subseteq Name
    BY DEF Name
  <2>3. \A i \in 1..Len(p) : p[i] \in Name
    BY <2>1, <2>2
  <2> HIDE DEF Name
  <2> QED
    BY <2>1, <2>3 DEF Path
<1>3. SoundParts(Directories, Contents)
  <2>1. /\ Contents \in [DOMAIN Contents -> Seq(Int)]
        /\ Directories \intersect DOMAIN Contents = {}
        /\ \A p \in Directories \union DOMAIN Contents : p # <<>> /\ Above(p) \subseteq Directories
    BY OriginAssumption
  <2> QED
    BY <1>2, <2>1 DEF SoundParts
<1>4. Sound(Tree)
  BY <1>1, <1>3, TreeParts
<1>5. Idle.todo = <<>> /\ <<>> \in Seq(Calls)
  BY DEF Idle
<1> QED
  BY <1>1, <1>4, <1>5 DEF TreeInv

(* What a step of s leaves as it is in the other sessions. *)
LEMMA OthersGoOn ==
    ASSUME NEW s \in Sessions, NEW next, NEW disturbs, GoesOn(s, next, disturbs), FileTypes
    PROVE  \A u \in Sessions \ {s} : sessions'[u].todo = sessions[u].todo /\ sessions'[u].stream = sessions[u].stream
<1>1. \A u \in Sessions : [sessions[u] EXCEPT !.alone = FALSE].todo = sessions[u].todo
                          /\ [sessions[u] EXCEPT !.alone = FALSE].stream = sessions[u].stream
  <2> SUFFICES ASSUME NEW u \in Sessions
               PROVE  [sessions[u] EXCEPT !.alone = FALSE].todo = sessions[u].todo
                      /\ [sessions[u] EXCEPT !.alone = FALSE].stream = sessions[u].stream
    OBVIOUS
  <2>1. IsSession(sessions[u])
    BY DEF FileTypes
  <2> QED
    BY <2>1 DEF IsSession
<1> QED
  BY <1>1 DEF GoesOn

LEMMA InsteadGoesOn ==
    ASSUME FileTypes, NEW s \in Sessions, NEW error
    PROVE  /\ Instead(s, error).todo \in Seq(Calls)
           /\ Instead(s, error).stream => sessions[s].stream
<1> DEFINE me == sessions[s] r == me.request
<1>1. IsSession(me)
  BY DEF FileTypes
<1>2. \/ Instead(s, error) = [me EXCEPT !.todo = ResolveDir(r.path)] /\ r.call \in {"stat", "exists"}
      \/ Instead(s, error) = [me EXCEPT !.todo = ResolveFileCreate(r.path) \o Appending(r.path)] /\ r.call = "append"
      \/ \E x : Instead(s, error) = Ends(s, x)
  BY DEF Instead
<1>3. CASE r.call \in {"stat", "exists", "append"} /\ Instead(s, error) = [me EXCEPT !.todo = SecondPlan(r)]
  <2>1. r \in Requests
    <3>1. Nobody.call = "none"
      BY DEF Nobody, Request
    <3> QED
      BY <1>1, <1>3, <3>1 DEF IsSession
  <2>2. SecondPlan(r) \in Seq(Calls)
    BY <1>3, <2>1, SecondPlanIs DEF LooksTwice, Planned
  <2> DEFINE todo == SecondPlan(r)
  <2>3. todo \in Seq(Calls) /\ Instead(s, error) = [me EXCEPT !.todo = todo]
    BY <1>3, <2>2
  <2> HIDE DEF todo
  <2> QED
    BY <1>1, <2>3 DEF IsSession
<1>4. ASSUME NEW x, Instead(s, error) = Ends(s, x)
      PROVE  Instead(s, error).todo \in Seq(Calls) /\ ~Instead(s, error).stream
  <2>1. Ends(s, x).todo = <<>> /\ Ends(s, x).stream = FALSE
    BY <1>1 DEF Ends, IsSession
  <2>2. <<>> \in Seq(Calls)
    OBVIOUS
  <2> QED
    BY <1>4, <2>1, <2>2
<1> QED
  BY <1>2, <1>3, <1>4 DEF SecondPlan

(* ---- What a call changes in its session ---- *)

Keeps(you, me) == SameRequest(you, me) /\ you.todo = Tail(me.todo) /\ you.result = me.result
Hands(you, bytes, at, stream, swap) ==
    you.bytes = bytes /\ you.at = at /\ you.stream = stream /\ you.swap = swap

(* The session after each kind of call. *)
LEMMA OnwardIs ==
    ASSUME FileTypes, NEW s \in Sessions
    PROVE  LET me == sessions[s] IN
           /\ IsSession(Onward(s)) /\ Keeps(Onward(s), me)
           /\ Hands(Onward(s), me.bytes, me.at, me.stream, me.swap)
<1>1. IsSession(sessions[s])
  BY DEF FileTypes
<1>2. IsSession(Onward(s)) /\ Keeps(Onward(s), sessions[s])
  BY <1>1, FieldsOfOnward DEF Keeps
<1>3. Onward(s).bytes = sessions[s].bytes /\ Onward(s).at = sessions[s].at
      /\ Onward(s).stream = sessions[s].stream /\ Onward(s).swap = sessions[s].swap
  BY <1>1 DEF Onward, IsSession
<1> QED
  BY <1>2, <1>3 DEF Hands

LEMMA WithField ==
    ASSUME NEW o, IsSession(o), NEW x
    PROVE  /\ Hands([o EXCEPT !.bytes = x], x, o.at, o.stream, o.swap)
           /\ Hands([o EXCEPT !.at = x], o.bytes, x, o.stream, o.swap)
           /\ Hands([o EXCEPT !.swap = x], o.bytes, o.at, o.stream, x)
           /\ \A y : Hands([o EXCEPT !.stream = y, !.swap = x], o.bytes, o.at, y, x)
  BY DEF IsSession, Hands

LEMMA WithFieldKeeps ==
    ASSUME NEW o, IsSession(o), NEW x, NEW me, Keeps(o, me)
    PROVE  /\ Keeps([o EXCEPT !.bytes = x], me) /\ Keeps([o EXCEPT !.at = x], me) /\ Keeps([o EXCEPT !.swap = x], me)
           /\ \A y : Keeps([o EXCEPT !.stream = y, !.swap = x], me)
  BY DEF IsSession, Keeps, SameRequest

LEMMA LookStep ==
    ASSUME FileTypes, NEW s \in Sessions, Look(s) \/ Make(s) \/ Create(s) \/ RemoveEntry(s)
    PROVE  LET me == sessions[s] you == sessions'[s]
           IN  Keeps(you, me) /\ Hands(you, me.bytes, me.at, me.stream, me.swap)
<1>1. PICK d : GoesOn(s, Onward(s), d)
  BY DEF Look, Make, Create, RemoveEntry
<1>2. sessions'[s] = Onward(s)
  BY <1>1, Others
<1> QED
  BY <1>2, OnwardIs

LEMMA LoadStep ==
    ASSUME FileTypes, NEW s \in Sessions, Load(s)
    PROVE  LET me == sessions[s] you == sessions'[s]
           IN  Keeps(you, me) /\ Hands(you, files[Current(s).path], me.at, me.stream, me.swap)
<1> DEFINE o == Onward(s) x == files[Current(s).path] me == sessions[s]
<1>1. sessions'[s] = [o EXCEPT !.bytes = x]
  BY Others DEF Load
<1>2. IsSession(o) /\ Keeps(o, me) /\ Hands(o, me.bytes, me.at, me.stream, me.swap)
  BY OnwardIs
<1> HIDE DEF o, x
<1>3. Keeps([o EXCEPT !.bytes = x], me) /\ Hands([o EXCEPT !.bytes = x], x, o.at, o.stream, o.swap)
  BY <1>2, WithField, WithFieldKeeps
<1> QED
  BY <1>1, <1>2, <1>3 DEF Hands, x

LEMMA MeasureStep ==
    ASSUME FileTypes, NEW s \in Sessions, Measure(s)
    PROVE  LET me == sessions[s] you == sessions'[s]
           IN  Keeps(you, me) /\ Hands(you, me.bytes, Len(files[Current(s).path]), me.stream, me.swap)
<1> DEFINE o == Onward(s) x == Len(files[Current(s).path]) me == sessions[s]
<1>1. sessions'[s] = [o EXCEPT !.at = x]
  BY Others DEF Measure
<1>2. IsSession(o) /\ Keeps(o, me) /\ Hands(o, me.bytes, me.at, me.stream, me.swap)
  BY OnwardIs
<1> HIDE DEF o, x
<1>3. Keeps([o EXCEPT !.at = x], me) /\ Hands([o EXCEPT !.at = x], o.bytes, x, o.stream, o.swap)
  BY <1>2, WithField, WithFieldKeeps
<1> QED
  BY <1>1, <1>2, <1>3 DEF Hands, x

LEMMA OpenStep ==
    ASSUME FileTypes, NEW s \in Sessions, OpenStream(s)
    PROVE  LET me == sessions[s] you == sessions'[s]
           IN  /\ Keeps(you, me)
               /\ Hands(you, me.bytes, me.at, TRUE, IF Current(s).do = "edit" THEN files[Current(s).path] ELSE <<>>)
<1> DEFINE o == Onward(s) x == (IF Current(s).do = "edit" THEN files[Current(s).path] ELSE <<>>) me == sessions[s]
<1>1. sessions'[s] = [o EXCEPT !.stream = TRUE, !.swap = x]
  BY Others DEF OpenStream
<1>2. IsSession(o) /\ Keeps(o, me) /\ Hands(o, me.bytes, me.at, me.stream, me.swap)
  BY OnwardIs
<1> DEFINE on == TRUE
<1> HIDE DEF o, x, on
<1>3. Keeps([o EXCEPT !.stream = on, !.swap = x], me) /\ Hands([o EXCEPT !.stream = on, !.swap = x], o.bytes, o.at, on, x)
  BY <1>2, WithField, WithFieldKeeps
<1>4. sessions'[s] = [o EXCEPT !.stream = on, !.swap = x]
  BY <1>1 DEF on
<1>5. Keeps(sessions'[s], me) /\ sessions'[s].bytes = me.bytes /\ sessions'[s].at = me.at
      /\ sessions'[s].stream = on /\ sessions'[s].swap = x
  BY <1>2, <1>3, <1>4 DEF Hands
<1> QED
  BY <1>5, Zenon DEF Hands, x, on, me

LEMMA FillStep ==
    ASSUME FileTypes, NEW s \in Sessions, Fill(s)
    PROVE  LET me == sessions[s] you == sessions'[s]
           IN  /\ Keeps(you, me)
               /\ Hands(you, me.bytes, me.at, me.stream,
                        Overwritten(me.swap, IF me.request.call \in {"append", "update"} THEN me.at ELSE 0, me.bytes))
<1> DEFINE o == Onward(s) me == sessions[s]
           x == Overwritten(me.swap, IF me.request.call \in {"append", "update"} THEN me.at ELSE 0, me.bytes)
<1>1. sessions'[s] = [o EXCEPT !.swap = x]
  BY Others DEF Fill
<1>2. IsSession(o) /\ Keeps(o, me) /\ Hands(o, me.bytes, me.at, me.stream, me.swap)
  BY OnwardIs
<1> HIDE DEF o, x
<1>3. Keeps([o EXCEPT !.swap = x], me) /\ Hands([o EXCEPT !.swap = x], o.bytes, o.at, o.stream, x)
  BY <1>2, WithField, WithFieldKeeps
<1> QED
  BY <1>1, <1>2, <1>3 DEF Hands, x

LEMMA CommitStep ==
    ASSUME FileTypes, NEW s \in Sessions, Commit(s)
    PROVE  LET me == sessions[s] you == sessions'[s]
           IN  Keeps(you, me) /\ Hands(you, me.bytes, me.at, FALSE, <<>>)
<1> DEFINE o == Onward(s) x == <<>> me == sessions[s] off == FALSE
<1>1. sessions'[s] = [o EXCEPT !.stream = off, !.swap = x]
  BY Others DEF Commit
<1>2. IsSession(o) /\ Keeps(o, me) /\ Hands(o, me.bytes, me.at, me.stream, me.swap)
  BY OnwardIs
<1> HIDE DEF o, x, off
<1>3. Keeps([o EXCEPT !.stream = off, !.swap = x], me) /\ Hands([o EXCEPT !.stream = off, !.swap = x], o.bytes, o.at, off, x)
  BY <1>2, WithField, WithFieldKeeps
<1>5. Keeps(sessions'[s], me) /\ sessions'[s].bytes = me.bytes /\ sessions'[s].at = me.at
      /\ sessions'[s].stream = off /\ sessions'[s].swap = x
  BY <1>1, <1>2, <1>3 DEF Hands
<1> QED
  BY <1>5, Zenon DEF Hands, x, off, me

Works(s) ==
    \/ Look(s) \/ Make(s) \/ Create(s) \/ Load(s) \/ Measure(s)
    \/ OpenStream(s) \/ Fill(s) \/ Commit(s) \/ RemoveEntry(s)

LEMMA WorkKeeps ==
    ASSUME FileTypes, NEW s \in Sessions, Works(s)
    PROVE  Keeps(sessions'[s], sessions[s]) /\ Busy(s) /\ sessions[s].todo # <<>> /\ Possible(s)
<1>1. Keeps(sessions'[s], sessions[s])
  BY LookStep, LoadStep, MeasureStep, OpenStep, FillStep, CommitStep DEF Works
<1>2. Busy(s) /\ sessions[s].todo # <<>> /\ Possible(s)
  BY DEF Works, Look, Make, Create, Load, Measure, OpenStream, Fill, Commit, RemoveEntry, Does
<1> QED
  BY <1>1, <1>2

Halts(s) == Refuse(s) \/ Fault(s) \/ Finish(s) \/ Crash(s)
Starts(s) == \E r \in Requests : Start(s, r)

LEMMA FilesSteps ==
    ASSUME FilesNext
    PROVE  Collect \/ \E s \in Sessions : Starts(s) \/ Works(s) \/ Halts(s)
  BY DEF FilesNext, Starts, Works, Halts

(* Only one session takes a step; the stream of another stays as it is. *)
LEMMA GoesOnSome ==
    ASSUME NEW s \in Sessions, Starts(s) \/ Works(s) \/ Halts(s)
    PROVE  \E next, d : GoesOn(s, next, d)
  BY DEF Starts, Works, Halts, Start, Look, Make, Create, Load, Measure, OpenStream, Fill, Commit, RemoveEntry,
         Refuse, Fault, Finish, Crash

(* A request begins, and an operation finishes. *)
LEMMA StartIs ==
    ASSUME FileTypes, NEW s \in Sessions, NEW r \in Requests, Start(s, r)
    PROVE  LET refused == ~r.sound /\ r.call \in {"write", "append", "update"}
               you == sessions'[s]
           IN  /\ you.request = r /\ you.before = Tree /\ you.todo = (IF refused THEN <<>> ELSE Plan(r))
               /\ you.result = (IF refused THEN "E_INVALID_ENCODING" ELSE "busy")
               /\ you.bytes = r.data /\ you.at = r.offset /\ you.stream = FALSE /\ you.swap = <<>>
               /\ you.alone => Writers = {} /\ leaked = {}
<1> DEFINE refused == ~r.sound /\ r.call \in {"write", "append", "update"}
           todo == IF refused THEN <<>> ELSE Plan(r)
           result == IF refused THEN "E_INVALID_ENCODING" ELSE "busy"
           alone == Writers = {} /\ leaked = {}
           before == [dirs |-> dirs, files |-> files]
           begun == [Idle EXCEPT !.request = r, !.bytes = r.data, !.at = r.offset, !.todo = todo,
                                 !.result = result, !.before = before, !.alone = alone]
<1>1. sessions'[s] = begun
  BY Others DEF Start
<1>3. before = Tree
  BY DEF Tree
<1> HIDE DEF before, begun
<1>4. /\ begun.request = r /\ begun.before = before /\ begun.todo = todo /\ begun.result = result
      /\ begun.bytes = r.data /\ begun.at = r.offset /\ begun.stream = FALSE /\ begun.swap = <<>>
  <2> HIDE DEF todo, result, alone
  <2> QED BY DEF Idle, begun
<1>5. begun.alone = alone
  <2> HIDE DEF todo, result, alone
  <2> QED BY DEF Idle, begun
<1>6. begun.alone => Writers = {} /\ leaked = {}
  BY <1>5
<1> QED
  BY <1>1, <1>3, <1>4, <1>6

LEMMA FinishIs ==
    ASSUME FileTypes, NEW s \in Sessions, Finish(s)
    PROVE  LET me == sessions[s] you == sessions'[s] r == me.request
               traps == r.call = "range" /\ RangeTraps(me.bytes, r.offset, r.len)
               unknown == r.call = "hash" /\ ~r.sound
           IN  /\ you.todo = <<>> /\ you.stream = FALSE /\ SameRequest(you, me)
               /\ you.result = (IF traps THEN "trap" ELSE IF unknown THEN "E_INVALID_ENCODING" ELSE "ok")
               /\ you.result = "ok" =>
                    you.bytes = IF r.call = "range" THEN RangeOf(me.bytes, r.offset, r.len) ELSE me.bytes
<1> DEFINE me == sessions[s] you == sessions'[s] r == me.request
           traps == RangeTraps(me.bytes, r.offset, r.len)
           part == RangeOf(me.bytes, r.offset, r.len)
<1>1. IsSession(me)
  BY DEF FileTypes
<1>2. ASSUME NEW x
      PROVE  /\ Ends(s, x).todo = <<>> /\ Ends(s, x).stream = FALSE /\ SameRequest(Ends(s, x), me)
             /\ Ends(s, x).result = x /\ Ends(s, x).bytes = me.bytes /\ IsSession(Ends(s, x))
  <2>1. Ends(s, x) = [me EXCEPT !.todo = <<>>, !.stream = FALSE, !.swap = <<>>, !.result = x]
    BY DEF Ends
  <2>2. IsSession(Ends(s, x)) /\ SameRequest(Ends(s, x), me)
    BY <1>1, FieldsOfEnds
  <2> QED
    BY <1>1, <2>1, <2>2 DEF IsSession
<1> DEFINE ok == Ends(s, "ok")
<1>3. you = CASE r.call = "range" /\ traps -> Ends(s, "trap")
              [] r.call = "range" /\ ~traps -> [ok EXCEPT !.bytes = RangeOf(@, r.offset, r.len)]
              [] r.call = "hash" /\ ~r.sound -> Ends(s, "E_INVALID_ENCODING")
              [] OTHER -> ok
  BY Others DEF Finish
<1>4. ok.bytes = me.bytes /\ IsSession(ok) /\ SameRequest(ok, me) /\ ok.todo = <<>> /\ ok.stream = FALSE /\ ok.result = "ok"
  BY <1>2
<1> HIDE DEF ok
<1>5. [ok EXCEPT !.bytes = RangeOf(@, r.offset, r.len)] = [ok EXCEPT !.bytes = part]
  BY <1>4
<1> HIDE DEF part, traps, r
<1>6. LET o == [ok EXCEPT !.bytes = part]
      IN  o.todo = <<>> /\ o.stream = FALSE /\ SameRequest(o, me) /\ o.result = "ok" /\ o.bytes = part
  BY <1>4 DEF IsSession, SameRequest
<1>7. CASE r.call = "range" /\ traps
  <2>1. you = Ends(s, "trap")
    BY <1>3, <1>7
  <2>2. you.todo = <<>> /\ you.stream = FALSE /\ SameRequest(you, me) /\ you.result = "trap"
    BY <1>2, <2>1
  <2> QED
    BY <1>7, <2>2 DEF r, traps
<1>8. CASE r.call = "range" /\ ~traps
  <2>1. you = [ok EXCEPT !.bytes = part]
    BY <1>3, <1>5, <1>8
  <2> QED
    BY <1>6, <1>8, <2>1 DEF r, traps, part
<1>9. CASE r.call = "hash" /\ ~r.sound
  <2>1. you = Ends(s, "E_INVALID_ENCODING")
    BY <1>3, <1>9
  <2>2. you.todo = <<>> /\ you.stream = FALSE /\ SameRequest(you, me) /\ you.result = "E_INVALID_ENCODING"
    BY <1>2, <2>1
  <2> QED
    BY <1>9, <2>2 DEF r
<1>10. CASE r.call # "range" /\ ~(r.call = "hash" /\ ~r.sound)
  <2>1. you = ok
    BY <1>3, <1>10
  <2> QED
    BY <1>4, <1>10, <2>1 DEF r
<1> QED
  BY <1>7, <1>8, <1>9, <1>10

LEMMA TreeStep == ASSUME SoundRequests, FileTypes, TreeInv, [FilesNext]_fileVars PROVE TreeInv'
<1>1. CASE Collect \/ UNCHANGED fileVars
  <2>1. UNCHANGED <<dirs, files, sessions>>
    BY <1>1 DEF Collect, fileVars
  <2> QED
    BY <2>1 DEF TreeInv, Tree
<1>2. ASSUME NEW s \in Sessions, Starts(s) \/ Works(s) \/ Halts(s) PROVE TreeInv'
  <2>1. \A u \in Sessions \ {s} : sessions'[u].todo \in Seq(Calls)
    BY <1>2, GoesOnSome, OthersGoOn DEF TreeInv
  <2>2. sessions[s].todo \in Seq(Calls)
    BY DEF TreeInv
  <2>3. <<>> \in Seq(Calls)
    OBVIOUS
  <2>4. CASE Starts(s)
    <3>1. PICK r \in Requests : Start(s, r)
      BY <2>4 DEF Starts
    <3>2. Plan(r) \in Seq(Calls)
      BY PlanIs DEF Planned
    <3>3. sessions'[s].todo = <<>> \/ sessions'[s].todo = Plan(r)
      BY <3>1, StartIs
    <3>4. UNCHANGED <<dirs, files>>
      BY <3>1 DEF Start
    <3>5. sessions'[s].todo \in Seq(Calls)
      BY <2>3, <3>2, <3>3
    <3> QED
      BY <2>1, <3>4, <3>5 DEF TreeInv, Tree
  <2>5. CASE Works(s)
    <3>1. sessions'[s].todo = Tail(sessions[s].todo) /\ sessions[s].todo # <<>>
      BY <2>5, WorkKeeps DEF Keeps
    <3>2. sessions'[s].todo \in Seq(Calls)
      BY <2>2, <3>1
    <3>3. Current(s) \in Calls
      BY <2>2, <3>1 DEF Current
    <3>4. Sound(Tree)'
      <4>1. CASE UNCHANGED <<dirs, files>>
        BY <4>1 DEF TreeInv, Tree
      <4>2. Make(s) \/ Create(s) \/ Commit(s) \/ RemoveEntry(s) \/ UNCHANGED <<dirs, files>>
        BY <2>5 DEF Works, Look, Load, Measure, OpenStream, Fill
      <4> QED
        BY <3>3, <4>1, <4>2, MakeSound, CreateSound, CommitSound, RemoveSound DEF TreeInv
    <3> QED
      BY <2>1, <3>2, <3>4 DEF TreeInv
  <2>6. CASE Halts(s)
    <3>1. UNCHANGED <<dirs, files>>
      BY <2>6 DEF Halts, Refuse, Fault, Finish, Crash
    <3>2. sessions'[s].todo \in Seq(Calls)
      <4>1. CASE Finish(s)
        BY <2>3, <4>1, FinishIs
      <4>2. CASE Crash(s)
        <5>1. sessions'[s] = Ends(s, "crashed")
          BY <4>2, Others DEF Crash
        <5>2. IsSession(sessions[s])
          BY DEF FileTypes
        <5>3. Ends(s, "crashed").todo = <<>>
          BY <5>2 DEF Ends, IsSession
        <5> QED
          BY <2>3, <5>1, <5>3
      <4>3. CASE Refuse(s) \/ Fault(s)
        <5>1. PICK error, d : GoesOn(s, Instead(s, error), d)
          BY <4>3 DEF Refuse, Fault
        <5>2. sessions'[s] = Instead(s, error)
          BY <5>1, Others
        <5> QED
          BY <5>2, InsteadGoesOn
      <4> QED
        BY <2>6, <4>1, <4>2, <4>3 DEF Halts
    <3> QED
      BY <2>1, <3>1, <3>2 DEF TreeInv, Tree
  <2> QED
    BY <1>2, <2>4, <2>5, <2>6
<1> QED
  BY <1>1, <1>2, FilesSteps

(* ---- One more call is done ---- *)

(* One deed more. *)
LEMMA NextDeeds ==
    ASSUME NEW done, NEW c
    PROVE  /\ Deed(done \union {c}) = Deed(done) \union {c.do}
           /\ Made(done \union {c}) = IF c.do = "make" THEN Made(done) \union {c.path} ELSE Made(done)
<1>1. Deed(done \union {c}) = Deed(done) \union {c.do}
  BY DEF Deed
<1>2. Made(done \union {c}) = IF c.do = "make" THEN Made(done) \union {c.path} ELSE Made(done)
  BY DEF Made
<1> QED
  BY <1>1, <1>2

LEMMA StreamingNext ==
    ASSUME NEW done, NEW c
    PROVE  /\ c.do \notin {"replace", "edit", "commit"} => Streaming(done \union {c}) = Streaming(done)
           /\ c.do \in {"replace", "edit"} /\ "commit" \notin Deed(done) => Streaming(done \union {c}) = TRUE
           /\ c.do = "commit" => Streaming(done \union {c}) = FALSE
<1> DEFINE D == Deed(done) E == Deed(done \union {c})
<1>1. E = D \union {c.do}
  BY NextDeeds
<1>2. Streaming(done) = (D \intersect {"replace", "edit"} # {} /\ "commit" \notin D)
  BY DEF Streaming
<1>3. Streaming(done \union {c}) = (E \intersect {"replace", "edit"} # {} /\ "commit" \notin E)
  BY DEF Streaming
<1> HIDE DEF D, E
<1>4. ASSUME c.do \notin {"replace", "edit", "commit"} PROVE Streaming(done \union {c}) = Streaming(done)
  <2>1. (E \intersect {"replace", "edit"} # {} /\ "commit" \notin E) = (D \intersect {"replace", "edit"} # {} /\ "commit" \notin D)
    BY <1>1, <1>4
  <2> QED
    BY <1>2, <1>3, <2>1
<1>5. ASSUME c.do \in {"replace", "edit"}, "commit" \notin D PROVE Streaming(done \union {c}) = TRUE
  <2>1. E \intersect {"replace", "edit"} # {} /\ "commit" \notin E
    BY <1>1, <1>5
  <2> QED
    BY <1>3, <2>1
<1>6. ASSUME c.do = "commit" PROVE Streaming(done \union {c}) = FALSE
  <2>1. "commit" \in E
    BY <1>1, <1>6
  <2> QED
    BY <1>3, <2>1
<1> QED
  BY <1>4, <1>5, <1>6 DEF D

NextDirs(c) == IF c.do = "make" THEN dirs \union {c.path} ELSE dirs
NextFiles(r, t, c) ==
    IF c.do = "create" THEN IF Kept(t, Goal(r)) THEN t.files ELSE Put(t.files, Goal(r), <<>>)
    ELSE IF c.do = "commit" THEN Put(t.files, Goal(r), Content(r, t))
    ELSE files

(* The tree with one deed more, from the tree there is. *)
LEMMA AfterNext ==
    ASSUME NEW r, NEW t, NEW done, NEW c, TreeOf(r, t, done), "remove" \notin Deed(done),
           c.do = "create" => "commit" \notin Deed(done)
    PROVE  After(r, t, done \union {c}) =
              IF c.do = "remove" THEN Without([dirs |-> dirs, files |-> files], r.path)
              ELSE [dirs |-> NextDirs(c), files |-> NextFiles(r, t, c)]
<1> DEFINE D == Deed(done) e == done \union {c} E == Deed(e) g == Goal(r)
           put == Put(t.files, g, Content(r, t)) new == Put(t.files, g, <<>>)
<1>1. E = D \union {c.do} /\ Made(e) = IF c.do = "make" THEN Made(done) \union {c.path} ELSE Made(done)
  BY NextDeeds
<1>2. dirs = t.dirs \union Made(done)
  BY DEF TreeOf
<1>3. files = IF "commit" \in D THEN put ELSE IF "create" \in D /\ ~Kept(t, g) THEN new ELSE t.files
  BY DEF TreeOf, GrownFiles
<1>4. GrownDirs(t, e) = t.dirs \union Made(e)
  BY DEF GrownDirs
<1>5. GrownFiles(r, t, e) = IF "commit" \in E THEN put ELSE IF "create" \in E /\ ~Kept(t, g) THEN new ELSE t.files
  BY DEF GrownFiles
<1>6. Grown(r, t, e) = [dirs |-> GrownDirs(t, e), files |-> GrownFiles(r, t, e)]
  BY DEF Grown
<1>7. After(r, t, e) = IF "remove" \in E THEN Without(Grown(r, t, e), r.path) ELSE Grown(r, t, e)
  BY DEF After
<1> DEFINE grown == Grown(r, t, e) d == GrownDirs(t, e) f == GrownFiles(r, t, e)
<1>8. "remove" \notin D /\ (c.do = "create" => "commit" \notin D)
  OBVIOUS
<1> HIDE DEF D, E, e, g, put, new, grown, d, f
<1>9. d = NextDirs(c)
  BY <1>1, <1>2, <1>4 DEF d, NextDirs
<1>10. /\ c.do \notin {"create", "commit"} => f = files
       /\ c.do = "create" => f = IF Kept(t, g) THEN t.files ELSE new
       /\ c.do = "commit" => f = put
  BY <1>1, <1>3, <1>5, <1>8 DEF f
<1>11. f = NextFiles(r, t, c)
  BY <1>10 DEF NextFiles, g, put, new
<1>12. grown = [dirs |-> NextDirs(c), files |-> NextFiles(r, t, c)]
  BY <1>6, <1>9, <1>11 DEF grown, d, f
<1>13. CASE c.do # "remove"
  <2>1. After(r, t, e) = grown
    BY <1>1, <1>7, <1>8, <1>13 DEF grown
  <2> QED
    BY <1>12, <1>13, <2>1 DEF e
<1>14. CASE c.do = "remove"
  <2>1. After(r, t, e) = Without(grown, r.path)
    BY <1>1, <1>7, <1>14 DEF grown
  <2>2. NextDirs(c) = dirs /\ NextFiles(r, t, c) = files
    BY <1>14 DEF NextDirs, NextFiles
  <2> QED
    BY <1>12, <1>14, <2>1, <2>2 DEF e
<1> QED
  BY <1>13, <1>14

(* What a session holds when the deeds of D are done. *)
InHand(r, t, D, bytes, at, swap) ==
    /\ bytes = IF "load" \in D THEN t.files[r.path] ELSE r.data
    /\ at = IF "measure" \in D THEN Len(OldContent(r, t)) ELSE r.offset
    /\ (D \intersect {"replace", "edit"} # {} /\ "commit" \notin D) =>
          swap = IF "fill" \in D THEN Content(r, t) ELSE IF "edit" \in D THEN OldContent(r, t) ELSE <<>>

LEMMA HoldsIs ==
    ASSUME NEW me, NEW done
    PROVE  Holds(me, done) <=> /\ InHand(me.request, me.before, Deed(done), me.bytes, me.at, me.swap)
                               /\ me.stream = Streaming(done)
  BY Zenon DEF Holds, InHand, Streaming

(* s makes the call c as it should. *)
Undertakes(s, r, t, done, c) ==
    /\ Standing(s, r, t, done) /\ Holds(sessions[s], done)
    /\ r = sessions[s].request /\ t = sessions[s].before /\ c = Current(s) /\ r \in Requests

LEMMA HoldsNext ==
    ASSUME NEW you, NEW me, NEW r, NEW t, NEW done, NEW c, NEW bytes, NEW at, NEW stream, NEW swap,
           Keeps(you, me), Hands(you, bytes, at, stream, swap), r = me.request, t = me.before,
           InHand(r, t, Deed(done) \union {c.do}, bytes, at, swap), stream = Streaming(done \union {c})
    PROVE  Holds(you, done \union {c})
<1> DEFINE e == done \union {c}
<1>1. Deed(e) = Deed(done) \union {c.do}
  BY NextDeeds
<1>2. you.request = r /\ you.before = t
  BY DEF Keeps, SameRequest
<1>3. you.bytes = bytes /\ you.at = at /\ you.stream = stream /\ you.swap = swap
  BY Zenon DEF Hands
<1> HIDE DEF e
<1>4. InHand(you.request, you.before, Deed(e), you.bytes, you.at, you.swap)
  BY <1>1, <1>2, <1>3
<1>5. you.stream = Streaming(e)
  BY <1>3, Zenon DEF e
<1>6. Holds(you, e)
  BY <1>4, <1>5, HoldsIs
<1> QED
  BY <1>6 DEF e

LEMMA NowInHand ==
    ASSUME NEW s, NEW r, NEW t, NEW done, NEW c, Undertakes(s, r, t, done, c)
    PROVE  LET me == sessions[s] IN InHand(r, t, Deed(done), me.bytes, me.at, me.swap) /\ me.stream = Streaming(done)
  BY HoldsIs DEF Undertakes

LEMMA TreeNext ==
    /\ Tree = [dirs |-> dirs, files |-> files]
    /\ Tree' = [dirs |-> dirs', files |-> files']
  BY DEF Tree

(* Each call does its deed to the tree and to what the session holds. *)
LEMMA LookWorks ==
    ASSUME FileTypes, NEW s \in Sessions, NEW r, NEW t, NEW done, NEW c, Undertakes(s, r, t, done, c), Look(s)
    PROVE  Tree' = After(r, t, done \union {c}) /\ Holds(sessions'[s], done \union {c})
<1> DEFINE me == sessions[s] you == sessions'[s]
<1>1. c.do \in {"enter", "open", "entries"} /\ UNCHANGED <<dirs, files>>
  BY DEF Look, Does, Undertakes
<1>2. Keeps(you, me) /\ Hands(you, me.bytes, me.at, me.stream, me.swap)
  BY LookStep
<1>3. InHand(r, t, Deed(done), me.bytes, me.at, me.swap) /\ me.stream = Streaming(done)
  BY NowInHand
<1>4. InHand(r, t, Deed(done) \union {c.do}, me.bytes, me.at, me.swap)
  <2> DEFINE D == Deed(done)
  <2> HIDE DEF D, me
  <2> QED BY <1>1, <1>3 DEF InHand, D
<1>5. me.stream = Streaming(done \union {c})
  <2>1. Streaming(done \union {c}) = Streaming(done)
    BY <1>1, StreamingNext
  <2> QED
    BY <1>3, <2>1
<1>6. r = me.request /\ t = me.before
  BY DEF Undertakes
<1> HIDE DEF me, you
<1>7. Holds(you, done \union {c})
  BY <1>2, <1>4, <1>5, <1>6, HoldsNext
<1>8. TreeOf(r, t, done) /\ "remove" \notin Deed(done)
  BY DEF Undertakes, Standing
<1>9. After(r, t, done \union {c}) = [dirs |-> dirs, files |-> files]
  <2>1. c.do \notin {"make", "create", "commit", "remove"}
    BY <1>1
  <2>2. NextDirs(c) = dirs /\ NextFiles(r, t, c) = files
    BY <2>1 DEF NextDirs, NextFiles
  <2>3. After(r, t, done \union {c}) = [dirs |-> NextDirs(c), files |-> NextFiles(r, t, c)]
    BY <1>8, <2>1, AfterNext
  <2> QED
    BY <2>2, <2>3
<1>10. Tree' = [dirs |-> dirs, files |-> files]
  BY <1>1, TreeNext
<1> QED
  BY <1>7, <1>9, <1>10 DEF you

LEMMA MakeWorks ==
    ASSUME FileTypes, NEW s \in Sessions, NEW r, NEW t, NEW done, NEW c, Undertakes(s, r, t, done, c), Make(s)
    PROVE  Tree' = After(r, t, done \union {c}) /\ Holds(sessions'[s], done \union {c})
<1> DEFINE me == sessions[s] you == sessions'[s]
<1>1. c.do = "make" /\ dirs' = dirs \union {c.path} /\ files' = files
  BY DEF Make, Does, Undertakes
<1>2. Keeps(you, me) /\ Hands(you, me.bytes, me.at, me.stream, me.swap)
  BY LookStep
<1>3. InHand(r, t, Deed(done), me.bytes, me.at, me.swap) /\ me.stream = Streaming(done)
  BY NowInHand
<1>4. InHand(r, t, Deed(done) \union {c.do}, me.bytes, me.at, me.swap)
  <2> DEFINE D == Deed(done)
  <2> HIDE DEF D, me
  <2> QED BY <1>1, <1>3 DEF InHand, D
<1>5. me.stream = Streaming(done \union {c})
  <2>1. Streaming(done \union {c}) = Streaming(done)
    BY <1>1, StreamingNext
  <2> QED
    BY <1>3, <2>1
<1>6. r = me.request /\ t = me.before
  BY DEF Undertakes
<1> HIDE DEF me, you
<1>7. Holds(you, done \union {c})
  BY <1>2, <1>4, <1>5, <1>6, HoldsNext
<1>8. TreeOf(r, t, done) /\ "remove" \notin Deed(done)
  BY DEF Undertakes, Standing
<1>9. After(r, t, done \union {c}) = [dirs |-> dirs \union {c.path}, files |-> files]
  <2>1. NextDirs(c) = dirs \union {c.path} /\ NextFiles(r, t, c) = files
    BY <1>1 DEF NextDirs, NextFiles
  <2>2. After(r, t, done \union {c}) = [dirs |-> NextDirs(c), files |-> NextFiles(r, t, c)]
    BY <1>1, <1>8, AfterNext
  <2> QED
    BY <2>1, <2>2
<1>10. Tree' = [dirs |-> dirs \union {c.path}, files |-> files]
  BY <1>1, TreeNext
<1> QED
  BY <1>7, <1>9, <1>10 DEF you

LEMMA CreateWorks ==
    ASSUME FileTypes, NEW s \in Sessions, NEW r, NEW t, NEW done, NEW c, Undertakes(s, r, t, done, c), Create(s)
    PROVE  Tree' = After(r, t, done \union {c}) /\ Holds(sessions'[s], done \union {c})
<1> DEFINE me == sessions[s] you == sessions'[s] g == Goal(r)
<1>1. /\ c.do = "create" /\ dirs' = dirs
      /\ files' = [p \in DOMAIN files \union {c.path} |-> IF IsFile(p) THEN files[p] ELSE <<>>]
  BY DEF Create, Does, Undertakes
<1>2. Keeps(you, me) /\ Hands(you, me.bytes, me.at, me.stream, me.swap)
  BY LookStep
<1>3. InHand(r, t, Deed(done), me.bytes, me.at, me.swap) /\ me.stream = Streaming(done)
  BY NowInHand
<1>4. InHand(r, t, Deed(done) \union {c.do}, me.bytes, me.at, me.swap)
  <2> DEFINE D == Deed(done)
  <2> HIDE DEF D, me
  <2> QED BY <1>1, <1>3 DEF InHand, D
<1>5. me.stream = Streaming(done \union {c})
  <2>1. Streaming(done \union {c}) = Streaming(done)
    BY <1>1, StreamingNext
  <2> QED
    BY <1>3, <2>1
<1>6. r = me.request /\ t = me.before
  BY DEF Undertakes
<1> HIDE DEF me, you
<1>7. Holds(you, done \union {c})
  BY <1>2, <1>4, <1>5, <1>6, HoldsNext
<1>8. TreeOf(r, t, done) /\ "remove" \notin Deed(done) /\ Grows(r, done, c) /\ Sound(Tree)
  BY DEF Undertakes, Standing, Follows
<1>9. c.path = g /\ Deed(done) \subseteq {"enter", "open", "load", "make"}
  BY <1>1, <1>8 DEF Grows
<1>10. files = t.files
  BY <1>8, <1>9, FilesSoFar
<1>11. files' = IF Kept(t, g) THEN t.files ELSE Put(t.files, g, <<>>)
  <2> HIDE DEF g
  <2>1. files' = [p \in DOMAIN files \union {g} |-> IF p \in DOMAIN files THEN files[p] ELSE <<>>]
    BY <1>1, <1>9 DEF IsFile
  <2>2. CASE g \in DOMAIN files
    <3>1. files \in [DOMAIN files -> Seq(Int)]
      BY <1>8, TreeParts DEF SoundParts
    <3>2. files' = files
      BY <2>1, <2>2, <3>1
    <3> QED
      BY <1>10, <2>2, <3>2 DEF Kept
  <2>3. CASE g \notin DOMAIN files
    <3>1. files' = [p \in DOMAIN files \union {g} |-> IF p = g THEN <<>> ELSE files[p]]
      BY <2>1, <2>3
    <3> QED
      BY <1>10, <2>3, <3>1 DEF Kept, Put
  <2> QED
    BY <2>2, <2>3
<1>12. "commit" \notin Deed(done)
  BY <1>9
<1> HIDE DEF g
<1>13. After(r, t, done \union {c}) = [dirs |-> dirs, files |-> IF Kept(t, g) THEN t.files ELSE Put(t.files, g, <<>>)]
  <2>1. NextDirs(c) = dirs /\ NextFiles(r, t, c) = IF Kept(t, g) THEN t.files ELSE Put(t.files, g, <<>>)
    BY <1>1 DEF NextDirs, NextFiles, g
  <2>2. After(r, t, done \union {c}) = [dirs |-> NextDirs(c), files |-> NextFiles(r, t, c)]
    BY <1>1, <1>8, <1>12, AfterNext
  <2> QED
    BY <2>1, <2>2
<1>14. Tree' = [dirs |-> dirs, files |-> files']
  BY <1>1, TreeNext
<1> QED
  BY <1>7, <1>11, <1>13, <1>14 DEF you

LEMMA LoadWorks ==
    ASSUME FileTypes, NEW s \in Sessions, NEW r, NEW t, NEW done, NEW c, Undertakes(s, r, t, done, c), Load(s)
    PROVE  Tree' = After(r, t, done \union {c}) /\ Holds(sessions'[s], done \union {c})
<1> DEFINE me == sessions[s] you == sessions'[s] g == Goal(r) D == Deed(done)
<1>1. c.do = "load" /\ UNCHANGED <<dirs, files>> /\ c = Current(s)
  BY DEF Load, Does, Undertakes
<1> DEFINE x == files[Current(s).path]
<1>2. Keeps(you, me) /\ Hands(you, x, me.at, me.stream, me.swap)
  BY LoadStep
<1>3. InHand(r, t, D, me.bytes, me.at, me.swap) /\ me.stream = Streaming(done)
  BY NowInHand
<1>4. r = me.request /\ t = me.before
  BY DEF Undertakes
<1>5. /\ TreeOf(r, t, done) /\ "remove" \notin D /\ Follows(r, done, c) /\ Sound(Tree) /\ Sound(t)
      /\ \A y \in done : Allows(t, y)
  BY DEF Undertakes, Standing
<1>6. c.path = r.path /\ D \subseteq {"enter", "open"}
  BY <1>1, <1>5 DEF Follows, Looks
<1>7. x = t.files[r.path]
  <2>1. files = t.files
    BY <1>5, <1>6, FilesSoFar
  <2> QED
    BY <1>1, <1>6, <2>1
<1> HIDE DEF D, x
<1>8. InHand(r, t, D \union {c.do}, x, me.at, me.swap)
  <2> HIDE DEF me
  <2> QED BY <1>1, <1>3, <1>7 DEF InHand
<1>9. me.stream = Streaming(done \union {c})
  <2>1. Streaming(done \union {c}) = Streaming(done)
    BY <1>1, StreamingNext
  <2> QED
    BY <1>3, <2>1
<1>10. After(r, t, done \union {c}) = [dirs |-> dirs, files |-> files]
  <2>1. c.do \notin {"make", "create", "commit", "remove"}
    BY <1>1
  <2>2. NextDirs(c) = dirs /\ NextFiles(r, t, c) = files
    BY <2>1 DEF NextDirs, NextFiles
  <2>3. After(r, t, done \union {c}) = [dirs |-> NextDirs(c), files |-> NextFiles(r, t, c)]
    BY <1>5, <2>1, AfterNext DEF D
  <2> QED
    BY <2>2, <2>3
<1>11. Tree' = [dirs |-> dirs, files |-> files]
  BY <1>1, TreeNext
<1> HIDE DEF me, you
<1>12. Holds(you, done \union {c})
  BY <1>2, <1>4, <1>8, <1>9, HoldsNext DEF D
<1> QED
  BY <1>10, <1>11, <1>12 DEF you

LEMMA MeasureWorks ==
    ASSUME FileTypes, NEW s \in Sessions, NEW r, NEW t, NEW done, NEW c, Undertakes(s, r, t, done, c), Measure(s)
    PROVE  Tree' = After(r, t, done \union {c}) /\ Holds(sessions'[s], done \union {c})
<1> DEFINE me == sessions[s] you == sessions'[s] g == Goal(r) D == Deed(done)
<1>1. c.do = "measure" /\ UNCHANGED <<dirs, files>> /\ c = Current(s)
  BY DEF Measure, Does, Undertakes
<1> DEFINE x == Len(files[Current(s).path])
<1>2. Keeps(you, me) /\ Hands(you, me.bytes, x, me.stream, me.swap)
  BY MeasureStep
<1>3. InHand(r, t, D, me.bytes, me.at, me.swap) /\ me.stream = Streaming(done)
  BY NowInHand
<1>4. r = me.request /\ t = me.before
  BY DEF Undertakes
<1>5. /\ TreeOf(r, t, done) /\ "remove" \notin D /\ Follows(r, done, c) /\ Sound(Tree) /\ Sound(t)
      /\ \A y \in done : Allows(t, y)
  BY DEF Undertakes, Standing
<1>6. c.path = g /\ Ready(r, done) /\ "commit" \notin D
  BY <1>1, <1>5 DEF Follows, Writes
<1>7. x = Len(OldContent(r, t))
  <2>1. g \in DOMAIN files
    BY <1>5, <1>6, GoalIsThere DEF IsFile
  <2>2. files[g] = OldContent(r, t)
    BY <1>5, <1>6, <2>1, FilesSoFar
  <2> QED
    BY <1>1, <1>6, <2>2
<1> HIDE DEF D, x
<1>8. InHand(r, t, D \union {c.do}, me.bytes, x, me.swap)
  <2> HIDE DEF me
  <2> QED BY <1>1, <1>3, <1>7 DEF InHand
<1>9. me.stream = Streaming(done \union {c})
  <2>1. Streaming(done \union {c}) = Streaming(done)
    BY <1>1, StreamingNext
  <2> QED
    BY <1>3, <2>1
<1>10. After(r, t, done \union {c}) = [dirs |-> dirs, files |-> files]
  <2>1. c.do \notin {"make", "create", "commit", "remove"}
    BY <1>1
  <2>2. NextDirs(c) = dirs /\ NextFiles(r, t, c) = files
    BY <2>1 DEF NextDirs, NextFiles
  <2>3. After(r, t, done \union {c}) = [dirs |-> NextDirs(c), files |-> NextFiles(r, t, c)]
    BY <1>5, <2>1, AfterNext DEF D
  <2> QED
    BY <2>2, <2>3
<1>11. Tree' = [dirs |-> dirs, files |-> files]
  BY <1>1, TreeNext
<1> HIDE DEF me, you
<1>12. Holds(you, done \union {c})
  BY <1>2, <1>4, <1>8, <1>9, HoldsNext DEF D
<1> QED
  BY <1>10, <1>11, <1>12 DEF you

LEMMA OpenWorks ==
    ASSUME FileTypes, NEW s \in Sessions, NEW r, NEW t, NEW done, NEW c, Undertakes(s, r, t, done, c), OpenStream(s)
    PROVE  Tree' = After(r, t, done \union {c}) /\ Holds(sessions'[s], done \union {c})
<1> DEFINE me == sessions[s] you == sessions'[s] g == Goal(r) D == Deed(done)
<1>1. c.do \in {"replace", "edit"} /\ UNCHANGED <<dirs, files>> /\ c = Current(s)
  BY DEF OpenStream, Does, Undertakes
<1> DEFINE x == (IF Current(s).do = "edit" THEN files[Current(s).path] ELSE <<>>) on == TRUE
<1>2. Keeps(you, me) /\ Hands(you, me.bytes, me.at, on, x)
  BY OpenStep
<1>3. InHand(r, t, D, me.bytes, me.at, me.swap) /\ me.stream = Streaming(done)
  BY NowInHand
<1>4. r = me.request /\ t = me.before
  BY DEF Undertakes
<1>5. /\ TreeOf(r, t, done) /\ "remove" \notin D /\ Follows(r, done, c) /\ Sound(Tree) /\ Sound(t)
      /\ \A y \in done : Allows(t, y)
  BY DEF Undertakes, Standing
<1>6. c.path = g /\ Ready(r, done) /\ "commit" \notin D /\ D \intersect {"replace", "edit", "fill"} = {}
  BY <1>1, <1>5 DEF Follows, Writes
<1>7. x = IF c.do = "edit" THEN OldContent(r, t) ELSE <<>>
  <2>1. g \in DOMAIN files
    BY <1>5, <1>6, GoalIsThere DEF IsFile
  <2>2. files[g] = OldContent(r, t)
    BY <1>5, <1>6, <2>1, FilesSoFar
  <2> QED
    BY <1>1, <1>6, <2>2
<1>9. on = Streaming(done \union {c})
  BY <1>1, <1>6, StreamingNext
<1> HIDE DEF D, x, on
<1>8. InHand(r, t, D \union {c.do}, me.bytes, me.at, x)
  <2> HIDE DEF me
  <2> QED BY <1>1, <1>3, <1>6, <1>7 DEF InHand
<1>10. After(r, t, done \union {c}) = [dirs |-> dirs, files |-> files]
  <2>1. c.do \notin {"make", "create", "commit", "remove"}
    BY <1>1
  <2>2. NextDirs(c) = dirs /\ NextFiles(r, t, c) = files
    BY <2>1 DEF NextDirs, NextFiles
  <2>3. After(r, t, done \union {c}) = [dirs |-> NextDirs(c), files |-> NextFiles(r, t, c)]
    BY <1>5, <2>1, AfterNext DEF D
  <2> QED
    BY <2>2, <2>3
<1>11. Tree' = [dirs |-> dirs, files |-> files]
  BY <1>1, TreeNext
<1> HIDE DEF me, you
<1>12. Holds(you, done \union {c})
  BY <1>2, <1>4, <1>8, <1>9, HoldsNext DEF D
<1> QED
  BY <1>10, <1>11, <1>12 DEF you

(* What is written is the content the request asks for. *)
LEMMA FilledIs ==
    ASSUME NEW r \in Requests, NEW t, Sound(t), NEW D, NEW bytes, NEW at, NEW swap, InHand(r, t, D, bytes, at, swap),
           Prepared(r, D), "fill" \notin D, "commit" \notin D, bytes \in Seq(Int)
    PROVE  Overwritten(swap, IF r.call \in {"append", "update"} THEN at ELSE 0, bytes) = Content(r, t)
<1> DEFINE old == OldContent(r, t)
<1>1. old \in Seq(Int) /\ r.data \in Seq(Int) /\ r.offset \in Nat /\ <<>> \in Seq(Int)
  <2>1. r.data \in Seq(Int) /\ r.offset \in Nat
    BY FilesAssumption
  <2>2. \A p \in DOMAIN t.files : t.files[p] \in Seq(Int)
    BY DEF Sound
  <2>3. <<>> \in Seq(Int)
    OBVIOUS
  <2> QED
    BY <2>1, <2>2, <2>3 DEF OldContent, Kept
<1> HIDE DEF old
<1>2. swap = IF "edit" \in D THEN old ELSE <<>>
  BY DEF InHand, Prepared, old
<1>3. CASE r.call = "write"
  <2>1. swap = <<>> /\ bytes = r.data
    BY <1>2, <1>3 DEF Prepared, InHand
  <2>2. Overwritten(swap, 0, bytes) = r.data
    BY <1>1, <2>1, OverwrittenIs
  <2> QED
    BY <1>3, <2>2 DEF Content
<1>4. CASE r.call \in {"copy", "move"}
  <2>1. swap = <<>> /\ bytes = t.files[r.path]
    BY <1>2, <1>4 DEF Prepared, InHand
  <2>2. t.files[r.path] \in Seq(Int)
    BY <2>1
  <2>3. Overwritten(swap, 0, bytes) = t.files[r.path]
    BY <1>1, <2>1, <2>2, OverwrittenIs
  <2> QED
    BY <1>4, <2>3 DEF Content
<1>5. CASE r.call = "append"
  <2>1. swap = old /\ bytes = r.data /\ at = Len(old)
    BY <1>2, <1>5 DEF Prepared, InHand, old
  <2>2. Overwritten(old, Len(old), r.data) = old \o r.data
    BY <1>1, AppendedIs
  <2> QED
    BY <1>5, <2>1, <2>2 DEF Content, old
<1>6. CASE r.call = "update"
  <2>1. swap = old /\ bytes = r.data /\ at = r.offset
    BY <1>2, <1>6 DEF Prepared, InHand, old
  <2> QED
    BY <1>6, <2>1 DEF Content, old
<1> QED
  BY <1>3, <1>4, <1>5, <1>6 DEF Prepared

LEMMA FillWorks ==
    ASSUME FileTypes, NEW s \in Sessions, NEW r, NEW t, NEW done, NEW c, Undertakes(s, r, t, done, c), Fill(s)
    PROVE  Tree' = After(r, t, done \union {c}) /\ Holds(sessions'[s], done \union {c})
<1> DEFINE me == sessions[s] you == sessions'[s] g == Goal(r) D == Deed(done)
<1>1. c.do = "fill" /\ UNCHANGED <<dirs, files>> /\ c = Current(s)
  BY DEF Fill, Does, Undertakes
<1> DEFINE x == Overwritten(me.swap, IF me.request.call \in {"append", "update"} THEN me.at ELSE 0, me.bytes)
<1>2. Keeps(you, me) /\ Hands(you, me.bytes, me.at, me.stream, x)
  BY FillStep
<1>3. InHand(r, t, D, me.bytes, me.at, me.swap) /\ me.stream = Streaming(done)
  BY NowInHand
<1>4. r = me.request /\ t = me.before
  BY DEF Undertakes
<1>5. /\ TreeOf(r, t, done) /\ "remove" \notin D /\ Follows(r, done, c) /\ Sound(Tree) /\ Sound(t)
      /\ \A y \in done : Allows(t, y)
  BY DEF Undertakes, Standing
<1>6. "commit" \notin D /\ "fill" \notin D /\ Prepared(r, D)
  BY <1>1, <1>5 DEF Follows, Writes
<1>7. x = Content(r, t)
  <2>1. r \in Requests
    BY DEF Undertakes
  <2>2. me.bytes \in Seq(Int)
    BY DEF FileTypes, IsSession
  <2> HIDE DEF D, me
  <2> QED
    BY <1>3, <1>4, <1>5, <1>6, <2>1, <2>2, FilledIs DEF x
<1> HIDE DEF D, x
<1>8. InHand(r, t, D \union {c.do}, me.bytes, me.at, x)
  <2> HIDE DEF me
  <2> QED BY <1>1, <1>3, <1>6, <1>7 DEF InHand
<1>9. me.stream = Streaming(done \union {c})
  <2>1. Streaming(done \union {c}) = Streaming(done)
    BY <1>1, StreamingNext
  <2> QED
    BY <1>3, <2>1
<1>10. After(r, t, done \union {c}) = [dirs |-> dirs, files |-> files]
  <2>1. c.do \notin {"make", "create", "commit", "remove"}
    BY <1>1
  <2>2. NextDirs(c) = dirs /\ NextFiles(r, t, c) = files
    BY <2>1 DEF NextDirs, NextFiles
  <2>3. After(r, t, done \union {c}) = [dirs |-> NextDirs(c), files |-> NextFiles(r, t, c)]
    BY <1>5, <2>1, AfterNext DEF D
  <2> QED
    BY <2>2, <2>3
<1>11. Tree' = [dirs |-> dirs, files |-> files]
  BY <1>1, TreeNext
<1> HIDE DEF me, you
<1>12. Holds(you, done \union {c})
  BY <1>2, <1>4, <1>8, <1>9, HoldsNext DEF D
<1> QED
  BY <1>10, <1>11, <1>12 DEF you

LEMMA CommitWorks ==
    ASSUME FileTypes, NEW s \in Sessions, NEW r, NEW t, NEW done, NEW c, Undertakes(s, r, t, done, c), Commit(s)
    PROVE  Tree' = After(r, t, done \union {c}) /\ Holds(sessions'[s], done \union {c})
<1> DEFINE me == sessions[s] you == sessions'[s] g == Goal(r) D == Deed(done)
<1>1. /\ c.do = "commit" /\ dirs' = dirs /\ c = Current(s)
      /\ files' = [files EXCEPT ![c.path] = me.swap]
  BY DEF Commit, Does, Undertakes
<1> DEFINE off == FALSE
<1>2. Keeps(you, me) /\ Hands(you, me.bytes, me.at, off, <<>>)
  BY CommitStep
<1>3. InHand(r, t, D, me.bytes, me.at, me.swap) /\ me.stream = Streaming(done)
  BY NowInHand
<1>4. r = me.request /\ t = me.before
  BY DEF Undertakes
<1>5. /\ TreeOf(r, t, done) /\ "remove" \notin D /\ Follows(r, done, c) /\ Sound(Tree) /\ Sound(t)
      /\ \A x \in done : Allows(t, x)
  BY DEF Undertakes, Standing
<1>6. c.path = g /\ Ready(r, done) /\ "commit" \notin D /\ "fill" \in D /\ Prepared(r, D)
  BY <1>1, <1>5 DEF Follows, Writes
<1>7. me.swap = Content(r, t)
  <2> HIDE DEF D, me
  <2>1. D \intersect {"replace", "edit"} # {}
    BY <1>6 DEF Prepared
  <2> QED
    BY <1>3, <1>6, <2>1 DEF InHand
<1>8. InHand(r, t, D \union {c.do}, me.bytes, me.at, <<>>)
  <2> HIDE DEF D, me
  <2> QED BY <1>1, <1>3 DEF InHand
<1>9. off = Streaming(done \union {c})
  BY <1>1, StreamingNext
<1> HIDE DEF off
<1>10. files' = Put(t.files, g, Content(r, t))
  <2> DEFINE x == Content(r, t)
  <2>1. g \in DOMAIN files
    BY <1>5, <1>6, GoalIsThere DEF IsFile
  <2>2. /\ \A p \in DOMAIN t.files : p \in DOMAIN files
        /\ \A p : p \in DOMAIN files => p \in DOMAIN t.files \/ p = g
        /\ \A p \in DOMAIN t.files : p # g => files[p] = t.files[p]
    BY <1>5, FilesSoFar
  <2>3. files' = [files EXCEPT ![g] = x]
    BY <1>1, <1>6, <1>7
  <2> HIDE DEF x, g
  <2>4. DOMAIN files = DOMAIN t.files \union {g}
    BY <2>1, <2>2
  <2>5. files' = [p \in DOMAIN files |-> IF p = g THEN x ELSE files[p]]
    BY <2>3
  <2>6. files' = [p \in DOMAIN t.files \union {g} |-> IF p = g THEN x ELSE t.files[p]]
    BY <2>2, <2>4, <2>5
  <2> QED
    BY <2>6 DEF Put, x
<1>11. After(r, t, done \union {c}) = [dirs |-> dirs, files |-> Put(t.files, g, Content(r, t))]
  <2>1. NextDirs(c) = dirs /\ NextFiles(r, t, c) = Put(t.files, g, Content(r, t))
    BY <1>1 DEF NextDirs, NextFiles
  <2>2. After(r, t, done \union {c}) = [dirs |-> NextDirs(c), files |-> NextFiles(r, t, c)]
    BY <1>1, <1>5, AfterNext
  <2> QED
    BY <2>1, <2>2
<1>12. Tree' = [dirs |-> dirs, files |-> files']
  BY <1>1, TreeNext
<1> HIDE DEF me, you
<1>13. Holds(you, done \union {c})
  BY <1>2, <1>4, <1>8, <1>9, HoldsNext DEF D
<1> QED
  BY <1>10, <1>11, <1>12, <1>13 DEF you

LEMMA RemoveWorks ==
    ASSUME FileTypes, NEW s \in Sessions, NEW r, NEW t, NEW done, NEW c, Undertakes(s, r, t, done, c), RemoveEntry(s)
    PROVE  Tree' = After(r, t, done \union {c}) /\ Holds(sessions'[s], done \union {c})
<1> DEFINE me == sessions[s] you == sessions'[s] g == Goal(r) D == Deed(done)
<1>1. /\ c.do = "remove" /\ c = Current(s)
      /\ dirs' = {p \in dirs : ~IsPrefix(c.path, p)}
      /\ files' = [p \in {q \in DOMAIN files : ~IsPrefix(c.path, q)} |-> files[p]]
  BY DEF RemoveEntry, Does, Undertakes
<1>2. Keeps(you, me) /\ Hands(you, me.bytes, me.at, me.stream, me.swap)
  BY LookStep
<1>3. InHand(r, t, D, me.bytes, me.at, me.swap) /\ me.stream = Streaming(done)
  BY NowInHand
<1>4. r = me.request /\ t = me.before
  BY DEF Undertakes
<1>5. /\ TreeOf(r, t, done) /\ "remove" \notin D /\ Follows(r, done, c) /\ Sound(Tree) /\ Sound(t)
      /\ \A x \in done : Allows(t, x)
  BY DEF Undertakes, Standing
<1>6. c.path = r.path
  BY <1>1, <1>5 DEF Follows, Removes
<1>7. InHand(r, t, D \union {c.do}, me.bytes, me.at, me.swap)
  <2> HIDE DEF D, me
  <2> QED BY <1>1, <1>3 DEF InHand
<1>8. me.stream = Streaming(done \union {c})
  <2>1. Streaming(done \union {c}) = Streaming(done)
    BY <1>1, StreamingNext
  <2> QED
    BY <1>3, <2>1
<1>9. After(r, t, done \union {c}) = Without([dirs |-> dirs, files |-> files], r.path)
  <2> DEFINE x == Without([dirs |-> dirs, files |-> files], r.path) y == [dirs |-> NextDirs(c), files |-> NextFiles(r, t, c)]
  <2>1. c.do = "create" => "commit" \notin D
    BY <1>1
  <2>2. After(r, t, done \union {c}) = IF c.do = "remove" THEN x ELSE y
    BY <1>5, <2>1, AfterNext
  <2> HIDE DEF x, y
  <2> QED
    BY <1>1, <2>2 DEF x
<1>10. Without([dirs |-> dirs, files |-> files], r.path) = [dirs |-> dirs', files |-> files']
  BY <1>1, <1>6 DEF Without
<1>11. Tree' = [dirs |-> dirs', files |-> files']
  BY TreeNext
<1> HIDE DEF me, you
<1>12. Holds(you, done \union {c})
  BY <1>2, <1>4, <1>7, <1>8, HoldsNext DEF D
<1> QED
  BY <1>9, <1>10, <1>11, <1>12 DEF you

(* ---- The course of an operation ---- *)

Course(s, done) ==
    LET me == sessions[s] r == me.request
    IN  /\ r \in Requests /\ (r.call \in {"write", "append", "update"} => r.sound)
        /\ leaked = {} /\ Writers \subseteq {s}
        /\ OnCourse(me, done)

(* With its next call c. *)
LEMMA CourseStands ==
    ASSUME TreeInv, NEW s \in Sessions, NEW r, NEW t, NEW done, NEW c, Course(s, done), sessions[s].todo # <<>>,
           r = sessions[s].request, t = sessions[s].before, c = Current(s)
    PROVE  /\ Undertakes(s, r, t, done, c)
           /\ Orderly(r, done \union {c}, Tail(sessions[s].todo))
           /\ c \in Calls /\ Range(sessions[s].todo) = {c} \union Range(Tail(sessions[s].todo))
<1> DEFINE me == sessions[s]
<1>1. OnCourse(me, done)
  BY DEF Course
<1>2. /\ Sound(t) /\ Orderly(r, done, me.todo) /\ \A x \in done : Allows(t, x)
      /\ Tree = After(r, t, done) /\ Holds(me, done)
  BY <1>1 DEF OnCourse
<1>3. me.todo \in Seq(Calls) /\ Sound(Tree)
  BY DEF TreeInv
<1>4. c = Head(me.todo)
  BY DEF Current
<1>5. /\ c \in Calls /\ Range(me.todo) = {c} \union Range(Tail(me.todo))
      /\ Follows(r, done, c) /\ Orderly(r, done \union {c}, Tail(me.todo))
  <2> DEFINE todo == me.todo
  <2>1. todo \in Seq(Calls) /\ todo # <<>> /\ c = Head(todo) /\ Orderly(r, done, todo)
    BY <1>2, <1>3, <1>4
  <2> HIDE DEF todo
  <2>2. /\ Head(todo) \in Calls
        /\ Range(todo) = {Head(todo)} \union Range(Tail(todo))
    BY <2>1, OrderlyTail
  <2>3. Follows(r, done, Head(todo)) /\ Orderly(r, done \union {Head(todo)}, Tail(todo))
    BY <2>1, OrderlyTail
  <2>4. /\ c \in Calls /\ Range(todo) = {c} \union Range(Tail(todo))
        /\ Follows(r, done, c) /\ Orderly(r, done \union {c}, Tail(todo))
    BY <2>1, <2>2, <2>3
  <2> QED
    BY <2>4 DEF todo
<1>6. "remove" \notin Deed(done)
  BY <1>5 DEF Follows, Removes
<1>7. TreeOf(r, t, done)
  BY <1>2, <1>6, TreeSoFar
<1>8. r \in Requests /\ r.path \in Path /\ Goal(r) \in Path
  BY PathsAsked DEF Course
<1>9. me.stream = Streaming(done)
  BY <1>2, HoldsIs
<1>10. leaked = {} /\ Writers \subseteq {s}
  BY DEF Course
<1>11. Standing(s, r, t, done)
  BY <1>2, <1>3, <1>5, <1>6, <1>7, <1>8, <1>9, <1>10 DEF Standing
<1> QED
  BY <1>2, <1>5, <1>8, <1>11 DEF Undertakes

(* Every call does its deed. *)
LEMMA WorkDone ==
    ASSUME FileTypes, NEW s \in Sessions, NEW r, NEW t, NEW done, NEW c, Undertakes(s, r, t, done, c), Works(s)
    PROVE  Tree' = After(r, t, done \union {c}) /\ Holds(sessions'[s], done \union {c})
  BY LookWorks, MakeWorks, CreateWorks, LoadWorks, MeasureWorks, OpenWorks, FillWorks, CommitWorks, RemoveWorks DEF Works

(* Nobody but s starts to write in a step of s. *)
LEMMA WritersNext ==
    ASSUME FileTypes, NEW s \in Sessions, Starts(s) \/ Works(s) \/ Halts(s)
    PROVE  \A u \in Sessions \ {s} : u \in Writers' => u \in Writers
<1>1. PICK next, d : GoesOn(s, next, d)
  BY GoesOnSome
<1>2. \A u \in Sessions \ {s} : sessions'[u].stream = sessions[u].stream
  BY <1>1, OthersGoOn
<1> QED
  BY <1>2 DEF Writers

(* A session keeps to its course when its parts do. *)
LEMMA CourseNext ==
    ASSUME NEW s, NEW r, NEW t, NEW e, sessions'[s].request = r, sessions'[s].before = t,
           r \in Requests, r.call \in {"write", "append", "update"} => r.sound,
           leaked' = {}, Writers' \subseteq {s},
           Sound(t), Orderly(r, e, sessions'[s].todo), OneOf(r, e, sessions'[s].todo), \A c \in e : Allows(t, c),
           Tree' = After(r, t, e), Holds(sessions'[s], e),
           (faults' = 0 /\ r.call \in {"stat", "exists"} /\ "open" \notin Deed(e \union Range(sessions'[s].todo)))
                => ~Kept(t, r.path)
    PROVE  Course(s, e)'
<1>1. OnCourse(sessions[s], e)'
  BY DEF OnCourse
<1> QED
  BY <1>1 DEF Course

(* A call keeps a session on its course. *)
LEMMA CourseWorks ==
    ASSUME FileTypes, TreeInv, NEW s \in Sessions, NEW done, Course(s, done), Works(s)
    PROVE  \E e : Course(s, e)'
<1>1. PICK r, t, c : r = sessions[s].request /\ t = sessions[s].before /\ c = Current(s)
  OBVIOUS
<1> DEFINE me == sessions[s] you == sessions'[s] e == done \union {c}
<1>2. Keeps(you, me) /\ Busy(s) /\ me.todo # <<>> /\ Possible(s)
  BY WorkKeeps
<1>3. /\ Undertakes(s, r, t, done, c) /\ Orderly(r, e, Tail(me.todo))
      /\ Range(me.todo) = {c} \union Range(Tail(me.todo))
  BY <1>1, <1>2, CourseStands
<1>4. Tree' = After(r, t, e) /\ Holds(you, e)
  BY <1>3, WorkDone
<1>5. Allows(t, c)
  BY <1>1, <1>2, <1>3, PossibleIs DEF Undertakes
<1>6. OnCourse(me, done)
  BY DEF Course
<1>7. you.request = r /\ you.before = t /\ you.todo = Tail(me.todo)
  BY <1>1, <1>2 DEF Keeps, SameRequest
<1>8. \A x \in e : Allows(t, x)
  BY <1>1, <1>5, <1>6 DEF OnCourse
<1>9. e \union Range(you.todo) = done \union Range(me.todo)
  BY <1>3, <1>7
<1>10. leaked' = leaked /\ faults' = faults
  BY DEF Works, Look, Make, Create, Load, Measure, OpenStream, Fill, Commit, RemoveEntry
<1>11. Writers' \subseteq {s}
  <2>1. Writers \subseteq {s}
    BY DEF Course
  <2>2. Writers' \subseteq Sessions
    BY DEF Writers
  <2> QED
    BY <2>1, <2>2, WritersNext
<1> HIDE DEF e
<1>12. OneOf(r, e, you.todo)
  <2>1. OneOf(r, done, me.todo)
    BY <1>1, <1>6 DEF OnCourse
  <2> QED
    BY <1>9, <2>1 DEF OneOf
<1>13. (faults' = 0 /\ r.call \in {"stat", "exists"} /\ "open" \notin Deed(e \union Range(you.todo))) => ~Kept(t, r.path)
  <2>1. (faults = 0 /\ r.call \in {"stat", "exists"} /\ "open" \notin Deed(done \union Range(me.todo))) => ~Kept(t, r.path)
    BY <1>1, <1>6 DEF OnCourse
  <2> QED
    BY <1>9, <1>10, <2>1
<1>14. Sound(t) /\ r \in Requests /\ (r.call \in {"write", "append", "update"} => r.sound) /\ leaked' = {}
  BY <1>1, <1>6, <1>10 DEF OnCourse, Course
<1>15. Orderly(r, e, you.todo)
  BY <1>3, <1>7 DEF e
<1> QED
  BY <1>4, <1>7, <1>8, <1>11, <1>12, <1>13, <1>14, <1>15, CourseNext

(* ---- What comes of it ---- *)

(* No file that was in t is touched but the target of a move. *)
Untouched(r, t) ==
    \A p \in DOMAIN t.files :
        /\ IsFile(p)
        /\ files[p] = t.files[p] \/ (r.call = "move" /\ p = r.to /\ files[p] = t.files[r.path])

Outcome(r, t, result, bytes) ==
    r.offset + r.len < Usize =>
        /\ faults = 0 => ((result = "ok") <=> Promised(r, t))
        /\ result = "ok" =>
                /\ Tree = Effect(r, t)
                /\ r.call \in {"read", "hash", "range"} => bytes = Answer(r, t)
        /\ result # "ok" => Untouched(r, t)

Solo(s) ==
    LET me == sessions[s]
    IN  me.alone =>
            /\ Busy(s) => \E done : Course(s, done)
            /\ Ended(me) => Outcome(me.request, me.before, me.result, me.bytes)

(* What holds of every session that was left alone is what the documentation promises. *)
LEMMA SoloIs == (\A s \in Sessions : Solo(s)) => AsIfAlone
<1> SUFFICES ASSUME \A s \in Sessions : Solo(s), NEW s \in Sessions, sessions[s].alone, Ended(sessions[s]),
                    sessions[s].request.offset + sessions[s].request.len < Usize
             PROVE  LET me == sessions[s] r == me.request
                    IN  /\ faults = 0 => ((me.result = "ok") <=> Promised(r, me.before))
                        /\ me.result = "ok" =>
                                /\ Tree = Effect(r, me.before)
                                /\ r.call \in {"read", "hash", "range"} => me.bytes = Answer(r, me.before)
                        /\ me.result # "ok" =>
                                \A p \in DOMAIN me.before.files :
                                    /\ IsFile(p)
                                    /\ \/ files[p] = me.before.files[p]
                                       \/ r.call = "move" /\ p = r.to /\ files[p] = me.before.files[r.path]
  BY DEF AsIfAlone
<1> DEFINE r == sessions[s].request t == sessions[s].before result == sessions[s].result bytes == sessions[s].bytes
<1>1. Outcome(r, t, result, bytes)
  BY DEF Solo
<1>2. r.offset + r.len < Usize
  OBVIOUS
<1> HIDE DEF r, t, result, bytes
<1>3. /\ faults = 0 => ((result = "ok") <=> Promised(r, t))
      /\ result = "ok" => Tree = Effect(r, t) /\ (r.call \in {"read", "hash", "range"} => bytes = Answer(r, t))
      /\ result # "ok" => Untouched(r, t)
  BY <1>1, <1>2, Zenon DEF Outcome
<1>4. /\ faults = 0 => ((result = "ok") <=> Promised(r, t))
      /\ result = "ok" => Tree = Effect(r, t) /\ (r.call \in {"read", "hash", "range"} => bytes = Answer(r, t))
      /\ result # "ok" =>
            \A p \in DOMAIN t.files :
                /\ IsFile(p)
                /\ \/ files[p] = t.files[p]
                   \/ r.call = "move" /\ p = r.to /\ files[p] = t.files[r.path]
  BY <1>3, Zenon DEF Untouched
<1> QED
  BY <1>4, Zenon DEF r, t, result, bytes

(* A session that ends without success. *)
LEMMA FailsWell ==
    ASSUME NEW s \in Sessions, NEW r, NEW t, NEW x, sessions'[s].request = r, sessions'[s].before = t,
           sessions'[s].result = x, x # "ok", x # "busy",
           Untouched(r, t), files' = files, faults' = 0 => ~Promised(r, t)
    PROVE  Solo(s)'
<1>1. Untouched(r, t)'
  BY DEF Untouched, IsFile
<1>2. ~Busy(s)'
  BY DEF Busy
<1> DEFINE bytes == sessions'[s].bytes
<1>3. (r.offset + r.len < Usize =>
        /\ faults' = 0 => ((x = "ok") <=> Promised(r, t))
        /\ x = "ok" =>
                /\ Tree' = Effect(r, t)
                /\ r.call \in {"read", "hash", "range"} => bytes = Answer(r, t)
        /\ x # "ok" => Untouched(r, t)')
  BY <1>1
<1> QED
  BY <1>2, <1>3 DEF Solo, Outcome

(* Nothing is done yet. *)
LEMMA AtFirst ==
    ASSUME NEW r, NEW t, Sound(t), NEW done, Deed(done) \subseteq {"enter"}
    PROVE  After(r, t, done) = t /\ Streaming(done) = FALSE
<1>1. Made(done) = {}
  <2>1. \A x \in done : x.do # "make"
    BY DEF Deed
  <2> QED
    BY <2>1 DEF Made
<1>2. After(r, t, done) = [dirs |-> t.dirs \union Made(done), files |-> t.files]
  <2> DEFINE made == t.dirs \union Made(done)
             D == Deed(done)
             grown == [dirs |-> made, files |-> t.files]
             written == [dirs |-> made, files |-> Put(t.files, Goal(r), Content(r, t))]
  <2>1. /\ D \intersect {"remove", "commit", "create"} = {} => After(r, t, done) = grown
        /\ D \intersect {"remove", "commit", "create"} = {"remove"} => After(r, t, done) = Without(grown, r.path)
        /\ "commit" \in D /\ "remove" \notin D => After(r, t, done) = written
        /\ "commit" \in D /\ "remove" \in D => After(r, t, done) = Without(written, r.path)
    BY AfterIs
  <2>2. D \intersect {"remove", "commit", "create"} = {}
    OBVIOUS
  <2> QED
    BY <2>1, <2>2
<1>3. t = [dirs |-> t.dirs, files |-> t.files]
  BY DEF Sound
<1>4. t.dirs \union Made(done) = t.dirs
  BY <1>1
<1>5. Deed(done) \intersect {"replace", "edit"} = {}
  OBVIOUS
<1>6. After(r, t, done) = t
  BY <1>2, <1>3, <1>4
<1>7. Streaming(done) = FALSE
  BY <1>5 DEF Streaming
<1> QED
  BY <1>6, <1>7

LEMMA InHandAtFirst ==
    ASSUME NEW r, NEW t, NEW D, D \subseteq {"enter"}, NEW bytes, NEW at, NEW swap
    PROVE  InHand(r, t, D, bytes, at, swap) <=> bytes = r.data /\ at = r.offset
<1>1. "load" \notin D /\ "measure" \notin D /\ D \intersect {"replace", "edit"} = {}
  OBVIOUS
<1>2. ~("load" \in D) /\ ~("measure" \in D) /\ ~(D \intersect {"replace", "edit"} # {} /\ "commit" \notin D)
  BY <1>1
<1> QED
  BY <1>2, Zenon DEF InHand

LEMMA NothingDone == Deed({}) = {} /\ Deed({}) \subseteq {"enter"}
  BY DEF Deed

(* Every step of its own keeps the promise to a session. *)
LEMMA StartsSolo ==
    ASSUME SoundRequests, FileTypes, TreeInv, NEW s \in Sessions, NEW r \in Requests, Start(s, r)
    PROVE  Solo(s)'
<1>1. PICK t : t = Tree
  OBVIOUS
<1> DEFINE refused == ~r.sound /\ r.call \in {"write", "append", "update"} you == sessions'[s]
<1>2. /\ you.request = r /\ you.before = t /\ you.todo = (IF refused THEN <<>> ELSE Plan(r))
      /\ you.result = (IF refused THEN "E_INVALID_ENCODING" ELSE "busy")
      /\ you.bytes = r.data /\ you.at = r.offset /\ you.stream = FALSE
      /\ you.alone => Writers = {} /\ leaked = {}
  BY <1>1, StartIs
<1>3. dirs' = dirs /\ files' = files /\ leaked' = leaked
  BY DEF Start
<1>4. Sound(t) /\ Tree' = t
  BY <1>1, <1>3 DEF TreeInv, Tree
<1>5. CASE refused
  <2>1. ~Promised(r, t)
    <3>1. ~r.sound /\ r.call \in {"write", "append", "update"}
      BY <1>5
    <3> QED
      BY <3>1, <1>4, PromisedIs
  <2>2. Untouched(r, t)
    BY <1>1 DEF Untouched, Tree, IsFile
  <2>3. you.result = "E_INVALID_ENCODING"
    BY <1>2, <1>5
  <2> QED
    BY <1>2, <1>3, <2>1, <2>2, <2>3, FailsWell
<1>6. CASE ~refused
  <2>1. you.todo = Plan(r) /\ you.result = "busy" /\ (r.call \in {"write", "append", "update"} => r.sound)
    BY <1>2, <1>6
  <2> HIDE DEF refused
  <2> SUFFICES ASSUME you.alone PROVE Course(s, {})'
    BY <2>1 DEF Solo, Ended
  <2>2. Planned(r, Plan(r), Needs(r))
    BY PlanIs
  <2>3. Orderly(r, {}, you.todo)
    BY <2>1, <2>2 DEF Planned
  <2>4. OneOf(r, {}, you.todo)
    BY <2>1 DEF OneOf
  <2>5. Tree' = After(r, t, {})
    BY <1>4, AtFirst, NothingDone
  <2>6. Holds(you, {})
    <3>1. InHand(r, t, Deed({}), you.bytes, you.at, you.swap)
      BY <1>2, InHandAtFirst, NothingDone
    <3>2. you.stream = Streaming({})
      BY <1>2, <1>4, AtFirst, NothingDone
    <3> QED
      BY <1>2, <3>1, <3>2, HoldsIs
  <2>7. (faults' = 0 /\ r.call \in {"stat", "exists"} /\ "open" \notin Deed({} \union Range(you.todo))) => ~Kept(t, r.path)
    <3> SUFFICES ASSUME r.call \in {"stat", "exists"} PROVE "open" \in Deed({} \union Range(you.todo))
      OBVIOUS
    <3>1. Needs(r) = Reading(r.path)
      BY DEF Needs
    <3>2. Range(you.todo) = Reading(r.path)
      BY <2>1, <2>2, <3>1 DEF Planned
    <3>3. Call("open", r.path) \in {} \union Range(you.todo)
      BY <3>2, DeedsOfNeeds
    <3> HIDE DEF you
    <3> QED
      BY <3>3, DoneDeeds
  <2>8. Writers' \subseteq {s}
    <3>1. Writers' \subseteq Sessions
      BY DEF Writers
    <3>2. \A u \in Sessions \ {s} : u \in Writers' => u \in Writers
      BY WritersNext DEF Starts
    <3> QED
      BY <1>2, <3>1, <3>2
  <2>9. leaked' = {}
    BY <1>2, <1>3
  <2>10. \A c \in {} : Allows(t, c)
    OBVIOUS
  <2> QED
    BY <1>2, <1>4, <2>1, <2>3, <2>4, <2>5, <2>6, <2>7, <2>8, <2>9, <2>10, CourseNext
<1> QED
  BY <1>5, <1>6

(* An operation that still has a call to make has touched no file but those it may. *)
LEMMA StillUntouched ==
    ASSUME NEW s \in Sessions, NEW r, NEW t, NEW done, NEW c, Undertakes(s, r, t, done, c)
    PROVE  Untouched(r, t)
<1>1. TreeOf(r, t, done) /\ Follows(r, done, c)
  BY DEF Undertakes, Standing
<1>2. "commit" \in Deed(done) => r.call = "move"
  BY <1>1 DEF Follows, Removes
<1> SUFFICES ASSUME NEW p \in DOMAIN t.files
             PROVE  /\ IsFile(p)
                    /\ files[p] = t.files[p] \/ (r.call = "move" /\ p = r.to /\ files[p] = t.files[r.path])
  BY DEF Untouched
<1>3. IsFile(p)
  BY <1>1, FilesSoFar DEF IsFile
<1>4. p # Goal(r) => files[p] = t.files[p]
  BY <1>1, FilesSoFar
<1>5. p = Goal(r) /\ "commit" \notin Deed(done) => files[p] = t.files[p]
  <2>1. "commit" \notin Deed(done) /\ Goal(r) \in DOMAIN files => files[Goal(r)] = OldContent(r, t)
    BY <1>1, FilesSoFar
  <2>2. p = Goal(r) => OldContent(r, t) = t.files[p]
    BY DEF OldContent, Kept
  <2> QED
    BY <1>3, <2>1, <2>2 DEF IsFile
<1>6. p = Goal(r) /\ "commit" \in Deed(done) => r.call = "move" /\ p = r.to /\ files[p] = t.files[r.path]
  <2>1. "commit" \in Deed(done) => files[Goal(r)] = Content(r, t)
    BY <1>1, FilesSoFar
  <2>2. r.call = "move" => Goal(r) = r.to /\ Content(r, t) = t.files[r.path]
    BY DEF Goal, Content
  <2> QED
    BY <1>2, <2>1, <2>2
<1> QED
  BY <1>3, <1>4, <1>5, <1>6

(* While the file is still looked for nothing is done. *)
LEMMA LookingIs ==
    ASSUME NEW S, NEW r, NEW done, NEW todo \in Seq(S), Orderly(r, done, todo), NEW i \in DOMAIN todo, todo[i].do = "open"
    PROVE  Deed(done) \subseteq {"enter"} /\ "open" \in Deed(Range(todo))
<1>1. i \in 1..Len(todo)
  OBVIOUS
<1> DEFINE before == {todo[j] : j \in 1..i - 1}
<1>2. Follows(r, done \union before, todo[i])
  BY <1>1 DEF Orderly
<1>3. Deed(done \union before) \subseteq {"enter"}
  BY <1>2 DEF Follows, Looks
<1>4. Deed(done) \subseteq {"enter"}
  BY <1>3 DEF Deed
<1>5. todo[i] \in Range(todo)
  BY <1>1 DEF Range
<1>6. "open" \in Deed(Range(todo))
  BY <1>5 DEF Deed
<1> QED
  BY <1>4, <1>6

LEMMA LookingAt ==
    ASSUME TreeInv, NEW s \in Sessions, NEW done, Course(s, done)
    PROVE  LET todo == sessions[s].todo
           IN  /\ Looking(s) => Deed(done) \subseteq {"enter"} /\ "open" \in Deed(Range(todo))
               /\ ~Looking(s) => "open" \notin Deed(Range(todo))
<1> DEFINE todo == sessions[s].todo
<1>1. todo \in Seq(Calls)
  BY DEF TreeInv
<1>2. Orderly(sessions[s].request, done, todo)
  BY DEF Course, OnCourse
<1>3. Looking(s) <=> \E i \in DOMAIN todo : todo[i].do = "open"
  BY DEF Looking
<1> HIDE DEF todo
<1>4. Looking(s) => Deed(done) \subseteq {"enter"} /\ "open" \in Deed(Range(todo))
  BY <1>1, <1>2, <1>3, LookingIs
<1>5. ~Looking(s) => "open" \notin Deed(Range(todo))
  <2> SUFFICES ASSUME "open" \in Deed(Range(todo)) PROVE \E i \in DOMAIN todo : todo[i].do = "open"
    BY <1>3
  <2>1. PICK x \in Range(todo) : x.do = "open"
    BY DEF Deed
  <2>2. PICK i \in DOMAIN todo : todo[i] = x
    BY DEF Range
  <2> QED
    BY <2>1, <2>2
<1> QED
  BY <1>4, <1>5 DEF todo

LEMMA StillAtFirst ==
    ASSUME NEW r, NEW t, NEW done, Sound(t), Deed(done) \subseteq {"enter"}
    PROVE  After(r, t, done) = t /\ After(r, t, {}) = t /\ Streaming(done) = FALSE /\ Streaming({}) = FALSE
<1>1. After(r, t, done) = t /\ Streaming(done) = FALSE
  BY AtFirst
<1>2. After(r, t, {}) = t /\ Streaming({}) = FALSE
  BY AtFirst, NothingDone
<1> QED
  BY <1>1, <1>2

(* Where nothing is done the operation may take its other plan. *)
LEMMA CourseAtFirst ==
    ASSUME NEW s \in Sessions, NEW r, NEW t, NEW done, Course(s, done), r = sessions[s].request, t = sessions[s].before,
           Deed(done) \subseteq {"enter"}
    PROVE  LET me == sessions[s]
           IN  /\ Tree = After(r, t, {}) /\ Sound(t)
               /\ r \in Requests /\ (r.call \in {"write", "append", "update"} => r.sound)
               /\ InHand(r, t, Deed({}), me.bytes, me.at, me.swap) /\ me.stream = Streaming({}) /\ me.stream = FALSE
<1> DEFINE me == sessions[s]
<1>1. OnCourse(me, done) /\ r \in Requests /\ (r.call \in {"write", "append", "update"} => r.sound)
  BY DEF Course
<1>2. Sound(t) /\ Tree = After(r, t, done) /\ Holds(me, done)
  BY <1>1 DEF OnCourse
<1>3. After(r, t, done) = t /\ After(r, t, {}) = t /\ Streaming(done) = FALSE /\ Streaming({}) = FALSE
  BY <1>2, StillAtFirst
<1>4. InHand(r, t, Deed(done), me.bytes, me.at, me.swap) /\ me.stream = Streaming(done)
  BY <1>2, HoldsIs
<1>5. me.bytes = r.data /\ me.at = r.offset
  BY <1>4, InHandAtFirst
<1>6. InHand(r, t, Deed({}), me.bytes, me.at, me.swap)
  BY <1>5, InHandAtFirst, NothingDone
<1> QED
  BY <1>1, <1>2, <1>3, <1>4, <1>6

(* The operation takes its second plan. *)
Turned(you, me, todo) ==
    /\ you.request = me.request /\ you.before = me.before /\ you.todo = todo /\ you.bytes = me.bytes /\ you.at = me.at
    /\ you.stream = me.stream /\ you.swap = me.swap /\ you.result = me.result

LEMMA TurnsSolo ==
    ASSUME TreeInv, NEW s \in Sessions, NEW r, NEW t, NEW done, Course(s, done), r = sessions[s].request, t = sessions[s].before,
           Busy(s), LooksTwice(r), Deed(done) \subseteq {"enter"},
           Turned(sessions'[s], sessions[s], SecondPlan(r)),
           Tree' = Tree, leaked' = {}, Writers' \subseteq {s},
           (faults' = 0 /\ r.call \in {"stat", "exists"}) => ~Kept(t, r.path)
    PROVE  Solo(s)'
<1> DEFINE me == sessions[s] you == sessions'[s]
<1>1. /\ Tree = After(r, t, {}) /\ Sound(t)
      /\ r \in Requests /\ (r.call \in {"write", "append", "update"} => r.sound)
      /\ InHand(r, t, Deed({}), me.bytes, me.at, me.swap) /\ me.stream = Streaming({})
  BY CourseAtFirst
<1>2. /\ you.request = r /\ you.before = t /\ you.todo = SecondPlan(r) /\ you.bytes = me.bytes /\ you.at = me.at
      /\ you.stream = me.stream /\ you.swap = me.swap /\ you.result = me.result
  BY DEF Turned
<1>3. Planned(r, SecondPlan(r), SecondNeeds(r))
  BY <1>1, SecondPlanIs
<1>4. Orderly(r, {}, you.todo) /\ OneOf(r, {}, you.todo)
  BY <1>2, <1>3 DEF Planned, OneOf
<1>5. Holds(you, {})
  <2>1. InHand(r, t, Deed({}), you.bytes, you.at, you.swap) /\ you.stream = Streaming({})
    BY <1>1, <1>2
  <2> QED
    BY <1>2, <2>1, HoldsIs
<1>6. \A c \in {} : Allows(t, c)
  OBVIOUS
<1>7. Course(s, {})'
  <2>1. (faults' = 0 /\ r.call \in {"stat", "exists"} /\ "open" \notin Deed({} \union Range(sessions'[s].todo))) => ~Kept(t, r.path)
    OBVIOUS
  <2>2. sessions'[s].request = r /\ sessions'[s].before = t /\ Tree' = After(r, t, {})
    BY <1>1, <1>2
  <2> HIDE DEF you
  <2> QED
    BY <1>1, <1>4, <1>5, <1>6, <2>1, <2>2, CourseNext DEF you
<1>8. you.result = "busy"
  BY <1>2 DEF Busy
<1> QED
  BY <1>7, <1>8 DEF Solo, Ended

(* What follows on a refusal or a fault: the second plan, or the end. *)
Turns(s, error) ==
    /\ Looking(s)
    /\ \/ sessions[s].request.call \in {"stat", "exists"}
       \/ sessions[s].request.call = "append" /\ error = "E_NOT_FOUND"
Failure(s, error) == IF sessions[s].request.call = "exists" THEN "absent" ELSE error

LEMMA InsteadTurns ==
    ASSUME FileTypes, NEW s \in Sessions, NEW error, Turns(s, error)
    PROVE  /\ LooksTwice(sessions[s].request)
           /\ Turned(Instead(s, error), sessions[s], SecondPlan(sessions[s].request))
<1> DEFINE me == sessions[s] r == me.request
<1>1. IsSession(me)
  BY DEF FileTypes
<1>2. CASE r.call \in {"stat", "exists"} /\ Looking(s)
  <2>1. Instead(s, error) = [me EXCEPT !.todo = ResolveDir(r.path)]
    BY <1>2 DEF Instead
  <2>2. SecondPlan(r) = ResolveDir(r.path) /\ LooksTwice(r)
    BY <1>2 DEF SecondPlan, LooksTwice
  <2> DEFINE todo == ResolveDir(r.path)
  <2> HIDE DEF todo
  <2>3. Turned([me EXCEPT !.todo = todo], me, todo)
    BY <1>1 DEF Turned, IsSession
  <2> QED
    BY <2>1, <2>2, <2>3 DEF todo
<1>3. CASE r.call = "append" /\ error = "E_NOT_FOUND" /\ Looking(s)
  <2>1. Instead(s, error) = [me EXCEPT !.todo = ResolveFileCreate(r.path) \o Appending(r.path)]
    BY <1>3 DEF Instead
  <2>2. SecondPlan(r) = ResolveFileCreate(r.path) \o Appending(r.path) /\ LooksTwice(r)
    BY <1>3 DEF SecondPlan, LooksTwice
  <2> DEFINE todo == ResolveFileCreate(r.path) \o Appending(r.path)
  <2> HIDE DEF todo
  <2>3. Turned([me EXCEPT !.todo = todo], me, todo)
    BY <1>1 DEF Turned, IsSession
  <2> QED
    BY <2>1, <2>2, <2>3 DEF todo
<1> QED
  BY <1>2, <1>3 DEF Turns

LEMMA InsteadEnds ==
    ASSUME FileTypes, NEW s \in Sessions, NEW error, ~Turns(s, error)
    PROVE  Instead(s, error).result = Failure(s, error)
<1>1. Instead(s, error) = Ends(s, Failure(s, error))
  BY DEF Instead, Turns, Failure
<1>2. IsSession(sessions[s])
  BY DEF FileTypes
<1> QED
  BY <1>1, <1>2, FieldsOfEnds

(* The calls done and to come are all a plan asks for. *)
LEMMA NeedsAre ==
    ASSUME SoundRequests, NEW r \in Requests, NEW done, NEW todo, OneOf(r, done, todo)
    PROVE  \/ done \union Range(todo) = Needs(r)
           \/ LooksTwice(r) /\ done \union Range(todo) = SecondNeeds(r)
<1>1. Range(Plan(r)) = Needs(r)
  BY PlanIs DEF Planned
<1>2. LooksTwice(r) => Range(SecondPlan(r)) = SecondNeeds(r)
  BY SecondPlanIs DEF Planned
<1> QED
  BY <1>1, <1>2 DEF OneOf

(* A file that was found does not fail its first plan. *)
LEMMA FoundIsKept ==
    ASSUME SoundRequests, NEW r \in Requests, LooksTwice(r), NEW t, Sound(t), NEW done, NEW todo,
           done \union Range(todo) = Needs(r), "open" \notin Deed(Range(todo)), \A c \in done : Allows(t, c)
    PROVE  AllAllowed(t, Needs(r))
<1>1. r.path \in Path
  BY PathsAsked
<1>2. Needs(r) = Reading(r.path) \/ Needs(r) = Opening(r.path) \union Measuring(r.path)
  BY DEF LooksTwice, Needs
<1>3. Call("open", r.path) \in Needs(r)
  BY <1>2, DeedsOfNeeds
<1>4. Call("open", r.path) \notin Range(todo)
  BY DoneDeeds
<1>5. Allows(t, Call("open", r.path))
  BY <1>3, <1>4
<1>6. Kept(t, r.path)
  BY <1>5, AllowsIs
<1>7. AllAllowed(t, Reading(r.path)) /\ AllAllowed(t, Opening(r.path)) /\ AllAllowed(t, Measuring(r.path))
  BY <1>1, <1>6, AllowedParts
<1> QED
  BY <1>2, <1>7, AllAllowedJoined

(* On the second plan nothing is opened. *)
LEMMA SecondOpensNone ==
    ASSUME NEW r, r.call \in {"stat", "exists"}
    PROVE  "open" \notin Deed(SecondNeeds(r)) /\ Deed(SecondNeeds(r)) \subseteq {"enter"}
<1>1. SecondNeeds(r) = All("enter", Tops(r.path))
  BY DEF SecondNeeds
<1>2. Deed(All("enter", Tops(r.path))) \subseteq {"enter"}
  BY AllDo
<1> QED
  BY <1>1, <1>2

LEMMA SecondCreates ==
    ASSUME NEW r, r.call = "append"
    PROVE  "open" \notin Deed(SecondNeeds(r))
<1>1. SecondNeeds(r) = Creating(r.path) \union Measuring(r.path)
  BY DEF SecondNeeds
<1>2. Deed(Creating(r.path) \union Measuring(r.path)) = Deed(Creating(r.path)) \union Deed(Measuring(r.path))
  BY DeedsJoined
<1>3. Deed(Creating(r.path)) \subseteq {"make", "create"} /\ Deed(Measuring(r.path)) = {"measure", "edit", "fill", "commit"}
  BY DeedsOfNeeds
<1> QED
  BY <1>1, <1>2, <1>3

(* A refusal that ends an operation means that it was not promised. *)
LEMMA NotPromised ==
    ASSUME SoundRequests, NEW r \in Requests, NEW t, Sound(t), NEW done, NEW todo, NEW c \in Range(todo),
           OneOf(r, done, todo), \A x \in done : Allows(t, x), ~Allows(t, c),
           LooksTwice(r) => "open" \notin Deed(Range(todo)),
           (r.call \in {"stat", "exists"} /\ "open" \notin Deed(done \union Range(todo))) => ~Kept(t, r.path)
    PROVE  ~Promised(r, t)
<1> DEFINE all == done \union Range(todo)
<1>1. \/ all = Needs(r)
      \/ LooksTwice(r) /\ all = SecondNeeds(r)
  BY NeedsAre
<1>2. ~AllAllowed(t, all)
  BY DEF AllAllowed
<1>3. CASE r.call \notin {"stat", "exists", "append"}
  <2>1. all = Needs(r)
    BY <1>1, <1>3 DEF LooksTwice
  <2>2. Promised(r, t) => AllAllowed(t, Needs(r))
    BY <1>3, PromisedIs
  <2> QED
    BY <1>2, <2>1, <2>2
<1>4. CASE LooksTwice(r)
  <2>1. all # Needs(r)
    BY <1>2, <1>4, FoundIsKept
  <2>2. all = SecondNeeds(r)
    BY <1>1, <2>1
  <2>3. ~AllAllowed(t, SecondNeeds(r))
    BY <1>2, <2>2
  <2>4. CASE r.call = "append"
    <3>1. Promised(r, t) => AllAllowed(t, SecondNeeds(r))
      BY <2>4, PromisedIs
    <3> QED
      BY <2>3, <3>1
  <2>5. CASE r.call \in {"stat", "exists"}
    <3>1. "open" \notin Deed(all)
      BY <2>2, <2>5, SecondOpensNone
    <3>2. ~Kept(t, r.path)
      BY <2>5, <3>1
    <3>3. /\ Promised(r, t) <=> AllAllowed(t, Needs(r)) \/ AllAllowed(t, SecondNeeds(r))
          /\ AllAllowed(t, Needs(r)) <=> Kept(t, r.path)
      BY <2>5, PromisedIs
    <3> QED
      BY <2>3, <3>2, <3>3
  <2> QED
    BY <1>4, <2>4, <2>5 DEF LooksTwice
<1> QED
  BY <1>3, <1>4 DEF LooksTwice

LEMMA TreeAtFirst ==
    ASSUME NEW s \in Sessions, NEW done, Course(s, done), Deed(done) \subseteq {"enter"}
    PROVE  Tree = sessions[s].before
<1>1. PICK r, t : r = sessions[s].request /\ t = sessions[s].before
  OBVIOUS
<1>2. Tree = After(r, t, {}) /\ Sound(t)
  BY <1>1, CourseAtFirst
<1>3. After(r, t, {}) = t
  BY <1>2, StillAtFirst, NothingDone
<1> QED
  BY <1>1, <1>2, <1>3

(* append creates a file unless its directory is none. *)
LEMMA AppendNotPromised ==
    ASSUME SoundRequests, NEW s, NEW r \in Requests, NEW t, NEW c, r.call = "append", Sound(t), Tree = t,
           c = Current(s), c \in Needs(r), ~Allows(t, c), Refusal(c.do, c.path) # "E_NOT_FOUND", ~Possible(s)
    PROVE  ~Promised(r, t)
<1> DEFINE p == r.path
<1>1. p \in Path
  BY PathsAsked
<1>2. Needs(r) = Opening(p) \union Measuring(p)
  BY DEF Needs
<1>3. AllAllowed(t, Measuring(p))
  BY <1>1, AllowedParts
<1>4. c \in Opening(p)
  BY <1>2, <1>3 DEF AllAllowed
<1>5. Refusal(c.do, c.path) \notin {"none", "E_NOT_FOUND"}
  BY DEF Possible
<1>6. Promised(r, t) => Placeable(t, p)
  <2>1. Promised(r, t) => AllAllowed(t, SecondNeeds(r))
    BY PromisedIs
  <2>2. SecondNeeds(r) = Creating(p) \union Measuring(p)
    BY DEF SecondNeeds
  <2>3. AllAllowed(t, SecondNeeds(r)) => AllAllowed(t, Creating(p))
    BY <2>2, AllAllowedJoined
  <2>4. AllAllowed(t, Creating(p)) <=> Placeable(t, p)
    BY <1>1, AllowedParts
  <2> QED
    BY <2>1, <2>3, <2>4
<1>7. CASE c = Call("open", p)
  <2>1. c.do = "open" /\ c.path = p
    BY <1>7 DEF Call
  <2>2. p = <<>> \/ IsDirectory(p)
    BY <1>5, <2>1 DEF Refusal, Finds
  <2>3. Folder(t, p)
    BY <2>2, TreeNow DEF Folder
  <2> QED
    BY <1>6, <2>3 DEF Placeable
<1>8. CASE \E q \in Above(p) : c = Call("enter", q)
  <2>1. PICK q \in Above(p) : c = Call("enter", q)
    BY <1>8
  <2>2. c.do = "enter" /\ c.path = q
    BY <2>1 DEF Call
  <2>3. IsFile(q)
    BY <1>5, <2>2 DEF Refusal, Finds
  <2>4. Kept(t, q)
    BY <2>3, TreeNow
  <2> QED
    BY <1>6, <2>4 DEF Placeable
<1> QED
  BY <1>4, <1>7, <1>8 DEF Opening, All

(* What Refusal answers. *)
LEMMA RefusalAnswers ==
    ASSUME NEW do, NEW p
    PROVE  Refusal(do, p) \in {"none", "E_INVALID_PATH", "E_NOT_FOUND", "E_NOT_FILE", "E_PERMISSION_DENIED"}
  BY DEF Refusal

(* A step of s opens no stream of another. *)
LEMMA StillAlone ==
    ASSUME FileTypes, NEW s \in Sessions, NEW done, Course(s, done), Starts(s) \/ Works(s) \/ Halts(s)
    PROVE  Writers' \subseteq {s} /\ leaked = {}
<1>1. Writers \subseteq {s} /\ leaked = {}
  BY DEF Course
<1>2. Writers' \subseteq Sessions
  BY DEF Writers
<1>3. \A u \in Sessions \ {s} : u \in Writers' => u \in Writers
  BY WritersNext
<1> QED
  BY <1>1, <1>2, <1>3

(* ---- Refusals, faults and ends ---- *)

LEMMA InsteadStep ==
    ASSUME FileTypes, NEW s \in Sessions, NEW error, NEW d, GoesOn(s, Instead(s, error), d)
    PROVE  /\ sessions'[s] = Instead(s, error)
           /\ SameRequest(sessions'[s], sessions[s])
<1>1. sessions'[s] = Instead(s, error)
  BY Others
<1>2. SameRequest(Instead(s, error), sessions[s])
  BY InsteadIs
<1> QED
  BY <1>1, <1>2

(* A refused call leads to the second plan, or to an end that was not promised otherwise. *)
LEMMA RefusesSolo ==
    ASSUME SoundRequests, FileTypes, TreeInv, NEW s \in Sessions, NEW done, Course(s, done), Refuse(s)
    PROVE  Solo(s)'
<1>1. PICK r, t, c : r = sessions[s].request /\ t = sessions[s].before /\ c = Current(s)
  OBVIOUS
<1>2. PICK todo : todo = sessions[s].todo
  OBVIOUS
<1>3. PICK error : error = Refusal(c.do, c.path)
  OBVIOUS
<1>4. /\ Busy(s) /\ todo # <<>> /\ ~Possible(s) /\ GoesOn(s, Instead(s, error), FALSE)
      /\ dirs' = dirs /\ files' = files /\ leaked' = leaked /\ faults' = faults
  BY <1>1, <1>2, <1>3 DEF Refuse
<1>5. Undertakes(s, r, t, done, c) /\ Range(todo) = {c} \union Range(Tail(todo))
  BY <1>1, <1>2, <1>4, CourseStands
<1>6. OnCourse(sessions[s], done) /\ r \in Requests
  BY <1>1 DEF Course
<1>7. /\ Sound(t) /\ OneOf(r, done, todo) /\ \A x \in done : Allows(t, x)
      /\ (faults = 0 /\ r.call \in {"stat", "exists"} /\ "open" \notin Deed(done \union Range(todo))) => ~Kept(t, r.path)
  BY <1>1, <1>2, <1>6 DEF OnCourse
<1>8. ~Allows(t, c)
  BY <1>1, <1>4, <1>5, PossibleIs DEF Undertakes
<1>9. sessions'[s] = Instead(s, error) /\ sessions'[s].request = r /\ sessions'[s].before = t
  BY <1>1, <1>4, InsteadStep DEF SameRequest
<1>10. Looking(s) => Deed(done) \subseteq {"enter"} /\ "open" \in Deed(Range(todo))
  BY <1>2, LookingAt
<1>11. ~Looking(s) => "open" \notin Deed(Range(todo))
  BY <1>2, LookingAt
<1>12. Writers' \subseteq {s} /\ leaked' = {}
  BY <1>4, StillAlone DEF Halts
<1>13. c \in Range(todo) /\ c \in done \union Range(todo)
  BY <1>5
<1>14. \/ done \union Range(todo) = Needs(r)
       \/ LooksTwice(r) /\ done \union Range(todo) = SecondNeeds(r)
  BY <1>6, <1>7, NeedsAre
<1>15. Looking(s) /\ LooksTwice(r) => c \in Needs(r)
  <2> SUFFICES ASSUME Looking(s), LooksTwice(r), done \union Range(todo) = SecondNeeds(r) PROVE FALSE
    BY <1>13, <1>14
  <2>1. "open" \in Deed(done \union Range(todo))
    BY <1>10, DeedsJoined
  <2>2. "open" \notin Deed(SecondNeeds(r))
    BY SecondOpensNone, SecondCreates DEF LooksTwice
  <2> QED
    BY <2>1, <2>2
<1>16. CASE Turns(s, error)
  <2>1. LooksTwice(r) /\ Turned(sessions'[s], sessions[s], SecondPlan(r)) /\ Looking(s)
    BY <1>1, <1>9, <1>16, InsteadTurns DEF Turns
  <2>2. r.call \in {"stat", "exists"} => ~Kept(t, r.path)
    <3>1. ~AllAllowed(t, Needs(r))
      BY <1>8, <1>15, <2>1 DEF AllAllowed
    <3>2. r.call \in {"stat", "exists"} => (AllAllowed(t, Needs(r)) <=> Kept(t, r.path))
      BY <1>6, <1>7, PromisedIs
    <3> QED
      BY <3>1, <3>2
  <2>3. Tree' = Tree
    BY <1>4 DEF Tree
  <2> QED
    BY <1>1, <1>4, <1>10, <1>12, <2>1, <2>2, <2>3, TurnsSolo
<1>17. CASE ~Turns(s, error)
  <2>1. sessions'[s].result = Failure(s, error)
    BY <1>9, <1>17, InsteadEnds
  <2>2. error \in {"E_INVALID_PATH", "E_NOT_FOUND", "E_NOT_FILE", "E_PERMISSION_DENIED"}
    BY <1>1, <1>3, <1>4, RefusalAnswers DEF Possible
  <2>3. Failure(s, error) \notin {"ok", "busy"}
    BY <2>2 DEF Failure
  <2>4. Untouched(r, t)
    BY <1>5, StillUntouched
  <2>5. faults = 0 => ~Promised(r, t)
    <3> SUFFICES ASSUME faults = 0 PROVE ~Promised(r, t)
      OBVIOUS
    <3>1. CASE LooksTwice(r) => ~Looking(s)
      <4>1. LooksTwice(r) => "open" \notin Deed(Range(todo))
        BY <1>11, <3>1
      <4>2. (r.call \in {"stat", "exists"} /\ "open" \notin Deed(done \union Range(todo))) => ~Kept(t, r.path)
        BY <1>7
      <4> QED
        BY <1>6, <1>7, <1>8, <1>13, <4>1, <4>2, NotPromised
    <3>2. CASE LooksTwice(r) /\ Looking(s)
      <4>1. r.call = "append" /\ error # "E_NOT_FOUND"
        BY <1>1, <1>17, <3>2 DEF Turns, LooksTwice
      <4>2. Tree = t
        BY <1>1, <1>10, <3>2, TreeAtFirst
      <4>3. c \in Needs(r)
        BY <1>15, <3>2
      <4> QED
        BY <1>1, <1>3, <1>4, <1>6, <1>7, <1>8, <4>1, <4>2, <4>3, AppendNotPromised
    <3> QED
      BY <3>1, <3>2
  <2> QED
    BY <1>4, <1>9, <2>1, <2>3, <2>4, <2>5, FailsWell
<1> QED
  BY <1>16, <1>17

(* A call that fails on the disk leads to the second plan, or to an end. *)
LEMMA FaultsSolo ==
    ASSUME SoundRequests, FileTypes, TreeInv, faults \in Nat, NEW s \in Sessions, NEW done, Course(s, done), Fault(s)
    PROVE  Solo(s)'
<1>1. PICK r, t, c : r = sessions[s].request /\ t = sessions[s].before /\ c = Current(s)
  OBVIOUS
<1>2. /\ Busy(s) /\ sessions[s].todo # <<>> /\ GoesOn(s, Instead(s, "E_IO"), sessions[s].stream)
      /\ leaked' = IF sessions[s].stream THEN leaked \union {Current(s).path} ELSE leaked
      /\ dirs' = dirs /\ files' = files /\ faults' = faults + 1
  BY DEF Fault
<1>3. faults' # 0
  BY <1>2
<1>4. sessions'[s] = Instead(s, "E_IO") /\ sessions'[s].request = r /\ sessions'[s].before = t
  BY <1>1, <1>2, InsteadStep DEF SameRequest
<1>5. CASE Turns(s, "E_IO")
  <2>1. LooksTwice(r) /\ Turned(sessions'[s], sessions[s], SecondPlan(r)) /\ Looking(s)
    BY <1>1, <1>4, <1>5, InsteadTurns DEF Turns
  <2>2. Deed(done) \subseteq {"enter"}
    BY <2>1, LookingAt
  <2>3. sessions[s].stream = FALSE
    BY <1>1, <2>2, CourseAtFirst
  <2>4. Writers' \subseteq {s} /\ leaked' = {}
    BY <1>2, <2>3, StillAlone DEF Halts
  <2>5. Tree' = Tree
    BY <1>2 DEF Tree
  <2> QED
    BY <1>1, <1>2, <1>3, <2>1, <2>2, <2>4, <2>5, TurnsSolo
<1>6. CASE ~Turns(s, "E_IO")
  <2>1. sessions'[s].result = Failure(s, "E_IO")
    BY <1>4, <1>6, InsteadEnds
  <2>2. Failure(s, "E_IO") \notin {"ok", "busy"}
    BY DEF Failure
  <2>3. Untouched(r, t)
    BY <1>1, <1>2, CourseStands, StillUntouched
  <2> QED
    BY <1>2, <1>3, <1>4, <2>1, <2>2, <2>3, FailsWell
<1> QED
  BY <1>5, <1>6

(* Nobody hears of a session that is gone. *)
LEMMA CrashesSolo ==
    ASSUME FileTypes, NEW s \in Sessions, Crash(s)
    PROVE  Solo(s)'
<1>1. sessions'[s] = Ends(s, "crashed")
  BY Others DEF Crash
<1>2. IsSession(sessions[s])
  BY DEF FileTypes
<1>3. sessions'[s].result = "crashed"
  BY <1>1, <1>2, FieldsOfEnds
<1> QED
  BY <1>3 DEF Solo, Busy, Ended

(* A range that ends within usize is the documented one. *)
LEMMA RangeIsPart ==
    ASSUME NEW bytes \in Seq(Int), NEW offset \in Nat, NEW len \in Nat, offset + len < Usize
    PROVE  /\ ~RangeTraps(bytes, offset, len)
           /\ RangeOf(bytes, offset, len) =
                SubSeq(bytes, offset + 1, IF offset + len < Len(bytes) THEN offset + len ELSE Len(bytes))
<1> DEFINE n == Len(bytes)
           end == IF offset + len < n THEN offset + len ELSE n
<1>1. Usize \in Nat /\ n \in Nat /\ end \in Nat
  BY FilesAssumption
<1>2. offset % Usize = offset /\ (offset + len) % Usize = offset + len
  BY <1>1
<1>3. ~RangeTraps(bytes, offset, len)
  BY <1>1, <1>2 DEF RangeTraps
<1>4. RangeOf(bytes, offset, len) = IF offset >= n THEN <<>> ELSE SubSeq(bytes, offset + 1, end)
  BY <1>2 DEF RangeOf
<1>5. offset >= n => SubSeq(bytes, offset + 1, end) = <<>>
  <2>1. offset >= n => offset + 1 > end
    BY <1>1
  <2> HIDE DEF end
  <2>2. offset + 1 > end => SubSeq(bytes, offset + 1, end) = <<>>
    BY <1>1
  <2> QED
    BY <2>1, <2>2
<1> QED
  BY <1>3, <1>4, <1>5

(* An operation that made all its calls was promised. *)
LEMMA DoneIsPromised ==
    ASSUME SoundRequests, NEW r \in Requests, NEW t, Sound(t), NEW done, AllAllowed(t, done),
           done = Needs(r) \/ (LooksTwice(r) /\ done = SecondNeeds(r)),
           r.call \in {"write", "append", "update", "hash"} => r.sound
    PROVE  Promised(r, t) /\ After(r, t, done) = Effect(r, t)
<1>1. After(r, t, done) = Effect(r, t)
  BY EffectIs
<1>2. CASE r.call \notin {"stat", "exists", "append"}
  <2>1. AllAllowed(t, Needs(r))
    BY <1>2 DEF LooksTwice
  <2>2. r.sound \/ r.call \notin {"write", "update", "hash"}
    OBVIOUS
  <2>3. Promised(r, t) <=> AllAllowed(t, Needs(r)) /\ (r.sound \/ r.call \notin {"write", "update", "hash"})
    BY <1>2, PromisedIs
  <2> QED
    BY <1>1, <2>1, <2>2, <2>3
<1>3. CASE r.call = "append"
  <2>1. /\ Promised(r, t) <=> AllAllowed(t, SecondNeeds(r)) /\ r.sound
        /\ AllAllowed(t, Needs(r)) /\ r.sound => Promised(r, t)
    BY <1>3, PromisedIs
  <2>2. r.sound
    BY <1>3
  <2> QED
    BY <1>1, <2>1, <2>2
<1>4. CASE r.call \in {"stat", "exists"}
  <2>1. Promised(r, t) <=> AllAllowed(t, Needs(r)) \/ AllAllowed(t, SecondNeeds(r))
    BY <1>4, PromisedIs
  <2> QED
    BY <1>1, <2>1
<1> QED
  BY <1>2, <1>3, <1>4

(* What a read has read. *)
LEMMA ReadAnswers ==
    ASSUME SoundRequests, NEW r \in Requests, NEW t, Sound(t), NEW done, done = Needs(r), AllAllowed(t, done),
           r.call \in {"read", "hash", "range"}, NEW bytes, NEW at, NEW swap, InHand(r, t, Deed(done), bytes, at, swap)
    PROVE  bytes = t.files[r.path] /\ bytes \in Seq(Int) /\ Deed(done) \intersect {"remove", "create", "commit"} = {}
<1>1. done = Reading(r.path) /\ r.path \in Path
  BY PathsAsked DEF Needs
<1>2. "load" \in Deed(done) /\ Deed(done) \subseteq {"enter", "open", "load"}
  BY <1>1, DeedsOfNeeds
<1>3. Kept(t, r.path)
  BY <1>1, AllowedParts
<1>4. t.files[r.path] \in Seq(Int)
  BY <1>3 DEF Sound, Kept
<1>5. bytes = t.files[r.path]
  BY <1>2 DEF InHand
<1> QED
  BY <1>2, <1>4, <1>5

LEMMA SucceedsWell ==
    ASSUME NEW s \in Sessions, NEW r, NEW t, sessions'[s].request = r, sessions'[s].before = t,
           sessions'[s].result = "ok", Promised(r, t), Tree' = Effect(r, t),
           r.offset + r.len < Usize /\ r.call \in {"read", "hash", "range"} => sessions'[s].bytes = Answer(r, t)
    PROVE  Solo(s)'
<1>1. ~Busy(s)'
  BY DEF Busy
<1> DEFINE bytes == sessions'[s].bytes
<1>2. r.offset + r.len < Usize =>
        /\ faults' = 0 => (("ok" = "ok") <=> Promised(r, t))
        /\ "ok" = "ok" =>
                /\ Tree' = Effect(r, t)
                /\ r.call \in {"read", "hash", "range"} => bytes = Answer(r, t)
        /\ "ok" # "ok" => Untouched(r, t)'
  OBVIOUS
<1> QED
  BY <1>1, <1>2 DEF Solo, Outcome

(* An operation that finishes has done what was promised. *)
LEMMA FinishesSolo ==
    ASSUME SoundRequests, FileTypes, NEW s \in Sessions, NEW done, Course(s, done), Finish(s)
    PROVE  Solo(s)'
<1>1. PICK r, t : r = sessions[s].request /\ t = sessions[s].before
  OBVIOUS
<1>2. PICK bytes : bytes = sessions[s].bytes
  OBVIOUS
<1>3. /\ Busy(s) /\ sessions[s].todo = <<>> /\ dirs' = dirs /\ files' = files /\ faults' = faults
  BY DEF Finish
<1>4. OnCourse(sessions[s], done) /\ r \in Requests /\ (r.call \in {"write", "append", "update"} => r.sound)
  BY <1>1 DEF Course
<1>5. /\ Sound(t) /\ OneOf(r, done, <<>>) /\ AllAllowed(t, done)
      /\ Tree = After(r, t, done) /\ Holds(sessions[s], done)
  BY <1>1, <1>3, <1>4 DEF OnCourse, AllAllowed
<1>6. done = Needs(r) \/ (LooksTwice(r) /\ done = SecondNeeds(r))
  <2>1. Range(<<>>) = {}
    BY OrderlyNone
  <2>2. done \union Range(<<>>) = done
    BY <2>1
  <2>3. \/ done \union Range(<<>>) = Needs(r)
        \/ LooksTwice(r) /\ done \union Range(<<>>) = SecondNeeds(r)
    BY <1>4, <1>5, NeedsAre
  <2> QED
    BY <2>2, <2>3
<1>7. /\ sessions'[s].request = r /\ sessions'[s].before = t
      /\ sessions'[s].result = (IF r.call = "range" /\ RangeTraps(bytes, r.offset, r.len) THEN "trap"
                                ELSE IF r.call = "hash" /\ ~r.sound THEN "E_INVALID_ENCODING" ELSE "ok")
      /\ sessions'[s].result = "ok" =>
            sessions'[s].bytes = IF r.call = "range" THEN RangeOf(bytes, r.offset, r.len) ELSE bytes
  BY <1>1, <1>2, FinishIs DEF SameRequest
<1>8. r.call \in {"read", "hash", "range"} =>
        bytes = t.files[r.path] /\ bytes \in Seq(Int) /\ Deed(done) \intersect {"remove", "create", "commit"} = {}
  <2> SUFFICES ASSUME r.call \in {"read", "hash", "range"}
               PROVE  bytes = t.files[r.path] /\ bytes \in Seq(Int) /\ Deed(done) \intersect {"remove", "create", "commit"} = {}
    OBVIOUS
  <2>1. done = Needs(r)
    BY <1>6 DEF LooksTwice
  <2>2. InHand(r, t, Deed(done), sessions[s].bytes, sessions[s].at, sessions[s].swap)
    BY <1>1, <1>5, HoldsIs
  <2>3. InHand(r, t, Deed(done), bytes, sessions[s].at, sessions[s].swap)
    BY <1>2, <2>2
  <2> QED
    BY <1>4, <1>5, <2>1, <2>3, ReadAnswers
<1>9. r.offset \in Nat /\ r.len \in Nat
  BY <1>4, FilesAssumption
<1>10. CASE r.call = "hash" /\ ~r.sound
  <2>1. ~Promised(r, t)
    BY <1>4, <1>5, <1>10, PromisedIs
  <2>2. TreeOf(r, t, done)
    BY <1>5, <1>8, <1>10, TreeSoFar
  <2>3. files = t.files
    BY <1>8, <1>10, <2>2, FilesSoFar
  <2>4. Untouched(r, t)
    BY <2>3 DEF Untouched, IsFile
  <2>5. sessions'[s].result = "E_INVALID_ENCODING"
    BY <1>7, <1>10
  <2> QED
    BY <1>3, <1>7, <2>1, <2>4, <2>5, FailsWell
<1>11. CASE r.call = "range" /\ RangeTraps(bytes, r.offset, r.len)
  <2>1. sessions'[s].result = "trap"
    BY <1>7, <1>11
  <2>2. ~(r.offset + r.len < Usize)
    BY <1>8, <1>9, <1>11, RangeIsPart
  <2> QED
    BY <1>7, <2>1, <2>2 DEF Solo, Outcome, Busy
<1>12. CASE ~(r.call = "hash" /\ ~r.sound) /\ ~(r.call = "range" /\ RangeTraps(bytes, r.offset, r.len))
  <2>1. /\ sessions'[s].result = "ok"
        /\ sessions'[s].bytes = IF r.call = "range" THEN RangeOf(bytes, r.offset, r.len) ELSE bytes
    BY <1>7, <1>12
  <2>2. Promised(r, t) /\ After(r, t, done) = Effect(r, t)
    BY <1>4, <1>5, <1>6, <1>12, DoneIsPromised
  <2>3. Tree' = Effect(r, t)
    BY <1>3, <1>5, <2>2 DEF Tree
  <2>4. r.offset + r.len < Usize /\ r.call \in {"read", "hash", "range"} => sessions'[s].bytes = Answer(r, t)
    <3> SUFFICES ASSUME r.offset + r.len < Usize, r.call \in {"read", "hash", "range"} PROVE sessions'[s].bytes = Answer(r, t)
      OBVIOUS
    <3>1. r.call \in {"read", "hash"} => Answer(r, t) = bytes
      BY <1>8 DEF Answer
    <3>2. r.call = "range" => Answer(r, t) = RangeOf(bytes, r.offset, r.len)
      <4> SUFFICES ASSUME r.call = "range" PROVE Answer(r, t) = RangeOf(bytes, r.offset, r.len)
        OBVIOUS
      <4>1. Answer(r, t) = SubSeq(bytes, r.offset + 1, IF r.offset + r.len < Len(bytes) THEN r.offset + r.len ELSE Len(bytes))
        BY <1>8 DEF Answer
      <4> QED
        BY <1>8, <1>9, <4>1, RangeIsPart
    <3> QED
      BY <2>1, <3>1, <3>2
  <2> QED
    BY <1>7, <2>1, <2>2, <2>3, <2>4, SucceedsWell
<1> QED
  BY <1>10, <1>11, <1>12

(* What keeps a session as it is and disturbs nothing. *)
LEMMA SoloKept ==
    ASSUME NEW u \in Sessions, Solo(u), sessions'[u] = sessions[u], dirs' = dirs, files' = files,
           faults' = 0 => faults = 0,
           leaked = {} /\ Writers \subseteq {u} => leaked' = {} /\ Writers' \subseteq {u}
    PROVE  Solo(u)'
<1>1. PICK me : me = sessions[u]
  OBVIOUS
<1>2. PICK r, t : r = me.request /\ t = me.before
  OBVIOUS
<1>3. Tree' = Tree
  BY DEF Tree
<1> SUFFICES ASSUME me.alone
             PROVE  /\ Busy(u)' => (\E done : Course(u, done))'
                    /\ Ended(me) => Outcome(r, t, me.result, me.bytes)'
  BY <1>1, <1>2 DEF Solo
<1>4. Busy(u)' => (\E done : Course(u, done))'
  <2> SUFFICES ASSUME Busy(u)' PROVE (\E done : Course(u, done))'
    OBVIOUS
  <2>1. Busy(u)
    BY DEF Busy
  <2>2. PICK done : Course(u, done)
    BY <1>1, <2>1 DEF Solo
  <2>3. leaked' = {} /\ Writers' \subseteq {u}
    BY <2>2 DEF Course
  <2>4. OnCourse(me, done)
    BY <1>1, <2>2 DEF Course
  <2>5. r \in Requests /\ (r.call \in {"write", "append", "update"} => r.sound)
    BY <1>1, <1>2, <2>2 DEF Course
  <2>6. /\ Sound(t) /\ Orderly(r, done, me.todo) /\ OneOf(r, done, me.todo) /\ (\A c \in done : Allows(t, c))
        /\ Tree = After(r, t, done) /\ Holds(me, done)
        /\ (faults = 0 /\ r.call \in {"stat", "exists"} /\ "open" \notin Deed(done \union Range(me.todo))) => ~Kept(t, r.path)
    BY <1>2, <2>4 DEF OnCourse
  <2>7. /\ sessions'[u].request = r /\ sessions'[u].before = t
        /\ Orderly(r, done, sessions'[u].todo) /\ OneOf(r, done, sessions'[u].todo) /\ Holds(sessions'[u], done)
        /\ Tree' = After(r, t, done)
    BY <1>1, <1>2, <1>3, <2>6
  <2>8. (faults' = 0 /\ r.call \in {"stat", "exists"} /\ "open" \notin Deed(done \union Range(sessions'[u].todo))) => ~Kept(t, r.path)
    BY <1>1, <2>6
  <2>9. Course(u, done)'
    BY <2>3, <2>5, <2>6, <2>7, <2>8, CourseNext
  <2> QED
    BY <2>9
<1>5. Ended(me) => Outcome(r, t, me.result, me.bytes)'
  <2> SUFFICES ASSUME Ended(me) PROVE Outcome(r, t, me.result, me.bytes)'
    OBVIOUS
  <2>1. Outcome(r, t, me.result, me.bytes)
    BY <1>1, <1>2 DEF Solo
  <2>2. Untouched(r, t) => Untouched(r, t)'
    BY DEF Untouched, IsFile
  <2> QED
    BY <1>3, <2>1, <2>2 DEF Outcome
<1> QED
  BY <1>4, <1>5

(* The stream of the session that takes a step. *)
LEMMA OwnStream ==
    ASSUME FileTypes, NEW s \in Sessions, Starts(s) \/ (Works(s) /\ ~OpenStream(s)) \/ Halts(s)
    PROVE  sessions'[s].stream => sessions[s].stream
<1>1. CASE Starts(s)
  <2>1. PICK r \in Requests : Start(s, r)
    BY <1>1 DEF Starts
  <2>2. sessions'[s].stream = FALSE
    BY <2>1, StartIs
  <2> QED
    BY <2>2
<1>2. CASE Look(s) \/ Make(s) \/ Create(s) \/ RemoveEntry(s)
  BY <1>2, LookStep DEF Hands
<1>3. CASE Load(s)
  BY <1>3, LoadStep DEF Hands
<1>4. CASE Measure(s)
  BY <1>4, MeasureStep DEF Hands
<1>5. CASE Fill(s)
  BY <1>5, FillStep DEF Hands
<1>6. CASE Commit(s)
  BY <1>6, CommitStep DEF Hands
<1>7. CASE Refuse(s) \/ Fault(s)
  <2>1. PICK error, d : GoesOn(s, Instead(s, error), d)
    BY <1>7 DEF Refuse, Fault
  <2>2. sessions'[s] = Instead(s, error)
    BY <2>1, InsteadStep
  <2> QED
    BY <2>2, InsteadGoesOn
<1>8. CASE Finish(s)
  BY <1>8, FinishIs
<1>9. CASE Crash(s)
  <2>1. sessions'[s] = Ends(s, "crashed")
    BY <1>9, Others DEF Crash
  <2>2. IsSession(sessions[s])
    BY DEF FileTypes
  <2>3. Ends(s, "crashed").stream = FALSE
    BY <2>2 DEF Ends, IsSession
  <2> QED
    BY <2>1, <2>3
<1> QED
  BY <1>1, <1>2, <1>3, <1>4, <1>5, <1>6, <1>7, <1>8, <1>9 DEF Works, Halts

(* A step that changes the tree, or what one may do to it, disturbs the others. *)
Quiet(s, u) ==
    /\ sessions'[u] = sessions[u] /\ dirs' = dirs /\ files' = files /\ leaked' = leaked
    /\ sessions'[s].stream => sessions[s].stream
    /\ faults' \in {faults, faults + 1}

LEMMA Disturbs ==
    ASSUME FileTypes, NEW s \in Sessions, Starts(s) \/ Works(s) \/ Halts(s), NEW u \in Sessions \ {s}
    PROVE  sessions'[u].alone = FALSE \/ Quiet(s, u)
<1>1. \A next, d : GoesOn(s, next, d) => /\ sessions'[u] = sessions[u] \/ sessions'[u].alone = FALSE
                                         /\ d => sessions'[u].alone = FALSE
  BY Others
<1> SUFFICES ASSUME sessions'[u].alone # FALSE PROVE Quiet(s, u)
  OBVIOUS
<1>2. \A next, d : GoesOn(s, next, d) => sessions'[u] = sessions[u] /\ ~d
  BY <1>1
<1>3. sessions'[u] = sessions[u]
  BY <1>2, GoesOnSome
<1>4. ~OpenStream(s) /\ ~Commit(s) /\ ~RemoveEntry(s)
  BY <1>2 DEF OpenStream, Commit, RemoveEntry
<1>5. sessions'[s].stream => sessions[s].stream
  BY <1>4, OwnStream
<1>6. CASE Starts(s) \/ Look(s) \/ Load(s) \/ Measure(s) \/ Fill(s) \/ Refuse(s) \/ Finish(s) \/ Crash(s)
  <2>1. dirs' = dirs /\ files' = files /\ leaked' = leaked /\ faults' \in {faults, faults + 1}
    BY <1>6 DEF Starts, Start, Look, Load, Measure, Fill, Refuse, Finish, Crash
  <2> QED
    BY <1>3, <1>5, <2>1 DEF Quiet
<1>7. CASE Make(s)
  <2>1. ~(dirs' # dirs)
    BY <1>2, <1>7 DEF Make
  <2>2. files' = files /\ leaked' = leaked /\ faults' = faults
    BY <1>7 DEF Make
  <2> QED
    BY <1>3, <1>5, <2>1, <2>2 DEF Quiet
<1>8. CASE Create(s)
  <2>1. ~(files' # files)
    BY <1>2, <1>8 DEF Create
  <2>2. dirs' = dirs /\ leaked' = leaked /\ faults' = faults
    BY <1>8 DEF Create
  <2> QED
    BY <1>3, <1>5, <2>1, <2>2 DEF Quiet
<1>9. CASE Fault(s)
  <2>1. ~sessions[s].stream
    BY <1>2, <1>9 DEF Fault
  <2>2. dirs' = dirs /\ files' = files /\ leaked' = leaked /\ faults' = faults + 1
    BY <1>9, <2>1 DEF Fault
  <2> QED
    BY <1>3, <1>5, <2>2 DEF Quiet
<1> QED
  BY <1>4, <1>6, <1>7, <1>8, <1>9 DEF Works, Halts

(* A step of another session keeps the promise, or disturbs. *)
LEMMA OthersSolo ==
    ASSUME FileTypes, faults \in Nat, NEW s \in Sessions, Starts(s) \/ Works(s) \/ Halts(s), NEW u \in Sessions \ {s}, Solo(u)
    PROVE  Solo(u)'
<1>1. CASE sessions'[u].alone = FALSE
  BY <1>1 DEF Solo
<1>2. CASE Quiet(s, u)
  <2>1. /\ sessions'[u] = sessions[u] /\ dirs' = dirs /\ files' = files /\ leaked' = leaked
        /\ sessions'[s].stream => sessions[s].stream
        /\ faults' \in {faults, faults + 1}
    BY <1>2 DEF Quiet
  <2>2. faults' = 0 => faults = 0
    BY <2>1
  <2>3. Writers \subseteq {u} => Writers' \subseteq {u}
    <3>1. Writers' \subseteq Sessions
      BY DEF Writers
    <3>2. \A v \in Sessions \ {s} : v \in Writers' => v \in Writers
      BY WritersNext
    <3>3. s \in Writers' => s \in Writers
      BY <2>1 DEF Writers
    <3> QED
      BY <3>1, <3>2, <3>3
  <2> QED
    BY <2>1, <2>2, <2>3, SoloKept
<1> QED
  BY <1>1, <1>2, Disturbs

(* ---- The theorem ---- *)

(* A step of its own keeps the promise. *)
LEMMA OwnSolo ==
    ASSUME SoundRequests, FileTypes, TreeInv, faults \in Nat, NEW s \in Sessions, Solo(s), Starts(s) \/ Works(s) \/ Halts(s)
    PROVE  Solo(s)'
<1>1. CASE Starts(s)
  BY <1>1, StartsSolo DEF Starts
<1>2. CASE Crash(s)
  BY <1>2, CrashesSolo
<1>3. CASE Works(s) \/ Refuse(s) \/ Fault(s) \/ Finish(s)
  <2>1. Busy(s)
    BY <1>3, WorkKeeps DEF Refuse, Fault, Finish
  <2>2. sessions'[s].alone = sessions[s].alone
    <3>1. CASE Works(s)
      BY <3>1, WorkKeeps DEF Keeps, SameRequest
    <3>2. CASE Refuse(s) \/ Fault(s)
      <4>1. PICK error, d : GoesOn(s, Instead(s, error), d)
        BY <3>2 DEF Refuse, Fault
      <4> QED
        BY <4>1, InsteadStep DEF SameRequest
    <3>3. CASE Finish(s)
      BY <3>3, FinishIs DEF SameRequest
    <3> QED
      BY <1>3, <3>1, <3>2, <3>3
  <2>3. CASE ~sessions[s].alone
    BY <2>2, <2>3 DEF Solo
  <2>4. CASE sessions[s].alone
    <3>1. PICK done : Course(s, done)
      BY <2>1, <2>4 DEF Solo
    <3>2. CASE Works(s)
      <4>1. \E e : Course(s, e)'
        BY <3>1, <3>2, CourseWorks
      <4>2. sessions'[s].result = "busy"
        BY <2>1, <3>2, WorkKeeps DEF Keeps, Busy
      <4> QED
        BY <4>1, <4>2 DEF Solo, Ended
    <3> QED
      BY <1>3, <3>1, <3>2, RefusesSolo, FaultsSolo, FinishesSolo
  <2> QED
    BY <2>3, <2>4
<1> QED
  BY <1>1, <1>2, <1>3 DEF Halts

(* The inductive invariant: the tree is sound, and a session left alone is on its course or
   has got what was promised. *)
SolosInv == FileTypes /\ TreeInv /\ faults \in Nat /\ \A s \in Sessions : Solo(s)

LEMMA SolosInit == FilesInit => SolosInv
<1> SUFFICES ASSUME FilesInit PROVE SolosInv
  OBVIOUS
<1>1. FileTypes /\ TreeInv /\ faults \in Nat
  BY FileTypesInit, TreeInit DEF FilesInit
<1>2. ASSUME NEW s \in Sessions PROVE Solo(s)
  <2>1. sessions[s].alone = FALSE
    BY DEF FilesInit, Idle
  <2> QED
    BY <2>1 DEF Solo
<1> QED
  BY <1>1, <1>2 DEF SolosInv

LEMMA SolosStep == ASSUME SoundRequests, SolosInv, [FilesNext]_fileVars PROVE SolosInv'
<1>1. FileTypes /\ TreeInv /\ faults \in Nat /\ \A s \in Sessions : Solo(s)
  BY DEF SolosInv
<1>2. FileTypes' /\ TreeInv'
  BY <1>1, FileTypesStep, TreeStep
<1>3. ASSUME NEW s \in Sessions, Starts(s) \/ Works(s) \/ Halts(s)
      PROVE  faults' \in Nat /\ \A u \in Sessions : Solo(u)'
  <2>1. faults' \in {faults, faults + 1}
    BY <1>3 DEF Starts, Works, Halts, Start, Look, Make, Create, Load, Measure, OpenStream, Fill, Commit, RemoveEntry,
                Refuse, Fault, Finish, Crash
  <2>2. Solo(s)'
    BY <1>1, <1>3, OwnSolo
  <2>3. \A u \in Sessions \ {s} : Solo(u)'
    BY <1>1, <1>3, OthersSolo
  <2> QED
    BY <1>1, <2>1, <2>2, <2>3
<1>4. ASSUME UNCHANGED <<dirs, files, sessions, faults>>, leaked' = leaked \/ leaked' = {}
      PROVE  faults' \in Nat /\ \A u \in Sessions : Solo(u)'
  <2>1. Writers' = Writers
    BY <1>4 DEF Writers
  <2> QED
    BY <1>1, <1>4, <2>1, SoloKept
<1>5. faults' \in Nat /\ \A u \in Sessions : Solo(u)'
  <2>1. CASE Collect
    BY <1>4, <2>1 DEF Collect
  <2>2. CASE UNCHANGED fileVars
    BY <1>4, <2>2 DEF fileVars
  <2> QED
    BY <1>3, <2>1, <2>2, FilesSteps
<1> QED
  BY <1>2, <1>5 DEF SolosInv

(* A session that no other disturbs gets what the documentation of fs.* says: it succeeds
   just when the tree allows it and nothing fails, then the tree and the answer are the
   documented ones, and when it fails no file but the target of a move is touched
   (OpfsFs: the plans of all operations, with their faults and crashes). *)
THEOREM UndisturbedAsDocumented == ASSUME NoMoveOntoItself PROVE FilesSpec => []AsIfAlone
<1>1. SoundRequests
  BY OriginAssumption DEF SoundRequests, NoMoveOntoItself
<1>2. FilesInit => SolosInv
  BY SolosInit
<1>3. SolosInv /\ [FilesNext]_fileVars => SolosInv'
  BY <1>1, SolosStep
<1>4. SolosInv => AsIfAlone
  BY SoloIs DEF SolosInv
<1> QED
  BY <1>2, <1>3, <1>4, PTL DEF FilesSpec
====
