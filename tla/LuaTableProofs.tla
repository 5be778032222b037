---- MODULE LuaTableProofs ----
(* Theorems about LuaTable, for every set of keys and values, every length of the array
   part and every number of buckets.  The searches of #t are recursive: what they return
   is shown for the smallest interval that would be wrong. *)
EXTENDS LuaTable, FiniteSetTheorems, TLAPS

(* ---- The natural numbers are well ordered ---- *)

LEMMA BelowIsWellFounded == IsWellFoundedOn({p \in Nat \X Nat : p[1] < p[2]}, Nat)
  BY NatLessThanWellFounded, Zenon DEF OpToRel

LEMMA LeastExists ==
    ASSUME NEW S \in SUBSET Nat, S # {}
    PROVE  \E x \in S : \A y \in S : x <= y
<1> DEFINE Below == {p \in Nat \X Nat : p[1] < p[2]}
<1>1. IsWellFoundedOn(Below, Nat)
  BY BelowIsWellFounded
<1>2. PICK x \in S : \A y \in S : ~(<<y, x>> \in Below)
  <2> HIDE DEF Below
  <2> QED BY <1>1, WFMin
<1>3. \A y \in Nat : y < x => <<y, x>> \in Below
  OBVIOUS
<1> HIDE DEF Below
<1>4. \A y \in S : y \in Nat
  OBVIOUS
<1>5. \A y \in S : ~(y < x)
  BY <1>2, <1>3, <1>4, Zenon
<1> QED
  BY <1>4, <1>5

LEMMA MinIsLeast ==
    ASSUME NEW S \in SUBSET Nat, S # {}
    PROVE  Min(S) \in S /\ \A y \in S : Min(S) <= y
  BY LeastExists DEF Min

LEMMA MaxIsGreatest ==
    ASSUME NEW n \in Nat, NEW S \in SUBSET (0..n), S # {}
    PROVE  Max(S) \in S /\ \A y \in S : Max(S) >= y
<1> DEFINE Mirror == {x \in 0..n : n - x \in S}
<1>1. Mirror \in SUBSET Nat /\ Mirror # {}
  <2>1. PICK x \in S : TRUE
    OBVIOUS
  <2>2. n - x \in 0..n /\ n - (n - x) = x
    OBVIOUS
  <2>3. n - x \in Mirror
    BY <2>2
  <2>4. Mirror \in SUBSET Nat
    OBVIOUS
  <2> HIDE DEF Mirror
  <2> QED
    BY <2>3, <2>4
<1>2. PICK m \in Mirror : \A y \in Mirror : m <= y
  <2> HIDE DEF Mirror
  <2> QED BY <1>1, LeastExists
<1>3. PICK x \in S : m = n - x
  BY <1>2
<1>4. \A y \in S : x >= y
  <2> SUFFICES ASSUME NEW y \in S PROVE x >= y
    OBVIOUS
  <2>1. n - y \in Mirror
    <3>1. n - y \in 0..n /\ n - (n - y) = y
      OBVIOUS
    <3> QED
      BY <3>1
  <2> HIDE DEF Mirror
  <2> QED
    BY <1>2, <1>3, <2>1
<1> QED
  BY <1>4 DEF Max

(* ---- The binary search of #t ---- *)

Mid(lo, hi) == lo + (hi - lo) \div 2

LEMMA MidBetween ==
    ASSUME NEW lo \in Nat, NEW hi \in Nat, hi - lo > 1
    PROVE  Mid(lo, hi) \in lo + 1..hi - 1
  BY DEF Mid

Ranges(max) == (0..max) \X (0..max)
Narrow(max, n) == {r \in Ranges(max) : r[2] - r[1] <= n}

(* One step of the search in the range r, which goes on with g. *)
Halved(g, r, present) ==
    IF r[2] - r[1] <= 1 THEN r[1]
    ELSE IF Mid(r[1], r[2]) \in present THEN g[<<Mid(r[1], r[2]), r[2]>>]
         ELSE g[<<r[1], Mid(r[1], r[2])>>]

Searches(g, D, present) == g = [r \in D |-> Halved(g, r, present)]
Halving(max, present) == CHOOSE f : f = [r \in Ranges(max) |-> Halved(f, r, present)]

LEMMA SearchIsHalving ==
    ASSUME NEW min, NEW max, NEW present
    PROVE  BinarySearch(min, max, present) = Halving(max, present)[<<min, max>>]
  BY DEF BinarySearch, Halving, Halved, Ranges, Mid

LEMMA HalvedAgree ==
    ASSUME NEW max \in Nat, NEW n \in Nat, NEW present, NEW r \in Narrow(max, n + 1), NEW g, NEW h,
           \A q \in Narrow(max, n) : g[q] = h[q], n > 0 
    PROVE  Halved(g, r, present) = Halved(h, r, present)
<1> DEFINE lo == r[1] hi == r[2]
<1>1. /\ lo \in 0..max /\ hi \in 0..max /\ hi - lo <= n + 1
  BY DEF Narrow, Ranges
<1>2. CASE hi - lo <= 1
  BY <1>2 DEF Halved
<1>3. CASE hi - lo > 1
  <2>1. Mid(lo, hi) \in lo + 1..hi - 1
    <3> HIDE DEF lo, hi
    <3> QED BY <1>1, <1>3, MidBetween
  <2>2. <<Mid(lo, hi), hi>> \in Narrow(max, n) /\ <<lo, Mid(lo, hi)>> \in Narrow(max, n)
    <3> HIDE DEF lo, hi
    <3> QED BY <1>1, <2>1 DEF Narrow, Ranges
  <2>3. ~(hi - lo <= 1)
    BY <1>1, <1>3
  <2> QED
    BY <2>2, <2>3 DEF Halved
<1> QED
  BY <1>1, <1>2, <1>3

LEMMA SearchesExist ==
    ASSUME NEW max \in Nat, NEW present
    PROVE  \A n \in Nat : \E g : Searches(g, Narrow(max, n), present)
<1> DEFINE Bad == {n \in Nat : ~\E g : Searches(g, Narrow(max, n), present)}
<1> SUFFICES ASSUME Bad # {} PROVE FALSE
  OBVIOUS
<1>1. PICK m \in Bad : \A y \in Bad : m <= y
  <2>1. Bad \in SUBSET Nat
    OBVIOUS
  <2> HIDE DEF Bad
  <2> QED BY <2>1, LeastExists
<1>2. CASE m <= 1
  <2> DEFINE g == [r \in Narrow(max, m) |-> r[1]]
  <2>1. \A r \in Narrow(max, m) : Halved(g, r, present) = r[1]
    BY <1>2 DEF Halved, Narrow, Ranges
  <2>2. Searches(g, Narrow(max, m), present)
    BY <2>1 DEF Searches
  <2> QED
    BY <2>2
<1>3. CASE m > 1
  <2>1. m - 1 \in Nat /\ m - 1 \notin Bad /\ m - 1 > 0 /\ m = (m - 1) + 1
    BY <1>1, <1>3
  <2>2. PICK g : Searches(g, Narrow(max, m - 1), present)
    BY <2>1
  <2> DEFINE h == [r \in Narrow(max, m) |-> Halved(g, r, present)]
  <2>3. \A q \in Narrow(max, m - 1) : q \in Narrow(max, m) /\ g[q] = Halved(g, q, present)
    BY <2>1, <2>2 DEF Searches, Narrow, Ranges
  <2>4. \A q \in Narrow(max, m - 1) : g[q] = h[q]
    BY <2>3
  <2>5. \A r \in Narrow(max, m) : Halved(g, r, present) = Halved(h, r, present)
    <3> HIDE DEF h, Bad
    <3>1. ASSUME NEW r \in Narrow(max, (m - 1) + 1)
          PROVE  Halved(g, r, present) = Halved(h, r, present)
      <4>1. m - 1 \in Nat /\ m - 1 > 0
        BY <2>1
      <4> QED BY <2>4, <4>1, HalvedAgree
    <3>2. m = (m - 1) + 1
      BY <2>1
    <3> QED BY <3>1, <3>2, Zenon
  <2>6. h = [r \in Narrow(max, m) |-> Halved(h, r, present)]
    BY <2>5, Zenon
  <2>7. Searches(h, Narrow(max, m), present)
    BY <2>6 DEF Searches
  <2> QED
    BY <2>7
<1> QED
  BY <1>1, <1>2, <1>3

LEMMA HalvingStep ==
    ASSUME NEW max \in Nat, NEW present, NEW r \in Ranges(max)
    PROVE  Halving(max, present)[r] = Halved(Halving(max, present), r, present)
<1>1. Narrow(max, max) = Ranges(max)
  BY DEF Narrow, Ranges
<1>2. \E g : g = [q \in Ranges(max) |-> Halved(g, q, present)]
  <2>1. \E g : Searches(g, Narrow(max, max), present)
    BY SearchesExist
  <2> QED
    BY <1>1, <2>1, Zenon DEF Searches
<1>3. Halving(max, present) = [q \in Ranges(max) |-> Halved(Halving(max, present), q, present)]
  BY <1>2 DEF Halving
<1> QED
  BY <1>3, Zenon

(* From a lower end that is present, or 0, and an upper one that is not, the search finds
   a border. *)
LEMMA SearchFindsBorder ==
    ASSUME NEW min \in Nat, NEW max \in Nat, min < max, NEW present, max \notin present
    PROVE  LET b == BinarySearch(min, max, present)
           IN  b \in min..max - 1 /\ (b = min \/ b \in present) /\ b + 1 \notin present
<1> DEFINE F == Halving(max, present)
           Sound(lo, hi) == /\ F[<<lo, hi>>] \in lo..hi - 1
                            /\ F[<<lo, hi>>] = lo \/ F[<<lo, hi>>] \in present
                            /\ F[<<lo, hi>>] + 1 \notin present
           Bad == {n \in Nat : \E lo, hi \in 0..max :
                      lo < hi /\ hi - lo = n /\ hi \notin present /\ ~Sound(lo, hi)}
<1>1. \A lo, hi \in 0..max : F[<<lo, hi>>] = Halved(F, <<lo, hi>>, present)
  BY HalvingStep DEF Ranges
<1> HIDE DEF F
<1>2. Bad = {}
  <2> SUFFICES ASSUME Bad # {} PROVE FALSE
    OBVIOUS
  <2>1. PICK m \in Bad : \A y \in Bad : m <= y
    <3>1. Bad \in SUBSET Nat
      OBVIOUS
    <3> HIDE DEF Bad
    <3> QED BY <3>1, LeastExists
  <2>2. PICK lo \in 0..max, hi \in 0..max :
           lo < hi /\ hi - lo = m /\ hi \notin present /\ ~Sound(lo, hi)
    BY <2>1
  <2>3. \A a, b \in 0..max : a < b /\ b - a < m /\ b \notin present => Sound(a, b)
    <3>1. SUFFICES ASSUME NEW a \in 0..max, NEW b \in 0..max,
                          a < b, b - a < m, b \notin present, ~Sound(a, b)
                   PROVE  FALSE
      BY Zenon
    <3> HIDE DEF Sound
    <3>2. b - a \in Nat
      BY <3>1
    <3>3. b - a \in Bad
      BY <3>1, <3>2, Zenon
    <3> HIDE DEF Bad
    <3>4. m <= b - a /\ m \in Nat
      BY <2>1, <2>2, <3>3
    <3> QED
      BY <3>1, <3>2, <3>4
  <2>4. F[<<lo, hi>>] = IF hi - lo <= 1 THEN lo
                        ELSE IF Mid(lo, hi) \in present THEN F[<<Mid(lo, hi), hi>>]
                        ELSE F[<<lo, Mid(lo, hi)>>]
    BY <1>1, <2>2 DEF Halved
  <2>5. CASE hi - lo <= 1
    BY <2>2, <2>4, <2>5
  <2>6. CASE hi - lo > 1
    <3>1. Mid(lo, hi) \in lo + 1..hi - 1
      BY <2>2, <2>6, MidBetween
    <3>2. CASE Mid(lo, hi) \in present
      <4>1. Sound(Mid(lo, hi), hi)
        BY <2>2, <2>3, <3>1
      <4>2. F[<<lo, hi>>] = F[<<Mid(lo, hi), hi>>]
        BY <2>2, <2>4, <2>6, <3>2
      <4> QED
        BY <2>2, <3>1, <3>2, <4>1, <4>2
    <3>3. CASE Mid(lo, hi) \notin present
      <4>1. Sound(lo, Mid(lo, hi))
        BY <2>2, <2>3, <3>1, <3>3
      <4>2. F[<<lo, hi>>] = F[<<lo, Mid(lo, hi)>>]
        BY <2>2, <2>4, <2>6, <3>3
      <4> QED
        BY <2>2, <3>1, <4>1, <4>2
    <3> QED
      BY <3>2, <3>3
  <2> QED
    BY <2>2, <2>5, <2>6
<1>3. Sound(min, max)
  <2>1. max - min \in Nat /\ min \in 0..max /\ max \in 0..max
    OBVIOUS
  <2>2. max - min \notin Bad
    BY <1>2, Zenon
  <2> HIDE DEF Sound
  <2> QED
    BY <2>1, <2>2, Zenon
<1>4. BinarySearch(min, max, present) = F[<<min, max>>]
  BY SearchIsHalving DEF F
<1> QED
  BY <1>3, <1>4

(* ---- The search past the array part of #t ---- *)

Ends == 1..MaxInteger + 1
Far(n) == {m \in Ends : MaxInteger - m <= n}
Twice(m) == IF 2 * m <= MaxInteger THEN 2 * m ELSE MaxInteger

(* One step of the doubling, which goes on with g. *)
Stepped(g, m, present) == IF m \notin present \/ m = MaxInteger THEN m ELSE g[Twice(m)]
Doubling(present) == CHOOSE f : f = [m \in Ends |-> Stepped(f, m, present)]
Doubles(g, D, present) == g = [m \in D |-> Stepped(g, m, present)]

LEMMA DoubledIsDoubling ==
    ASSUME NEW from, NEW present
    PROVE  Doubled(from, present) = Doubling(present)[from]
  BY DEF Doubled, Doubling, Stepped, Twice, Ends

LEMMA TwiceIsFarther ==
    ASSUME NEW m \in 1..MaxInteger - 1
    PROVE  Twice(m) \in m + 1..MaxInteger
  BY TableAssumption DEF Twice

LEMMA SteppedAgree ==
    ASSUME NEW n \in Nat, NEW present, MaxInteger + 1 \notin present,
           NEW m \in Far(n + 1), NEW g, NEW h, \A q \in Far(n) : g[q] = h[q]
    PROVE  Stepped(g, m, present) = Stepped(h, m, present)
<1>1. m \in Ends /\ MaxInteger - m <= n + 1
  BY DEF Far
<1>2. CASE m \in 1..MaxInteger - 1
  <2>1. Twice(m) \in m + 1..MaxInteger
    BY <1>2, TwiceIsFarther
  <2>2. Twice(m) \in Far(n)
    BY <1>1, <1>2, <2>1, TableAssumption DEF Far, Ends
  <2> QED
    BY <2>2 DEF Stepped
<1>3. CASE m = MaxInteger \/ m = MaxInteger + 1
  BY <1>3 DEF Stepped
<1> QED
  BY <1>1, <1>2, <1>3, TableAssumption DEF Ends

LEMMA DoublesExist ==
    ASSUME NEW present, MaxInteger + 1 \notin present
    PROVE  \A n \in Nat : \E g : Doubles(g, Far(n), present)
<1> DEFINE Bad == {n \in Nat : ~\E g : Doubles(g, Far(n), present)}
<1> SUFFICES ASSUME Bad # {} PROVE FALSE
  OBVIOUS
<1>1. PICK m \in Bad : \A y \in Bad : m <= y
  <2>1. Bad \in SUBSET Nat
    OBVIOUS
  <2> HIDE DEF Bad
  <2> QED BY <2>1, LeastExists
<1>2. CASE m = 0
  <2> DEFINE g == [r \in Far(m) |-> r]
  <2>1. \A r \in Far(m) : r = MaxInteger \/ r = MaxInteger + 1
    BY <1>2, TableAssumption DEF Far, Ends
  <2>2. \A r \in Far(m) : Stepped(g, r, present) = r
    <3> HIDE DEF g
    <3> QED BY <2>1 DEF Stepped
  <2>3. Doubles(g, Far(m), present)
    BY <2>2 DEF Doubles
  <2> QED
    BY <2>3
<1>3. CASE m > 0
  <2>1. m - 1 \in Nat /\ m - 1 \notin Bad /\ m = (m - 1) + 1
    BY <1>1, <1>3
  <2>2. PICK g : Doubles(g, Far(m - 1), present)
    BY <2>1
  <2> DEFINE h == [r \in Far(m) |-> Stepped(g, r, present)]
  <2>3. \A q \in Far(m - 1) : q \in Far(m) /\ g[q] = Stepped(g, q, present)
    BY <2>1, <2>2, TableAssumption DEF Doubles, Far, Ends
  <2>4. \A q \in Far(m - 1) : g[q] = h[q]
    BY <2>3
  <2>5. \A r \in Far(m) : Stepped(g, r, present) = Stepped(h, r, present)
    <3> HIDE DEF h, Bad
    <3>1. ASSUME NEW r \in Far((m - 1) + 1)
          PROVE  Stepped(g, r, present) = Stepped(h, r, present)
      <4>1. m - 1 \in Nat
        BY <2>1
      <4> QED BY <2>4, <4>1, SteppedAgree, Zenon
    <3>2. m = (m - 1) + 1
      BY <2>1
    <3> QED BY <3>1, <3>2, Zenon
  <2>6. h = [r \in Far(m) |-> Stepped(h, r, present)]
    BY <2>5, Zenon
  <2>7. Doubles(h, Far(m), present)
    BY <2>6 DEF Doubles
  <2> QED
    BY <2>7
<1> QED
  BY <1>1, <1>2, <1>3

LEMMA DoublingStep ==
    ASSUME NEW present, MaxInteger + 1 \notin present, NEW m \in Ends
    PROVE  Doubling(present)[m] = Stepped(Doubling(present), m, present)
<1>1. Far(MaxInteger) = Ends
  BY TableAssumption DEF Far, Ends
<1>2. \E g : g = [q \in Ends |-> Stepped(g, q, present)]
  <2>1. \E g : Doubles(g, Far(MaxInteger), present)
    BY DoublesExist, TableAssumption
  <2> QED
    BY <1>1, <2>1, Zenon DEF Doubles
<1>3. Doubling(present) = [q \in Ends |-> Stepped(Doubling(present), q, present)]
  BY <1>2 DEF Doubling
<1> QED
  BY <1>3, Zenon

(* The doubling ends at an integer that is not there, or at the largest one. *)
LEMMA DoublingEnds ==
    ASSUME NEW present, MaxInteger + 1 \notin present, NEW from \in Ends
    PROVE  LET e == Doubled(from, present)
           IN  e \in from..MaxInteger + 1 /\ (e \notin present \/ e = MaxInteger)
<1> DEFINE F == Doubling(present)
           Sound(m) == F[m] \in m..MaxInteger + 1 /\ (F[m] \notin present \/ F[m] = MaxInteger)
           Bad == {n \in Nat : \E m \in 1..MaxInteger : MaxInteger - m = n /\ ~Sound(m)}
<1>1. \A m \in Ends : F[m] = Stepped(F, m, present)
  BY DoublingStep
<1> HIDE DEF F
<1>2. Bad = {}
  <2> SUFFICES ASSUME Bad # {} PROVE FALSE
    OBVIOUS
  <2>1. PICK n \in Bad : \A y \in Bad : n <= y
    <3>1. Bad \in SUBSET Nat
      OBVIOUS
    <3> HIDE DEF Bad
    <3> QED BY <3>1, LeastExists
  <2>2. PICK m \in 1..MaxInteger : MaxInteger - m = n /\ ~Sound(m)
    BY <2>1
  <2>3. F[m] = IF m \notin present \/ m = MaxInteger THEN m ELSE F[Twice(m)]
    BY <1>1, <2>2, TableAssumption DEF Ends, Stepped
  <2>4. m \in 1..MaxInteger - 1 /\ F[m] = F[Twice(m)]
    BY <2>2, <2>3, TableAssumption
  <2>5. Twice(m) \in m + 1..MaxInteger
    BY <2>4, TwiceIsFarther
  <2>6. Sound(Twice(m))
    <3> SUFFICES ASSUME ~Sound(Twice(m)) PROVE FALSE
      OBVIOUS
    <3> HIDE DEF Sound
    <3>1. Twice(m) \in 1..MaxInteger /\ MaxInteger - Twice(m) \in Nat
      BY <2>5, TableAssumption
    <3>2. MaxInteger - Twice(m) \in Bad
      BY <3>1, Zenon
    <3> HIDE DEF Bad
    <3> QED
      BY <2>1, <2>2, <2>5, <3>1, <3>2, TableAssumption
  <2> QED
    BY <2>2, <2>4, <2>5, <2>6, TableAssumption
<1>3. Sound(from)
  <2>1. CASE from = MaxInteger + 1
    <3>1. F[from] = from
      BY <1>1, <2>1 DEF Stepped
    <3> QED
      BY <2>1, <3>1, TableAssumption
  <2>2. CASE from \in 1..MaxInteger
    <3>1. MaxInteger - from \in Nat
      BY <2>2, TableAssumption
    <3> HIDE DEF Sound
    <3> QED
      BY <1>2, <2>2, <3>1, Zenon
  <2> QED
    BY <2>1, <2>2, TableAssumption DEF Ends
<1>4. Doubled(from, present) = F[from]
  BY DoubledIsDoubling DEF F
<1> QED
  BY <1>3, <1>4

(* ---- What the two parts hold ---- *)

Held == Values \union {Nil}

Entries == [value : Held, dead : BOOLEAN, bucket : Buckets]

ArrayTypes == array \in Seq(Held) /\ Len(array) <= MaxArray

MapTypes ==
    /\ map = [k \in DOMAIN map |-> map[k]]
    /\ DOMAIN map \subseteq Keys
    /\ \A k \in DOMAIN map :
        /\ ~InArray(k)
        /\ map[k] \in Entries
        /\ map[k].dead => k \in Objects /\ map[k].value = Nil
    /\ \A g, h \in DOMAIN map : map[g].bucket = map[h].bucket => g = h

Types ==
    /\ ArrayTypes
    /\ MapTypes
    /\ room \in Nat /\ owed \subseteq Keys /\ walking \in BOOLEAN

LEMMA TypesSuffice == Types => TableTypeOK
  BY DEF Types, ArrayTypes, MapTypes, TableTypeOK, Held

LEMMA TypesInit == TableInit => Types
<1> SUFFICES ASSUME TableInit PROVE Types
  OBVIOUS
<1>1. ArrayTypes
  <2>1. PICK n \in 0..MaxArray : array = [i \in 1..n |-> Nil]
    BY DEF TableInit
  <2>2. array \in [1..n -> Held] /\ n \in Nat
    BY <2>1, TableAssumption DEF Held
  <2> QED
    BY <2>1, <2>2, TableAssumption DEF ArrayTypes
<1>2. MapTypes
  <2>1. map = << >> /\ DOMAIN map = {}
    BY DEF TableInit
  <2> QED
    BY <2>1 DEF MapTypes
<1>3. room \in Nat
  BY TableAssumption, FS_CardinalityType DEF TableInit
<1> QED
  BY <1>1, <1>2, <1>3 DEF TableInit, Types

(* The traversal's part of an assignment. *)
LEMMA AssignedTypes ==
    ASSUME Types, NEW k, NEW v, Assigned(k, v)
    PROVE  owed' \subseteq Keys /\ walking' \in BOOLEAN
  BY DEF Types, Assigned

(* An entry that comes or changes. *)
LEMMA EntryAdded ==
    ASSUME Types, NEW k \in Keys, ~InArray(k), NEW e,
           e \in Entries, e.dead => k \in Objects /\ e.value = Nil,
           \A g \in DOMAIN map \ {k} : map[g].bucket # e.bucket,
           UNCHANGED array, map' = [h \in DOMAIN map \union {k} |-> IF h = k THEN e ELSE map[h]]
    PROVE  ArrayTypes' /\ MapTypes'
<1>1. DOMAIN map' = DOMAIN map \union {k}
  OBVIOUS
<1>2. map'[k] = e /\ \A h \in DOMAIN map \ {k} : map'[h] = map[h]
  OBVIOUS
<1>3. map' = [h \in DOMAIN map' |-> map'[h]]
  BY <1>1, <1>2
<1>4. \A h : InArray(h)' <=> InArray(h)
  BY DEF InArray
<1>5. \A g, h \in DOMAIN map' : map'[g].bucket = map'[h].bucket => g = h
  BY <1>1, <1>2 DEF Types, MapTypes
<1>6. \A h \in DOMAIN map' :
        /\ ~InArray(h)
        /\ map'[h] \in Entries
        /\ map'[h].dead => h \in Objects /\ map'[h].value = Nil
  BY <1>1, <1>2 DEF Types, MapTypes
<1>7. DOMAIN map' \subseteq Keys
  BY <1>1 DEF Types, MapTypes
<1> QED
  BY <1>3, <1>4, <1>5, <1>6, <1>7 DEF Types, ArrayTypes, MapTypes

(* What an assignment does to the table as a map, and what leaves every key in its place. *)
Written(k, v) == \A h \in Keys : Get(h)' = IF h = k THEN v ELSE Get(h)
SamePlaces ==
    /\ \A h : InArray(h)' <=> InArray(h)
    /\ DOMAIN map' = DOMAIN map
    /\ \A h \in DOMAIN map : map'[h].bucket = map[h].bucket

LEMMA NilIsHeld == Nil \in Held /\ \A v \in Values : v \in Held /\ v # Nil
  BY KindsAssumption DEF Held

LEMMA SetArrayWrites ==
    ASSUME Types, NEW k \in Keys, NEW v \in Held, SetArray(k, v)
    PROVE  Types' /\ Written(k, v) /\ SamePlaces
<1>1. /\ InArray(k) /\ array' = [array EXCEPT ![k] = v] /\ UNCHANGED <<map, room>>
      /\ owed' \subseteq Keys /\ walking' \in BOOLEAN
  BY AssignedTypes DEF SetArray
<1>2. /\ array' \in Seq(Held) /\ Len(array') = Len(array)
      /\ \A i \in 1..Len(array) : array'[i] = IF i = k THEN v ELSE array[i]
  BY <1>1 DEF Types, ArrayTypes, InArray
<1>3. \A h : InArray(h)' <=> InArray(h)
  BY <1>2 DEF InArray
<1>4. Types'
  BY <1>1, <1>2, <1>3 DEF Types, ArrayTypes, MapTypes
<1>5. Written(k, v)
  BY <1>1, <1>2, <1>3 DEF Written, Get, InArray
<1> QED
  BY <1>1, <1>3, <1>4, <1>5 DEF SamePlaces

LEMMA SetNilWrites ==
    ASSUME Types, NEW k \in Keys, SetNil(k)
    PROVE  Types' /\ Written(k, Nil) /\ SamePlaces
<1>1. /\ ~InArray(k) /\ UNCHANGED <<array, room>>
      /\ owed' \subseteq Keys /\ walking' \in BOOLEAN
  BY AssignedTypes DEF SetNil
<1>2. \A h : InArray(h)' <=> InArray(h)
  BY <1>1 DEF InArray
<1>3. CASE k \in DOMAIN map
  <2> DEFINE e == Entry(Nil, k \in Objects, map[k].bucket)
  <2>1. map[k].bucket \in Buckets
    BY <1>3 DEF Types, MapTypes, Entries
  <2>2. e \in Entries /\ e.value = Nil /\ e.dead = (k \in Objects) /\ e.bucket = map[k].bucket
    BY <2>1, NilIsHeld DEF Entry, Entries
  <2>3. map' = [h \in DOMAIN map \union {k} |-> IF h = k THEN e ELSE map[h]]
    <3>1. DOMAIN map = DOMAIN map \union {k}
      BY <1>3
    <3> QED
      BY <3>1 DEF SetNil
  <2> HIDE DEF e
  <2>4. \A g \in DOMAIN map \ {k} : map[g].bucket # e.bucket
    BY <1>3, <2>2 DEF Types, MapTypes
  <2>5. ArrayTypes' /\ MapTypes'
    BY <1>1, <2>2, <2>3, <2>4, EntryAdded
  <2>6. DOMAIN map' = DOMAIN map /\ map'[k] = e /\ \A h \in DOMAIN map \ {k} : map'[h] = map[h]
    BY <1>3, <2>3
  <2> QED
    BY <1>1, <1>2, <1>3, <2>2, <2>5, <2>6 DEF Types, Written, Get, SamePlaces
<1>4. CASE k \notin DOMAIN map
  <2>1. map' = map
    BY <1>4 DEF SetNil, Types, MapTypes
  <2> QED
    BY <1>1, <1>2, <1>4, <2>1 DEF Types, ArrayTypes, MapTypes, Written, Get, SamePlaces
<1> QED
  BY <1>3, <1>4

LEMMA ReplaceWrites ==
    ASSUME Types, NEW k \in Keys, NEW v \in Values, Replace(k, v)
    PROVE  Types' /\ Written(k, v) /\ SamePlaces
<1>1. /\ ~InArray(k) /\ UNCHANGED <<array, room>> /\ k \in DOMAIN map
      /\ owed' \subseteq Keys /\ walking' \in BOOLEAN
  BY AssignedTypes DEF Replace
<1>2. \A h : InArray(h)' <=> InArray(h)
  BY <1>1 DEF InArray
<1> DEFINE e == Entry(v, FALSE, map[k].bucket)
<1>3. map[k].bucket \in Buckets
  BY <1>1 DEF Types, MapTypes, Entries
<1>4. e \in Entries /\ e.value = v /\ e.dead = FALSE /\ e.bucket = map[k].bucket
  BY <1>3, NilIsHeld DEF Entry, Entries
<1>5. map' = [h \in DOMAIN map \union {k} |-> IF h = k THEN e ELSE map[h]]
  <2>1. DOMAIN map = DOMAIN map \union {k}
    BY <1>1
  <2>2. map' = [map EXCEPT ![k] = e]
    BY DEF Replace
  <2> HIDE DEF e
  <2>3. map' = [h \in DOMAIN map |-> IF h = k THEN e ELSE map[h]]
    BY <2>2
  <2> QED
    BY <2>1, <2>3
<1> HIDE DEF e
<1>6. \A g \in DOMAIN map \ {k} : map[g].bucket # e.bucket
  BY <1>1, <1>4 DEF Types, MapTypes
<1>7. ArrayTypes' /\ MapTypes'
  BY <1>1, <1>4, <1>5, <1>6, EntryAdded
<1>8. DOMAIN map' = DOMAIN map /\ map'[k] = e /\ \A h \in DOMAIN map \ {k} : map'[h] = map[h]
  BY <1>1, <1>5
<1> QED
  BY <1>1, <1>2, <1>4, <1>7, <1>8 DEF Types, Written, Get, SamePlaces

LEMMA InsertWrites ==
    ASSUME Types, NEW k \in Keys, NEW v \in Values, Insert(k, v)
    PROVE  Types' /\ Written(k, v)
<1>1. /\ ~InArray(k) /\ k \notin DOMAIN map /\ UNCHANGED array /\ room' = room - 1 /\ room > 0
      /\ owed' \subseteq Keys /\ walking' \in BOOLEAN
  BY AssignedTypes DEF Insert, Missing
<1>2. \A h : InArray(h)' <=> InArray(h)
  BY <1>1 DEF InArray
<1>3. PICK b \in FreeBuckets : map' = With(map, k, v, b)
  BY DEF Insert
<1> DEFINE e == Entry(v, FALSE, b)
<1>4. b \in Buckets /\ \A g \in DOMAIN map : map[g].bucket # b
  BY DEF FreeBuckets, Taken
<1>5. e \in Entries /\ e.value = v /\ e.dead = FALSE /\ e.bucket = b
  BY <1>4, NilIsHeld DEF Entry, Entries
<1>6. map' = [h \in DOMAIN map \union {k} |-> IF h = k THEN e ELSE map[h]]
  BY <1>3 DEF With
<1> HIDE DEF e
<1>7. ArrayTypes' /\ MapTypes'
  BY <1>1, <1>4, <1>5, <1>6, EntryAdded
<1>8. DOMAIN map' = DOMAIN map \union {k} /\ map'[k] = e /\ \A h \in DOMAIN map \ {k} : map'[h] = map[h]
  BY <1>6
<1> QED
  BY <1>1, <1>2, <1>5, <1>7, <1>8 DEF Types, Written, Get

(* ---- Growing ---- *)

LEMMA OptimalSizeType == ASSUME NEW used PROVE OptimalSize(used) \in Int
<1> DEFINE good == {b \in 0..UsizeBits - 1 :
                      /\ 2 ^ b \div 2 < Cardinality(used)
                      /\ \E i \in used : HighestBit(i) = b
                      /\ Cardinality({i \in used : i < 2 ^ b}) > 2 ^ b \div 2}
<1>1. OptimalSize(used) = IF good = {} THEN 0 ELSE 2 ^ Max(good)
  BY DEF OptimalSize
<1>2. good \in SUBSET (0..UsizeBits - 1) /\ UsizeBits - 1 \in Nat
  BY TableAssumption
<1> HIDE DEF good
<1>3. good # {} => Max(good) \in Nat
  <2> SUFFICES ASSUME good # {} PROVE Max(good) \in Nat
    OBVIOUS
  <2>1. Max(good) \in good
    BY <1>2, MaxIsGreatest
  <2>2. Max(good) \in 0..UsizeBits - 1
    BY <1>2, <2>1, Zenon
  <2> QED
    BY <2>2, TableAssumption
<1> QED
  BY <1>1, <1>3

InGrown(size, h) == h \in Integral /\ h \in 1..size

(* The longer array part holds what its keys held, wherever they were. *)
LEMMA GrownArrayHolds ==
    ASSUME Types, NEW size \in Nat, size >= Len(array)
    PROVE  /\ GrownArray(size) \in Seq(Held) /\ Len(GrownArray(size)) = size
           /\ \A i \in 1..size : GrownArray(size)[i] \in Held
           /\ \A i \in 1..Len(array) : GrownArray(size)[i] = array[i]
           /\ \A h \in Keys : InGrown(size, h) => GrownArray(size)[h] = Get(h)
<1>1. \A i \in DOMAIN array : array[i] \in Held
  BY DEF Types, ArrayTypes
<1>2. \A i \in Kept : map[i].value \in Held
  BY DEF Types, MapTypes, Kept, Entries
<1>3. \A i \in 1..size : (IF i \in DOMAIN array THEN array[i]
                        ELSE IF i \in Kept THEN map[i].value ELSE Nil) \in Held
  BY <1>1, <1>2, NilIsHeld
<1>4. GrownArray(size) \in [1..size -> Held]
  BY <1>3 DEF GrownArray
<1>5. GrownArray(size) \in Seq(Held) /\ Len(GrownArray(size)) = size
  BY <1>4
<1>6. DOMAIN array = 1..Len(array) /\ Len(array) \in Nat
  BY DEF Types, ArrayTypes
<1>7. \A i \in 1..Len(array) : GrownArray(size)[i] = array[i]
  BY <1>6 DEF GrownArray
<1>8. \A h \in Keys : InGrown(size, h) => GrownArray(size)[h] = Get(h)
  <2> SUFFICES ASSUME NEW h \in Keys, InGrown(size, h) PROVE GrownArray(size)[h] = Get(h)
    OBVIOUS
  <2>1. GrownArray(size)[h] = IF h \in DOMAIN array THEN array[h]
                              ELSE IF h \in Kept THEN map[h].value ELSE Nil
    BY DEF GrownArray, InGrown
  <2>2. InArray(h) <=> h \in DOMAIN array
    BY <1>6 DEF InArray, InGrown
  <2> QED
    BY <2>1, <2>2 DEF Get, Kept
<1> QED
  BY <1>4, <1>5, <1>7, <1>8

(* The hash part keeps the other keys. *)
LEMMA RetainedHolds ==
    ASSUME Types, NEW size \in Nat, size >= Len(array)
    PROVE  /\ DOMAIN Retained(size) = {h \in Kept : ~InGrown(size, h)}
           /\ \A h \in DOMAIN Retained(size) : Retained(size)[h] = map[h]
           /\ \A h \in Keys : ~InGrown(size, h) =>
                 Get(h) = IF h \in DOMAIN Retained(size) THEN Retained(size)[h].value ELSE Nil
<1>1. DOMAIN Retained(size) = {h \in Kept : ~InGrown(size, h)}
  BY DEF Retained, InGrown
<1>2. \A h \in DOMAIN Retained(size) : Retained(size)[h] = map[h]
  BY DEF Retained
<1>3. \A h \in Keys : ~InGrown(size, h) => ~InArray(h)
  BY DEF InGrown, InArray, Types, ArrayTypes
<1> QED
  BY <1>1, <1>2, <1>3 DEF Get, Kept

LEMMA GrownTypes ==
    ASSUME Types, NEW size \in Nat, size >= Len(array), size <= MaxArray, GrownMap(size),
           array' \in Seq(Held), Len(array') = size
    PROVE  ArrayTypes' /\ MapTypes' /\ room' \in Nat
<1>1. map' = Retained(size) /\ room' \in Nat
  BY DEF GrownMap, Types
<1>2. DOMAIN map' = {h \in Kept : ~InGrown(size, h)} /\ \A h \in DOMAIN map' : map'[h] = map[h]
  BY <1>1, RetainedHolds
<1>3. map' = [h \in DOMAIN map' |-> map'[h]]
  BY <1>1, <1>2 DEF Retained
<1>4. DOMAIN map' \subseteq DOMAIN map
  BY <1>2 DEF Kept
<1>5. \A h \in DOMAIN map' : ~InArray(h)'
  BY <1>2 DEF InArray, InGrown
<1> QED
  BY <1>1, <1>2, <1>3, <1>4, <1>5 DEF Types, ArrayTypes, MapTypes

LEMMA SetGrowingArrayWrites ==
    ASSUME Types, NEW k \in Keys, NEW v \in Values, SetGrowingArray(k, v)
    PROVE  Types' /\ Written(k, v)
<1>1. PICK size \in 1..MaxArray :
        /\ GrowsTo(size, OptimalSize(Indexes(k)) - Len(array))
        /\ array' = [GrownArray(size) EXCEPT ![k] = v]
        /\ GrownMap(size)
  BY DEF SetGrowingArray
<1>2. /\ ~InArray(k) /\ k \notin DOMAIN map /\ k \in Integral /\ k > 0
      /\ OptimalSize(Indexes(k)) > k - 1
      /\ owed' \subseteq Keys /\ walking' \in BOOLEAN
  BY AssignedTypes DEF SetGrowingArray, Missing, FitsInArray, Candidate
<1>3. k \in Int /\ OptimalSize(Indexes(k)) \in Int /\ Len(array) \in Nat /\ k > Len(array)
  BY <1>2, OptimalSizeType, TableAssumption DEF InArray, Types, ArrayTypes
<1>4. size \in Nat /\ size >= k /\ size >= Len(array) /\ size <= MaxArray
  BY <1>1, <1>2, <1>3, TableAssumption DEF GrowsTo
<1>5. /\ array' \in Seq(Held) /\ Len(array') = size
      /\ \A i \in 1..size : array'[i] = IF i = k THEN v ELSE GrownArray(size)[i]
  <2> DEFINE a == GrownArray(size)
  <2>1. a \in Seq(Held) /\ Len(a) = size
    BY <1>4, GrownArrayHolds
  <2>2. array' = [a EXCEPT ![k] = v]
    BY <1>1
  <2> HIDE DEF a
  <2>3. /\ array' \in Seq(Held) /\ Len(array') = size
        /\ \A i \in 1..size : array'[i] = IF i = k THEN v ELSE a[i]
    BY <1>3, <1>4, <2>1, <2>2, NilIsHeld
  <2> QED
    BY <2>3 DEF a
<1>6. Types'
  BY <1>1, <1>2, <1>4, <1>5, GrownTypes DEF Types
<1>7. Written(k, v)
  <2> SUFFICES ASSUME NEW h \in Keys PROVE Get(h)' = IF h = k THEN v ELSE Get(h)
    BY DEF Written
  <2>1. InArray(h)' <=> InGrown(size, h)
    BY <1>5 DEF InArray, InGrown
  <2>2. CASE InGrown(size, h)
    <3>1. GrownArray(size)[h] = Get(h)
      BY <1>4, <2>2, GrownArrayHolds
    <3> QED
      BY <1>5, <2>1, <2>2, <3>1 DEF Get, InGrown
  <2>3. CASE ~InGrown(size, h)
    <3>1. h # k
      BY <1>2, <1>3, <1>4, <2>3 DEF InGrown
    <3>2. Get(h) = IF h \in DOMAIN map' THEN map'[h].value ELSE Nil
      BY <1>1, <1>4, <2>3, RetainedHolds DEF GrownMap
    <3> QED
      BY <2>1, <2>3, <3>1, <3>2 DEF Get
  <2> QED
    BY <2>2, <2>3
<1> QED
  BY <1>6, <1>7

(* There are no more entries than buckets. *)
LEMMA KeptFinite == ASSUME Types PROVE Cardinality(Kept) \in Nat
<1> DEFINE f == [k \in Kept |-> map[k].bucket]
<1>1. f \in [Kept -> Buckets] /\ \A g, h \in Kept : f[g] = f[h] => g = h
  BY DEF Types, MapTypes, Kept, Entries
<1>2. f \in Injection(Kept, Buckets)
  <2> HIDE DEF f
  <2> QED BY <1>1 DEF Injection, IsInjective
<1>3. IsFiniteSet(Kept)
  BY <1>2, FS_Injection, TableAssumption
<1> QED
  BY <1>3, FS_CardinalityType

LEMMA SetGrowingMapWrites ==
    ASSUME Types, NEW k \in Keys, NEW v \in Values, SetGrowingMap(k, v)
    PROVE  Types' /\ Written(k, v)
<1>1. /\ ~InArray(k) /\ k \notin DOMAIN map /\ UNCHANGED array
      /\ Cardinality(Kept) < Cardinality(Buckets)
      /\ room' = Cardinality(Buckets) - Cardinality(Kept) - 1
      /\ owed' \subseteq Keys /\ walking' \in BOOLEAN
  BY AssignedTypes DEF SetGrowingMap, Missing
<1>2. room' \in Nat
  BY <1>1, KeptFinite, FS_CardinalityType, TableAssumption
<1>3. PICK place \in [Kept \union {k} -> Buckets] :
        /\ \A g, h \in Kept \union {k} : place[g] = place[h] => g = h
        /\ map' = [h \in Kept \union {k} |->
                      IF h = k THEN Entry(v, FALSE, place[k]) ELSE [map[h] EXCEPT !.bucket = place[h]]]
  BY DEF SetGrowingMap
<1>4. Kept \subseteq DOMAIN map /\ k \notin Kept
  BY <1>1 DEF Kept
<1>5. /\ DOMAIN map' = Kept \union {k}
      /\ map'[k] \in Entries /\ map'[k].value = v /\ ~map'[k].dead /\ map'[k].bucket = place[k]
  BY <1>3, NilIsHeld DEF Entry, Entries
<1>6. \A h \in Kept : /\ map'[h] \in Entries /\ map'[h].bucket = place[h]
                      /\ map'[h].value = map[h].value /\ map'[h].dead = map[h].dead
  <2> SUFFICES ASSUME NEW h \in Kept
               PROVE  /\ map'[h] \in Entries /\ map'[h].bucket = place[h]
                      /\ map'[h].value = map[h].value /\ map'[h].dead = map[h].dead
    OBVIOUS
  <2>1. map'[h] = [map[h] EXCEPT !.bucket = place[h]]
    BY <1>3, <1>4
  <2>2. map[h] \in Entries /\ place[h] \in Buckets
    BY <1>4 DEF Types, MapTypes
  <2> QED
    BY <2>1, <2>2 DEF Entries
<1>7. \A h : InArray(h)' <=> InArray(h)
  BY <1>1 DEF InArray
<1>8. MapTypes'
  <2>1. map' = [h \in DOMAIN map' |-> map'[h]]
    BY <1>3
  <2>2. DOMAIN map' \subseteq Keys
    BY <1>4, <1>5 DEF Types, MapTypes
  <2>3. \A h \in DOMAIN map' : ~InArray(h) /\ map'[h] \in Entries
                              /\ (map'[h].dead => h \in Objects /\ map'[h].value = Nil)
    BY <1>1, <1>4, <1>5, <1>6 DEF Types, MapTypes
  <2>4. \A g, h \in DOMAIN map' : map'[g].bucket = map'[h].bucket => g = h
    <3>1. \A g \in DOMAIN map' : g \in Kept \union {k} /\ map'[g].bucket = place[g]
      BY <1>5, <1>6
    <3>2. \A g, h \in Kept \union {k} : place[g] = place[h] => g = h
      BY <1>3
    <3> QED
      BY <3>1, <3>2, Zenon
  <2> QED
    BY <1>7, <2>1, <2>2, <2>3, <2>4 DEF MapTypes
<1>9. Written(k, v)
  BY <1>1, <1>4, <1>5, <1>6, <1>7 DEF Written, Get, Kept
<1> QED
  BY <1>1, <1>2, <1>8, <1>9 DEF Types, ArrayTypes

(* ---- The shifts ---- *)

LEMMA ShiftedRightHolds ==
    ASSUME NEW a \in Seq(Held), NEW i, NEW v \in Values, Border \in 0..Len(a) - 1, i \in 1..Border + 1
    PROVE  LET b == ShiftedRight(a, i, v)
           IN  /\ b \in Seq(Held) /\ Len(b) = Len(a)
               /\ \A j \in 1..Len(a) : b[j] = IF j = i THEN v
                                             ELSE IF j \in i + 1..Border + 1 THEN a[j - 1] ELSE a[j]
<1> DEFINE n == Len(a)
<1>1. n \in Nat /\ DOMAIN a = 1..n /\ \A j \in 1..n : a[j] \in Held
  OBVIOUS
<1>2. \A j \in 1..n : j \in i + 1..Border + 1 => j - 1 \in 1..n
  OBVIOUS
<1>3. \A j \in 1..n : (IF j = i THEN v ELSE IF j \in i + 1..Border + 1 THEN a[j - 1] ELSE a[j]) \in Held
  BY <1>1, <1>2, NilIsHeld
<1>4. ShiftedRight(a, i, v) \in [1..n -> Held]
  BY <1>1, <1>3 DEF ShiftedRight
<1>5. \A j \in 1..n : ShiftedRight(a, i, v)[j] =
          IF j = i THEN v ELSE IF j \in i + 1..Border + 1 THEN a[j - 1] ELSE a[j]
  BY <1>1 DEF ShiftedRight
<1> HIDE DEF n
<1>6. ShiftedRight(a, i, v) \in Seq(Held) /\ Len(ShiftedRight(a, i, v)) = n
  BY <1>1, <1>4
<1> QED
  BY <1>5, <1>6 DEF n

LEMMA ShiftedLeftHolds ==
    ASSUME NEW a \in Seq(Held), NEW i, Border \in 0..Len(a), i \in 1..Border
    PROVE  LET b == ShiftedLeft(a, i)
           IN  /\ b \in Seq(Held) /\ Len(b) = Len(a)
               /\ \A j \in 1..Len(a) : b[j] = IF j = Border THEN Nil
                                             ELSE IF j \in i..Border - 1 THEN a[j + 1] ELSE a[j]
<1> DEFINE n == Len(a)
<1>1. n \in Nat /\ DOMAIN a = 1..n /\ \A j \in 1..n : a[j] \in Held
  OBVIOUS
<1>2. \A j \in 1..n : j \in i..Border - 1 => j + 1 \in 1..n
  OBVIOUS
<1>3. \A j \in 1..n : (IF j = Border THEN Nil ELSE IF j \in i..Border - 1 THEN a[j + 1] ELSE a[j]) \in Held
  BY <1>1, <1>2, NilIsHeld
<1>4. ShiftedLeft(a, i) \in [1..n -> Held]
  BY <1>1, <1>3 DEF ShiftedLeft
<1>5. \A j \in 1..n : ShiftedLeft(a, i)[j] =
          IF j = Border THEN Nil ELSE IF j \in i..Border - 1 THEN a[j + 1] ELSE a[j]
  BY <1>1 DEF ShiftedLeft
<1> HIDE DEF n
<1>6. ShiftedLeft(a, i) \in Seq(Held) /\ Len(ShiftedLeft(a, i)) = n
  BY <1>1, <1>4
<1> QED
  BY <1>5, <1>6 DEF n

LEMMA TableInsertTypes ==
    ASSUME Types, NEW i \in Integral, NEW v \in Values, TableInsert(i, v)
    PROVE  Types'
<1>1. /\ Border \in 0..Len(array) /\ i \in 1..Border + 1
      /\ owed' \subseteq Keys /\ walking' \in BOOLEAN
      /\ array \in Seq(Held) /\ Len(array) \in Nat
  <2>1. Border \in 0..Len(array) /\ i \in 1..Border + 1 /\ NoWalk
    BY Zenon DEF TableInsert
  <2>2. owed' \subseteq Keys /\ walking' \in BOOLEAN
    BY <2>1 DEF NoWalk
  <2>3. array \in Seq(Held) /\ Len(array) \in Nat
    BY DEF Types, ArrayTypes
  <2> QED
    BY <2>1, <2>2, <2>3, Zenon
<1>2. CASE Border < Len(array)
  <2>1. array' = ShiftedRight(array, i, v) /\ UNCHANGED <<map, room>>
    BY <1>2 DEF TableInsert
  <2>2. array' \in Seq(Held) /\ Len(array') = Len(array)
    BY <1>1, <1>2, <2>1, ShiftedRightHolds
  <2>3. \A h : InArray(h)' <=> InArray(h)
    BY <2>2 DEF InArray
  <2> QED
    BY <1>1, <2>1, <2>2, <2>3 DEF Types, ArrayTypes, MapTypes
<1>3. CASE ~(Border < Len(array))
  <2>1. PICK size \in 1..MaxArray :
          GrowsTo(size, 1) /\ array' = ShiftedRight(GrownArray(size), i, v) /\ GrownMap(size)
    BY <1>3 DEF TableInsert
  <2>2. size \in Nat /\ size >= Len(array) + 1 /\ size >= Len(array) /\ size <= MaxArray
    BY <1>1, <2>1, TableAssumption DEF GrowsTo
  <2>3. GrownArray(size) \in Seq(Held) /\ Len(GrownArray(size)) = size
    BY <2>2, GrownArrayHolds
  <2>4. Border \in 0..Len(GrownArray(size)) - 1
    BY <1>1, <2>2, <2>3
  <2>5. array' \in Seq(Held) /\ Len(array') = size
    BY <1>1, <2>1, <2>3, <2>4, ShiftedRightHolds
  <2> QED
    BY <1>1, <2>1, <2>2, <2>5, GrownTypes DEF Types
<1> QED
  BY <1>2, <1>3

LEMMA TableRemoveTypes ==
    ASSUME Types, NEW i \in Integral, TableRemove(i)
    PROVE  Types'
<1>1. /\ Border \in 0..Len(array) /\ i \in 1..Border
      /\ array' = ShiftedLeft(array, i) /\ UNCHANGED <<map, room>>
      /\ owed' \subseteq Keys /\ walking' \in BOOLEAN
      /\ array \in Seq(Held)
  BY DEF TableRemove, NoWalk, Types, ArrayTypes
<1>2. array' \in Seq(Held) /\ Len(array') = Len(array)
  BY <1>1, ShiftedLeftHolds
<1>3. \A h : InArray(h)' <=> InArray(h)
  BY <1>2 DEF InArray
<1> QED
  BY <1>1, <1>2, <1>3 DEF Types, ArrayTypes, MapTypes

(* ---- Types ---- *)

LEMMA TypesStep == ASSUME Types, [TableNext]_tableVars PROVE Types'
<1>1. CASE UNCHANGED tableVars
  BY <1>1 DEF tableVars, walk, Types, ArrayTypes, MapTypes, InArray
<1>2. ASSUME NEW k \in Keys, SetNil(k) PROVE Types'
  BY <1>2, SetNilWrites
<1>3. ASSUME NEW k \in Keys, CountPanics(k) PROVE Types'
  BY <1>3 DEF CountPanics, Panic, walk, Types, ArrayTypes, MapTypes, InArray
<1>4. ASSUME NEW k \in Keys, NEW v \in Values,
             SetArray(k, v) \/ Replace(k, v) \/ Insert(k, v) \/ SetGrowingArray(k, v) \/ SetGrowingMap(k, v)
      PROVE  Types'
  BY <1>4, NilIsHeld, SetArrayWrites, ReplaceWrites, InsertWrites, SetGrowingArrayWrites, SetGrowingMapWrites
<1>5. ASSUME NEW k \in Keys, SetArray(k, Nil) PROVE Types'
  BY <1>5, NilIsHeld, SetArrayWrites
<1>6. CASE BeginWalk
  BY <1>6 DEF BeginWalk, Present, Types, ArrayTypes, MapTypes, InArray
<1>7. CASE Step
  BY <1>7 DEF Step, Types, ArrayTypes, MapTypes, InArray
<1>8. CASE EndWalk
  BY <1>8 DEF EndWalk, Types, ArrayTypes, MapTypes, InArray
<1>9. ASSUME NEW i \in Integral, NEW v \in Values, TableInsert(i, v) PROVE Types'
  BY <1>9, TableInsertTypes
<1>10. ASSUME NEW i \in Integral, TableRemove(i) PROVE Types'
  BY <1>10, TableRemoveTypes
<1> QED
  BY <1>1, <1>2, <1>3, <1>4, <1>5, <1>6, <1>7, <1>8, <1>9, <1>10 DEF TableNext

(* No step of RawTable puts a key in both parts, leaves a value in a dead entry or two
   entries in a bucket. *)
THEOREM TableInvariance == TableSpec => []Types
<1>1. TableInit => Types
  BY TypesInit
<1>2. Types /\ [TableNext]_tableVars => Types'
  BY TypesStep
<1> QED
  BY <1>1, <1>2, PTL DEF TableSpec

(* No key is in both parts of a table, dead keys hold nothing, and a bucket holds one
   entry, however the parts grow and the keys move (RawTable::set, grow_array, reserve_map). *)
THEOREM TableTyped == TableSpec => []TableTypeOK
  BY TableInvariance, TypesSuffice, PTL

(* ---- The traversal ---- *)

Found(c) == c = Nil \/ InArray(c) \/ c \in DOMAIN map

(* h comes after c in a traversal. *)
After(c, h) ==
    \/ c = Nil
    \/ InArray(c) /\ InArray(h) /\ h > c
    \/ InArray(c) /\ h \in DOMAIN map
    \/ c \in DOMAIN map /\ h \in DOMAIN map /\ map[h].bucket > map[c].bucket

LEMMA PartsOfKeys ==
    ASSUME Types
    PROVE  /\ \A h : InArray(h) <=> h \in 1..Len(array)
           /\ \A h : InArray(h) => h \in Keys /\ h \in Int /\ h \notin DOMAIN map /\ Get(h) = array[h]
           /\ \A h \in DOMAIN map : ~InArray(h) /\ h \in Keys /\ Get(h) = map[h].value
           /\ \A h \in DOMAIN map : map[h].bucket \in Nat
           /\ \A h \in Present : InArray(h) \/ h \in Kept
           /\ \A h \in Kept : h \in Present /\ h \in DOMAIN map
           /\ ~InArray(Nil) /\ Nil \notin DOMAIN map /\ Done \notin Keys /\ NotFound \notin Keys
<1>1. \A h : InArray(h) <=> h \in 1..Len(array)
  BY TableAssumption DEF InArray, Types, ArrayTypes
<1>2. \A h : InArray(h) => h \in Keys /\ h \in Int /\ h \notin DOMAIN map
  BY TableAssumption DEF InArray, Keys, Types, MapTypes
<1>3. \A h \in DOMAIN map : ~InArray(h) /\ h \in Keys /\ map[h].bucket \in Nat
  BY TableAssumption DEF Types, MapTypes, Entries
<1>4. Nil \notin Keys /\ Done \notin Keys /\ NotFound \notin Keys
  BY TableAssumption, KindsAssumption DEF Keys
<1> QED
  BY <1>1, <1>2, <1>3, <1>4 DEF Get, Kept, Present

LEMMA NextInMap ==
    ASSUME Types, NEW b \in Int
    PROVE  LET k == InMapAfter(b)
           IN  \/ k = Done /\ \A h \in Kept : ~(map[h].bucket > b)
               \/ /\ k \in Kept /\ map[k].bucket > b
                  /\ \A h \in Kept : map[h].bucket > b => h = k \/ map[h].bucket > map[k].bucket
<1>1. \A h \in Kept : map[h].bucket \in Nat /\ h \in DOMAIN map
  BY PartsOfKeys
<1>2. CASE KeptBucketsAfter(b) = {}
  BY <1>2 DEF InMapAfter, KeptBucketsAfter
<1>3. CASE KeptBucketsAfter(b) # {}
  <2> DEFINE m == Min(KeptBucketsAfter(b))
  <2>1. KeptBucketsAfter(b) \in SUBSET Nat
    BY <1>1 DEF KeptBucketsAfter
  <2>2. m \in KeptBucketsAfter(b) /\ \A y \in KeptBucketsAfter(b) : m <= y
    BY <1>3, <2>1, MinIsLeast
  <2> HIDE DEF m
  <2>3. \E k \in Kept : map[k].bucket = m
    BY <2>2 DEF KeptBucketsAfter
  <2>4. InMapAfter(b) \in Kept /\ map[InMapAfter(b)].bucket = m
    BY <1>3, <2>3 DEF InMapAfter, FirstOf, m
  <2>5. \A h \in Kept : map[h].bucket > b => m <= map[h].bucket
    BY <2>2 DEF KeptBucketsAfter
  <2>6. m > b
    BY <2>2 DEF KeptBucketsAfter
  <2>7. \A g, h \in Kept : map[g].bucket = map[h].bucket => g = h
    BY <1>1 DEF Types, MapTypes
  <2> QED
    BY <1>1, <2>4, <2>5, <2>6, <2>7
<1> QED
  BY <1>2, <1>3

LEMMA NextInArray ==
    ASSUME Types, NEW start \in Nat \ {0}
    PROVE  LET k == NextFrom(start)
           IN  \/ /\ k \in start..Len(array) /\ array[k] # Nil
                  /\ \A i \in start..Len(array) : array[i] # Nil => k <= i
               \/ /\ \A i \in start..Len(array) : array[i] = Nil
                  /\ \/ k = Done /\ Kept = {}
                     \/ k \in Kept /\ \A h \in Kept : h = k \/ map[h].bucket > map[k].bucket
<1> DEFINE present == {i \in start..Len(array) : array[i] # Nil}
<1>1. NextFrom(start) = IF present # {} THEN Min(present) ELSE InMapAfter(-1)
  BY DEF NextFrom
<1>2. CASE present # {}
  <2>1. present \in SUBSET Nat
    OBVIOUS
  <2> HIDE DEF present
  <2>2. Min(present) \in present /\ \A y \in present : Min(present) <= y
    BY <1>2, <2>1, MinIsLeast
  <2>3. NextFrom(start) = Min(present)
    BY <1>1, <1>2
  <2> QED
    BY <2>2, <2>3 DEF present
<1>3. CASE present = {}
  <2>1. \A h \in Kept : map[h].bucket > -1
    BY PartsOfKeys
  <2>2. NextFrom(start) = InMapAfter(-1)
    BY <1>1, <1>3
  <2>3. \A i \in start..Len(array) : array[i] = Nil
    BY <1>3
  <2> HIDE DEF present
  <2> QED
    BY <2>1, <2>2, <2>3, NextInMap
<1> QED
  BY <1>2, <1>3

(* k is the first key after c, or there is none. *)
Follows(c, k) ==
    \/ k = Done /\ \A h \in Present : ~After(c, h)
    \/ /\ k \in Present /\ After(c, k) /\ Found(k)
       /\ \A h \in Present : After(c, h) <=> h = k \/ After(k, h)
       /\ ~After(k, k)

LEMMA NextFollows ==
    ASSUME Types, NEW c, Found(c)
    PROVE  Follows(c, NextKey(c))
<1> DEFINE k == NextKey(c)
<1> SUFFICES Follows(c, k)
  OBVIOUS
<1>1. \A h : InArray(h) <=> h \in 1..Len(array)
  BY PartsOfKeys
<1>2. /\ \A h : InArray(h) => h \in Keys /\ h \in Int /\ h \notin DOMAIN map /\ Get(h) = array[h] /\ h # Nil
      /\ \A h \in DOMAIN map : ~InArray(h) /\ map[h].bucket \in Nat /\ h # Nil
      /\ \A h \in Present : InArray(h) \/ h \in Kept
      /\ \A h \in Kept : h \in Present /\ h \in DOMAIN map
  BY PartsOfKeys
<1>3. \A h \in Present : InArray(h) => array[h] # Nil
  BY <1>2 DEF Present
<1>4. \A h : InArray(h) /\ array[h] # Nil => h \in Present
  BY <1>2 DEF Present
<1>5. Len(array) \in Nat
  BY DEF Types, ArrayTypes
<1>6. ASSUME NEW start \in Nat \ {0}, k = NextFrom(start),
             \A h : InArray(h) => (After(c, h) <=> h >= start),
             \A h \in DOMAIN map : After(c, h)
      PROVE  Follows(c, k)
  <2> HIDE DEF k
  <2>1. CASE /\ k \in start..Len(array) /\ array[k] # Nil
             /\ \A i \in start..Len(array) : array[i] # Nil => k <= i
    <3>1. InArray(k) /\ k \in Present /\ k \in Int /\ k >= start /\ k # Nil /\ k \notin DOMAIN map
      BY <1>1, <1>2, <1>4, <2>1
    <3>2. \A h : InArray(h) => (After(k, h) <=> h > k)
      BY <1>2, <3>1 DEF After
    <3>3. \A h \in DOMAIN map : After(k, h)
      BY <3>1 DEF After
    <3>4. \A h \in Present : InArray(h) => (h >= start <=> h = k \/ h > k)
      BY <1>1, <1>2, <1>3, <1>5, <2>1, <3>1
    <3>5. \A h \in Present : After(c, h) <=> h = k \/ After(k, h)
      BY <1>2, <1>6, <3>1, <3>2, <3>3, <3>4
    <3> QED
      BY <1>6, <3>1, <3>2, <3>5 DEF Found, Follows
  <2>2. CASE \A i \in start..Len(array) : array[i] = Nil
    <3>1. \A h \in Present : InArray(h) => ~(h >= start)
      BY <1>1, <1>2, <1>3, <1>5, <2>2
    <3>2. CASE k = Done /\ Kept = {}
      BY <1>2, <1>6, <3>1, <3>2 DEF Follows
    <3>3. CASE k \in Kept /\ \A h \in Kept : h = k \/ map[h].bucket > map[k].bucket
      <4>1. k \in DOMAIN map /\ k \in Present /\ ~InArray(k) /\ k # Nil
        BY <1>2, <3>3
      <4>2. \A h : After(k, h) <=> h \in DOMAIN map /\ map[h].bucket > map[k].bucket
        BY <4>1 DEF After
      <4>3. \A h \in Present : After(c, h) <=> h = k \/ After(k, h)
        BY <1>2, <1>6, <3>1, <3>3, <4>1, <4>2
      <4> QED
        BY <1>2, <1>6, <4>1, <4>2, <4>3 DEF Found, Follows
    <3> QED
      BY <1>6, <2>2, <3>2, <3>3, <1>1, <1>5, NextInArray
  <2> QED
    BY <1>6, <2>1, <2>2, NextInArray
<1>7. CASE c = Nil
  <2>1. k = NextFrom(1)
    BY <1>7 DEF NextKey
  <2>2. \A h : After(c, h)
    BY <1>7 DEF After
  <2>3. \A h : InArray(h) => h >= 1
    BY <1>1
  <2> QED
    BY <1>6, <2>1, <2>2, <2>3
<1>8. CASE InArray(c)
  <2>1. k = NextFrom(c + 1) /\ c \in Nat /\ c + 1 \in Nat \ {0}
    BY <1>1, <1>2, <1>5, <1>8 DEF NextKey
  <2>2. \A h \in DOMAIN map : After(c, h)
    BY <1>8 DEF After
  <2>3. \A h : InArray(h) => (After(c, h) <=> h >= c + 1)
    BY <1>2, <1>8, <2>1 DEF After
  <2> QED
    BY <1>6, <2>1, <2>2, <2>3
<1>9. CASE c \in DOMAIN map
  <2>1. k = InMapAfter(map[c].bucket) /\ map[c].bucket \in Int
    BY <1>2, <1>9 DEF NextKey
  <2>2. \A h : After(c, h) <=> h \in DOMAIN map /\ map[h].bucket > map[c].bucket
    BY <1>2, <1>9 DEF After
  <2> HIDE DEF k
  <2>3. CASE k = Done /\ \A h \in Kept : ~(map[h].bucket > map[c].bucket)
    BY <1>2, <2>2, <2>3 DEF Follows
  <2>4. CASE /\ k \in Kept /\ map[k].bucket > map[c].bucket
             /\ \A h \in Kept : map[h].bucket > map[c].bucket => h = k \/ map[h].bucket > map[k].bucket
    <3>1. k \in DOMAIN map /\ k \in Present /\ ~InArray(k) /\ k # Nil
      BY <1>2, <2>4
    <3>2. \A h : After(k, h) <=> h \in DOMAIN map /\ map[h].bucket > map[k].bucket
      BY <3>1 DEF After
    <3>3. \A h \in Present : After(c, h) <=> h = k \/ After(k, h)
      BY <1>2, <1>9, <2>2, <2>4, <3>1, <3>2
    <3> QED
      BY <1>2, <2>2, <2>4, <3>1, <3>2, <3>3 DEF Found, Follows
  <2> QED
    BY <2>1, <2>3, <2>4, NextInMap
<1> QED
  BY <1>7, <1>8, <1>9 DEF Found

(* A traversal stands on a key it finds again, and owes the keys that come after. *)
WalkInv ==
    /\ walking => Found(cursor) /\ owed = {h \in Present : After(cursor, h)}
    /\ ~walking => owed = {}

LEMMA WalkInit == TableInit => WalkInv
  BY DEF TableInit, WalkInv

LEMMA SamePlacesWalk ==
    ASSUME Types, WalkInv, NEW k \in Keys, NEW v, Assigned(k, v), Written(k, v), SamePlaces
    PROVE  WalkInv'
<1>1. CASE ~walking'
  BY <1>1 DEF Assigned, WalkInv
<1>2. CASE walking'
  <2>1. /\ walking /\ (Get(k) # Nil \/ v = Nil) /\ cursor' = cursor
        /\ owed' = IF v = Nil THEN owed \ {k} ELSE owed
    BY <1>2 DEF Assigned
  <2>2. \A c, h : After(c, h)' <=> After(c, h)
    BY DEF After, SamePlaces
  <2>3. \A c : Found(c)' <=> Found(c)
    BY DEF Found, SamePlaces
  <2>4. Present' = IF v = Nil THEN Present \ {k} ELSE Present
    BY <2>1 DEF Present, Written
  <2>5. Found(cursor)' <=> Found(cursor)
    BY <2>1, <2>3 DEF Found
  <2>6. \A h : After(cursor, h)' <=> After(cursor, h)
    BY <2>1, <2>2 DEF After
  <2>7. Found(cursor) /\ owed = {h \in Present : After(cursor, h)}
    BY <2>1 DEF WalkInv
  <2>8. owed' = {h \in Present' : After(cursor, h)}
    BY <2>1, <2>4, <2>7
  <2> QED
    BY <1>2, <2>5, <2>6, <2>7, <2>8 DEF WalkInv
<1> QED
  BY <1>1, <1>2

LEMMA NewKeyWalk ==
    ASSUME NEW k, NEW v \in Values, Missing(k), Assigned(k, v)
    PROVE  WalkInv'
<1>1. Get(k) = Nil /\ v # Nil
  BY NilIsHeld DEF Missing, Get
<1> QED
  BY <1>1 DEF Assigned, WalkInv

LEMMA SameTable ==
    ASSUME UNCHANGED <<array, map>>
    PROVE  /\ \A h : InArray(h)' <=> InArray(h)
           /\ \A h : Get(h)' = Get(h)
           /\ Present' = Present
           /\ \A c, h : After(c, h)' <=> After(c, h)
           /\ \A c : Found(c)' <=> Found(c)
<1>1. \A h : InArray(h)' <=> InArray(h)
  BY DEF InArray
<1>2. \A h : Get(h)' = Get(h)
  BY <1>1 DEF Get
<1> QED
  BY <1>1, <1>2 DEF Present, After, Found

LEMMA WalkStep == ASSUME Types, WalkInv, [TableNext]_tableVars PROVE WalkInv'
<1>1. ASSUME UNCHANGED <<array, map, walking, cursor, owed>> PROVE WalkInv'
  BY <1>1, SameTable DEF WalkInv, Found, After
<1>2. ASSUME NEW k \in Keys, NEW v \in Held, SetArray(k, v) PROVE WalkInv'
  BY <1>2, SetArrayWrites, SamePlacesWalk DEF SetArray
<1>3. ASSUME NEW k \in Keys, SetNil(k) PROVE WalkInv'
  BY <1>3, SetNilWrites, SamePlacesWalk DEF SetNil
<1>4. ASSUME NEW k \in Keys, NEW v \in Values, Replace(k, v) PROVE WalkInv'
  BY <1>4, ReplaceWrites, SamePlacesWalk DEF Replace
<1>5. ASSUME NEW k \in Keys, NEW v \in Values,
             Insert(k, v) \/ SetGrowingArray(k, v) \/ SetGrowingMap(k, v)
      PROVE  WalkInv'
  <2>1. Missing(k) /\ Assigned(k, v)
    BY <1>5 DEF Insert, SetGrowingArray, SetGrowingMap
  <2> QED
    BY <2>1, NewKeyWalk
<1>6. CASE BeginWalk
  <2>1. Present' = Present /\ walking' /\ cursor' = Nil /\ owed' = Present
    BY <1>6, SameTable DEF BeginWalk
  <2>2. \A h : After(cursor, h)'
    BY <2>1 DEF After
  <2>3. Found(cursor)'
    BY <2>1 DEF Found
  <2> QED
    BY <2>1, <2>2, <2>3 DEF WalkInv
<1>7. CASE Step
  <2> DEFINE k == NextKey(cursor)
  <2>1. /\ walking /\ k \in Keys /\ cursor' = k /\ owed' = owed \ {k} /\ walking' = walking
        /\ Found(cursor) /\ owed = {h \in Present : After(cursor, h)}
    BY <1>7 DEF Step, WalkInv
  <2>2. Follows(cursor, k)
    BY <2>1, NextFollows
  <2> HIDE DEF k
  <2>3. /\ Present' = Present /\ \A h : After(cursor, h)' <=> After(k, h)
        /\ Found(cursor)' <=> Found(k)
    BY <1>7, <2>1, SameTable DEF Step, After, Found
  <2>4. k # Done
    BY <2>1, PartsOfKeys
  <2>5. /\ Found(k) /\ \A h \in Present : After(cursor, h) <=> h = k \/ After(k, h)
        /\ ~After(k, k)
    BY <2>2, <2>4 DEF Follows
  <2>6. owed' = {h \in Present : After(k, h)}
    BY <2>1, <2>5
  <2> QED
    BY <2>1, <2>3, <2>5, <2>6 DEF WalkInv
<1>8. CASE EndWalk
  BY <1>8 DEF EndWalk, WalkInv
<1>9. ASSUME NEW i \in Integral, NEW v \in Values, TableInsert(i, v) PROVE WalkInv'
  <2>1. NoWalk
    BY <1>9, Zenon DEF TableInsert
  <2> QED
    BY <2>1 DEF NoWalk, WalkInv
<1>10. ASSUME NEW i \in Integral, TableRemove(i) PROVE WalkInv'
  BY <1>10 DEF TableRemove, NoWalk, WalkInv
<1>11. ASSUME NEW k \in Keys, CountPanics(k) PROVE WalkInv'
  BY <1>1, <1>11 DEF CountPanics, Panic, walk
<1>12. CASE UNCHANGED tableVars
  BY <1>1, <1>12 DEF tableVars, walk
<1> QED
  BY <1>2, <1>3, <1>4, <1>5, <1>6, <1>7, <1>8, <1>9, <1>10, <1>11, <1>12, NilIsHeld DEF TableNext

TableInv == Types /\ WalkInv

(* Whatever is assigned, removed or shifted meanwhile, a traversal owes the present keys
   that come after the one it stands on: the array part in order, then the hash part by
   bucket (RawTable::next). *)
THEOREM TableInvariant == TableSpec => []TableInv
<1>1. TableInit => TableInv
  BY TypesInit, WalkInit DEF TableInv
<1>2. TableInv /\ [TableNext]_tableVars => TableInv'
  BY TypesStep, WalkStep DEF TableInv
<1> QED
  BY <1>1, <1>2, PTL DEF TableSpec

(* ---- The counts ---- *)

(* The integer keys a program uses have a counter: `array_counts' has as many as a usize has
   bits, the highest bit of an index can be one more. *)
KeysCounted == \A k \in Integral : k <= 2 ^ (UsizeBits - 1)

LEMMA HighestBitFits ==
    ASSUME NEW i \in Nat, i < 2 ^ (UsizeBits - 1)
    PROVE  HighestBit(i) \in 0..UsizeBits - 1
<1> DEFINE S == {b \in 0..UsizeBits : i < 2 ^ b}
<1>1. S \in SUBSET Nat /\ UsizeBits - 1 \in S
  BY TableAssumption
<1>2. PICK b \in S : \A y \in S : b <= y
  <2> HIDE DEF S
  <2> QED BY <1>1, LeastExists
<1>3. \A c \in 0..b - 1 : 2 ^ c <= i
  <2> SUFFICES ASSUME NEW c \in 0..b - 1, ~(2 ^ c <= i) PROVE FALSE
    OBVIOUS
  <2>1. c \in 0..UsizeBits /\ c < b /\ b \in Nat
    BY <1>2, TableAssumption
  <2>2. i < 2 ^ c
    OBVIOUS
  <2>3. c \in S
    BY <2>1, <2>2
  <2> HIDE DEF S
  <2> QED
    BY <1>2, <2>1, <2>3
<1>4. \E a \in 0..UsizeBits : i < 2 ^ a /\ \A c \in 0..a - 1 : 2 ^ c <= i
  BY <1>2, <1>3
<1>5. HighestBit(i) \in 0..UsizeBits /\ \A c \in 0..HighestBit(i) - 1 : 2 ^ c <= i
  BY <1>4 DEF HighestBit
<1>6. HighestBit(i) # UsizeBits
  <2> SUFFICES ASSUME HighestBit(i) = UsizeBits PROVE FALSE
    OBVIOUS
  <2>1. 2 ^ (UsizeBits - 1) <= i
    BY <1>5, TableAssumption
  <2>2. 2 ^ (UsizeBits - 1) \in Int
    BY TableAssumption
  <2> QED
    BY <2>1, <2>2
<1> QED
  BY <1>5, <1>6, TableAssumption

LEMMA CountsFit ==
    ASSUME Types, KeysCounted, NEW k, Candidate(k)
    PROVE  ~DeadKeptAlive /\ ~CountOverflows(Indexes(k))
<1>1. ~DeadKeptAlive
  BY DEF DeadKeptAlive, Types, MapTypes
<1>2. \A j \in Integral : j > 0 => j - 1 \in Nat /\ j - 1 < 2 ^ (UsizeBits - 1)
  BY TableAssumption DEF KeysCounted
<1>3. \A j \in DOMAIN array : j \in Integral /\ j > 0
  BY TableAssumption DEF Types, ArrayTypes
<1>4. \A i \in Indexes(k) : i \in Nat /\ i < 2 ^ (UsizeBits - 1)
  BY <1>2, <1>3 DEF Indexes, Candidate
<1>5. \A i \in Indexes(k) : HighestBit(i) \in 0..UsizeBits - 1
  BY <1>4, HighestBitFits
<1> QED
  BY <1>1, <1>5, TableAssumption DEF CountOverflows

LEMMA NotPanickedStep == ASSUME Types, KeysCounted, ~panicked, [TableNext]_tableVars PROVE ~panicked'
<1>1. ASSUME NEW k \in Keys, CountPanics(k) PROVE FALSE
  BY <1>1, CountsFit DEF CountPanics
<1> QED
  BY <1>1, Zenon DEF TableNext, tableVars, SetNil, SetArray, Replace, Insert, SetGrowingArray, SetGrowingMap,
     BeginWalk, Step, EndWalk, TableInsert, TableRemove

(* No key makes the table panic (RawTable::set), and next finds the key a traversal stands
   on, be it removed since (RawTable::next). *)
THEOREM TableDoesNotFail == ASSUME KeysCounted PROVE TableSpec => []TableNeverFails
<1>1. TableInit => ~panicked
  BY DEF TableInit
<1>2. TableInv /\ ~panicked /\ [TableNext]_tableVars => ~panicked'
  BY NotPanickedStep DEF TableInv
<1>3. TableInv /\ ~panicked => TableNeverFails
  <2> SUFFICES ASSUME TableInv, ~panicked, walking PROVE NextKey(cursor) # NotFound
    BY DEF TableNeverFails
  <2>1. Follows(cursor, NextKey(cursor))
    BY NextFollows DEF TableInv, WalkInv
  <2>2. Done # NotFound /\ NotFound \notin Keys
    BY KindsAssumption, PartsOfKeys DEF TableInv
  <2> QED
    BY <2>1, <2>2 DEF Follows, Present
<1> QED
  BY <1>1, <1>2, <1>3, TableInvariant, PTL DEF TableSpec

(* ---- #t ---- *)

LEMMA LengthFound ==
    ASSUME Types
    PROVE  LengthIsBorder /\ Length \in 0..MaxInteger
<1> DEFINE n == Len(array)
           present == {i \in 1..n : array[i] # Nil}
           end == Doubled(n + 1, Kept)
<1>1. n \in Nat /\ n <= MaxArray /\ n <= MaxInteger /\ DOMAIN array = 1..n
  BY TableAssumption DEF Types, ArrayTypes
<1>2. /\ \A h : InArray(h) <=> h \in 1..n
      /\ \A h : InArray(h) => h \in Integral /\ Get(h) = array[h]
      /\ \A h \in DOMAIN map : ~InArray(h) /\ h \in Keys
      /\ \A h \in Int : h \in DOMAIN map => h \in Integral /\ h <= MaxInteger
  <2>1. \A h \in Int : h \in Keys => h \in Integral /\ h <= MaxInteger
    BY TableAssumption, KindsAssumption DEF Keys
  <2> QED
    BY <2>1, PartsOfKeys DEF InArray
<1>3. \A h \in Int : ~InArray(h) => (Get(h) # Nil <=> h \in Kept)
  BY DEF Get, Kept
<1>4. CASE n > 0 /\ array[n] = Nil
  <2> DEFINE b == BinarySearch(0, n, present)
  <2>1. b \in 0..n - 1 /\ (b = 0 \/ b \in present) /\ b + 1 \notin present
    <3>1. n \notin present
      BY <1>4
    <3> HIDE DEF present, n
    <3> QED
      BY <1>1, <1>4, <3>1, SearchFindsBorder
  <2>2. Length = b
    BY <1>4 DEF Length
  <2> HIDE DEF b
  <2>3. b \in 0..MaxInteger /\ b + 1 \in 1..n
    BY <1>1, <1>4, <2>1, TableAssumption
  <2>4. array[b + 1] = Nil
    BY <2>1, <2>3
  <2>5. Get(b + 1) = Nil
    BY <1>2, <2>3, <2>4
  <2>6. b = 0 \/ (b \in Integral /\ Get(b) # Nil)
    <3>1. CASE b \in present
      BY <1>2, <3>1
    <3> QED
      BY <2>1, <3>1
  <2> QED
    BY <2>2, <2>3, <2>5, <2>6 DEF LengthIsBorder
<1>5. CASE ~(n > 0 /\ array[n] = Nil)
  <2>1. n = 0 \/ (InArray(n) /\ array[n] # Nil)
    BY <1>1, <1>2, <1>5
  <2>2. CASE map = << >>
    <3>1. Length = n
      BY <1>5, <2>2 DEF Length
    <3>2. n + 1 \notin DOMAIN map /\ ~InArray(n + 1)
      BY <1>1, <1>2, <2>2
    <3>3. Get(n + 1) = Nil
      BY <3>2 DEF Get
    <3> QED
      BY <1>1, <1>2, <2>1, <3>1, <3>3 DEF LengthIsBorder
  <2>3. CASE map # << >>
    <3>1. MaxInteger + 1 \notin Kept
      BY <1>2, TableAssumption DEF Kept
    <3>2. end \in n + 1..MaxInteger + 1 /\ (end \notin Kept \/ end = MaxInteger)
      <4>1. n + 1 \in Ends
        BY <1>1, TableAssumption DEF Ends
      <4> HIDE DEF n
      <4> QED
        BY <3>1, <4>1, DoublingEnds
    <3>3. CASE end \in Kept
      <4>1. Length = MaxInteger
        BY <1>5, <2>3, <3>3 DEF Length
      <4>2. MaxInteger \in Kept /\ MaxInteger \in Int /\ MaxInteger \in 0..MaxInteger
        BY <3>2, <3>3, TableAssumption
      <4>3. MaxInteger \in Integral /\ ~InArray(MaxInteger)
        BY <1>2, <4>2 DEF Kept
      <4> QED
        BY <1>3, <4>1, <4>2, <4>3 DEF LengthIsBorder
    <3>4. CASE end \notin Kept
      <4> DEFINE b == BinarySearch(n, end, Kept)
      <4>1. b \in n..end - 1 /\ (b = n \/ b \in Kept) /\ b + 1 \notin Kept
        <5>1. end \in Nat /\ n < end
          BY <1>1, <3>2
        <5> HIDE DEF n, end
        <5> QED
          BY <1>1, <3>4, <5>1, SearchFindsBorder
      <4>2. Length = b
        BY <1>5, <2>3, <3>4 DEF Length
      <4> HIDE DEF b, end
      <4>3. b \in Int /\ b >= n /\ b <= MaxInteger /\ ~InArray(b + 1)
        <5> HIDE DEF n
        <5>1. end \in Int /\ end <= MaxInteger + 1
          BY <1>1, <3>2, TableAssumption
        <5>2. b \in Int /\ b >= n /\ b <= MaxInteger
          BY <1>1, <4>1, <5>1, TableAssumption
        <5>3. b + 1 \notin 1..n
          BY <1>1, <5>2
        <5> QED
          BY <1>2, <5>2, <5>3
      <4>4. Get(b + 1) = Nil
        BY <1>3, <4>1, <4>3
      <4>5. b = 0 \/ (b \in Integral /\ Get(b) # Nil)
        <5>1. CASE b = n
          BY <1>2, <2>1, <5>1
        <5>2. CASE b \in Kept
          BY <1>2, <1>3, <4>3, <5>2 DEF Kept
        <5> QED
          BY <4>1, <5>1, <5>2
      <4> QED
        BY <1>1, <4>2, <4>3, <4>4, <4>5, TableAssumption DEF LengthIsBorder
    <3> QED
      BY <3>3, <3>4
  <2> QED
    BY <2>2, <2>3
<1> QED
  BY <1>4, <1>5

(* #t is a border of the two parts together, whichever of them the searches have to go
   through and how far (RawTable::length). *)
THEOREM LengthAlwaysBorder == TableSpec => []LengthIsBorder
<1>1. Types => LengthIsBorder
  BY LengthFound
<1> QED
  BY <1>1, TableInvariance, PTL

(* ---- The table is the map of the contract ---- *)

(* The length is cast to a usize by the shifts; the integer keys a program uses survive it. *)
KeysAddressed == \A k \in Integral : k < 2 ^ UsizeBits

Contents == [k \in Keys |-> Get(k)]

LEMMA ContractInit == TableInit => Contract!ContractInit
<1> SUFFICES ASSUME TableInit PROVE Contract!ContractInit
  OBVIOUS
<1>1. \A i \in DOMAIN array : array[i] = Nil
  BY DEF TableInit
<1>2. map = << >> /\ DOMAIN map = {}
  BY DEF TableInit
<1>3. \A k \in Keys : Get(k) = Nil
  <2>1. \A k : InArray(k) => array[k] = Nil
    BY <1>1, TableAssumption DEF InArray, TableInit
  <2> QED
    BY <1>2, <2>1 DEF Get
<1>4. walking = FALSE /\ owed = {}
  BY DEF TableInit
<1> QED
  BY <1>3, <1>4 DEF Contract!ContractInit, Contract!Keys, Keys

LEMMA AssignsAsContract ==
    ASSUME WalkInv, NEW k \in Keys, NEW v \in Held, Written(k, v), Assigned(k, v)
    PROVE  Contract!ContractNext
<1>1. Contents' = [Contents EXCEPT ![k] = v]
  BY DEF Contents, Written
<1>2. Contents[k] = Get(k)
  BY DEF Contents
<1>3. CASE walking /\ (Get(k) # Nil \/ v = Nil)
  <2>1. walking' = walking /\ owed' = IF v = Nil THEN owed \ {k} ELSE owed
    BY <1>3 DEF Assigned
  <2> QED
    BY <1>1, <1>2, <1>3, <2>1 DEF Contract!ContractNext, Contract!Assign, Contract!Keys, Keys, Held, Contents
<1>4. CASE ~(walking /\ (Get(k) # Nil \/ v = Nil))
  <2>1. walking' = FALSE /\ owed' = {}
    BY <1>4 DEF Assigned
  <2>2. ~walking => owed = {} /\ walking = FALSE
    BY DEF WalkInv
  <2> QED
    BY <1>1, <1>2, <1>4, <2>1, <2>2 DEF Contract!ContractNext, Contract!Assign, Contract!Stop, Contract!Keys, Keys, Held, Contents
<1> QED
  BY <1>3, <1>4

(* The border the shifts work on is one of the contract. *)
LEMMA BorderOfContract ==
    ASSUME Types, KeysAddressed, NEW i \in Integral, i >= 1
    PROVE  Border \in Contract!Borders /\ Border \in Nat
<1>1. Length \in Nat /\ Length <= MaxInteger /\ (Length = 0 \/ (Length \in Integral /\ Get(Length) # Nil))
      /\ (Length < MaxInteger => Get(Length + 1) = Nil)
  BY LengthFound DEF LengthIsBorder
<1>2. 2 ^ UsizeBits \in Int /\ Length < 2 ^ UsizeBits
  BY <1>1, TableAssumption DEF KeysAddressed
<1>3. Border = Length
  <2> DEFINE n == Length
             w == 2 ^ UsizeBits
  <2>1. Border = n % w /\ n \in Nat /\ w \in Int /\ n < w
    BY <1>1, <1>2 DEF Border
  <2> HIDE DEF n, w
  <2>2. Border = n
    BY <2>1
  <2> QED
    BY <2>2 DEF n
<1>4. Contract!At(Length + 1) = Nil
  <2>1. CASE Length + 1 \in Keys
    <3>1. Length + 1 \in Integral
      BY <1>1, <2>1, KindsAssumption DEF Keys
    <3>2. Length < MaxInteger
      BY <1>1, <3>1, TableAssumption
    <3> QED
      BY <1>1, <2>1, <3>2 DEF Contract!At, Contract!Keys, Keys
  <2>2. CASE Length + 1 \notin Keys
    BY <2>2 DEF Contract!At, Contract!Keys, Keys
  <2> QED
    BY <2>1, <2>2
<1>5. Length = 0 \/ Contract!At(Length) # Nil
  BY <1>1 DEF Contract!At, Contract!Keys, Keys
<1> QED
  BY <1>1, <1>3, <1>4, <1>5 DEF Contract!Borders

(* The shift of an array part that holds what the keys up to its length held. *)
LEMMA ShiftedAsContract ==
    ASSUME Types, NEW i \in Integral, NEW v \in Values, NEW a \in Seq(Held), Len(a) <= MaxArray,
           Border \in 0..Len(a) - 1, Border \in Contract!Borders, i \in 1..Border + 1,
           array' = ShiftedRight(a, i, v), NoWalk,
           \A h \in 1..Len(a) : a[h] = Get(h),
           \A h \in Keys : h \notin 1..Len(a) => Get(h)' = Get(h)
    PROVE  Contract!InsertAt(i, v)
<1>1. /\ Len(array') = Len(a)
      /\ \A j \in 1..Len(a) : array'[j] = IF j = i THEN v
                                          ELSE IF j \in i + 1..Border + 1 THEN a[j - 1] ELSE a[j]
  BY ShiftedRightHolds
<1>2. \A h \in 1..Len(a) : h \in Integral /\ h \in Keys /\ h \in Int
  BY TableAssumption DEF Keys
<1>3. \A h \in 1..Len(a) : Get(h)' = array'[h]
  BY <1>1, <1>2 DEF Get, InArray
<1>4. \A h \in 1..Len(a) : Contract!At(h) = Get(h)
  BY <1>2 DEF Contract!At, Contract!Keys, Keys
<1>5. \A j \in 1..Len(a) : Get(j)' = IF j \in Integral /\ j \in i + 1..Border + 1 THEN Contract!At(j - 1)
                                    ELSE IF j = i THEN v ELSE Get(j)
  <2> SUFFICES ASSUME NEW j \in 1..Len(a)
               PROVE  Get(j)' = IF j \in Integral /\ j \in i + 1..Border + 1 THEN Contract!At(j - 1)
                               ELSE IF j = i THEN v ELSE Get(j)
    OBVIOUS
  <2>1. j \in Integral /\ Get(j)' = array'[j] /\ a[j] = Get(j)
    BY <1>2, <1>3
  <2>2. CASE j = i
    BY <1>1, <2>1, <2>2
  <2>3. CASE j \in i + 1..Border + 1
    <3>1. j - 1 \in 1..Len(a) /\ j # i
      BY <2>3
    <3>2. a[j - 1] = Contract!At(j - 1)
      BY <1>4, <3>1
    <3> QED
      BY <1>1, <2>1, <2>3, <3>1, <3>2
  <2>4. CASE j # i /\ j \notin i + 1..Border + 1
    BY <1>1, <2>1, <2>4
  <2> QED
    BY <2>2, <2>3, <2>4
<1>6. \A h \in Keys : h \notin 1..Len(a) => h # i /\ h \notin i + 1..Border + 1
  OBVIOUS
<1>7. \A h \in Keys : Get(h)' = IF h \in Integral /\ h \in i + 1..Border + 1 THEN Contract!At(h - 1)
                               ELSE IF h = i THEN v ELSE Get(h)
  BY <1>5, <1>6
<1>8. Contents' = [h \in Keys |-> IF h \in Integral /\ h \in i + 1..Border + 1 THEN Contract!At(h - 1)
                                  ELSE IF h = i THEN v ELSE Contents[h]]
  BY <1>7 DEF Contents
<1> QED
  BY <1>8 DEF Contract!InsertAt, Contract!Keys, Keys, Contract!Stop, NoWalk, Contents

LEMMA TableInsertAsContract ==
    ASSUME Types, KeysAddressed, NEW i \in Integral, NEW v \in Values, TableInsert(i, v)
    PROVE  Contract!InsertAt(i, v)
<1>1. Border \in 0..Len(array) /\ i \in 1..Border + 1 /\ NoWalk
  BY Zenon DEF TableInsert
<1>2. Border \in Contract!Borders
  BY <1>1, BorderOfContract
<1>3. array \in Seq(Held) /\ Len(array) \in Nat /\ Len(array) <= MaxArray
  BY DEF Types, ArrayTypes
<1>4. CASE Border < Len(array)
  <2>1. array' = ShiftedRight(array, i, v) /\ UNCHANGED <<map, room>>
    BY <1>4 DEF TableInsert
  <2>2. \A h \in 1..Len(array) : array[h] = Get(h)
    BY PartsOfKeys
  <2>3. Border \in 0..Len(array) - 1
    BY <1>1, <1>3, <1>4
  <2>4. Len(array') = Len(array)
    BY <1>1, <1>3, <2>1, <2>3, ShiftedRightHolds
  <2>5. \A h \in Keys : h \notin 1..Len(array) => Get(h)' = Get(h)
    BY <2>1, <2>4 DEF Get, InArray
  <2> QED
    BY <1>1, <1>2, <1>3, <2>1, <2>2, <2>3, <2>5, ShiftedAsContract
<1>5. CASE ~(Border < Len(array))
  <2>1. PICK size \in 1..MaxArray :
          GrowsTo(size, 1) /\ array' = ShiftedRight(GrownArray(size), i, v) /\ GrownMap(size)
    BY <1>5 DEF TableInsert
  <2>2. size \in Nat /\ size >= Len(array) + 1 /\ size >= Len(array) /\ size <= MaxArray
    BY <1>3, <2>1, TableAssumption DEF GrowsTo
  <2> DEFINE a == GrownArray(size)
  <2>3. a \in Seq(Held) /\ Len(a) = size /\ \A h \in Keys : InGrown(size, h) => a[h] = Get(h)
    BY <2>2, GrownArrayHolds
  <2>4. \A h : InGrown(size, h) <=> h \in 1..size
    BY <2>2, TableAssumption DEF InGrown
  <2>5. array' = ShiftedRight(a, i, v)
    BY <2>1
  <2> HIDE DEF a
  <2>6. Border \in 0..Len(a) - 1
    BY <1>1, <1>3, <2>2, <2>3
  <2>7. Len(array') = size
    BY <1>1, <2>3, <2>5, <2>6, ShiftedRightHolds
  <2>8. \A h : InArray(h)' <=> InGrown(size, h)
    BY <2>7 DEF InArray, InGrown
  <2>9. map' = Retained(size)
    BY <2>1 DEF GrownMap
  <2>10. \A h \in Keys : ~InGrown(size, h) => Get(h) = IF h \in DOMAIN map' THEN map'[h].value ELSE Nil
    BY <2>2, <2>9, RetainedHolds
  <2>11. \A h \in Keys : h \notin 1..Len(a) => Get(h)' = Get(h)
    BY <2>3, <2>4, <2>8, <2>10 DEF Get
  <2>12. \A h \in 1..Len(a) : a[h] = Get(h)
    BY <2>3, <2>4 DEF InGrown, Keys
  <2> QED
    BY <1>1, <1>2, <2>2, <2>3, <2>5, <2>6, <2>11, <2>12, ShiftedAsContract
<1> QED
  BY <1>4, <1>5

LEMMA TableRemoveAsContract ==
    ASSUME Types, KeysAddressed, NEW i \in Integral, TableRemove(i)
    PROVE  Contract!RemoveAt(i)
<1>1. /\ Border \in 0..Len(array) /\ i \in 1..Border /\ NoWalk
      /\ array' = ShiftedLeft(array, i) /\ UNCHANGED <<map, room>>
  BY DEF TableRemove
<1>2. Border \in Contract!Borders
  BY <1>1, BorderOfContract
<1>3. array \in Seq(Held) /\ Len(array) \in Nat /\ Len(array) <= MaxArray
  BY DEF Types, ArrayTypes
<1>4. /\ Len(array') = Len(array)
      /\ \A j \in 1..Len(array) : array'[j] = IF j = Border THEN Nil
                                              ELSE IF j \in i..Border - 1 THEN array[j + 1] ELSE array[j]
  BY <1>1, <1>3, ShiftedLeftHolds
<1>5. \A h \in 1..Len(array) : /\ h \in Integral /\ h \in Keys /\ array[h] = Get(h)
                               /\ Get(h)' = array'[h] /\ Contract!At(h) = Get(h)
  <2>1. \A h \in 1..Len(array) : h \in Integral /\ h \in Keys
    BY <1>3, TableAssumption DEF Keys
  <2>2. \A h \in 1..Len(array) : array[h] = Get(h) /\ Get(h)' = array'[h]
    BY <1>4, <2>1 DEF Get, InArray
  <2> QED
    BY <2>1, <2>2 DEF Contract!At, Contract!Keys, Keys
<1>6. \A j \in 1..Len(array) : Get(j)' = IF j \in Integral /\ j \in i..Border - 1 THEN Contract!At(j + 1)
                                        ELSE IF j = Border THEN Nil ELSE Get(j)
  <2> SUFFICES ASSUME NEW j \in 1..Len(array)
               PROVE  Get(j)' = IF j \in Integral /\ j \in i..Border - 1 THEN Contract!At(j + 1)
                               ELSE IF j = Border THEN Nil ELSE Get(j)
    OBVIOUS
  <2>1. j \in Integral /\ Get(j)' = array'[j] /\ array[j] = Get(j)
    BY <1>5
  <2>2. CASE j = Border
    BY <1>1, <1>4, <2>1, <2>2
  <2>3. CASE j \in i..Border - 1
    <3>1. j + 1 \in 1..Len(array) /\ j # Border
      BY <1>1, <2>3
    <3>2. array[j + 1] = Contract!At(j + 1)
      BY <1>5, <3>1
    <3> QED
      BY <1>4, <2>1, <2>3, <3>1, <3>2
  <2>4. CASE j # Border /\ j \notin i..Border - 1
    BY <1>4, <2>1, <2>4
  <2> QED
    BY <2>2, <2>3, <2>4
<1>7. \A h \in Keys : h \notin 1..Len(array) =>
          h # Border /\ h \notin i..Border - 1 /\ Get(h)' = Get(h)
  <2>1. \A h \in Keys : h \notin 1..Len(array) => Get(h)' = Get(h)
    BY <1>1, <1>4 DEF Get, InArray
  <2>2. \A h \in Keys : h \notin 1..Len(array) => h # Border /\ h \notin i..Border - 1
    BY <1>1
  <2> QED
    BY <2>1, <2>2
<1>8. Contents' = [h \in Keys |-> IF h \in Integral /\ h \in i..Border - 1 THEN Contract!At(h + 1)
                                  ELSE IF h = Border THEN Nil ELSE Contents[h]]
  BY <1>6, <1>7 DEF Contents
<1> QED
  BY <1>1, <1>2, <1>8 DEF Contract!RemoveAt, Contract!Keys, Keys, Contract!Stop, NoWalk, Contents

LEMMA ContractStep ==
    ASSUME KeysAddressed, TableInv, [TableNext]_tableVars
    PROVE  [Contract!ContractNext]_(Contract!contractVars)
<1> USE DEF TableInv
<1>1. ASSUME NEW k \in Keys, NEW v \in Held, SetArray(k, v) PROVE Contract!ContractNext
  BY <1>1, SetArrayWrites, AssignsAsContract DEF SetArray
<1>2. ASSUME NEW k \in Keys, SetNil(k) PROVE Contract!ContractNext
  BY <1>2, SetNilWrites, NilIsHeld, AssignsAsContract DEF SetNil
<1>3. ASSUME NEW k \in Keys, NEW v \in Values,
             Replace(k, v) \/ Insert(k, v) \/ SetGrowingArray(k, v) \/ SetGrowingMap(k, v)
      PROVE  Contract!ContractNext
  <2>1. Written(k, v) /\ v \in Held
    BY <1>3, NilIsHeld, ReplaceWrites, InsertWrites, SetGrowingArrayWrites, SetGrowingMapWrites
  <2>2. Assigned(k, v)
    BY <1>3 DEF Replace, Insert, SetGrowingArray, SetGrowingMap
  <2> QED
    BY <2>1, <2>2, AssignsAsContract
<1>4. CASE BeginWalk
  <2>1. Contents' = Contents /\ walking' = TRUE /\ owed' = Present
    BY <1>4, SameTable DEF BeginWalk, Contents
  <2>2. Present = {k \in Keys : Contents[k] # Nil}
    BY DEF Present, Contents
  <2> QED
    BY <2>1, <2>2 DEF Contract!ContractNext, Contract!Begin, Contract!Keys, Keys, Contents
<1>5. CASE Step
  <2> DEFINE k == NextKey(cursor)
  <2>1. /\ walking /\ k \in Keys /\ owed' = owed \ {k} /\ walking' = walking
        /\ Found(cursor) /\ owed = {h \in Present : After(cursor, h)}
    BY <1>5 DEF Step, WalkInv
  <2>2. Follows(cursor, k)
    BY <2>1, NextFollows
  <2> HIDE DEF k
  <2>3. k # Done
    BY <2>1, PartsOfKeys
  <2>4. k \in owed
    BY <2>1, <2>2, <2>3 DEF Follows
  <2>5. Contents' = Contents
    BY <1>5, SameTable DEF Step, Contents
  <2> QED
    BY <2>1, <2>4, <2>5 DEF Contract!ContractNext, Contract!Visit, Contract!Keys, Keys, Contents
<1>6. CASE EndWalk
  <2>1. walking /\ NextKey(cursor) = Done /\ walking' = FALSE /\ owed' = {}
        /\ Found(cursor) /\ owed = {h \in Present : After(cursor, h)}
    BY <1>6 DEF EndWalk, WalkInv
  <2>2. Follows(cursor, Done) /\ Done \notin Present
    BY <2>1, NextFollows, PartsOfKeys DEF Present
  <2>3. owed = {}
    BY <2>1, <2>2 DEF Follows
  <2>4. Contents' = Contents
    BY <1>6, SameTable DEF EndWalk, Contents
  <2> QED
    BY <2>1, <2>3, <2>4 DEF Contract!ContractNext, Contract!End, Contract!Stop, Contents
<1>7. ASSUME NEW i \in Integral, NEW v \in Values, TableInsert(i, v) PROVE Contract!ContractNext
  BY <1>7, TableInsertAsContract DEF Contract!ContractNext
<1>8. ASSUME NEW i \in Integral, TableRemove(i) PROVE Contract!ContractNext
  BY <1>8, TableRemoveAsContract DEF Contract!ContractNext
<1>9. ASSUME UNCHANGED <<array, map, walking, owed>>
      PROVE  [Contract!ContractNext]_(Contract!contractVars)
  <2>1. Contents' = Contents /\ walking' = walking /\ owed' = owed
    BY <1>9, SameTable DEF Contents
  <2> QED
    BY <2>1 DEF Contract!contractVars, Contents
<1>10. ASSUME NEW k \in Keys, CountPanics(k) PROVE UNCHANGED <<array, map, walking, owed>>
  BY <1>10 DEF CountPanics, Panic, walk
<1>11. CASE UNCHANGED tableVars
  BY <1>9, <1>11 DEF tableVars, walk
<1> QED
  BY <1>1, <1>2, <1>3, <1>4, <1>5, <1>6, <1>7, <1>8, <1>9, <1>10, <1>11, NilIsHeld DEF TableNext

(* Whatever part an element lives in and wherever it moves, a table is a function from keys
   to values; the shifts of table.insert and table.remove work on a border of it; and a
   traversal visits every key once while only fields that exist are assigned. *)
THEOREM TableImplementsContract == ASSUME KeysAddressed PROVE TableSpec => ImplementsTable
<1>1. TableInit => Contract!ContractInit
  BY ContractInit
<1>2. TableInv /\ [TableNext]_tableVars => [Contract!ContractNext]_(Contract!contractVars)
  BY ContractStep
<1>3. TableSpec => []TableInv
  BY TableInvariant
<1> QED
  BY <1>1, <1>2, <1>3, PTL DEF TableSpec, ImplementsTable, Contract!ContractSpec
====
