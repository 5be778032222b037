---- MODULE LuaTable ----
(* The table of piccolo (table/raw.rs): an array part for the keys 1, 2, ... and a hash
   part whose removed entries stay in their bucket, so that a traversal finds its way.
   Where an entry lands in the hash part is up to the hash; the array part grows by as
   much as the vector likes. *)
EXTENDS Integers, FiniteSets, Sequences, FiniteSetsExt

CONSTANTS Integral,    \* the integer keys
          Objects,     \* the keys the collector knows: strings, tables, functions
          Values, Nil,
          Done, NotFound,  \* NextValue::Last, NextValue::NotFound
          MaxInteger,  \* i64::MAX
          UsizeBits,
          MaxArray,    \* bound: length of the array part
          Buckets      \* bound: the buckets of the hash part

VARIABLES array,       \* the array part
          map,         \* the hash part: key -> entry
          room,        \* entries the hash part takes before it must grow
          walking, cursor, owed,  \* a traversal: its last key, the keys it owes (history)
          panicked
tableVars == <<array, map, room, walking, cursor, owed, panicked>>
walk == <<walking, cursor, owed>>

ASSUME TableAssumption ==
    /\ Integral \subseteq Int /\ MaxInteger \in Nat /\ UsizeBits \in Nat \ {0}
    /\ \A k \in Integral : k <= MaxInteger /\ 1..k \subseteq Integral
    /\ MaxArray \in 0..MaxInteger /\ 1..MaxArray \subseteq Integral
    /\ Buckets \subseteq Nat /\ IsFiniteSet(Buckets)

(* The kinds of keys and the special answers are told apart. *)
ASSUME KindsAssumption ==
    /\ Objects \intersect Int = {}
    /\ Nil \notin Values
    /\ {Nil, Done, NotFound} \intersect (Int \union Objects) = {}
    /\ Done # NotFound

Keys == Integral \union Objects
Entry(value, dead, bucket) == [value |-> value, dead |-> dead, bucket |-> bucket]
Candidate(k) == k \in Integral /\ k > 0 /\ k < 2 ^ UsizeBits
InArray(k) == k \in Integral /\ k \in 1..Len(array)
Kept == {k \in DOMAIN map : map[k].value # Nil}

Get(k) == IF InArray(k) THEN array[k] ELSE IF k \in DOMAIN map THEN map[k].value ELSE Nil
Present == {k \in Keys : Get(k) # Nil}

(* ---- Growing ---- *)

HighestBit(i) == CHOOSE b \in 0..UsizeBits : i < 2 ^ b /\ \A c \in 0..b - 1 : 2 ^ c <= i

(* The indexes that would be in use if k came in. *)
Indexes(k) ==
    {i - 1 : i \in {j \in DOMAIN array : array[j] # Nil}} \union {j - 1 : j \in {h \in Kept : Candidate(h)} \union {k}}

(* The largest power of two that the used indexes below it fill by more than half. *)
OptimalSize(used) ==
    LET good == {b \in 0..UsizeBits - 1 :
                    /\ 2 ^ b \div 2 < Cardinality(used)
                    /\ \E i \in used : HighestBit(i) = b
                    /\ Cardinality({i \in used : i < 2 ^ b}) > 2 ^ b \div 2}
    IN  IF good = {} THEN 0 ELSE 2 ^ Max(good)

(* Counting by highest bit leaves the array of counts, one for each bit of a usize. *)
CountOverflows(used) == \E i \in used : HighestBit(i) >= UsizeBits

(* Mutant: the entries that now belong to the array part stay where they are. *)
GrownArrayUnmoved(size) ==
    [i \in 1..size |-> IF i \in DOMAIN array THEN array[i] ELSE Nil]

GrownArray(size) ==
    [i \in 1..size |-> IF i \in DOMAIN array THEN array[i]
                       ELSE IF i \in Kept THEN map[i].value ELSE Nil]

(* What the hash part keeps when the array part has the length size. *)
Retained(size) == [k \in {h \in Kept : ~(h \in Integral /\ h \in 1..size)} |-> map[k]]

Taken(m) == {m[k].bucket : k \in DOMAIN m}
FreeBuckets == Buckets \ Taken(map)

TableInit ==
    /\ \E n \in 0..MaxArray : array = [i \in 1..n |-> Nil]
    /\ map = << >>
    /\ room \in {0, Cardinality(Buckets)}
    /\ walking = FALSE /\ cursor = Nil /\ owed = {}
    /\ panicked = FALSE

(* ---- set ---- *)

(* The traversal is the caller's; a new key takes its promise away. *)
Assigned(k, v) ==
    /\ walking' = (walking /\ (Get(k) # Nil \/ v = Nil))
    /\ owed' = IF ~walking' THEN {} ELSE IF v = Nil THEN owed \ {k} ELSE owed
    /\ cursor' = IF walking' THEN cursor ELSE Nil

SetArray(k, v) ==
    /\ InArray(k)
    /\ array' = [array EXCEPT ![k] = v]
    /\ Assigned(k, v)
    /\ UNCHANGED <<map, room, panicked>>

(* Mutant: the entry leaves its bucket. *)
SetNilVacates(k) ==
    /\ ~InArray(k)
    /\ map' = [h \in DOMAIN map \ {k} |-> map[h]]
    /\ Assigned(k, Nil)
    /\ UNCHANGED <<array, room, panicked>>

(* The entry stays, under a dead key when the collector knows the key. *)
SetNil(k) ==
    /\ ~InArray(k)
    /\ map' = [h \in DOMAIN map |-> IF h = k THEN Entry(Nil, k \in Objects, map[h].bucket) ELSE map[h]]
    /\ Assigned(k, Nil)
    /\ UNCHANGED <<array, room, panicked>>

Replace(k, v) ==
    /\ ~InArray(k) /\ k \in DOMAIN map
    /\ map' = [map EXCEPT ![k] = Entry(v, FALSE, @.bucket)]
    /\ Assigned(k, v)
    /\ UNCHANGED <<array, room, panicked>>

Missing(k) == ~InArray(k) /\ k \notin DOMAIN map
With(m, k, v, bucket) == [h \in DOMAIN m \union {k} |-> IF h = k THEN Entry(v, FALSE, bucket) ELSE m[h]]

Insert(k, v) ==
    /\ Missing(k) /\ room > 0
    /\ \E b \in FreeBuckets : map' = With(map, k, v, b)
    /\ room' = room - 1
    /\ Assigned(k, v)
    /\ UNCHANGED <<array, panicked>>

DeadKeptAlive == \E k \in DOMAIN map : map[k].dead /\ map[k].value # Nil
Panic ==
    /\ panicked' = TRUE
    /\ UNCHANGED <<array, map, room, walk>>

CountPanics(k) ==
    /\ Missing(k) /\ room = 0
    /\ Candidate(k) /\ (DeadKeptAlive \/ CountOverflows(Indexes(k)))
    /\ Panic

(* grow_array: the vector may take more than it is asked for. *)
GrowsTo(size, additional) == size >= Len(array) + additional
GrownMap(size) ==
    /\ map' = Retained(size)
    /\ \E freed \in 0..Cardinality(DOMAIN map \ DOMAIN Retained(size)) : room' = room + freed

FitsInArray(k) == Candidate(k) /\ OptimalSize(Indexes(k)) > k - 1

SetGrowingArray(k, v) ==
    /\ Missing(k) /\ room = 0
    /\ ~(Candidate(k) /\ CountOverflows(Indexes(k)))
    /\ FitsInArray(k)
    /\ \E size \in 1..MaxArray :
        /\ GrowsTo(size, OptimalSize(Indexes(k)) - Len(array))
        /\ array' = [GrownArray(size) EXCEPT ![k] = v]
        /\ GrownMap(size)
    /\ Assigned(k, v)
    /\ UNCHANGED panicked

(* reserve_map drops what was removed and hashes the rest anew. *)
SetGrowingMap(k, v) ==
    /\ Missing(k) /\ room = 0
    /\ ~(Candidate(k) /\ CountOverflows(Indexes(k))) /\ ~FitsInArray(k)
    /\ Cardinality(Kept) < Cardinality(Buckets)
    /\ \E place \in [Kept \union {k} -> Buckets] :
        /\ \A g, h \in Kept \union {k} : place[g] = place[h] => g = h
        /\ map' = [h \in Kept \union {k} |->
                        IF h = k THEN Entry(v, FALSE, place[k]) ELSE [map[h] EXCEPT !.bucket = place[h]]]
    /\ room' = Cardinality(Buckets) - Cardinality(Kept) - 1
    /\ Assigned(k, v)
    /\ UNCHANGED <<array, panicked>>

(* ---- length ---- *)

BinarySearch(min, max, present) ==
    LET border[r \in (0..max) \X (0..max)] ==
            LET mid == r[1] + (r[2] - r[1]) \div 2
            IN  IF r[2] - r[1] <= 1 THEN r[1]
                ELSE IF mid \in present THEN border[<<mid, r[2]>>] ELSE border[<<r[1], mid>>]
    IN  border[<<min, max>>]

(* Mutant: the key after the array part is taken to be free. *)
DoubledUnchecked(from, present) == from

Doubled(from, present) ==
    LET end[m \in 1..MaxInteger + 1] ==
            IF m \notin present \/ m = MaxInteger THEN m
            ELSE end[IF 2 * m <= MaxInteger THEN 2 * m ELSE MaxInteger]
    IN  end[from]

Length ==
    LET n == Len(array)
        end == Doubled(n + 1, Kept)
    IN  IF n > 0 /\ array[n] = Nil THEN BinarySearch(0, n, {i \in 1..n : array[i] # Nil})
        ELSE IF map = << >> THEN n
        ELSE IF end \in Kept THEN MaxInteger
        ELSE BinarySearch(n, end, Kept)

(* ---- next ---- *)

FirstOf(buckets) == CHOOSE k \in Kept : map[k].bucket = Min(buckets)
KeptBucketsAfter(b) == {map[k].bucket : k \in {h \in Kept : map[h].bucket > b}}
InMapAfter(b) == IF KeptBucketsAfter(b) = {} THEN Done ELSE FirstOf(KeptBucketsAfter(b))

NextFrom(start) ==
    LET present == {i \in start..Len(array) : array[i] # Nil}
    IN  IF present # {} THEN Min(present) ELSE InMapAfter(-1)

NextKey(k) ==
    IF k = Nil THEN NextFrom(1)
    ELSE IF InArray(k) THEN NextFrom(k + 1)
    ELSE IF k \in DOMAIN map THEN InMapAfter(map[k].bucket)
    ELSE NotFound

BeginWalk ==
    /\ walking' = TRUE /\ cursor' = Nil /\ owed' = Present
    /\ UNCHANGED <<array, map, room, panicked>>

Step ==
    LET k == NextKey(cursor)
    IN  /\ walking /\ k \in Keys
        /\ cursor' = k /\ owed' = owed \ {k}
        /\ UNCHANGED <<array, map, room, walking, panicked>>

EndWalk ==
    /\ walking /\ NextKey(cursor) = Done
    /\ walking' = FALSE /\ cursor' = Nil /\ owed' = {}
    /\ UNCHANGED <<array, map, room, panicked>>

(* ---- table.insert and table.remove, where the array part holds the sequence ---- *)

NoWalk == walking' = FALSE /\ cursor' = Nil /\ owed' = {}
Border == Length % 2 ^ UsizeBits

ShiftedRight(a, i, v) ==
    [j \in DOMAIN a |-> IF j = i THEN v ELSE IF j \in i + 1..Border + 1 THEN a[j - 1] ELSE a[j]]
ShiftedLeft(a, i) ==
    [j \in DOMAIN a |-> IF j = Border THEN Nil ELSE IF j \in i..Border - 1 THEN a[j + 1] ELSE a[j]]

TableInsert(i, v) ==
    /\ Border \in 0..Len(array) /\ i \in 1..Border + 1
    /\ IF Border < Len(array)
       THEN array' = ShiftedRight(array, i, v) /\ UNCHANGED <<map, room>>
       ELSE \E size \in 1..MaxArray :
                /\ GrowsTo(size, 1)
                /\ array' = ShiftedRight(GrownArray(size), i, v)
                /\ GrownMap(size)
    /\ NoWalk
    /\ UNCHANGED panicked

TableRemove(i) ==
    /\ Border \in 0..Len(array) /\ i \in 1..Border
    /\ array' = ShiftedLeft(array, i)
    /\ NoWalk
    /\ UNCHANGED <<map, room, panicked>>

TableNext ==
    /\ ~panicked
    /\ \/ \E k \in Keys : SetNil(k) \/ CountPanics(k)
       \/ \E k \in Keys, v \in Values :
            SetArray(k, v) \/ Replace(k, v) \/ Insert(k, v) \/ SetGrowingArray(k, v) \/ SetGrowingMap(k, v)
       \/ \E k \in Keys : SetArray(k, Nil)
       \/ BeginWalk \/ Step \/ EndWalk
       \/ \E i \in Integral, v \in Values : TableInsert(i, v)
       \/ \E i \in Integral : TableRemove(i)

TableSpec == TableInit /\ [][TableNext]_tableVars

(* ---- Properties ---- *)

(* No key is in both parts, dead keys hold nothing, a bucket holds one entry. *)
TableTypeOK ==
    /\ array \in Seq(Values \union {Nil})
    /\ DOMAIN map \subseteq Keys /\ \A k \in DOMAIN map : ~InArray(k)
    /\ \A k \in DOMAIN map : map[k].dead => k \in Objects /\ map[k].value = Nil
    /\ \A g, h \in DOMAIN map : map[g].bucket = map[h].bucket => g = h
    /\ room \in Nat /\ owed \subseteq Keys

(* Whatever part an element lives in, wherever it moves and whatever is removed on the way,
   the table is a map, and a traversal visits every key once while only fields that exist
   are assigned. *)
Contract == INSTANCE TableContract WITH contents <- [k \in Keys |-> Get(k)]
ImplementsTable == Contract!ContractSpec

(* #t is a border of the two parts together. *)
LengthIsBorder ==
    /\ Length = 0 \/ (Length \in Integral /\ Get(Length) # Nil)
    /\ Length < MaxInteger => Get(Length + 1) = Nil

(* No key makes the table panic, and the key a traversal stands on is found, removed or not. *)
TableNeverFails == ~panicked /\ (walking => NextKey(cursor) # NotFound)
====
