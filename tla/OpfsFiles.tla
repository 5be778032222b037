---- MODULE OpfsFiles ----
(* The file system of web-fs (opfs.rs).  The files belong to the origin: the sessions
   of all its tabs and workers share them, and nothing locks one operation against
   another.  An operation is a list of calls on OPFS; between two of them, and when
   one fails, the others and the end of the tab may come.

   A path is a sequence of names, the root the empty one.  A stream writes to a copy
   that close() puts in the place of the file. *)
EXTENDS Integers, SequencesExt

CONSTANTS Sessions,
          Requests,      \* what a session may ask for
          Directories,   \* the directories and files there at the start
          Contents,
          Usize,         \* a usize counts modulo Usize
          MaxRequests,
          MaxFaults

VARIABLES dirs, files,   \* the tree
          leaked,        \* files whose stream was dropped without close or abort
          sessions, asked, faults
fileVars == <<dirs, files, leaked, sessions, asked, faults>>

ASSUME FilesAssumption ==
    /\ Usize \in Nat \ {0} /\ MaxRequests \in Nat /\ MaxFaults \in Nat
    /\ \A p \in DOMAIN Contents : Contents[p] \in Seq(Int)
    /\ \A r \in Requests :
        /\ r.path \in Seq(Range(r.path)) /\ r.to \in Seq(Range(r.to))
        /\ r.data \in Seq(Int) /\ r.offset \in Nat /\ r.len \in Nat

IsFile(p) == p \in DOMAIN files
IsDirectory(p) == p = <<>> \/ p \in dirs
Exists(p) == IsFile(p) \/ IsDirectory(p)

(* ---- The requests, as the two hosts pass them on ---- *)

Request(call, path) ==
    [call |-> call, path |-> path, to |-> <<>>, data |-> <<>>, offset |-> 0, len |-> 0, sound |-> TRUE]
PathRequests(calls, paths) == {Request(c, p) : c \in calls, p \in paths}
TransferRequests(calls, paths) ==
    UNION {{[Request(c, p) EXCEPT !.to = q] : q \in paths} : c \in calls, p \in paths}

(* sound: the data is base64, the algorithm of a hash is known. *)
DataRequests(calls, paths, datas) ==
    UNION {{[Request(c, p) EXCEPT !.data = d, !.sound = s] : d \in datas, s \in BOOLEAN} : c \in calls, p \in paths}
OffsetRequests(calls, paths, offsets, lens, datas) ==
    UNION {{[Request(c, p) EXCEPT !.offset = o, !.len = n, !.data = d] : o \in offsets, n \in lens, d \in datas} :
              c \in calls, p \in paths}

(* ---- The calls on OPFS an operation makes ---- *)

Call(do, path) == [do |-> do, path |-> path]
Along(do, p, n) == [i \in 1..n |-> Call(do, SubSeq(p, 1, i))]

ResolveDir(p) == Along("enter", p, Len(p))
ResolveDirCreate(p) == Along("make", p, Len(p))
ResolveParent(p) == Along("enter", p, Len(p) - 1)
ResolveFile(p) == ResolveParent(p) \o <<Call("open", p)>>
ResolveFileCreate(p) == Along("make", p, Len(p) - 1) \o <<Call("create", p)>>

WriteToHandle(p, stream) == <<Call(stream, p), Call("fill", p), Call("commit", p)>>
Read(p) == ResolveFile(p) \o <<Call("load", p)>>
Write(p) == ResolveFileCreate(p) \o WriteToHandle(p, "replace")
Appending(p) == <<Call("measure", p)>> \o WriteToHandle(p, "edit")
Delete(p) == ResolveParent(p) \o <<Call("remove", p)>>

(* Mutant: the source is deleted before its bytes are written. *)
RenameDeletingFirst(from, to) == Read(from) \o Delete(from) \o Write(to)

Rename(from, to) == Read(from) \o Write(to) \o Delete(from)

Plan(r) ==
    CASE r.call \in {"read", "range", "hash", "stat", "exists"} -> Read(r.path)
      [] r.call = "list" -> ResolveDir(r.path) \o <<Call("entries", r.path)>>
      [] r.call = "mkdir" -> ResolveDirCreate(r.path)
      [] r.call = "delete" -> Delete(r.path)
      [] r.call = "copy" -> Read(r.path) \o Write(r.to)
      [] r.call = "move" -> Rename(r.path, r.to)
      [] r.call = "write" -> Write(r.path)
      [] r.call = "append" -> ResolveFile(r.path) \o Appending(r.path)
      [] r.call = "update" -> ResolveFile(r.path) \o WriteToHandle(r.path, "edit")

(* ---- The sessions ---- *)

Nobody == Request("none", <<>>)
Idle == [request |-> Nobody, todo |-> <<>>, bytes |-> <<>>, at |-> 0, stream |-> FALSE, swap |-> <<>>,
         result |-> "none", before |-> [dirs |-> {}, files |-> << >>], alone |-> FALSE]

FilesInit ==
    /\ dirs = Directories
    /\ files = Contents
    /\ leaked = {}
    /\ sessions = [s \in Sessions |-> Idle]
    /\ asked = 0 /\ faults = 0

Busy(s) == sessions[s].result = "busy"
Current(s) == Head(sessions[s].todo)
Does(s, calls) == Busy(s) /\ sessions[s].todo # <<>> /\ Current(s).do \in calls
Writers == {s \in Sessions : sessions[s].stream}

(* A file with an open stream cannot be removed, nor a directory above it. *)
InUse(p) ==
    \/ \E s \in Writers : IsPrefix(p, Current(s).path)
    \/ \E q \in leaked : IsPrefix(p, q)

(* What a call on OPFS works on is there, of the kind it needs. *)
Finds(do, p) ==
    CASE do \in {"enter", "entries"} -> IsDirectory(p)
      [] do \in {"make", "create", "fill"} -> TRUE
      [] do = "remove" -> Exists(p)
      [] do \in {"open", "load", "measure", "replace", "edit", "commit"} -> IsFile(p)

(* What a call on OPFS answers instead, by js_err_to_fs_err. *)
Refusal(do, p) ==
    IF p = <<>> /\ do \in {"open", "create", "remove"} THEN "E_INVALID_PATH"
    ELSE IF p # <<>> /\ ~IsDirectory(Front(p)) THEN "E_NOT_FOUND"
    ELSE IF (do \in {"enter", "make"} /\ IsFile(p)) \/ (do \in {"open", "create"} /\ IsDirectory(p)) THEN "E_NOT_FILE"
    ELSE IF do = "remove" /\ Exists(p) /\ InUse(p) THEN "E_PERMISSION_DENIED"
    ELSE IF Finds(do, p) THEN "none" ELSE "E_NOT_FOUND"
Possible(s) == Refusal(Current(s).do, Current(s).path) = "none"

(* s goes on as `next`; the others learn that the tree, or what they may do to it, changed. *)
GoesOn(s, next, disturbs) ==
    sessions' = [t \in Sessions |-> IF t = s THEN next
                                    ELSE IF disturbs THEN [sessions[t] EXCEPT !.alone = FALSE]
                                    ELSE sessions[t]]
Onward(s) == [sessions[s] EXCEPT !.todo = Tail(@)]
Ends(s, result) == [sessions[s] EXCEPT !.todo = <<>>, !.stream = FALSE, !.swap = <<>>, !.result = result]

Start(s, r) ==
    /\ ~Busy(s) /\ asked < MaxRequests
    /\ asked' = asked + 1
    /\ LET refused == ~r.sound /\ r.call \in {"write", "append", "update"}
           begun == [Idle EXCEPT !.request = r, !.bytes = r.data, !.at = r.offset,
                                 !.todo = IF refused THEN <<>> ELSE Plan(r),
                                 !.result = IF refused THEN "E_INVALID_ENCODING" ELSE "busy",
                                 !.before = [dirs |-> dirs, files |-> files],
                                 !.alone = Writers = {} /\ leaked = {}]
       IN  GoesOn(s, begun, FALSE)
    /\ UNCHANGED <<dirs, files, leaked, faults>>

(* resolve_dir, resolve_file and the iteration of entries only look. *)
Look(s) ==
    /\ Does(s, {"enter", "open", "entries"}) /\ Possible(s)
    /\ GoesOn(s, Onward(s), FALSE)
    /\ UNCHANGED <<dirs, files, leaked, asked, faults>>

Make(s) ==
    /\ Does(s, {"make"}) /\ Possible(s)
    /\ dirs' = dirs \union {Current(s).path}
    /\ GoesOn(s, Onward(s), dirs' # dirs)
    /\ UNCHANGED <<files, leaked, asked, faults>>

Create(s) ==
    /\ Does(s, {"create"}) /\ Possible(s)
    /\ files' = [p \in DOMAIN files \union {Current(s).path} |-> IF IsFile(p) THEN files[p] ELSE <<>>]
    /\ GoesOn(s, Onward(s), files' # files)
    /\ UNCHANGED <<dirs, leaked, asked, faults>>

(* getFile and arrayBuffer are one call.  A File is a snapshot: arrayBuffer reads what was
   in the file at getFile, whatever is committed or removed before it answers, or fails as
   any call may (Fault), and it changes nothing. *)
Load(s) ==
    /\ Does(s, {"load"}) /\ Possible(s)
    /\ GoesOn(s, [Onward(s) EXCEPT !.bytes = files[Current(s).path]], FALSE)
    /\ UNCHANGED <<dirs, files, leaked, asked, faults>>

Measure(s) ==
    /\ Does(s, {"measure"}) /\ Possible(s)
    /\ GoesOn(s, [Onward(s) EXCEPT !.at = Len(files[Current(s).path])], FALSE)
    /\ UNCHANGED <<dirs, files, leaked, asked, faults>>

(* createWritable: with the existing data, or empty. *)
OpenStream(s) ==
    /\ Does(s, {"replace", "edit"}) /\ Possible(s)
    /\ LET kept == IF Current(s).do = "edit" THEN files[Current(s).path] ELSE <<>>
       IN  GoesOn(s, [Onward(s) EXCEPT !.stream = TRUE, !.swap = kept], TRUE)
    /\ UNCHANGED <<dirs, files, leaked, asked, faults>>

(* Mutant: the position is not sought. *)
OverwrittenAtStart(old, at, data) == data \o SubSeq(old, Len(data) + 1, Len(old))

(* seek and write; what lies between the end and the position becomes zeros. *)
Overwritten(old, at, data) ==
    LET end == at + Len(data)
        size == IF Len(old) > end THEN Len(old) ELSE end
    IN  [i \in 1..size |-> IF i \in at + 1..end THEN data[i - at] ELSE IF i <= Len(old) THEN old[i] ELSE 0]

Fill(s) ==
    LET me == sessions[s]
    IN  /\ Does(s, {"fill"}) /\ Possible(s)
        /\ GoesOn(s, [Onward(s) EXCEPT !.swap = Overwritten(me.swap, IF me.request.call \in {"append", "update"} THEN me.at ELSE 0, me.bytes)], FALSE)
        /\ UNCHANGED <<dirs, files, leaked, asked, faults>>

Commit(s) ==
    /\ Does(s, {"commit"}) /\ Possible(s)
    /\ files' = [files EXCEPT ![Current(s).path] = sessions[s].swap]
    /\ GoesOn(s, [Onward(s) EXCEPT !.stream = FALSE, !.swap = <<>>], TRUE)
    /\ UNCHANGED <<dirs, leaked, asked, faults>>

RemoveEntry(s) ==
    LET kept(p) == ~IsPrefix(Current(s).path, p)
    IN  /\ Does(s, {"remove"}) /\ Possible(s)
        /\ dirs' = {p \in dirs : kept(p)}
        /\ files' = [p \in {q \in DOMAIN files : kept(q)} |-> files[p]]
        /\ GoesOn(s, Onward(s), TRUE)
        /\ UNCHANGED <<leaked, asked, faults>>

(* stat tries the path as a directory when it is no file, append creates the file
   it did not find; any other error ends the operation. *)
Looking(s) == \E i \in DOMAIN sessions[s].todo : sessions[s].todo[i].do = "open"
Instead(s, error) ==
    LET me == sessions[s] r == me.request
    IN  IF r.call \in {"stat", "exists"} /\ Looking(s) THEN [me EXCEPT !.todo = ResolveDir(r.path)]
        ELSE IF r.call = "append" /\ Looking(s) /\ error = "E_NOT_FOUND"
             THEN [me EXCEPT !.todo = ResolveFileCreate(r.path) \o Appending(r.path)]
        ELSE Ends(s, IF r.call = "exists" THEN "absent" ELSE error)

Refuse(s) ==
    /\ Busy(s) /\ sessions[s].todo # <<>> /\ ~Possible(s)
    /\ GoesOn(s, Instead(s, Refusal(Current(s).do, Current(s).path)), FALSE)
    /\ UNCHANGED <<dirs, files, leaked, asked, faults>>

(* Any call can fail, on the quota or on the disk.  The stream is then dropped as it is. *)
Fault(s) ==
    /\ Busy(s) /\ sessions[s].todo # <<>> /\ faults < MaxFaults
    /\ faults' = faults + 1
    /\ leaked' = IF sessions[s].stream THEN leaked \union {Current(s).path} ELSE leaked
    /\ GoesOn(s, Instead(s, "E_IO"), sessions[s].stream)
    /\ UNCHANGED <<dirs, files, asked>>

(* read_range slices in usize, whose sum wraps; the slice traps when it ends before
   it starts. *)
RangeOf(bytes, offset, len) ==
    LET start == offset % Usize
        sum == (start + len) % Usize
        end == IF sum < Len(bytes) THEN sum ELSE Len(bytes)
    IN  IF start >= Len(bytes) THEN <<>> ELSE SubSeq(bytes, start + 1, end)
RangeTraps(bytes, offset, len) ==
    offset % Usize < Len(bytes) /\ ((offset % Usize) + len) % Usize < (offset % Usize)

Finish(s) ==
    LET me == sessions[s] r == me.request
    IN  /\ Busy(s) /\ me.todo = <<>>
        /\ GoesOn(s, CASE r.call = "range" /\ RangeTraps(me.bytes, r.offset, r.len) -> Ends(s, "trap")
                     [] r.call = "range" /\ ~RangeTraps(me.bytes, r.offset, r.len) -> [Ends(s, "ok") EXCEPT !.bytes = RangeOf(@, r.offset, r.len)]
                     [] r.call = "hash" /\ ~r.sound -> Ends(s, "E_INVALID_ENCODING")
                     [] OTHER -> Ends(s, "ok"),
                FALSE)
        /\ UNCHANGED <<dirs, files, leaked, asked, faults>>

(* The tab is closed: its stream is gone without a trace. *)
Crash(s) ==
    /\ Busy(s) /\ faults < MaxFaults
    /\ faults' = faults + 1
    /\ GoesOn(s, Ends(s, "crashed"), FALSE)
    /\ UNCHANGED <<dirs, files, leaked, asked>>

(* The browser collects a dropped stream. *)
Collect ==
    /\ leaked # {}
    /\ leaked' = {}
    /\ UNCHANGED <<dirs, files, sessions, asked, faults>>

FilesNext ==
    \/ \E s \in Sessions :
        \/ \E r \in Requests : Start(s, r)
        \/ Look(s) \/ Make(s) \/ Create(s) \/ Load(s) \/ Measure(s)
        \/ OpenStream(s) \/ Fill(s) \/ Commit(s) \/ RemoveEntry(s)
        \/ Refuse(s) \/ Fault(s) \/ Finish(s) \/ Crash(s)
    \/ Collect

FilesSpec == FilesInit /\ [][FilesNext]_fileVars

(* ---- What the documentation promises, of a tree t ---- *)

Kept(t, p) == p \in DOMAIN t.files
Folder(t, p) == p = <<>> \/ p \in t.dirs
Above(p) == {SubSeq(p, 1, i) : i \in 1..Len(p) - 1}
Placeable(t, p) == p # <<>> /\ ~Folder(t, p) /\ \A q \in Above(p) : ~Kept(t, q)

(* Only data and the algorithm of a hash can be unsound; at the start what holds a file or
   directory is a directory. *)
ASSUME OriginAssumption ==
    /\ \A r \in Requests :
        /\ r.call \in {"read", "range", "hash", "stat", "exists", "list", "mkdir", "delete", "copy", "move",
                       "write", "append", "update"}
        /\ ~r.sound => r.call \in {"write", "append", "update", "hash"}
    /\ Contents \in [DOMAIN Contents -> Seq(Int)]
    /\ Directories \intersect DOMAIN Contents = {}
    /\ \A p \in Directories \union DOMAIN Contents :
        p \in Seq(Range(p)) /\ p # <<>> /\ Above(p) \subseteq Directories

Promised(r, t) ==
    CASE r.call \in {"read", "range", "update"} -> Kept(t, r.path) /\ r.sound
      [] r.call = "hash" -> Kept(t, r.path) /\ r.sound
      [] r.call \in {"stat", "exists"} -> Kept(t, r.path) \/ Folder(t, r.path)
      [] r.call = "list" -> Folder(t, r.path)
      [] r.call = "mkdir" -> \A q \in Above(r.path) \union {r.path} : ~Kept(t, q)
      [] r.call = "delete" -> r.path # <<>> /\ (Kept(t, r.path) \/ Folder(t, r.path))
      [] r.call \in {"copy", "move"} -> Kept(t, r.path) /\ Placeable(t, r.to)
      [] r.call \in {"write", "append"} -> Placeable(t, r.path) /\ r.sound

Put(f, p, content) == [q \in DOMAIN f \union {p} |-> IF q = p THEN content ELSE f[q]]
With(t, p, content) == [dirs |-> t.dirs \union Above(p), files |-> Put(t.files, p, content)]
Without(t, p) ==
    LET outside(q) == ~IsPrefix(p, q)
    IN  [dirs |-> {q \in t.dirs : outside(q)},
         files |-> [q \in {x \in DOMAIN t.files : outside(x)} |-> t.files[q]]]

Effect(r, t) ==
    CASE r.call = "mkdir" -> [t EXCEPT !.dirs = @ \union Above(r.path) \union ({r.path} \ {<<>>})]
      [] r.call = "delete" -> Without(t, r.path)
      [] r.call = "copy" -> With(t, r.to, t.files[r.path])
      [] r.call = "move" -> IF r.to = r.path THEN t ELSE Without(With(t, r.to, t.files[r.path]), r.path)
      [] r.call = "write" -> With(t, r.path, r.data)
      [] r.call = "append" -> With(t, r.path, (IF Kept(t, r.path) THEN t.files[r.path] ELSE <<>>) \o r.data)
      [] r.call = "update" ->
            LET old == t.files[r.path]
                zeros == [i \in 1..(r.offset - Len(old)) |-> 0]
            IN  With(t, r.path, SubSeq(old \o zeros, 1, r.offset) \o r.data
                                \o SubSeq(old, r.offset + Len(r.data) + 1, Len(old)))
      [] OTHER -> t

Answer(r, t) ==
    CASE r.call \in {"read", "hash"} -> t.files[r.path]
      [] r.call = "range" -> SubSeq(t.files[r.path], r.offset + 1,
                                    IF r.offset + r.len < Len(t.files[r.path]) THEN r.offset + r.len
                                    ELSE Len(t.files[r.path]))

Tree == [dirs |-> dirs, files |-> files]
Ended(me) == me.result \notin {"none", "busy", "crashed"}

(* A session that was disturbed by no other gets what the documentation of fs.* says: the
   call succeeds when, and unless something fails only when, the tree allows it; then the
   tree is the documented one and the answer holds the documented bytes.  When it fails
   no file that was there before is touched, but the target of a move whose source could
   not be deleted.  A range that ends beyond usize is left out. *)
AsIfAlone ==
    \A s \in Sessions :
        LET me == sessions[s]
            r == me.request
        IN  (me.alone /\ Ended(me) /\ r.offset + r.len < Usize) =>
                /\ faults = 0 => ((me.result = "ok") <=> Promised(r, me.before))
                /\ me.result = "ok" =>
                        /\ Tree = Effect(r, me.before)
                        /\ r.call \in {"read", "hash", "range"} => me.bytes = Answer(r, me.before)
                /\ me.result # "ok" =>
                        \A p \in DOMAIN me.before.files :
                            /\ IsFile(p)
                            /\ \/ files[p] = me.before.files[p]
                               \/ r.call = "move" /\ p = r.to /\ files[p] = me.before.files[r.path]

(* Whatever fails or ends during a move, and when it is over, the bytes of the file are at
   its old path or at its new one. *)
MoveNeverLoses ==
    \A s \in Sessions :
        LET me == sessions[s]
            r == me.request
        IN  (me.alone /\ r.call = "move" /\ Kept(me.before, r.path)) =>
                \E p \in {r.path, r.to} : IsFile(p) /\ files[p] = me.before.files[r.path]
====
