------------------------------- MODULE Upload -------------------------------
(***************************************************************************)
(* Request bodies and uploads: crates/nitr-http/src/request (the guarded   *)
(* body), validation/{run,multipart,raw,spool}.rs (a body read by a        *)
(* route's input declaration, its files spooled into the request's own     *)
(* directory), multipart/{part,upload}.rs (a body read part by part by the *)
(* handler, a part saved through a pending file) and validate/file.rs (the *)
(* handle of a spooled file).                                              *)
(*                                                                         *)
(* Every operation on the file system is a job of the blocking pool: the   *)
(* future that awaits it may be dropped, the job runs all the same, and    *)
(* jobs that nobody awaits run in any order.  All handlers save under one  *)
(* name.  A chunk is one unit of size.  A handler cut by its execution      *)
(* budget drops what it held at once; one whose client hung up leaves it   *)
(* on the suspended coroutine, for the state's collector to drop later.    *)
(***************************************************************************)
EXTENDS Integers, Sequences, Functions

CONSTANTS
  Uploads,       \* requests with a body
  Bodies,        \* bound: the bodies each may have, sequences of parts
  MaxBody,       \* [limits] max_body_bytes
  MaxParts,      \* [limits] max_form_parts
  MaxField,      \* [limits] max_field_bytes
  MaxFile,       \* [limits] max_file_bytes, and the rule's own bound
  MaxBoots       \* bound: how often a process starts on this upload root

ASSUME UploadLimitsAreNatural ==
  MaxBody \in Nat /\ MaxParts \in Nat /\ MaxField \in Nat /\ MaxFile \in Nat

\* An undeclared file is "other"; a file input left empty is "empty".
BodyParts == [kind : {"text", "file", "other", "empty"}, size : Nat]
ASSUME BodiesAreParts == Bodies \in [Uploads -> SUBSET Seq(BodyParts)]

VARIABLES
  up,            \* up[r]: what request r is at
  dirs,          \* requests whose spool directory exists
  staged,        \* what is staged under .nitr-tmp: the size of a file, and of its part
  target,        \* the file all handlers save to
  jobs,          \* jobs of the blocking pool that have not run
  running,       \* the process runs
  boots,         \* processes started so far
  held,          \* requests whose client hung up in part:save(): the pending file is not collected yet
  leaked         \* history: requests cut while a creation was with the pool, or by a crash

uploadVars == <<up, dirs, staged, target, jobs, running, boots, held, leaked>>

\* How a body is read: by an input declaration (multipart or raw), by
\* req:multipart(fn), or by req:read(n) and req:text().
Readers == {"input", "raw", "parts", "plain"}
Nothing == [size |-> 0, full |-> 0]

Fresh0 ==
  [stage |-> "new", how |-> "plain", body |-> <<>>, got |-> 0, read |-> 0, over |-> FALSE,
   stalled |-> FALSE, count |-> 0, index |-> 0, files |-> {}, bad |-> FALSE, await |-> <<>>, taken |-> FALSE, buf |-> 0,
   answer |-> 0]

UploadInit ==
  /\ up = [r \in Uploads |-> Fresh0]
  /\ dirs = {}
  /\ staged = <<>>
  /\ target = Nothing
  /\ jobs = {}
  /\ running = TRUE
  /\ boots = 1
  /\ held = {}
  /\ leaked = {}

Part(r) == Head(up[r].body)
Rest(r) == Tail(up[r].body)

\* The i-th spool file of r, and the pending file of its part:save().
SpoolFile(r, i) == <<r, i>>
PendingPath(r) == <<r, 0>>
SpoolJob(op, path) == [op |-> op, path |-> path]
OwnerOf(j) == j.path[1]

StagedAs(path, f) == [p \in DOMAIN staged \cup {path} |-> IF p = path THEN f ELSE staged[p]]
Unstaged(paths) == Restrict(staged, DOMAIN staged \ paths)
FilesOf(r) == {p \in DOMAIN staged : p[1] = r}

Set(r, rec) == up' = [up EXCEPT ![r] = rec]
At(r, st) == Set(r, [up[r] EXCEPT !.stage = st])
disk == <<dirs, staged, target>>
world == <<running, boots, held, leaked>>

\* A job is given to the pool and awaited at stage st.
Submit(r, rec, st, j) ==
  /\ Set(r, [rec EXCEPT !.stage = st, !.await = j])
  /\ jobs' = jobs \cup {j}

-----------------------------------------------------------------------------
(* The end of a request *)

\* Mutant: the guard only removes the directory of a request that succeeded.
Cleanup_onlyAfterSuccess(r) ==
  IF up[r].stage = "handler" /\ up[r].how \in {"input", "raw"} THEN {SpoolJob("rmdir", SpoolFile(r, 0))}
  ELSE {}

\* SpoolDir::drop: the directory goes with whatever is in it, on the pool.
Cleanup(r) ==
  IF up[r].how \in {"input", "raw"} THEN {SpoolJob("rmdir", SpoolFile(r, 0))} ELSE {}

\* The answer to a handler that failed: what the guards saw comes first.
\* limit: the error is a LimitExceeded.
Answer(rec, limit) ==
  IF rec.over THEN 413 ELSE IF rec.stalled THEN 408 ELSE IF limit THEN 413 ELSE 500

EndWith(r, code) ==
  /\ Set(r, [up[r] EXCEPT !.stage = "ended", !.await = <<>>, !.answer = code])
  /\ jobs' = jobs \cup Cleanup(r)
  /\ UNCHANGED <<disk, world>>

FailRead(r, limit) == EndWith(r, Answer(up[r], limit))

\* PendingFile::drop unsettled, between its creation and its end.
DropPending(r) ==
  IF up[r].stage \in {"saving", "persist", "discard"} THEN {SpoolJob("remove", PendingPath(r))} ELSE {}

\* Creations nobody may undo: the spool directory, a file in it that is opened
\* while it is removed, and a pending file whose PendingFile is not there yet.
InCreation(r) == up[r].stage \in {"mkdir", "open", "popen"}

\* A request ends where its future stands.
Dropped(r) ==
  /\ running
  /\ up[r].stage \notin {"new", "ended"}
  /\ Set(r, [up[r] EXCEPT !.stage = "ended", !.await = <<>>])
  /\ leaked' = leaked \cup (IF InCreation(r) THEN {r} ELSE {})
  /\ UNCHANGED <<disk, running, boots>>

\* The execution budget: the coroutine is reset and the state collected, so that
\* what the handler held is dropped here.
CutUpload(r) ==
  /\ Dropped(r)
  /\ jobs' = jobs \cup Cleanup(r) \cup DropPending(r)
  /\ UNCHANGED held

\* A hang-up drops handle_inner()'s guards; the pending file of a part:save()
\* stays on the suspended coroutine.
HangUpUpload(r) ==
  /\ Dropped(r)
  /\ jobs' = jobs \cup Cleanup(r)
  /\ held' = held \cup (IF DropPending(r) # {} THEN {r} ELSE {})

\* Mutant: the coroutine is collected, its pending file is not dropped.
CollectUpload_keepsFile(r) == r \in held /\ held' = held \ {r} /\ UNCHANGED <<up, jobs, disk, running, boots, leaked>>

\* The state's collector takes the coroutine, with what it holds.
CollectUpload(r) ==
  /\ running
  /\ r \in held
  /\ held' = held \ {r}
  /\ jobs' = jobs \cup {SpoolJob("remove", PendingPath(r))}
  /\ UNCHANGED <<up, disk, running, boots, leaked>>

-----------------------------------------------------------------------------
(* The guarded body *)

\* LimitedBody::poll_frame: the frame that passes the limit is not delivered.
PassesLimit(r, n) == up[r].read + n > MaxBody

\* A read fails, with the flags of rec: a save removes its pending file first, a
\* read of the handler raises there, any other ends the request.
ReadFails(r, rec, malformed) ==
  /\ \/ up[r].stage = "saving" /\ Submit(r, rec, "discard", SpoolJob("remove", PendingPath(r)))
     \/ up[r].stage \in {"ptext", "skip", "reading"} /\ Set(r, [rec EXCEPT !.stage = "raised"]) /\ UNCHANGED jobs
     \/ /\ up[r].stage \in {"field", "text", "drain", "spool"}
        /\ Set(r, [rec EXCEPT !.stage = "ended", !.answer = IF malformed THEN 422 ELSE Answer(rec, FALSE)])
        /\ jobs' = jobs \cup Cleanup(r)
  /\ UNCHANGED <<disk, world>>

\* The client stops sending (StalledBody), or hangs up half way, or sends what
\* next_field() cannot parse.
BodyFails(r) ==
  /\ running
  /\ up[r].body # <<>>
  /\ \/ ReadFails(r, [up[r] EXCEPT !.stalled = TRUE], FALSE)
     \/ ReadFails(r, up[r], up[r].how = "input" /\ up[r].stage = "field")

\* The next chunk trips the limit.
Trips(r) ==
  /\ running
  /\ up[r].body # <<>>
  /\ up[r].stage \notin {"field", "reading"}
  /\ up[r].got < Part(r).size
  /\ PassesLimit(r, 1)
  /\ ReadFails(r, [up[r] EXCEPT !.over = TRUE], FALSE)

Delivered(r) ==
  /\ running
  /\ up[r].body # <<>>
  /\ up[r].got < Part(r).size
  /\ ~PassesLimit(r, 1)

Got(r) == [up[r] EXCEPT !.got = @ + 1, !.read = @ + 1]
WholePart(r) == up[r].got = Part(r).size

NextPart(r) == [up[r] EXCEPT !.stage = "field", !.body = Tail(@), !.got = 0, !.taken = FALSE]

-----------------------------------------------------------------------------
(* Arrival *)

\* negotiate() and the spool guard in handle_inner(); then the chain starts.  A
\* raw body is one file, spooled from its first chunk on.
ArriveUpload(r) ==
  /\ running
  /\ up[r].stage = "new"
  /\ \E how \in Readers, b \in Bodies[r] :
       LET rec == [up[r] EXCEPT !.how = how, !.body = b]
       IN  \/ /\ how = "raw" /\ Len(b) = 1
              /\ Submit(r, [rec EXCEPT !.index = 1], "mkdir", SpoolJob("mkdir", SpoolFile(r, 1)))
           \/ /\ how # "raw"
              /\ Set(r, [rec EXCEPT !.stage = IF how = "plain" THEN "plain" ELSE "field"])
              /\ UNCHANGED jobs
  /\ UNCHANGED <<disk, world>>

-----------------------------------------------------------------------------
(* A body read by the input declaration: validation/multipart.rs and raw.rs *)

\* count += 1; count > max_parts
TooManyParts(r) == up[r].count + 1 > MaxParts

\* next_field() gives a part.  A text is read into memory, an undeclared file is
\* drained, a declared one gets a spool file of its own.
NextField(r) ==
  /\ running
  /\ up[r].stage = "field" /\ up[r].how = "input" /\ up[r].body # <<>>
  /\ LET rec == [up[r] EXCEPT !.count = @ + 1]
         i == up[r].index + 1
     IN  \/ TooManyParts(r) /\ FailRead(r, TRUE)
         \/ /\ ~TooManyParts(r) /\ Part(r).kind \in {"text", "other"}
            /\ Set(r, [rec EXCEPT !.stage = IF Part(r).kind = "text" THEN "text" ELSE "drain", !.buf = 0])
            /\ UNCHANGED <<jobs, disk, world>>
         \/ /\ ~TooManyParts(r) /\ Part(r).kind \in {"file", "empty"}
            /\ Submit(r, [rec EXCEPT !.index = i], "mkdir", SpoolJob("mkdir", SpoolFile(r, i)))
            /\ UNCHANGED <<disk, world>>

\* A text past max_field_bytes is read to its end, and refused then.
ReadText(r) ==
  /\ up[r].stage = "text"
  /\ Delivered(r)
  /\ Set(r, [Got(r) EXCEPT !.buf = IF @ + 1 > MaxField THEN @ ELSE @ + 1])
  /\ UNCHANGED <<jobs, disk, world>>

EndText(r) ==
  /\ running
  /\ up[r].stage = "text" /\ WholePart(r)
  /\ \/ up[r].buf < Part(r).size /\ FailRead(r, TRUE)
     \/ up[r].buf = Part(r).size /\ Set(r, NextPart(r)) /\ UNCHANGED <<jobs, disk, world>>

\* An undeclared file is never stored.
Drain(r) ==
  /\ running
  /\ up[r].stage = "drain"
  /\ \/ Delivered(r) /\ Set(r, Got(r))
     \/ WholePart(r) /\ Set(r, NextPart(r))
  /\ UNCHANGED <<jobs, disk, world>>

CurrentSpool(r) == SpoolFile(r, up[r].index)

\* Spooler::push: the size counts every chunk, so that the rule sees it.
PushSize(r) == up[r].buf + 1

\* Past the cap nothing is written.
PushChunk(r) ==
  /\ up[r].stage = "spool"
  /\ Delivered(r)
  /\ Set(r, [Got(r) EXCEPT !.buf = PushSize(r)])
  /\ staged' = IF PushSize(r) <= MaxFile /\ CurrentSpool(r) \in DOMAIN staged
               THEN [staged EXCEPT ![CurrentSpool(r)].size = @ + 1] ELSE staged
  /\ UNCHANGED <<jobs, dirs, target, world>>

\* check_file()'s max_bytes, on the size the spooler counted.
TooLarge(r) == up[r].buf > MaxFile

\* Spooler::finish.  A file input left empty sends a part without name and
\* bytes: its file is removed, and the field is absent.
FinishFile(r) ==
  /\ running
  /\ up[r].stage = "spool" /\ WholePart(r)
  /\ \/ Part(r).kind = "empty" /\ Submit(r, up[r], "unlink", SpoolJob("remove", CurrentSpool(r)))
     \/ /\ Part(r).kind # "empty"
        /\ Set(r, [NextPart(r) EXCEPT !.files = @ \cup {up[r].index}, !.bad = @ \/ TooLarge(r)])
        /\ UNCHANGED jobs
  /\ UNCHANGED <<disk, world>>

\* The whole body is read; the rules are checked, and the handler is called with
\* the files when they hold.
CallHandler(r) ==
  /\ running
  /\ up[r].stage = "field" /\ up[r].how \in {"input", "raw"} /\ up[r].body = <<>>
  /\ \/ up[r].bad /\ EndWith(r, 422)
     \/ ~up[r].bad /\ At(r, "handler") /\ UNCHANGED <<jobs, disk, world>>

-----------------------------------------------------------------------------
(* A spooled file in the handler: validate/file.rs *)

\* file:save(rel): the path is refused, or the rename is given to the pool.
FileSave(r) ==
  /\ running
  /\ up[r].stage = "handler"
  /\ \E i \in up[r].files : Submit(r, up[r], "rename", SpoolJob("rename", SpoolFile(r, i)))
  /\ UNCHANGED <<disk, world>>

\* file:discard()
FileDiscard(r) ==
  /\ running
  /\ up[r].stage = "handler"
  /\ \E i \in up[r].files : Submit(r, up[r], "remove", SpoolJob("remove", SpoolFile(r, i)))
  /\ UNCHANGED <<disk, world>>

Respond(r) ==
  /\ running
  /\ up[r].stage = "handler"
  /\ \E code \in {200, 500} : EndWith(r, IF code = 500 THEN Answer(up[r], FALSE) ELSE code)

-----------------------------------------------------------------------------
(* A body read part by part: req:multipart(fn) and multipart/part.rs *)

\* The callback is called with the next part.
CallPart(r) ==
  /\ running
  /\ up[r].stage = "field" /\ up[r].how = "parts" /\ up[r].body # <<>>
  /\ \/ TooManyParts(r) /\ FailRead(r, TRUE)
     \/ /\ ~TooManyParts(r)
        /\ Set(r, [up[r] EXCEPT !.stage = "part", !.count = @ + 1, !.buf = 0])
        /\ UNCHANGED <<jobs, disk, world>>

\* part:save(rel): containment first, then the field is taken, then a pending
\* file is created.
PartSave(r) ==
  /\ running
  /\ up[r].stage = "part" /\ ~up[r].taken
  /\ Submit(r, [up[r] EXCEPT !.taken = TRUE, !.buf = 0], "popen", SpoolJob("open", PendingPath(r)))
  /\ UNCHANGED <<disk, world>>

\* part:text() and part:discard() take the field as well.
PartRead(r) ==
  /\ running
  /\ up[r].stage = "part" /\ ~up[r].taken
  /\ \E st \in {"ptext", "skip"} : Set(r, [up[r] EXCEPT !.taken = TRUE, !.buf = 0, !.stage = st])
  /\ UNCHANGED <<jobs, disk, world>>

\* A chunk of what the callback reads.  The bound of text() and save() fails the
\* call, and a failed save removes its pending file first.
PartChunk(r) ==
  /\ up[r].stage \in {"ptext", "skip", "saving"}
  /\ Delivered(r)
  /\ LET n == up[r].buf + 1
     IN  \/ /\ up[r].stage = "skip" \/ (up[r].stage = "ptext" /\ n <= MaxField)
            /\ Set(r, [Got(r) EXCEPT !.buf = n])
            /\ UNCHANGED <<jobs, disk>>
         \/ /\ up[r].stage = "ptext" /\ n > MaxField
            /\ Set(r, [Got(r) EXCEPT !.stage = "raised"])
            /\ UNCHANGED <<jobs, disk>>
         \/ /\ up[r].stage = "saving" /\ n <= MaxFile
            /\ Set(r, [Got(r) EXCEPT !.buf = n])
            /\ staged' = IF PendingPath(r) \in DOMAIN staged
                         THEN [staged EXCEPT ![PendingPath(r)].size = @ + 1] ELSE staged
            /\ UNCHANGED <<jobs, dirs, target>>
         \/ /\ up[r].stage = "saving" /\ n > MaxFile
            /\ Submit(r, Got(r), "discard", SpoolJob("remove", PendingPath(r)))
            /\ UNCHANGED disk
  /\ UNCHANGED world

\* Mutant: the pending file is renamed whatever the stream's result was.
Persists_always(r) == up[r].stage = "saving"

\* The rename follows a stream that ended well.
Persists(r) == up[r].stage = "saving" /\ WholePart(r)

\* The part is at its end.
PartDone(r) ==
  /\ running
  /\ \/ Persists(r) /\ Submit(r, up[r], "persist", SpoolJob("rename", PendingPath(r)))
     \/ up[r].stage \in {"ptext", "skip"} /\ WholePart(r) /\ At(r, "part") /\ UNCHANGED jobs
  /\ UNCHANGED <<disk, world>>

\* The callback returns, or fails, or catches what its call raised: the parser
\* reads what is left of the part before it goes on.
PartReturn(r) ==
  /\ running
  /\ up[r].stage \in {"part", "raised"} /\ up[r].how = "parts"
  /\ LET left == Part(r).size - up[r].got
     IN  \/ \E limit \in {FALSE, up[r].stage = "raised"} : FailRead(r, limit)
         \/ PassesLimit(r, left) /\ EndWith(r, 413)
         \/ /\ ~PassesLimit(r, left)
            /\ Set(r, [NextPart(r) EXCEPT !.read = @ + left])
            /\ UNCHANGED <<jobs, disk, world>>

EndParts(r) ==
  /\ running
  /\ up[r].stage = "field" /\ up[r].how = "parts" /\ up[r].body = <<>>
  /\ At(r, "handler")
  /\ UNCHANGED <<jobs, disk, world>>

-----------------------------------------------------------------------------
(* req:read(n): every part of the body is one frame *)

\* The handler asks for about as much as the limit; buf is what it asked for, got
\* what it has of it.
AskRead(r) ==
  /\ running
  /\ up[r].stage = "plain"
  /\ \E want \in {MaxBody, MaxBody + 1, MaxBody + 2} : Set(r, [up[r] EXCEPT !.stage = "reading", !.buf = want])
  /\ UNCHANGED <<jobs, disk, world>>

\* Mutant: the request is clamped to the limit itself.
ClampWant_exact(want) == IF want > MaxBody THEN MaxBody ELSE want

\* clamp_want(): one more than the limit, so that the frame that trips it is read.
ClampWant(want) == IF want > MaxBody + 1 THEN MaxBody + 1 ELSE want

\* buf.len() < want, and the body is not at its end.
WantsFrame(r) == up[r].got < ClampWant(up[r].buf) /\ up[r].body # <<>>

ReadFrame(r) ==
  /\ running
  /\ up[r].stage = "reading" /\ WantsFrame(r)
  /\ \/ PassesLimit(r, Part(r).size) /\ Set(r, [up[r] EXCEPT !.over = TRUE, !.stage = "raised"])
     \/ /\ ~PassesLimit(r, Part(r).size)
        /\ Set(r, [up[r] EXCEPT !.read = @ + Part(r).size, !.got = @ + Part(r).size, !.body = Rest(r)])
  /\ UNCHANGED <<jobs, disk, world>>

\* The handler goes on with what there is.
ReadEnds(r) ==
  /\ running
  /\ up[r].stage = "reading" /\ ~WantsFrame(r)
  /\ At(r, "handler")
  /\ UNCHANGED <<jobs, disk, world>>

-----------------------------------------------------------------------------
(* The blocking pool *)

\* What the future that awaited job j does when it is done.
Resumed(r, j, ok) ==
  LET rec == [up[r] EXCEPT !.await = <<>>]
  IN  CASE up[r].stage = "open" /\ ok    -> [rec EXCEPT !.stage = "spool", !.buf = 0]
        [] up[r].stage = "popen" /\ ok   -> [rec EXCEPT !.stage = "saving", !.buf = 0]
        [] up[r].stage = "rename" /\ ok  -> [rec EXCEPT !.stage = "handler", !.files = @ \ {j.path[2]}]
        [] up[r].stage = "remove"        -> [rec EXCEPT !.stage = "handler", !.files = @ \ {j.path[2]}]
        [] up[r].stage = "unlink"        -> [NextPart(r) EXCEPT !.await = <<>>]
        [] up[r].stage = "persist" /\ ok -> [rec EXCEPT !.stage = "part"]
        [] up[r].stage = "discard"       -> [rec EXCEPT !.stage = "raised"]
        [] up[r].stage = "rename" /\ ~ok -> [rec EXCEPT !.stage = "handler"]
        [] OTHER                         -> [rec EXCEPT !.stage = "raised"]

\* create_dir_all is followed by the open of the file.
AfterJob(j, ok) ==
  LET r == OwnerOf(j)
  IN  IF up[r].await # j THEN up' = up /\ jobs' = jobs \ {j}
      ELSE IF up[r].stage = "mkdir" /\ ok
      THEN LET o == SpoolJob("open", j.path)
           IN  /\ Set(r, [up[r] EXCEPT !.stage = "open", !.await = o])
               /\ jobs' = (jobs \ {j}) \cup {o}
      ELSE IF up[r].stage = "persist" /\ ~ok
      THEN LET d == SpoolJob("remove", j.path)
           IN  /\ Set(r, [up[r] EXCEPT !.stage = "discard", !.await = d])
               /\ jobs' = (jobs \ {j}) \cup {d}
      ELSE Set(r, Resumed(r, j, ok)) /\ jobs' = jobs \ {j}

\* A job runs: an open needs its directory, a rename its source, and each may
\* fail for reasons of the file system.
RunUploadJob(j) ==
  /\ running
  /\ LET r == OwnerOf(j)
     IN  \/ /\ j.op = "mkdir" /\ dirs' = dirs \cup {r} /\ AfterJob(j, TRUE)
            /\ UNCHANGED <<staged, target>>
         \/ /\ j.op = "open" /\ (j.path[2] # 0 => r \in dirs)
            /\ staged' = StagedAs(j.path, [size |-> 0, full |-> Part(r).size]) /\ AfterJob(j, TRUE)
            /\ UNCHANGED <<dirs, target>>
         \/ /\ j.op = "rename" /\ j.path \in DOMAIN staged /\ AfterJob(j, TRUE)
            /\ target' = staged[j.path]
            /\ staged' = Unstaged({j.path})
            /\ UNCHANGED dirs
         \/ /\ j.op \in {"mkdir", "open", "rename"} /\ AfterJob(j, FALSE) /\ UNCHANGED disk
         \/ /\ j.op = "remove" /\ staged' = Unstaged({j.path}) /\ AfterJob(j, TRUE)
            /\ UNCHANGED <<dirs, target>>
         \/ /\ j.op = "rmdir" /\ AfterJob(j, TRUE)
            /\ dirs' = dirs \ {r} /\ staged' = Unstaged(FilesOf(r) \ {PendingPath(r)})
            /\ UNCHANGED target
  /\ UNCHANGED world

\* remove_dir_all() has taken the names it saw when the open of a late file adds
\* one: the directory is not empty and stays, with that file.
RacedRemoval(j, o) ==
  /\ running
  /\ j.op = "rmdir" /\ o.op = "open" /\ o.path[2] # 0
  /\ LET r == OwnerOf(j)
     IN  /\ OwnerOf(o) = r /\ r \in dirs
         /\ staged' = [p \in (DOMAIN staged \ (FilesOf(r) \ {PendingPath(r)})) \cup {o.path} |->
                         IF p = o.path THEN [size |-> 0, full |-> Part(r).size] ELSE staged[p]]
  /\ jobs' = jobs \ {j, o}
  /\ UNCHANGED <<up, dirs, target, world>>

\* An input declaration that cannot create its file fails the request; an
\* awaited part:save() raises in the callback.
RaiseInInput(r) ==
  /\ running
  /\ up[r].stage = "raised" /\ up[r].how \in {"input", "raw", "plain"}
  /\ FailRead(r, FALSE)

\* The process is killed: futures and jobs are gone, files stay.
Crash ==
  /\ running
  /\ boots < MaxBoots
  /\ running' = FALSE
  /\ leaked' = leaked \cup held \cup {r \in Uploads : up[r].stage # "ended" \/ \E j \in jobs : OwnerOf(j) = r}
  /\ held' = {}
  /\ up' = [r \in Uploads |-> [up[r] EXCEPT !.stage = IF @ = "new" THEN "new" ELSE "ended",
                                            !.await = <<>>]]
  /\ jobs' = {}
  /\ UNCHANGED <<disk, boots>>

\* sweep() at boot, of this process or of another one on the same upload root.  One
\* that fails is a warning in the log, and is as if there were none.
Boot ==
  /\ boots < MaxBoots
  /\ boots' = boots + 1
  /\ running' = TRUE
  /\ dirs' = {}
  /\ staged' = <<>>
  /\ leaked' = {r \in leaked : \E j \in jobs : OwnerOf(j) = r}
  /\ UNCHANGED <<up, target, jobs, held>>

UploadNext ==
  \/ \E r \in Uploads :
       \/ ArriveUpload(r) \/ NextField(r) \/ ReadText(r) \/ EndText(r) \/ Drain(r) \/ PushChunk(r)
       \/ FinishFile(r) \/ CallHandler(r) \/ FileSave(r) \/ FileDiscard(r) \/ Respond(r)
       \/ CallPart(r) \/ PartSave(r) \/ PartRead(r) \/ PartChunk(r) \/ PartDone(r)
       \/ PartReturn(r) \/ EndParts(r) \/ AskRead(r) \/ ReadFrame(r) \/ ReadEnds(r)
       \/ RaiseInInput(r)
       \/ Trips(r) \/ BodyFails(r) \/ CutUpload(r) \/ HangUpUpload(r) \/ CollectUpload(r)
  \/ \E j \in jobs : RunUploadJob(j)
  \/ \E j, o \in jobs : RacedRemoval(j, o)
  \/ Crash
  \/ Boot

UploadSpec == UploadInit /\ [][UploadNext]_uploadVars

-----------------------------------------------------------------------------
(* Properties *)

\* What is saved under a name is there whole: an upload that was refused, cut,
\* or lost with its process leaves what was there before, and no file passes
\* max_file_bytes.  (PendingFile and File:save rename; Spooler counts past its cap.)
SavedIsWhole == target.size = target.full /\ target.size <= MaxFile

\* A request that ended, whose jobs have run and whose coroutine is collected (at
\* once, unless its client hung up in part:save()), has left nothing staged.  Two
\* ways to end are excepted: dropped while a creation was with the blocking pool,
\* and lost in a crash; a sweep that succeeds takes what those left.
\* (SpoolDir::drop, PendingFile, sweep)
SpoolIsEmptied ==
  \A r \in Uploads :
    (up[r].stage = "ended" /\ r \notin leaked \cup held /\ \A j \in jobs : OwnerOf(j) # r)
      => r \notin dirs /\ FilesOf(r) = {}

\* A handler that asked read(n) for more than the limit never takes the first
\* bytes of a larger body for all of it.  (clamp_want against LimitedBody)
OversizeIsNoticed ==
  \A r \in Uploads : (up[r].how = "plain" /\ up[r].stage = "handler" /\ up[r].buf > MaxBody)
                       => up[r].body = <<>>

\* What a request leaves under the upload root is what its client sent, whole,
\* and no handler takes the start of a body that was too large for all of it.
UploadsAreWhole == SavedIsWhole /\ OversizeIsNoticed
=============================================================================
