----------------------------- MODULE SessionLog -----------------------------
(***************************************************************************)
(* The session log (session_log.rs): the writer thread of a terminal that  *)
(* appends its output to a file and rotates it, and the viewer's search,   *)
(* which reads such a file page by page while the writer goes on.          *)
(*                                                                         *)
(* A chunk of output is one unit: it may be stamped, and it ends a line or *)
(* leaves it open. Files are known by the order of their creation; the     *)
(* directory maps the active name (generation 0) and the rotated names to  *)
(* files, so an open file survives its renaming. Rotation is one call of   *)
(* the file system at a time, and the program may die between two of them. *)
(***************************************************************************)
EXTENDS Naturals, Sequences, FiniteSets

CONSTANTS
  Writers,    \* terminals that log to this file name
  Retained,   \* retained_files
  Limit,      \* rotation_bytes, in chunks
  QueueCap,   \* LOG_QUEUE_CAPACITY
  MaxChunks,  \* chunks of output in all
  MaxStarts,  \* terminals that log to the file, one after the other
  MaxFiles,   \* files ever created
  MaxFaults,  \* crashes of the program and failing calls
  PageSize,   \* MAX_RESULTS
  MaxPages    \* pages of a search

ASSUME LogAssumption ==
  /\ Writers # {}
  /\ {Retained, Limit, QueueCap, PageSize} \subseteq Nat \ {0}
  /\ {MaxChunks, MaxStarts, MaxFiles, MaxFaults, MaxPages} \subseteq Nat

VARIABLES
  writer,  \* where each terminal's writer thread is
  gen,     \* the generation it moves next
  fd,      \* the file it has open
  size,    \* how long it believes that file to be
  fresh,   \* line_start: the next byte begins a line
  queue,   \* the chunks in its channel, the one it has taken first
  sink,    \* whether the terminal still logs
  made,    \* terminals and chunks of output so far
  names,   \* generation -> file, None when there is no such name
  files,   \* the contents of every file ever created, in order of creation
  faults,  \* crashes and failing calls so far
  view     \* the viewer's search

threads == <<writer, gen, fd, size, fresh, queue, sink>>
disk    == <<names, files>>
vars == <<threads, made, disk, faults, view>>
----
None == 0
Generations == 0 .. Retained
Rotating == {"remove", "shift", "move", "open"}
Phases   == {"off", "ready", "stopped"} \cup Rotating

\* What one write leaves in a file.
Unit(w, stamp, ends) == [by |-> w, stamp |-> stamp, ends |-> ends]
NewLine == Unit("none", FALSE, TRUE)
Put(f, unit) == files' = [files EXCEPT ![f] = Append(@, unit)]

Goto(w, phase) == writer' = [writer EXCEPT ![w] = phase]
\* The mutant of Room: a channel without a capacity.
RoomUnbounded(w) == TRUE

\* The thread waits for a chunk, or has one in hand that it did not write yet.
Room(w) == Len(queue[w]) - (IF writer[w] \in Rotating THEN 1 ELSE 0) < QueueCap
----
(* The terminal. *)

\* start: the writer opens the active file; what an earlier session left in it
\* is closed with a line feed.
Start(w) ==
  /\ writer[w] = "off"
  /\ made.starts < MaxStarts
  /\ made' = [made EXCEPT !.starts = @ + 1]
  /\ \/ /\ names[0] # None
        /\ fd' = [fd EXCEPT ![w] = names[0]]
        /\ UNCHANGED names
     \/ /\ names[0] = None
        /\ Len(files) < MaxFiles
        /\ fd' = [fd EXCEPT ![w] = Len(files) + 1]
        /\ names' = [names EXCEPT ![0] = fd'[w]]
  /\ LET old == IF names[0] = None THEN <<>> ELSE files[names[0]]
         now == IF old = <<>> THEN old ELSE Append(old, NewLine)
     IN /\ files' = [f \in 1 .. Len(files) \cup {fd'[w]} |->
                       IF f = fd'[w] THEN now ELSE files[f]]
        /\ size' = [size EXCEPT ![w] = Len(now)]
  /\ Goto(w, "ready")
  /\ fresh' = [fresh EXCEPT ![w] = TRUE]
  /\ queue' = [queue EXCEPT ![w] = <<>>]
  /\ sink' = [sink EXCEPT ![w] = TRUE]
  /\ UNCHANGED <<gen, faults, view>>

\* LogSink: a chunk waits for room; the first one that finds the writer gone
\* ends the logging and is told to the operator.
Output(w, ends) ==
  /\ sink[w]
  /\ made.chunks < MaxChunks
  /\ made' = [made EXCEPT !.chunks = @ + 1]
  /\ \/ /\ writer[w] \notin {"off", "stopped"}
        /\ Room(w)
        /\ queue' = [queue EXCEPT ![w] = Append(@, ends)]
        /\ UNCHANGED sink
     \/ /\ writer[w] = "stopped"
        /\ sink' = [sink EXCEPT ![w] = FALSE]
        /\ UNCHANGED queue
  /\ UNCHANGED <<gen, writer, fd, size, fresh, disk, faults, view>>

\* The terminal is closed and its last chunks are written.
Finish(w) ==
  /\ \/ writer[w] = "ready" /\ queue[w] = <<>>
     \/ writer[w] = "stopped"
  /\ Goto(w, "off")
  /\ sink' = [sink EXCEPT ![w] = FALSE]
  /\ queue' = [queue EXCEPT ![w] = <<>>]
  /\ UNCHANGED <<gen, fd, size, fresh, made, disk, faults, view>>
----
(* write_loop and rotate. *)

\* The mutant of Full: the chunk to write is not counted.
FullLate(w) == size[w] > Limit

Full(w) == size[w] > 0 /\ size[w] + 1 > Limit
HasChunk(w) == writer[w] = "ready" /\ queue[w] # <<>>

Write(w) ==
  /\ HasChunk(w)
  /\ ~Full(w)
  /\ Put(fd[w], Unit(w, fresh[w], Head(queue[w])))
  /\ size' = [size EXCEPT ![w] = @ + 1]
  /\ fresh' = [fresh EXCEPT ![w] = Head(queue[w])]
  /\ queue' = [queue EXCEPT ![w] = Tail(@)]
  /\ UNCHANGED <<gen, writer, fd, sink, made, names, faults, view>>

BeginRotation(w) ==
  /\ HasChunk(w)
  /\ Full(w)
  /\ Goto(w, "remove")
  /\ UNCHANGED <<gen, fd, size, fresh, queue, sink, made, disk, faults, view>>

\* The mutant of ToShift: the active file is moved over the youngest.
ToMove(w, g) ==
  /\ Goto(w, "move")
  /\ gen' = [gen EXCEPT ![w] = g]

\* From the oldest to the youngest; then the active file is moved.
ToShift(w, g) ==
  /\ Goto(w, IF g = 0 THEN "move" ELSE "shift")
  /\ gen' = [gen EXCEPT ![w] = g]

RemoveOldest(w) ==
  /\ writer[w] = "remove"
  /\ names' = [names EXCEPT ![Retained] = None]
  /\ ToShift(w, Retained - 1)
  /\ UNCHANGED <<fd, size, fresh, queue, sink, made, files, faults, view>>

\* A rename replaces its target; without a source it is skipped.
Rename(g, h) == [names EXCEPT ![h] = names[g], ![g] = None]

Shift(w) ==
  /\ writer[w] = "shift"
  /\ names' = IF names[gen[w]] = None THEN names ELSE Rename(gen[w], gen[w] + 1)
  /\ ToShift(w, gen[w] - 1)
  /\ UNCHANGED <<fd, size, fresh, queue, sink, made, files, faults, view>>

\* The active file must be there: another writer may have moved it.
MoveActive(w) ==
  /\ writer[w] = "move"
  /\ \/ /\ names[0] # None
        /\ names' = Rename(0, 1)
        /\ Goto(w, "open")
     \/ /\ names[0] = None
        /\ Goto(w, "stopped")
        /\ UNCHANGED names
  /\ UNCHANGED <<gen, fd, size, fresh, queue, sink, made, files, faults, view>>

\* The mutant of OpenNext: the stamp of the chunk in hand is not renewed.
OpenNextUnstamped(w) ==
  /\ writer[w] = "open"
  /\ names[0] = None
  /\ Len(files) < MaxFiles
  /\ files' = Append(files, <<>>)
  /\ names' = [names EXCEPT ![0] = Len(files')]
  /\ fd' = [fd EXCEPT ![w] = names'[0]]
  /\ size' = [size EXCEPT ![w] = 0]
  /\ Goto(w, "ready")
  /\ UNCHANGED <<gen, fresh, queue, sink, made, faults, view>>

\* The chunk in hand is stamped again: a new file begins with a stamp.
OpenNext(w) ==
  /\ writer[w] = "open"
  /\ \/ /\ names[0] = None
        /\ Len(files) < MaxFiles
        /\ files' = Append(files, <<>>)
        /\ names' = [names EXCEPT ![0] = Len(files')]
     \/ /\ names[0] # None
        /\ UNCHANGED disk
  /\ fd' = [fd EXCEPT ![w] = names'[0]]
  /\ size' = [size EXCEPT ![w] = 0]
  /\ fresh' = [fresh EXCEPT ![w] = TRUE]
  /\ Goto(w, "ready")
  /\ UNCHANGED <<gen, queue, sink, made, faults, view>>

\* Any call of the file system may fail: the thread ends, its channel with it.
CallFails(w) ==
  /\ faults < MaxFaults
  /\ HasChunk(w) \/ writer[w] \in Rotating
  /\ Goto(w, "stopped")
  /\ queue' = [queue EXCEPT ![w] = <<>>]
  /\ faults' = faults + 1
  /\ UNCHANGED <<gen, fd, size, fresh, sink, made, disk, view>>

\* The program dies; what was written stays.
Crash ==
  /\ faults < MaxFaults
  /\ faults' = faults + 1
  /\ writer' = [w \in Writers |-> "off"]
  /\ sink' = [w \in Writers |-> FALSE]
  /\ queue' = [w \in Writers |-> <<>>]
  /\ view' = [view EXCEPT !.state = "over"]
  /\ UNCHANGED <<gen, fd, size, fresh, made, disk>>
----
(* search: pages of one search, every line a result. *)

Line(f, from, to, line) == [file |-> f, from |-> from, to |-> to, line |-> line]
Seen == view.seen

\* The search keeps the name, not the file: each page opens it anew, checks that
\* the cursor stands behind a line's end and within the file, and goes there.
OpenPage(g) ==
  /\ view.state \in {"idle", "next"}
  /\ view.pages < MaxPages
  /\ view.state = "next" => g = view.name
  /\ names[g] # None
  /\ LET text == files[names[g]]
         good == \/ view.cursor.offset = 0 /\ view.cursor.line = 1
                 \/ /\ view.cursor.offset \in DOMAIN text
                    /\ text[view.cursor.offset].ends
     IN view' = [view EXCEPT
                   !.state = IF good THEN "reading" ELSE "rejected",
                   !.name = g, !.file = names[g],
                   !.pages = @ + 1, !.hits = 0,
                   !.due = IF view.state = "idle" THEN Len(text) ELSE @]
  /\ UNCHANGED <<threads, made, disk, faults>>

\* read_bounded_line: to the end of the line, or of what is written so far.
NextLine ==
  LET text  == files[view.file]
      start == view.cursor.offset
      ends  == {i \in DOMAIN text : i > start /\ text[i].ends}
  IN IF ends = {} THEN Len(text) ELSE CHOOSE i \in ends : \A j \in ends : i <= j

\* The mutant of Advance: the cursor of a line that was cut at 4 KiB.
AdvanceCut(to) == [offset |-> to - 1, line |-> view.cursor.line + 1]
Advance(to) == [offset |-> to, line |-> view.cursor.line + 1]

ReadLine ==
  /\ view.state = "reading"
  /\ NextLine > view.cursor.offset
  /\ view' = [view EXCEPT
                !.state = IF view.hits + 1 >= PageSize THEN "full" ELSE "reading",
                !.hits = @ + 1,
                !.seen = Append(@, Line(view.file, view.cursor.offset,
                                        NextLine, view.cursor.line)),
                !.cursor = Advance(NextLine)]
  /\ UNCHANGED <<threads, made, disk, faults>>

\* A full page has a cursor only when something is left; an unfilled one ends
\* the search.
EndPage ==
  /\ \/ view.state = "full"
     \/ view.state = "reading" /\ NextLine = view.cursor.offset
  /\ view' = [view EXCEPT !.state =
                IF view.state = "full" /\ view.cursor.offset < Len(files[view.file])
                  THEN "next" ELSE "done"]
  /\ UNCHANGED <<threads, made, disk, faults>>
----
Init ==
  /\ writer = [w \in Writers |-> "off"]
  /\ gen = [w \in Writers |-> 0]
  /\ fd = [w \in Writers |-> None]
  /\ size = [w \in Writers |-> 0]
  /\ fresh = [w \in Writers |-> TRUE]
  /\ queue = [w \in Writers |-> <<>>]
  /\ sink = [w \in Writers |-> FALSE]
  /\ made = [starts |-> 0, chunks |-> 0]
  /\ names = [g \in Generations |-> None]
  /\ files = <<>>
  /\ faults = 0
  /\ view = [state |-> "idle", name |-> 0, file |-> None, pages |-> 0, hits |-> 0,
             due |-> 0, cursor |-> [offset |-> 0, line |-> 1], seen |-> <<>>]

Next ==
  \/ \E w \in Writers :
       \/ Start(w) \/ Finish(w) \/ Write(w) \/ BeginRotation(w)
       \/ RemoveOldest(w) \/ Shift(w) \/ MoveActive(w) \/ OpenNext(w) \/ CallFails(w)
       \/ \E ends \in BOOLEAN : Output(w, ends)
  \/ \E g \in Generations : OpenPage(g)
  \/ ReadLine \/ EndPage \/ Crash

Spec == Init /\ [][Next]_vars
----
TypeOK ==
  /\ writer \in [Writers -> Phases]
  /\ gen \in [Writers -> 0 .. Retained]
  /\ fd \in [Writers -> 0 .. MaxFiles]
  /\ size \in [Writers -> Nat]
  /\ fresh \in [Writers -> BOOLEAN]
  /\ \A w \in Writers : queue[w] \in Seq(BOOLEAN) /\ Len(queue[w]) <= QueueCap + 1
  /\ sink \in [Writers -> BOOLEAN]
  /\ made \in [starts : 0 .. MaxStarts, chunks : 0 .. MaxChunks]
  /\ names \in [Generations -> 0 .. Len(files)]
  /\ Len(files) <= MaxFiles
  /\ faults \in 0 .. MaxFaults

\* The names of one log hold its newest files, newest first and with none
\* missing in between, at every moment of a rotation and whenever it is cut
\* short; and no more than one file is lost early for each time that it is.
Named == {names[g] : g \in Generations} \ {None}
Least(a, b) == IF a < b THEN a ELSE b
NewestFilesAreKept ==
  /\ \A g, h \in Generations :
       (g < h /\ names[g] # None /\ names[h] # None) => names[g] > names[h]
  /\ \A f \in Named : f .. Len(files) \subseteq Named
  /\ Cardinality(Named) + faults >= Least(Len(files), Retained)

\* Every line of every file carries one stamp, at its start: a file begins with
\* one, a line that a rotation or a crash cut in two has one in each part.
LinesStampedOnce ==
  \A f \in DOMAIN files : \A i \in DOMAIN files[f] :
    files[f][i] # NewLine => (files[f][i].stamp <=> (i = 1 \/ files[f][i - 1].ends))

\* Rotation bounds every file, whatever a restart finds in the active one.
FilesAreBounded ==
  \A f \in DOMAIN files :
    Cardinality({i \in DOMAIN files[f] : files[f][i] # NewLine}) <= Limit

\* As long as the name stands for the same file, the pages of a search give
\* every byte once and in order, and number the lines through; a search that
\* ends has seen at least what was there when it began.
SearchReadsEveryLineOnce ==
  /\ \A i \in DOMAIN Seen :
       IF i = 1 THEN Seen[1].from = 0 /\ Seen[1].line = 1
       ELSE Seen[i].file = Seen[i - 1].file =>
              Seen[i].from = Seen[i - 1].to /\ Seen[i].line = Seen[i - 1].line + 1
  /\ (view.state = "done" /\ \A i \in DOMAIN Seen : Seen[i].file = view.file) =>
       view.due <= IF Seen = <<>> THEN 0 ELSE Seen[Len(Seen)].to

\* Every cursor that a page returned is accepted by the next page.
OwnCursorIsAccepted ==
  view.state = "rejected" => view.file # Seen[Len(Seen)].file
=============================================================================
