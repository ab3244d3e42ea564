---------------------------------- MODULE Resume ----------------------------------
(***************************************************************************)
(* What survives on disk: pieces written through the I/O queue             *)
(* (storage/queue.py, disk.py), the resume file written after each piece   *)
(* (resume.py), and the check when the torrent is started again            *)
(* (client.py:436-513).  The blocking parts run in worker threads, which   *)
(* go on when the task that waits for them is cancelled.  The process may  *)
(* die, or the power fail, at any moment.                                  *)
(***************************************************************************)
EXTENDS Storage

CONSTANTS
    Tasks,   \* peer tasks that write pieces
    NoTask,  \* nobody: the lock is free, or the task was cancelled
    Saves,   \* numbers of the saves that can be under way at once (a bound)
    MaxJobs  \* writes that can be in worker threads at once (a bound)

ASSUME ResumeAssumption == NoTask \notin Tasks /\ Saves \subseteq Nat /\ Saves # {} /\ MaxJobs \in Nat \ {0}

VARIABLES
    layout,    \* file lengths of the torrent
    stored,    \* cells that hold the torrent's bytes; the others hold something else
    phase,     \* "down", "up": registered, "checking", "checked": started
    have,      \* PieceTracker._have
    toCheck,   \* pieces_to_check still to read
    task,      \* the write of each task
    lock,      \* holder of _write_lock
    jobs,      \* _sync_write calls in worker threads
    save,      \* _sync_write calls of resume.py in worker threads
    tmp, final,  \* what is in the .tmp and the .resume file
    promised   \* history: the pieces the last save named, if no other ran beside it

disk  == <<stored, jobs>>
files == <<tmp, final>>
vars  == <<layout, phase, have, toCheck, task, lock, disk, save, files, promised>>

Idle   == [pc |-> "idle", piece |-> 0, offset |-> 0, remaining |-> 0, slices |-> {}]
NoSave == [step |-> "none", by |-> NoTask, file |-> "none", names |-> {}, alone |-> FALSE]

\* A file that names pieces, one whose text is cut or mixed, and none at all.
Whole(S) == [is |-> "whole", names |-> S]
Torn     == [is |-> "torn",  names |-> {}]
NoFile   == [is |-> "none",  names |-> {}]

Stored == {p \in Pieces(layout) : PieceCells(layout, p) \subseteq stored}
\* load_resume: the pieces the file names, none if it is missing or corrupt.
Named  == final.names

TaskType == [Tasks -> [pc : {"idle", "wait", "job", "save"}, piece : Nat, offset : Nat,
                       remaining : Nat, slices : SUBSET Nat]]
SaveType == [Saves -> [step : {"none", "queued", "opened", "written"},
                       by : Tasks \cup {NoTask}, file : {"none", "tmp", "final", "lost"},
                       names : SUBSET Pieces(layout), alone : BOOLEAN]]

TypeOK ==
    /\ layout \in Layouts /\ stored \subseteq Cells(layout)
    /\ phase \in {"down", "up", "checking", "checked"}
    /\ have \subseteq Pieces(layout) /\ toCheck \subseteq Pieces(layout)
    /\ task \in TaskType
    /\ lock \in Tasks \cup {NoTask} /\ \A t \in Tasks : lock = t <=> task[t].pc = "job"
    /\ jobs \subseteq [by : Tasks \cup {NoTask}, cells : SUBSET Cells(layout)]
    /\ \A t \in Tasks : lock = t <=> \E j \in jobs : j.by = t
    /\ save \in SaveType
    /\ {tmp, final} \subseteq {NoFile, Torn} \cup {Whole(S) : S \in SUBSET Pieces(layout)}
    /\ promised \subseteq Pieces(layout)

\* A torrent whose files may already be there, without a resume file.
Init ==
    /\ layout \in Layouts /\ stored \in SUBSET Cells(layout)
    /\ phase = "down" /\ have = {} /\ toCheck = {}
    /\ task = [t \in Tasks |-> Idle] /\ lock = NoTask /\ jobs = {}
    /\ save = [i \in Saves |-> NoSave]
    /\ tmp = NoFile /\ final = NoFile
    /\ promised = {}

-----------------------------------------------------------------------------
(* Starting: the client registers the torrent, start() checks it *)

Register ==
    /\ phase = "down"
    /\ phase' = "up"
    /\ UNCHANGED <<layout, have, toCheck, task, lock, disk, save, files, promised>>

\* Mutant: a resume file that names nothing is believed.
ToCheckNamed == IF final = NoFile THEN Pieces(layout) ELSE Named

\* The pieces to read: those the resume file names, or all of them.
ToCheck == IF Named # {} THEN Named ELSE Pieces(layout)

CheckResume ==
    /\ phase = "up"
    /\ phase' = "checking"
    /\ toCheck' = ToCheck
    /\ UNCHANGED <<layout, have, task, lock, disk, save, files, promised>>

\* A piece is read and its hash compared.  A short read is a piece not stored.
CheckPiece ==
    /\ phase = "checking" /\ toCheck # {}
    /\ LET p == Min(toCheck)
       IN  /\ have' = IF p \in Stored THEN have \cup {p} ELSE have
           /\ toCheck' = toCheck \ {p}
    /\ UNCHANGED <<layout, phase, task, lock, disk, save, files, promised>>

Checked ==
    /\ phase = "checking" /\ toCheck = {}
    /\ phase' = "checked"
    /\ UNCHANGED <<layout, have, toCheck, task, lock, disk, save, files, promised>>

-----------------------------------------------------------------------------
(* Writing a piece: storage.write in a peer's task *)

\* A task has received a piece whose hash is right, which another task may be
\* writing too.  Peers are served as soon as the torrent is registered.
WritePiece(t, p) ==
    /\ phase # "down" /\ task[t] = Idle /\ p \in Pieces(layout) \ have
    /\ LET size == PieceSize(layout, p)
       IN  task' = [task EXCEPT ![t] =
              [pc |-> "wait", piece |-> p, offset |-> PieceOffset(p), remaining |-> size,
               slices |-> SlicesFor(layout, PieceOffset(p), size)]]
    /\ UNCHANGED <<layout, phase, have, toCheck, lock, disk, save, files, promised>>

\* The file of this turn, and how much goes into it.
FileOf(t)  == Min(task[t].slices)
ChunkOf(t) == ChunkLength(layout, FileOf(t), task[t].offset, task[t].remaining)

\* FileQueue.write: under the lock, a worker thread gets this turn's chunk.
AcquireLock(t) ==
    /\ task[t].pc = "wait" /\ lock = NoTask /\ Cardinality(jobs) < MaxJobs
    /\ lock' = t
    /\ task' = [task EXCEPT ![t].pc = "job"]
    /\ jobs' = jobs \cup
          {[by |-> t, cells |-> Chunk(layout, FileOf(t), task[t].offset, task[t].remaining)]}
    /\ UNCHANGED <<layout, stored, phase, have, toCheck, save, files, promised>>

\* A thread whose task was cancelled does its work all the same.
OrphanRuns(j) ==
    /\ j.by = NoTask
    /\ jobs' = jobs \ {j}
    /\ stored' = stored \cup j.cells
    /\ UNCHANGED <<layout, phase, have, toCheck, task, lock, save, files, promised>>

\* The file cannot be written, or only in part: OSError ends the connection.
JobFails(j) ==
    /\ jobs' = jobs \ {j}
    /\ \E S \in SUBSET j.cells : stored' = stored \cup S
    /\ IF j.by = NoTask THEN UNCHANGED <<task, lock>>
       ELSE task' = [task EXCEPT ![j.by] = Idle] /\ lock' = NoTask
    /\ UNCHANGED <<layout, phase, have, toCheck, save, files, promised>>

\* Mutant: the lock is not released.
WrittenLocked(t, j) ==
    /\ j.by = t
    /\ jobs' = jobs \ {j}
    /\ stored' = stored \cup j.cells
    /\ UNCHANGED lock

\* The thread has written its chunk and the lock is free again.
Written(t, j) ==
    /\ j.by = t
    /\ jobs' = jobs \ {j}
    /\ stored' = stored \cup j.cells
    /\ lock' = NoTask

LastSlice(t) ==
    \/ task[t].slices = {FileOf(t)}
    \/ task[t].remaining <= ChunkOf(t)

\* The loop goes on in the next file ...
NextSlice(t, j) ==
    /\ Written(t, j) /\ ~ LastSlice(t)
    /\ task' = [task EXCEPT ![t] =
          [pc |-> "wait", piece |-> @.piece, offset |-> @.offset + ChunkOf(t),
           remaining |-> @.remaining - ChunkOf(t), slices |-> @.slices \ {FileOf(t)}]]
    /\ UNCHANGED <<layout, phase, have, toCheck, save, files, promised>>

\* ... or the piece is written: it is marked, and PIECE_VERIFIED saves what we have.
PieceWritten(t, j) ==
    /\ Written(t, j) /\ LastSlice(t)
    /\ have' = have \cup {task[t].piece}
    /\ task' = [task EXCEPT ![t] = [Idle EXCEPT !.pc = "save"]]
    /\ \E i \in Saves :
          LET alone == \A k \in Saves : save[k] = NoSave
          IN  /\ save[i] = NoSave /\ \A k \in Saves : k < i => save[k] # NoSave
              /\ save' = [k \in Saves |->
                    IF k = i THEN [step |-> "queued", by |-> t, file |-> "none",
                                   names |-> have', alone |-> alone]
                    ELSE [save[k] EXCEPT !.alone = FALSE]]
              /\ promised' = IF alone THEN promised \cap have' ELSE {}
    /\ UNCHANGED <<layout, phase, toCheck, files>>

-----------------------------------------------------------------------------
(* Saving: resume.py's _sync_write in a worker thread *)

\* write_bytes opens the .tmp file, cutting one that is there ...
SaveOpens(i) ==
    /\ save[i].step = "queued"
    /\ tmp' = Torn
    /\ save' = [save EXCEPT ![i].step = "opened", ![i].file = "tmp"]
    /\ UNCHANGED <<layout, phase, have, toCheck, task, lock, disk, final, promised>>

\* What a file may hold after S is written from its start on: if the text that
\* was there is longer, the end of it stays.
Over(old, S) == {Whole(S)} \cup (IF old.names \subseteq S THEN {} ELSE {Torn})

\* ... and writes to that file, whatever its name is by now.
SaveWrites(i) ==
    /\ save[i].step = "opened"
    /\ save' = [save EXCEPT ![i].step = "written"]
    /\ IF save[i].file = "tmp" THEN tmp' \in Over(tmp, save[i].names) ELSE UNCHANGED tmp
    /\ IF save[i].file = "final" THEN final' \in Over(final, save[i].names) ELSE UNCHANGED final
    /\ UNCHANGED <<layout, phase, have, toCheck, task, lock, disk, promised>>

\* The task that waits for a save goes on: errors of handlers are suppressed.
TaskGoesOn(i) == task' = IF save[i].by = NoTask THEN task ELSE [task EXCEPT ![save[i].by] = Idle]

\* os.replace: a thread still at work on the .tmp file now has the .resume file
\* in hand, and one that had the .resume file a file without a name.
Renamed(file) == CASE file = "tmp" -> "final" [] file = "final" -> "lost" [] OTHER -> file

\* FileNotFoundError if another thread has moved the .tmp file.
SaveReplaces(i) ==
    /\ save[i].step = "written"
    /\ TaskGoesOn(i)
    /\ IF tmp = NoFile
       THEN /\ save' = [save EXCEPT ![i] = NoSave]
            /\ UNCHANGED <<files, promised>>
       ELSE /\ final' = tmp /\ tmp' = NoFile
            /\ save' = [k \in Saves |-> IF k = i THEN NoSave
                                       ELSE [save[k] EXCEPT !.file = Renamed(@)]]
            /\ promised' = IF save[i].alone THEN save[i].names ELSE promised
    /\ UNCHANGED <<layout, phase, have, toCheck, lock, disk>>

\* The state directory cannot be written.
SaveFails(i) ==
    /\ save[i].step \in {"queued", "opened"}
    /\ TaskGoesOn(i)
    /\ save' = [save EXCEPT ![i] = NoSave]
    /\ UNCHANGED <<layout, phase, have, toCheck, lock, disk, files, promised>>

-----------------------------------------------------------------------------
(* Cancellation and crashes *)

\* stop, a disconnect or the exit cancels the task.  The lock is released.  A
\* thread that has begun goes on; a call still queued may be withdrawn.
Cancel(t) ==
    LET mine == {j \in jobs : j.by = t}
    IN  /\ task[t] # Idle
        /\ task' = [task EXCEPT ![t] = Idle]
        /\ lock' = IF lock = t THEN NoTask ELSE lock
        /\ \E orphans \in {{}, {[j EXCEPT !.by = NoTask] : j \in mine}} :
              jobs' = (jobs \ mine) \cup orphans
        /\ \/ save' = [i \in Saves |-> IF save[i].by = t THEN [save[i] EXCEPT !.by = NoTask] ELSE save[i]]
           \/ /\ \E i \in Saves : save[i].by = t /\ save[i].step = "queued"
              /\ save' = [i \in Saves |-> IF save[i].by = t THEN NoSave ELSE save[i]]
        /\ UNCHANGED <<layout, stored, phase, have, toCheck, files, promised>>

\* The process dies; each write under way leaves what it leaves.  Pieces are
\* synced to disk but the resume file is not: a power failure can empty it.
Crash ==
    /\ phase # "down"
    /\ phase' = "down"
    /\ \E S \in SUBSET UNION {j.cells : j \in jobs} : stored' = stored \cup S
    /\ have' = {} /\ toCheck' = {}
    /\ task' = [t \in Tasks |-> Idle] /\ lock' = NoTask /\ jobs' = {}
    /\ save' = [i \in Saves |-> NoSave]
    /\ final' \in {final, IF final = NoFile THEN NoFile ELSE Torn}
    /\ tmp' = IF tmp = NoFile THEN NoFile ELSE Torn  \* it is cut before it is read
    /\ UNCHANGED <<layout, promised>>

\* Meanwhile somebody changes or deletes a file of the torrent.
Damage ==
    /\ phase = "down"
    /\ \E c \in stored : stored' = stored \ {c}
    /\ promised' = promised \cap {p \in Pieces(layout) : PieceCells(layout, p) \subseteq stored'}
    /\ UNCHANGED <<layout, phase, have, toCheck, task, lock, jobs, save, files>>

-----------------------------------------------------------------------------
Next ==
    \/ Register \/ CheckResume \/ CheckPiece \/ Checked \/ Crash \/ Damage
    \/ \E t \in Tasks :
          \/ \E p \in Pieces(layout) : WritePiece(t, p)
          \/ AcquireLock(t) \/ Cancel(t)
          \/ \E j \in jobs : NextSlice(t, j) \/ PieceWritten(t, j)
    \/ \E j \in jobs : OrphanRuns(j) \/ JobFails(j)
    \/ \E i \in Saves : SaveOpens(i) \/ SaveWrites(i) \/ SaveReplaces(i) \/ SaveFails(i)

Spec == Init /\ [][Next]_vars

-----------------------------------------------------------------------------
(* Properties *)

\* A piece we say we have lies whole on the disk: across files, with other
\* tasks writing it too, with writes that fail or are abandoned half way, and
\* after a restart over files that have changed (disk.py:125-145,
\* queue.py:61-64, engine.py:269-270, client.py:497-508).
HeldIsStored == have \subseteq Stored

\* The resume file keeps its purpose: the pieces a save has named are found
\* again, although the process died or the power failed in the middle of the
\* next save.  Not promised when two saves ran at once (resume.py:79-83,
\* 117-147, client.py:467-485).
SavedIsFound == phase = "checked" => promised \subseteq have
=============================================================================
