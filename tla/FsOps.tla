------------------------------- MODULE FsOps --------------------------------
(***************************************************************************)
(* The file operations of cmd_fs/fs_ops.c and those who call them: `fs     *)
(* put`, `fs rm` and `fs mv` on the console, the web server's one job      *)
(* (uploads and copies) and its own task (deletes and moves).  Each call   *)
(* that changes the volume is a step, so anything may come between two.    *)
(*                                                                         *)
(* The volume is POSIX: a handle follows its file when that is renamed,    *)
(* and what is written to a file that has no name any more is gone with    *)
(* it.  Of a file's data only the length is kept, in chunks.  What a copy  *)
(* reads does not change under it: files that have a name are not written. *)
(***************************************************************************)
EXTENDS Naturals

CONSTANTS
    Consoles, Jobs, Servers,    \* the tasks
    Names,      \* the names of files; each has a .part beside it
    Size,       \* the chunks of a whole file
    Failing,    \* the calls of the volume that may fail of themselves
    NoFile, NoName

Tasks == Consoles \cup Jobs \cup Servers

File(n) == <<n, "file">>
Part(n) == <<n, "part">>
Paths == Names \X {"file", "part"}

ASSUME SizeAssumption == Size \in Nat \ {0}
ASSUME NoFileAssumption == NoFile \notin Nat /\ NoFile \notin Paths
ASSUME NoNameAssumption == NoName \notin Names
ASSUME FailingAssumption == Failing \subseteq {"open", "unlink", "rename"}

VARIABLES
    volume,     \* the length of the file at each path, or NoFile
    op,         \* what each task is doing
    had,        \* history: the names that should have a file
    cost,       \* history: the names whose file was lost by a replacement that failed or was cut off
    left,       \* history: the names whose .part was left by a reset or a failed unlink
    shared      \* history: two have written one .part at once

vars == <<volume, op, had, cost, left, shared>>

Exists(n) == volume[File(n)] # NoFile

(* What a task is doing: for a writer (fs_writer_t) the name, whether it may replace, the path *)
(* of the file it has open, how much it has written, and how much it will; for a move, where to. *)

Idle == [at |-> "idle", name |-> NoName, to |-> NoName, over |-> FALSE,
         file |-> NoFile, off |-> 0, end |-> 0]

\* Past open() and not yet done with the .part
HasPart(t, n) == op[t].name = n /\ op[t].at \in {"write", "check", "unlink", "rename", "drop"}

\* Between unlinking a file and renaming another over its name
Replacing(t, n) ==
    \/ op[t].at = "rename" /\ op[t].name = n
    \/ op[t].at = "move" /\ op[t].to = n

At(t, place) == [op[t] EXCEPT !.at = place]
Goes(t, next) == op' = [op EXCEPT ![t] = next]

Fails(call) == call \in Failing

----------------------------------------------------------------------------
(* The volume. *)

\* Handles on `from` follow their file to `to`; those on the file that was there lose it.
Followed(p, from, to) == IF p = to THEN NoFile ELSE IF p = from THEN to ELSE p

\* A task renames a file, or unlinks it, and goes on; the others' handles follow.
Renames(t, from, to, next) ==
    /\ volume' = [volume EXCEPT ![to] = volume[from], ![from] = NoFile]
    /\ op' = [u \in Tasks |->
                IF u = t THEN next ELSE [op[u] EXCEPT !.file = Followed(@, from, to)]]

Unlinks(t, p, next) ==
    /\ volume' = [volume EXCEPT ![p] = NoFile]
    /\ op' = [u \in Tasks |->
                IF u = t THEN next ELSE [op[u] EXCEPT !.file = Followed(@, p, NoFile)]]

Init ==
    /\ had \in SUBSET Names
    /\ volume = [p \in Paths |-> IF p[2] = "file" /\ p[1] \in had THEN Size ELSE NoFile]
    /\ op = [t \in Tasks |-> Idle]
    /\ cost = {} /\ left = {} /\ shared = FALSE

----------------------------------------------------------------------------
(* Writing a file. *)

\* fs_write_begin() looks first: a file that is there must be meant to be replaced.
Begin(t, n, over, end) ==
    /\ op[t].at = "idle"
    /\ Exists(n) => over
    /\ Goes(t, [Idle EXCEPT !.at = "open", !.name = n, !.over = over, !.end = end])
    /\ UNCHANGED <<volume, had, cost, left, shared>>

\* `fs put [-f]`
Put(t) == t \in Consoles /\ \E n \in Names, force \in BOOLEAN : Begin(t, n, force, Size)

\* PUT /fs/file
Upload(t) == t \in Jobs /\ \E n \in Names, over \in BOOLEAN : Begin(t, n, over, Size)

\* POST /fs/copy: opens what it copies, then writes
Copy(t) ==
    /\ t \in Jobs
    /\ \E from, n \in Names, over \in BOOLEAN :
          from # n /\ Exists(from) /\ Begin(t, n, over, volume[File(from)])

\* Then it opens the .part, which empties one that is there.
OpenPart(t) ==
    /\ op[t].at = "open"
    /\ LET n == op[t].name
       IN  \/ /\ volume' = [volume EXCEPT ![Part(n)] = 0]
              /\ \/ Goes(t, [At(t, "write") EXCEPT !.file = Part(n)])
                 \/ Goes(t, At(t, "drop"))              \* no hash to be had
              /\ left' = left \ {n}
              /\ shared' = (shared \/ \E u \in Tasks \ {t} : HasPart(u, n))
              /\ UNCHANGED <<had, cost>>
           \/ Fails("open") /\ Goes(t, Idle) /\ UNCHANGED <<volume, had, cost, left, shared>>

\* Mutant: what is written is appended, whoever else has written
LongerAppend(len, off) == len + 1

Longer(len, off) == IF len > off THEN len ELSE off + 1

\* fs_write()
Write(t) ==
    /\ op[t].at = "write" /\ op[t].off < op[t].end
    /\ Goes(t, [op[t] EXCEPT !.off = @ + 1])
    /\ LET p == op[t].file
       IN  volume' = IF p = NoFile THEN volume ELSE [volume EXCEPT ![p] = Longer(@, op[t].off)]
    /\ UNCHANGED <<had, cost, left, shared>>

\* Mutant: a writer that is cut off leaves its .part
CutLeaves(t) ==
    /\ op[t].at = "write"
    /\ Goes(t, Idle)
    /\ UNCHANGED <<volume, had, cost, left, shared>>

\* fs_write_abort(): what was to be written did not come, or a read or a write failed
Cut(t) ==
    /\ op[t].at = "write"
    /\ Goes(t, [At(t, "drop") EXCEPT !.file = NoFile])
    /\ UNCHANGED <<volume, had, cost, left, shared>>

\* Mutant: a writer that is cut off puts what it has in place
CloseShort(t) ==
    /\ op[t].at = "write"
    /\ \E place \in {"check", "drop"} : Goes(t, [At(t, place) EXCEPT !.file = NoFile])
    /\ UNCHANGED <<volume, had, cost, left, shared>>

\* fs_write_finish(): the file is closed, and the hash of what was written compared
Close(t) ==
    /\ op[t].at = "write" /\ op[t].off = op[t].end
    /\ \E place \in {"check", "drop"} : Goes(t, [At(t, place) EXCEPT !.file = NoFile])
    /\ UNCHANGED <<volume, had, cost, left, shared>>

\* Is there a file by now, and may it be replaced?
Check(t) ==
    /\ op[t].at = "check"
    /\ \/ Exists(op[t].name) /\ ~op[t].over /\ Goes(t, At(t, "drop"))
       \/ Exists(op[t].name) /\ op[t].over /\ Goes(t, At(t, "unlink"))
       \/ ~Exists(op[t].name) /\ Goes(t, At(t, "rename"))
    /\ UNCHANGED <<volume, had, cost, left, shared>>

\* changing(), and the file that is there goes.
UnlinkOld(t) ==
    /\ op[t].at = "unlink"
    /\ LET n == op[t].name
       IN  \/ Exists(n) /\ Unlinks(t, File(n), At(t, "rename"))
           \/ (~Exists(n) \/ Fails("unlink")) /\ Goes(t, At(t, "drop")) /\ volume' = volume
    /\ UNCHANGED <<had, cost, left, shared>>

\* The name is without its file, and only this task was to give it another.
Lost(n, t) == n \in had /\ ~Exists(n) /\ \A u \in Tasks \ {t} : ~Replacing(u, n)

\* A rename that does not happen, and what it cost
RenameFails(t, from, to) ==
    /\ volume[from] = NoFile \/ Fails("rename")
    /\ cost' = IF Lost(to, t) THEN cost \cup {<<to, "failed">>} ELSE cost
    /\ UNCHANGED <<volume, had>>

Restored(n) == {c \in cost : c[1] # n}

RenamePart(t) ==
    /\ op[t].at = "rename"
    /\ LET n == op[t].name
       IN  \/ /\ volume[Part(n)] # NoFile
              /\ Renames(t, Part(n), File(n), Idle)
              /\ had' = had \cup {n} /\ cost' = Restored(n)
           \/ RenameFails(t, Part(n), n) /\ Goes(t, At(t, "drop"))
    /\ UNCHANGED <<left, shared>>

\* Mutant: a write that failed takes the file away instead of its .part
DropFile(t) ==
    /\ op[t].at = "drop"
    /\ Unlinks(t, File(op[t].name), Idle)
    /\ UNCHANGED <<had, cost, left, shared>>

\* A write that failed takes its .part away.
Drop(t) ==
    /\ op[t].at = "drop"
    /\ LET p == Part(op[t].name)
       IN  \/ Unlinks(t, p, Idle) /\ left' = left
           \/ /\ Fails("unlink") /\ volume[p] # NoFile
              /\ Goes(t, Idle) /\ volume' = volume /\ left' = left \cup {op[t].name}
    /\ UNCHANGED <<had, cost, shared>>

----------------------------------------------------------------------------
(* Removing and moving. *)

\* fs_remove() of a file: it is there, the hook is called,
Remove(t) ==
    /\ t \in Consoles \cup Servers /\ op[t].at = "idle"
    /\ \E n \in Names : Exists(n) /\ Goes(t, [Idle EXCEPT !.at = "remove", !.name = n])
    /\ UNCHANGED <<volume, had, cost, left, shared>>

\* and it is unlinked.
RemoveFile(t) ==
    /\ op[t].at = "remove"
    /\ LET n == op[t].name
       IN  \/ Exists(n) /\ Unlinks(t, File(n), Idle) /\ had' = had \ {n}
           \/ (~Exists(n) \/ Fails("unlink")) /\ Goes(t, Idle) /\ UNCHANGED <<volume, had>>
    /\ UNCHANGED <<cost, left, shared>>

\* fs_move() of a file; the console's never replaces
Move(t) ==
    /\ t \in Consoles \cup Servers /\ op[t].at = "idle"
    /\ \E from, to \in Names, over \in BOOLEAN :
          /\ from # to /\ Exists(from)
          /\ Exists(to) => over
          /\ t \in Consoles => ~over
          /\ Goes(t, [Idle EXCEPT !.at = IF Exists(to) THEN "clear" ELSE "move",
                                  !.name = from, !.to = to, !.over = over])
    /\ UNCHANGED <<volume, had, cost, left, shared>>

ClearTo(t) ==
    /\ op[t].at = "clear"
    /\ LET to == op[t].to
       IN  \/ Exists(to) /\ Unlinks(t, File(to), At(t, "move"))
           \/ (~Exists(to) \/ Fails("unlink")) /\ Goes(t, Idle) /\ volume' = volume
    /\ UNCHANGED <<had, cost, left, shared>>

MoveFile(t) ==
    /\ op[t].at = "move"
    /\ LET from == op[t].name
           to == op[t].to
       IN  \/ /\ Exists(from)
              /\ Renames(t, File(from), File(to), Idle)
              /\ had' = (had \ {from}) \cup {to} /\ cost' = Restored(to)
           \/ RenameFails(t, File(from), to) /\ Goes(t, Idle)
    /\ UNCHANGED <<left, shared>>

----------------------------------------------------------------------------
\* The board restarts, whatever was going on.  Nothing looks for what was left.
Reset ==
    /\ op' = [t \in Tasks |-> Idle]
    /\ left' = {n \in Names : volume[Part(n)] # NoFile}
    /\ cost' = cost \cup {<<n, "reset">> :
                            n \in {m \in had : ~Exists(m) /\ \E t \in Tasks : Replacing(t, m)}}
    /\ UNCHANGED <<volume, had, shared>>

Works(t) ==
    \/ OpenPart(t) \/ Write(t) \/ Cut(t) \/ Close(t) \/ Check(t) \/ UnlinkOld(t) \/ RenamePart(t)
    \/ Drop(t) \/ RemoveFile(t) \/ ClearTo(t) \/ MoveFile(t)

Next ==
    \/ \E t \in Tasks : Put(t) \/ Upload(t) \/ Copy(t) \/ Remove(t) \/ Move(t) \/ Works(t)
    \/ Reset

Spec == Init /\ [][Next]_vars

----------------------------------------------------------------------------
(* Properties *)

Places == {"idle", "open", "write", "check", "unlink", "rename", "drop", "remove", "clear", "move"}

TypeOK ==
    /\ volume \in [Paths -> 0 .. Size \cup {NoFile}]
    /\ op \in [Tasks -> [at : Places, name : Names \cup {NoName}, to : Names \cup {NoName},
                         over : BOOLEAN, file : Paths \cup {NoFile},
                         off : 0 .. Size, end : 0 .. Size]]
    /\ had \subseteq Names
    /\ cost \subseteq Names \X {"failed", "reset"}
    /\ left \subseteq Names
    /\ shared \in BOOLEAN

\* The file a name names is whole, whatever failed or was cut off, and through copies, moves and
\* resets (cmd_fs.c:427-428 "never leaves a truncated file behind"), until two have written one
\* .part at once.
NamesAreWhole == ~shared => \A n \in Names : Exists(n) => volume[File(n)] = Size

\* A name that was given a file, and has not had it removed or moved away, has one, is being
\* given another this moment, or lost it to a replacement that failed or was cut off after its
\* unlink (fs_ops.c:374-379, 475-483): no other sequence of calls costs a file.
FilesAreKept ==
    \A n \in had :
        Exists(n) \/ (\E t \in Tasks : Replacing(t, n)) \/ n \in {c[1] : c \in cost}

\* A .part is being written, or was left by a reset or a failed unlink (fs_ops.h:74 "leaves
\* nothing half-done"), however many write it at once.
PartsAreTemporary ==
    \A n \in Names : volume[Part(n)] # NoFile => n \in left \/ \E t \in Tasks : HasPart(t, n)

\* A replacement that fails does not cost the file it was replacing (fs_ops.h:74-75, cmd_fs.c:494).
FailedWriteCostsNothing == \A n \in Names : <<n, "failed">> \notin cost
=============================================================================
