------------------------------- MODULE NvsBackup -------------------------------
(***************************************************************************)
(* The configuration in NVS, its export and its import                     *)
(* (cmd_nvs/nvs_backup.c, cmd_nvs.c).  An import is checked whole and      *)
(* compared with what is there, a snapshot of what is there is put beside  *)
(* the last one, and only then are the differences written, entry by       *)
(* entry: any write may fail and the board may restart between any two,    *)
(* and the snapshots are what is left to undo with.                        *)
(*                                                                         *)
(* The console gives the commands, one at a time; other tasks write their  *)
(* own entries meanwhile.  A write that NVS took is kept over a restart.   *)
(***************************************************************************)
EXTENDS Integers, Sequences, FiniteSets

CONSTANTS
    Order,      \* the entries, sorted by namespace and key
    NsOf,       \* each entry's namespace
    Excluded,   \* the entries the registry keeps back
    Values,     \* what an entry may hold
    Absent,     \* an entry, or a file, that is not there
    TypeOf,     \* each value's type
    Starts,     \* what NVS may hold at first
    Uploads,    \* the files that arrive: what they hold, from which board, damaged or not
    Written,    \* what other tasks, and nvs_set, write: an entry and its value
    MaxSnaps,   \* bound: snapshots counted
    MaxEdits    \* bound: the writes that are not an import's, and the exports

Entries == {Order[i] : i \in DOMAIN Order}

Contents == [Entries -> Values \cup {Absent}]

\* What parse() makes of a file's lines: the entries it holds, from which board, and whether it is
\* all there, each line well formed and the CRC right
Parsed == [text : Contents, mine : BOOLEAN, whole : BOOLEAN]

ASSUME NvsAssumption ==
    /\ Order \in Seq(Entries) /\ \A i, j \in DOMAIN Order : Order[i] = Order[j] => i = j
    /\ Excluded \subseteq Entries /\ Absent \notin Values \cup Contents
    /\ MaxSnaps \in Nat /\ MaxSnaps > 2
    /\ Starts \subseteq Contents /\ Uploads \subseteq Parsed
    /\ \A w \in Written : w.of \in Entries /\ w.value \in Values

Snapshots == {"snapshot", "prev", "next"}   \* NVS_BACKUP_SNAPSHOT, _PREV, _NEXT
Files == Snapshots \cup {"mine"}
Options == [replace : BOOLEAN, ignore : BOOLEAN, other : BOOLEAN, keep : BOOLEAN]

VARIABLES
    nvs,        \* the partition
    files,      \* the files in the backup directory
    imp,        \* the import: where it is, what it holds and does
    errno,      \* the console task's errno is ERANGE
    good,       \* history: the configuration before the first of the imports that have not ended well
    torn,       \* history: such an import has written
    snaps,      \* history: the snapshots begun since
    bare,       \* history: it took none, or its moves failed
    disturbed,  \* history: another task has written since the import read
    edits       \* how many edits there were

nvsVars == <<nvs, files, imp, errno, good, torn, snaps, bare, disturbed, edits>>
history == <<good, torn, snaps, bare, disturbed>>

Edits == edits < MaxEdits /\ edits' = edits + 1

NoEntries == [e \in Entries |-> Absent]
NoImport == [pc |-> "idle", text |-> NoEntries, before |-> NoEntries, replace |-> FALSE, at |-> 1,
             erased |-> FALSE]

NvsInit ==
    /\ nvs \in Starts
    /\ files = [f \in Files |-> Absent]
    /\ imp = NoImport /\ errno = FALSE
    /\ good = NoEntries /\ torn = FALSE /\ snaps = 0 /\ bare = FALSE /\ disturbed = FALSE /\ edits = 0

----------------------------------------------------------------------------
(* What a file holds, and what an import of it would do. *)

\* nvs_backup_is_excluded(): the registry keeps it back
IsExcluded(e) == e \in Excluded

\* An export: the other entries
Exported(c) == [e \in Entries |-> IF IsExcluded(e) THEN Absent ELSE c[e]]

\* Mutant: a skipped entry counts
ManagesAny(text, ns) == \E e \in Entries : NsOf[e] = ns /\ text[e] # Absent

\* file_has_ns(): the file manages a namespace it holds an entry of, a skipped one apart
Manages(text, ns) == \E e \in Entries : ~IsExcluded(e) /\ NsOf[e] = ns /\ text[e] # Absent

\* diff() and find_removals()
Does(text, c, replace, e) ==
    IF IsExcluded(e) THEN "none"
    ELSE IF text[e] # Absent THEN
        IF c[e] = Absent THEN "add" ELSE IF c[e] = text[e] THEN "same"
        ELSE IF TypeOf[c[e]] # TypeOf[text[e]] THEN "retype" ELSE "change"
    ELSE IF replace /\ c[e] # Absent /\ Manages(text, NsOf[e]) THEN "remove" ELSE "none"

Todo(text, c, replace) == {e \in Entries : Does(text, c, replace, e) \in {"add", "change", "retype", "remove"}}

\* The next to do, in the order of the entries
NextOf(todo, i) == CHOOSE j \in i .. Len(Order) + 1 :
    /\ j <= Len(Order) => Order[j] \in todo
    /\ \A k \in i .. j - 1 : Order[k] \notin todo

Doing == IF imp.at <= Len(Order) THEN Does(imp.text, imp.before, imp.replace, Order[imp.at]) ELSE "done"
Onward == imp' = [imp EXCEPT !.erased = FALSE,
                             !.at = NextOf(Todo(imp.text, imp.before, imp.replace), @ + 1)]

\* check_crc() and parse()
Damaged(file) == ~file.whole

\* check(): the damaged, another board's, and what the registry keeps back
Refuses(file, o) ==
    \/ Damaged(file)
    \/ ~file.mine /\ ~o.other
    \/ ~o.ignore /\ \E e \in Entries : IsExcluded(e) /\ file.text[e] # Absent

\* format_header(): what was exported here says so
OfThisBoard(text) == [text |-> text, mine |-> TRUE, whole |-> TRUE]

----------------------------------------------------------------------------
(* nvs_import.  A dry run, a refusal or nothing to do changes nothing. *)

Import(file, o) ==
    /\ imp.pc = "idle"
    /\ ~Refuses(file, o) /\ Todo(file.text, nvs, o.replace) # {}
    /\ imp' = [pc |-> IF o.keep THEN "export" ELSE "apply", text |-> file.text, before |-> nvs,
               replace |-> o.replace, at |-> NextOf(Todo(file.text, nvs, o.replace), 1), erased |-> FALSE]
    /\ disturbed' = FALSE
    /\ bare' = (bare \/ ~o.keep)
    /\ snaps' = IF torn \/ o.keep THEN snaps ELSE 0
    /\ UNCHANGED <<nvs, files, errno, good, torn, edits>>

ImportUpload(o) == \E file \in Uploads : Import(file, o)
ImportFile(f, o) == files[f] # Absent /\ Import(OfThisBoard(files[f]), o)

\* nvs_backup_export_file(), whole
ExportTo(f) == files' = [files EXCEPT ![f] = Exported(nvs)]

\* Refused after all: nothing of it was written to NVS
Refuse == imp' = NoImport

\* snapshot(): the configuration as it is, under a third name first
Snapshot ==
    /\ imp.pc = "export"
    /\ \/ /\ ExportTo("next")
          /\ imp' = [imp EXCEPT !.pc = "aside"]
          /\ good' = IF torn THEN good ELSE Exported(nvs)
          /\ snaps' = IF ~torn THEN 1 ELSE IF snaps < MaxSnaps THEN snaps + 1 ELSE snaps
          /\ bare' = (bare /\ torn)
       \/ /\ \E left \in {files["next"], Absent} : files' = [files EXCEPT !["next"] = left]
          /\ Refuse /\ UNCHANGED <<good, snaps, bare>>
    /\ UNCHANGED <<nvs, errno, torn, disturbed, edits>>

\* fs_move(), which unlinks the file it moves over: done, or failed before or after that
Moves(from, to) ==
    {[files EXCEPT ![to] = files[from], ![from] = Absent], files, [files EXCEPT ![to] = Absent]}
MovedTo(from, to) == [files EXCEPT ![to] = files[from], ![from] = Absent]

\* Mutant: the last snapshot is not moved aside
MoveAsideNot ==
    /\ imp.pc = "aside"
    /\ imp' = [imp EXCEPT !.pc = "in"]
    /\ UNCHANGED <<nvs, files, errno, history, edits>>

\* The last snapshot moves aside, and how that went is not looked at
MoveAside ==
    /\ imp.pc = "aside"
    /\ files' \in IF files["snapshot"] = Absent THEN {files} ELSE Moves("snapshot", "prev")
    /\ imp' = [imp EXCEPT !.pc = "in"]
    /\ bare' = (bare \/ (files["snapshot"] # Absent /\ files' # MovedTo("snapshot", "prev")))
    /\ UNCHANGED <<nvs, errno, good, torn, snaps, disturbed, edits>>

MoveIn ==
    /\ imp.pc = "in"
    /\ \/ /\ files' = MovedTo("next", "snapshot")
          /\ imp' = [imp EXCEPT !.pc = "apply"]
       \/ files' \in Moves("next", "snapshot") \ {MovedTo("next", "snapshot")} /\ Refuse
    /\ UNCHANGED <<nvs, errno, history, edits>>

\* apply(): an entry is set; or erased; or, of another type, erased and then set
SetOne ==
    /\ imp.pc = "apply" /\ (Doing \in {"add", "change"} \/ (Doing = "retype" /\ imp.erased))
    /\ nvs' = [nvs EXCEPT ![Order[imp.at]] = imp.text[Order[imp.at]]]
    /\ Onward /\ torn' = TRUE
    /\ UNCHANGED <<files, errno, good, snaps, bare, disturbed, edits>>

EraseOne ==
    /\ imp.pc = "apply" /\ Doing \in {"remove", "retype"} /\ ~imp.erased
    /\ nvs' = [nvs EXCEPT ![Order[imp.at]] = Absent]
    /\ IF Doing = "remove" THEN Onward ELSE imp' = [imp EXCEPT !.erased = TRUE]
    /\ torn' = TRUE
    /\ UNCHANGED <<files, errno, good, snaps, bare, disturbed, edits>>

\* NVS refuses a write, and the rest is left
WriteFails ==
    /\ imp.pc = "apply" /\ Doing \in {"add", "change", "remove", "retype"}
    /\ imp' = NoImport /\ UNCHANGED <<nvs, files, errno, history, edits>>

Succeed ==
    /\ imp.pc = "apply" /\ Doing = "done"
    /\ imp' = NoImport /\ torn' = FALSE /\ bare' = FALSE
    /\ UNCHANGED <<nvs, files, errno, good, snaps, disturbed, edits>>

----------------------------------------------------------------------------
(* The other commands, and the world. *)

\* nvs_export to a file, which is none of the import's own
Export(f) ==
    /\ imp.pc = "idle" /\ f \notin Snapshots
    /\ ExportTo(f)
    /\ UNCHANGED <<nvs, imp, errno, history>> /\ Edits

\* nvs_set: an integer out of its range is refused, and so is one after it, while errno says so
\* still; a str was set by then
SetValue(w, outside) ==
    /\ imp.pc = "idle"
    /\ outside => TypeOf[w.value] = "int"
    /\ nvs' = IF TypeOf[w.value] = "int" /\ (outside \/ errno) THEN nvs ELSE [nvs EXCEPT ![w.of] = w.value]
    /\ errno' = (errno \/ outside)
    /\ UNCHANGED <<files, imp, good, torn, snaps, bare>> /\ Edits /\ disturbed' = TRUE

\* nvs_erase, nvs_erase_namespace
EraseEntries(E) ==
    /\ imp.pc = "idle"
    /\ nvs' = [e \in Entries |-> IF e \in E THEN Absent ELSE nvs[e]]
    /\ UNCHANGED <<files, imp, errno, good, torn, snaps, bare>> /\ Edits /\ disturbed' = TRUE

\* Another command of the console sets errno
OtherCommand == imp.pc = "idle" /\ errno /\ errno' = FALSE /\ UNCHANGED <<nvs, files, imp, history, edits>>

\* Another task keeps its own entry
Other(w) ==
    /\ imp.pc # "idle"
    /\ nvs' = [nvs EXCEPT ![w.of] = w.value]
    /\ disturbed' = TRUE
    /\ UNCHANGED <<files, imp, errno, good, torn, snaps, bare>> /\ Edits

NvsRestart ==
    /\ imp' = NoImport /\ errno' = FALSE
    /\ UNCHANGED <<nvs, files, history, edits>>

NvsNext ==
    \/ \E o \in Options : ImportUpload(o) \/ \E f \in Files : ImportFile(f, o)
    \/ Snapshot \/ MoveAside \/ MoveIn
    \/ SetOne \/ EraseOne \/ WriteFails \/ Succeed
    \/ \E f \in Files : Export(f)
    \/ \E w \in Written : Other(w) \/ \E outside \in BOOLEAN : SetValue(w, outside)
    \/ \E e \in Entries : EraseEntries({e}) \/ EraseEntries({d \in Entries : NsOf[d] = NsOf[e]})
    \/ OtherCommand \/ NvsRestart

----------------------------------------------------------------------------
(* What is promised. *)

NvsTypeOK ==
    /\ nvs \in Contents /\ \A f \in Files : files[f] \in Contents \cup {Absent}
    /\ imp.pc \in {"idle", "export", "aside", "in", "apply"} /\ imp.at \in 1 .. Len(Order) + 1
    /\ imp.erased => Doing = "retype"

\* nvs_backup.c:1524, "it is the only copy of the state before, until this import succeeds": an
\* import that failed or was cut short, and one try to undo it that went the same way, leave the
\* configuration before them in one of the two snapshots, whatever else was exported meanwhile;
\* but for an import without a snapshot and a move that failed.
UndoStays ==
    torn /\ ~bare /\ snaps <= 2 => good \in {files["snapshot"], files["prev"]}

\* nvs_backup.h, "the whole file is checked before anything is written ... then the diff": an
\* import that ends well has made the entries it names the file's, has erased of the file's
\* namespaces what the file does not hold if it was to, and has left every other entry and
\* every excluded one; unless another task wrote meanwhile.
ImportedIsAsked ==
    imp.pc = "apply" /\ Doing = "done" /\ ~disturbed =>
       \A e \in Entries :
          nvs[e] = IF e \in Excluded THEN imp.before[e]
                   ELSE IF imp.text[e] # Absent THEN imp.text[e]
                   ELSE IF imp.replace /\ \E d \in Entries \ Excluded : NsOf[d] = NsOf[e] /\ imp.text[d] # Absent
                        THEN Absent ELSE imp.before[e]
=============================================================================
