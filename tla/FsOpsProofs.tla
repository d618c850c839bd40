---------------------------- MODULE FsOpsProofs -----------------------------
(* Proofs about the file operations, for any tasks, names and failures. *)
EXTENDS FsOps, TLAPS

OpType == [at : Places, name : Names \cup {NoName}, to : Names \cup {NoName}, over : BOOLEAN,
           file : Paths \cup {NoFile}, off : 0 .. Size, end : 0 .. Size]

\* A handle is on a file that has a name, and open only while it is written to; a task that does something has one to do it to.
Handles ==
    /\ \A t \in Tasks : op[t].file # NoFile => volume[op[t].file] # NoFile
    /\ \A t \in Tasks : op[t].at # "write" => op[t].file = NoFile
    /\ \A t \in Tasks : op[t].at # "idle" => op[t].name \in Names
    /\ \A t \in Tasks : op[t].at \in {"clear", "move"} => op[t].to \in Names \ {op[t].name}

\* What another's step leaves of a task's operation: everything but where its file is
Kept(u) ==
    /\ op'[u] \in OpType
    /\ op'[u].at = op[u].at /\ op'[u].name = op[u].name /\ op'[u].to = op[u].to
    /\ op'[u].over = op[u].over /\ op'[u].off = op[u].off /\ op'[u].end = op[u].end

LEMMA PathFacts ==
    /\ \A n \in Names : File(n) \in Paths /\ Part(n) \in Paths
    /\ \A n, m \in Names : File(n) # Part(m) /\ (File(n) = File(m) => n = m)
                            /\ (Part(n) = Part(m) => n = m)
    /\ NoFile \notin Paths
    BY NoFileAssumption DEF File, Part, Paths

LEMMA SizeFacts == Size \in Nat /\ 0 \in 0 .. Size /\ Size \in 0 .. Size /\ NoFile \notin 0 .. Size
    BY SizeAssumption, NoFileAssumption

LEMMA IdleTyped == Idle \in OpType /\ Idle.at = "idle" /\ Idle.file = NoFile
    BY SizeFacts DEF Idle, OpType, Places

LEMMA OpTyped == ASSUME TypeOK, NEW t \in Tasks PROVE op[t] \in OpType
    BY DEF TypeOK, OpType

\* A task goes on by itself.
LEMMA GoesKeeps ==
    ASSUME TypeOK, NEW t \in Tasks, NEW next \in OpType, Goes(t, next)
    PROVE  /\ op' \in [Tasks -> OpType] /\ op'[t] = next
           /\ \A u \in Tasks \ {t} : Kept(u) /\ op'[u].file = op[u].file
    BY OpTyped DEF TypeOK, OpType, Goes, Kept

\* A task goes on, and the others' handles follow a file.
LEMMA RenamesKeeps ==
    ASSUME TypeOK, NEW t \in Tasks, NEW next \in OpType,
           NEW from \in Paths, NEW to \in Paths, Renames(t, from, to, next)
    PROVE  /\ op' \in [Tasks -> OpType] /\ op'[t] = next
           /\ \A u \in Tasks \ {t} : Kept(u) /\ op'[u].file = Followed(op[u].file, from, to)
<1>1. \A u \in Tasks : op[u] \in OpType
    BY OpTyped
<1>2. \A p \in Paths \cup {NoFile} : Followed(p, from, to) \in Paths \cup {NoFile}
    BY DEF Followed
<1>3. ASSUME NEW u \in Tasks \ {t}
      PROVE  Kept(u) /\ op'[u].file = Followed(op[u].file, from, to)
    BY <1>1, <1>2, <1>3 DEF Renames, OpType, Kept
<1>4. op'[t] = next /\ DOMAIN op' = Tasks /\ op' = [u \in Tasks |-> op'[u]]
    BY DEF Renames
<1> QED
    BY <1>3, <1>4 DEF Kept

LEMMA UnlinksKeeps ==
    ASSUME TypeOK, NEW t \in Tasks, NEW next \in OpType, NEW p \in Paths, Unlinks(t, p, next)
    PROVE  /\ op' \in [Tasks -> OpType] /\ op'[t] = next
           /\ \A u \in Tasks \ {t} : Kept(u) /\ op'[u].file = Followed(op[u].file, p, NoFile)
<1>1. \A u \in Tasks : op[u] \in OpType
    BY OpTyped
<1>2. \A q \in Paths \cup {NoFile} : Followed(q, p, NoFile) \in Paths \cup {NoFile}
    BY DEF Followed
<1>3. ASSUME NEW u \in Tasks \ {t}
      PROVE  Kept(u) /\ op'[u].file = Followed(op[u].file, p, NoFile)
    BY <1>1, <1>2, <1>3 DEF Unlinks, OpType, Kept
<1>4. op'[t] = next /\ DOMAIN op' = Tasks /\ op' = [u \in Tasks |-> op'[u]]
    BY DEF Unlinks
<1> QED
    BY <1>3, <1>4 DEF Kept

\* Where a task goes from where it is, with its operation otherwise the same
LEMMA AtTyped ==
    ASSUME TypeOK, NEW t \in Tasks, NEW place \in Places
    PROVE  /\ At(t, place) \in OpType
           /\ At(t, place).at = place /\ At(t, place).name = op[t].name /\ At(t, place).to = op[t].to
           /\ At(t, place).file = op[t].file /\ At(t, place).off = op[t].off
           /\ At(t, place).end = op[t].end /\ At(t, place).over = op[t].over
           /\ \A p \in Paths \cup {NoFile} :
                 LET r == [At(t, place) EXCEPT !.file = p]
                 IN  /\ r \in OpType /\ r.at = place /\ r.name = op[t].name /\ r.to = op[t].to
                     /\ r.file = p /\ r.off = op[t].off /\ r.end = op[t].end
    BY OpTyped DEF At, OpType

----------------------------------------------------------------------------
(* Types, and what handles are on. *)

\* What the operation a task goes on with must say
Sound(next) ==
    /\ next.at # "write" => next.file = NoFile
    /\ next.at # "idle" => next.name \in Names
    /\ next.at \in {"clear", "move"} => next.to \in Names \ {next.name}

VolumeType == [Paths -> 0 .. Size \cup {NoFile}]

LEMMA IdleSound == Sound(Idle)
    BY IdleTyped DEF Sound

LEMMA GoesSound ==
    ASSUME TypeOK, Handles, NEW t \in Tasks, NEW next \in OpType, Goes(t, next), Sound(next),
           volume' \in VolumeType,
           \A p \in Paths : volume[p] # NoFile => volume'[p] # NoFile,
           next.file # NoFile => volume'[next.file] # NoFile
    PROVE  op' \in [Tasks -> OpType] /\ Handles'
<1>1. /\ op' \in [Tasks -> OpType] /\ op'[t] = next
      /\ \A u \in Tasks \ {t} : Kept(u) /\ op'[u].file = op[u].file
    BY GoesKeeps
<1>2. \A u \in Tasks : op[u].file \in Paths \cup {NoFile}
    BY OpTyped DEF OpType
<1> QED
    BY <1>1, <1>2 DEF Handles, Kept, Sound

LEMMA RenamesSound ==
    ASSUME TypeOK, Handles, NEW t \in Tasks, NEW next \in OpType, Sound(next), next.file = NoFile,
           NEW from \in Paths, NEW to \in Paths, from # to, volume[from] # NoFile,
           Renames(t, from, to, next)
    PROVE  op' \in [Tasks -> OpType] /\ volume' \in VolumeType /\ Handles'
<1>1. /\ op' \in [Tasks -> OpType] /\ op'[t] = next
      /\ \A u \in Tasks \ {t} : Kept(u) /\ op'[u].file = Followed(op[u].file, from, to)
    BY RenamesKeeps
<1>2. \A u \in Tasks : op[u].file \in Paths \cup {NoFile}
    BY OpTyped DEF OpType
<1>3. /\ volume' \in VolumeType
      /\ volume'[to] = volume[from] /\ volume'[from] = NoFile
      /\ \A p \in Paths \ {from, to} : volume'[p] = volume[p]
    BY DEF Renames, TypeOK, VolumeType
<1>4. ASSUME NEW u \in Tasks, op'[u].file # NoFile
      PROVE  volume'[op'[u].file] # NoFile
    <2>1. u # t
        BY <1>1, <1>4
    <2>2. op'[u].file = Followed(op[u].file, from, to)
        BY <1>1, <2>1
    <2>3. CASE op[u].file = from
        BY <1>3, <2>2, <2>3, <1>4 DEF Followed
    <2>4. CASE op[u].file # from
        BY <1>2, <1>3, <2>2, <2>4, <1>4 DEF Followed, Handles
    <2> QED
        BY <2>3, <2>4
<1>5. ASSUME NEW u \in Tasks, op'[u].at # "write"
      PROVE  op'[u].file = NoFile
    BY <1>1, <1>5, PathFacts DEF Followed, Handles, Kept, Sound
<1> QED
    BY <1>1, <1>3, <1>4, <1>5 DEF Handles, Kept, Sound

LEMMA UnlinksSound ==
    ASSUME TypeOK, Handles, NEW t \in Tasks, NEW next \in OpType, Sound(next), next.file = NoFile,
           NEW p \in Paths, Unlinks(t, p, next)
    PROVE  op' \in [Tasks -> OpType] /\ volume' \in VolumeType /\ Handles'
<1>1. /\ op' \in [Tasks -> OpType] /\ op'[t] = next
      /\ \A u \in Tasks \ {t} : Kept(u) /\ op'[u].file = Followed(op[u].file, p, NoFile)
    BY UnlinksKeeps
<1>2. \A u \in Tasks : op[u].file \in Paths \cup {NoFile}
    BY OpTyped DEF OpType
<1>3. /\ volume' \in VolumeType
      /\ \A q \in Paths \ {p} : volume'[q] = volume[q]
    BY DEF Unlinks, TypeOK, VolumeType
<1>4. ASSUME NEW u \in Tasks, op'[u].file # NoFile
      PROVE  volume'[op'[u].file] # NoFile
    BY <1>1, <1>2, <1>3, <1>4 DEF Followed, Handles
<1>5. ASSUME NEW u \in Tasks, op'[u].at # "write"
      PROVE  op'[u].file = NoFile
    BY <1>1, <1>5, PathFacts DEF Followed, Handles, Kept, Sound
<1> QED
    BY <1>1, <1>3, <1>4, <1>5 DEF Handles, Kept, Sound

LEMMA HistoryTyped ==
    ASSUME TypeOK, NEW n \in Names, NEW why \in {"failed", "reset"}
    PROVE  /\ cost \cup {<<n, why>>} \subseteq Names \X {"failed", "reset"}
           /\ Restored(n) \subseteq Names \X {"failed", "reset"}
    BY DEF TypeOK, Restored

\* TypeOK of the next state, from its parts
LEMMA TypedFrom ==
    ASSUME TypeOK, volume' \in VolumeType, op' \in [Tasks -> OpType],
           had' \subseteq Names, cost' \subseteq Names \X {"failed", "reset"},
           left' \subseteq Names, shared' \in BOOLEAN
    PROVE  TypeOK'
    BY DEF TypeOK, VolumeType, OpType

LEMMA BeginTyped ==
    ASSUME TypeOK, Handles, NEW t \in Tasks, NEW n \in Names, NEW over \in BOOLEAN,
           NEW end \in 0 .. Size, Begin(t, n, over, end)
    PROVE  TypeOK' /\ Handles'
<1> DEFINE next == [Idle EXCEPT !.at = "open", !.name = n, !.over = over, !.end = end]
<1>1. next \in OpType /\ Sound(next) /\ next.file = NoFile
    BY IdleTyped DEF OpType, Sound, Places
<1>2. volume' \in VolumeType /\ volume' = volume
    BY DEF Begin, TypeOK, VolumeType
<1>3. Goes(t, next)
    BY DEF Begin
<1> HIDE DEF next
<1>4. op' \in [Tasks -> OpType] /\ Handles'
    BY <1>1, <1>2, <1>3, GoesSound
<1> QED
    BY <1>2, <1>4, TypedFrom DEF Begin, TypeOK

LEMMA StartTyped ==
    ASSUME TypeOK, Handles, NEW t \in Tasks, Put(t) \/ Upload(t) \/ Copy(t)
    PROVE  TypeOK' /\ Handles'
<1>1. CASE Put(t) \/ Upload(t)
    BY <1>1, SizeFacts, BeginTyped DEF Put, Upload
<1>2. CASE Copy(t)
    <2>1. PICK from \in Names, n \in Names, over \in BOOLEAN :
             Exists(from) /\ Begin(t, n, over, volume[File(from)])
        BY <1>2 DEF Copy
    <2>2. volume[File(from)] \in 0 .. Size
        BY <2>1, PathFacts DEF Exists, TypeOK
    <2> QED
        BY <2>1, <2>2, BeginTyped
<1> QED
    BY <1>1, <1>2

LEMMA OpenPartTyped ==
    ASSUME TypeOK, Handles, NEW t \in Tasks, OpenPart(t)
    PROVE  TypeOK' /\ Handles'
<1> DEFINE n == op[t].name
<1>1. n \in Names /\ Part(n) \in Paths
    BY PathFacts DEF OpenPart, Handles
<1>2. CASE Goes(t, Idle) /\ UNCHANGED <<volume, had, cost, left, shared>>
    <2>1. op' \in [Tasks -> OpType] /\ Handles' /\ volume' \in VolumeType
        BY <1>2, IdleTyped, IdleSound, GoesSound DEF TypeOK, VolumeType
    <2> QED
        BY <1>2, <2>1, TypedFrom DEF TypeOK
<1>3. CASE /\ volume' = [volume EXCEPT ![Part(n)] = 0]
           /\ \/ Goes(t, [At(t, "write") EXCEPT !.file = Part(n)])
              \/ Goes(t, At(t, "drop"))
           /\ left' = left \ {n}
           /\ shared' = (shared \/ \E u \in Tasks \ {t} : HasPart(u, n))
           /\ UNCHANGED <<had, cost>>
    <2>1. /\ volume' \in VolumeType /\ volume'[Part(n)] = 0
          /\ \A p \in Paths : volume[p] # NoFile => volume'[p] # NoFile
        BY <1>1, <1>3, SizeFacts DEF TypeOK, VolumeType
    <2>2. op[t].at = "open"
        BY DEF OpenPart
    <2>3. CASE Goes(t, [At(t, "write") EXCEPT !.file = Part(n)])
        <3> DEFINE next == [At(t, "write") EXCEPT !.file = Part(n)]
        <3>1. next \in OpType /\ next.file = Part(n) /\ next.at = "write" /\ next.name = n
            BY <1>1, AtTyped DEF Places
        <3>2. Sound(next) /\ Goes(t, next) /\ volume'[next.file] # NoFile
            BY <1>1, <2>1, <2>3, <3>1, SizeFacts DEF Sound
        <3> HIDE DEF next
        <3>3. op' \in [Tasks -> OpType] /\ Handles'
            BY <2>1, <3>1, <3>2, GoesSound
        <3> QED
            BY <1>3, <2>1, <3>3, TypedFrom DEF TypeOK
    <2>4. CASE Goes(t, At(t, "drop"))
        <3>1. At(t, "drop") \in OpType /\ At(t, "drop").at = "drop" /\ At(t, "drop").name = n
              /\ At(t, "drop").file = op[t].file
            BY AtTyped DEF Places
        <3>2. op[t].file # NoFile => volume'[op[t].file] # NoFile
            BY <2>1, OpTyped DEF Handles, OpType
        <3>3. op' \in [Tasks -> OpType] /\ Handles'
            BY <1>1, <2>1, <2>2, <2>4, <3>1, <3>2, GoesSound DEF Sound, Handles
        <3> QED
            BY <1>3, <2>1, <3>3, TypedFrom DEF TypeOK
    <2> QED
        BY <1>3, <2>3, <2>4
<1> QED
    BY <1>2, <1>3 DEF OpenPart

LEMMA WriteTyped ==
    ASSUME TypeOK, Handles, NEW t \in Tasks, Write(t)
    PROVE  TypeOK' /\ Handles'
<1> DEFINE next == [op[t] EXCEPT !.off = @ + 1]
           p == op[t].file
<1>1. op[t] \in OpType /\ op[t].at = "write" /\ op[t].off < op[t].end
    BY OpTyped DEF Write
<1>2. next \in OpType /\ next.file = p /\ next.at = "write" /\ next.name = op[t].name
    BY <1>1, SizeFacts DEF OpType
<1>3. p \in Paths \cup {NoFile} /\ (p # NoFile => volume[p] \in 0 .. Size)
    BY <1>1 DEF OpType, TypeOK, Handles
<1>4. p # NoFile => Longer(volume[p], op[t].off) \in 0 .. Size
    BY <1>1, <1>3, SizeFacts DEF Longer, OpType
<1>5. volume' = IF p = NoFile THEN volume ELSE [volume EXCEPT ![p] = Longer(@, op[t].off)]
    BY DEF Write
<1>6. CASE p = NoFile
    <2>1. volume' = volume
        BY <1>5, <1>6
    <2> QED
        BY <2>1, <1>1, <1>2, <1>6, GoesSound, TypedFrom DEF Write, Sound, Handles, TypeOK, VolumeType
<1>7. CASE p # NoFile
    <2>1. volume' = [volume EXCEPT ![p] = Longer(volume[p], op[t].off)]
        BY <1>5, <1>7
    <2>2. /\ volume' \in VolumeType /\ volume'[p] \in 0 .. Size
          /\ \A q \in Paths : volume[q] # NoFile => volume'[q] # NoFile
        BY <1>3, <1>4, <1>7, <2>1, SizeFacts DEF VolumeType, TypeOK
    <2>3. Goes(t, next) /\ Sound(next) /\ volume'[next.file] # NoFile
        BY <1>1, <1>2, <2>2, SizeFacts DEF Write, Sound, Handles
    <2> HIDE DEF next
    <2>4. op' \in [Tasks -> OpType] /\ Handles'
        BY <1>2, <2>2, <2>3, GoesSound
    <2> QED
        BY <2>2, <2>4, TypedFrom DEF Write, TypeOK
<1> QED
    BY <1>6, <1>7

\* A task goes on to a place and leaves the volume as it is.
LEMMA StaysTyped ==
    ASSUME TypeOK, Handles, NEW t \in Tasks, NEW place \in Places, op[t].at # "idle",
           place \in {"clear", "move"} => op[t].at \in {"clear", "move"},
           \/ Goes(t, At(t, place)) /\ op[t].at # "write"
           \/ Goes(t, [At(t, place) EXCEPT !.file = NoFile])
           \/ Goes(t, Idle),
           volume' = volume
    PROVE  op' \in [Tasks -> OpType] /\ volume' \in VolumeType /\ Handles'
<1>1. volume' \in VolumeType
    BY DEF TypeOK, VolumeType
<1>2. CASE Goes(t, At(t, place)) /\ op[t].at # "write"
    <2>1. At(t, place) \in OpType /\ Sound(At(t, place)) /\ At(t, place).file = op[t].file
        BY <1>2, AtTyped DEF Sound, Handles
    <2> QED
        BY <1>1, <1>2, <2>1, GoesSound DEF Handles
<1>3. CASE Goes(t, [At(t, place) EXCEPT !.file = NoFile])
    <2> DEFINE next == [At(t, place) EXCEPT !.file = NoFile]
    <2>1. next \in OpType /\ Sound(next) /\ next.file = NoFile
        BY AtTyped DEF Sound, Handles
    <2>2. Goes(t, next)
        BY <1>3
    <2> HIDE DEF next
    <2> QED
        BY <1>1, <2>1, <2>2, GoesSound
<1>4. CASE Goes(t, Idle)
    BY <1>1, <1>4, IdleTyped, IdleSound, GoesSound
<1> QED
    BY <1>2, <1>3, <1>4

LEMMA CloseTyped ==
    ASSUME TypeOK, Handles, NEW t \in Tasks, Cut(t) \/ Close(t) \/ Check(t)
    PROVE  TypeOK' /\ Handles'
<1>1. \E place \in {"check", "unlink", "rename", "drop"} :
        \/ Goes(t, At(t, place)) /\ op[t].at # "write"
        \/ Goes(t, [At(t, place) EXCEPT !.file = NoFile])
    BY DEF Cut, Close, Check
<1>2. op[t].at # "idle" /\ UNCHANGED <<volume, had, cost, left, shared>>
    BY DEF Cut, Close, Check
<1>3. op' \in [Tasks -> OpType] /\ volume' \in VolumeType /\ Handles'
    BY <1>1, <1>2, StaysTyped DEF Places
<1> QED
    BY <1>2, <1>3, TypedFrom DEF TypeOK

LEMMA UnlinkOldTyped ==
    ASSUME TypeOK, Handles, NEW t \in Tasks, UnlinkOld(t)
    PROVE  TypeOK' /\ Handles'
<1>1. op[t].at = "unlink" /\ op[t].name \in Names /\ File(op[t].name) \in Paths
      /\ UNCHANGED <<had, cost, left, shared>>
    BY PathFacts DEF UnlinkOld, Handles
<1>2. CASE Unlinks(t, File(op[t].name), At(t, "rename"))
    <2>1. op' \in [Tasks -> OpType] /\ volume' \in VolumeType /\ Handles'
        BY <1>1, <1>2, AtTyped, UnlinksSound DEF Sound, Handles, Places
    <2> QED
        BY <1>1, <2>1, TypedFrom DEF TypeOK
<1>3. CASE Goes(t, At(t, "drop")) /\ volume' = volume
    BY <1>1, <1>3, StaysTyped, TypedFrom DEF TypeOK, Places
<1> QED
    BY <1>2, <1>3 DEF UnlinkOld

LEMMA RenameFailsTyped ==
    ASSUME TypeOK, NEW t \in Tasks, NEW from \in Paths, NEW to \in Names, RenameFails(t, from, to)
    PROVE  /\ volume' = volume /\ had' = had
           /\ cost' \subseteq Names \X {"failed", "reset"}
    BY HistoryTyped DEF RenameFails, TypeOK

LEMMA RenamePartTyped ==
    ASSUME TypeOK, Handles, NEW t \in Tasks, RenamePart(t)
    PROVE  TypeOK' /\ Handles'
<1> DEFINE n == op[t].name
<1>1. op[t].at = "rename" /\ n \in Names /\ UNCHANGED <<left, shared>>
    BY DEF RenamePart, Handles
<1>2. File(n) \in Paths /\ Part(n) \in Paths /\ Part(n) # File(n)
    BY <1>1, PathFacts
<1>3. CASE /\ volume[Part(n)] # NoFile
           /\ Renames(t, Part(n), File(n), Idle)
           /\ had' = had \cup {n} /\ cost' = Restored(n)
    <2>1. op' \in [Tasks -> OpType] /\ volume' \in VolumeType /\ Handles'
        BY <1>2, <1>3, IdleTyped, IdleSound, RenamesSound
    <2>2. had' \subseteq Names /\ cost' \subseteq Names \X {"failed", "reset"}
        BY <1>1, <1>3, HistoryTyped DEF TypeOK
    <2> QED
        BY <1>1, <2>1, <2>2, TypedFrom DEF TypeOK
<1>4. CASE RenameFails(t, Part(n), n) /\ Goes(t, At(t, "drop"))
    <2>1. op' \in [Tasks -> OpType] /\ volume' \in VolumeType /\ Handles'
        BY <1>1, <1>2, <1>4, RenameFailsTyped, StaysTyped DEF Places
    <2> QED
        BY <1>1, <1>2, <1>4, <2>1, RenameFailsTyped, TypedFrom DEF TypeOK
<1> QED
    BY <1>3, <1>4 DEF RenamePart

LEMMA DropTyped ==
    ASSUME TypeOK, Handles, NEW t \in Tasks, Drop(t)
    PROVE  TypeOK' /\ Handles'
<1> DEFINE n == op[t].name
<1>1. op[t].at = "drop" /\ n \in Names /\ Part(n) \in Paths /\ UNCHANGED <<had, cost, shared>>
    BY PathFacts DEF Drop, Handles
<1>2. left' \subseteq Names
    BY <1>1 DEF Drop, TypeOK
<1>3. op' \in [Tasks -> OpType] /\ volume' \in VolumeType /\ Handles'
    <2>1. CASE Unlinks(t, Part(n), Idle)
        BY <1>1, <2>1, IdleTyped, IdleSound, UnlinksSound
    <2>2. CASE Goes(t, Idle) /\ volume' = volume
        BY <1>1, <2>2, StaysTyped DEF Places
    <2> QED
        BY <2>1, <2>2 DEF Drop
<1> QED
    BY <1>1, <1>2, <1>3, TypedFrom DEF TypeOK

LEMMA RemoveTyped ==
    ASSUME TypeOK, Handles, NEW t \in Tasks, Remove(t) \/ RemoveFile(t)
    PROVE  TypeOK' /\ Handles'
<1>1. CASE Remove(t)
    <2>1. PICK n \in Names : Goes(t, [Idle EXCEPT !.at = "remove", !.name = n])
        BY <1>1 DEF Remove
    <2> DEFINE next == [Idle EXCEPT !.at = "remove", !.name = n]
    <2>2. next \in OpType /\ Sound(next) /\ next.file = NoFile
        BY IdleTyped DEF OpType, Sound, Places
    <2>3. Goes(t, next)
        BY <2>1
    <2> HIDE DEF next
    <2>4. volume' \in VolumeType /\ volume' = volume
        BY <1>1 DEF Remove, TypeOK, VolumeType
    <2>5. op' \in [Tasks -> OpType] /\ Handles'
        BY <2>2, <2>3, <2>4, GoesSound
    <2> QED
        BY <1>1, <2>4, <2>5, TypedFrom DEF Remove, TypeOK
<1>2. CASE RemoveFile(t)
    <2> DEFINE n == op[t].name
    <2>1. op[t].at = "remove" /\ File(n) \in Paths /\ UNCHANGED <<cost, left, shared>>
        BY <1>2, PathFacts DEF RemoveFile, Handles
    <2>2. had' \subseteq Names
        BY <1>2 DEF RemoveFile, TypeOK
    <2>3. op' \in [Tasks -> OpType] /\ volume' \in VolumeType /\ Handles'
        <3>1. CASE Unlinks(t, File(n), Idle)
            BY <2>1, <3>1, IdleTyped, IdleSound, UnlinksSound
        <3>2. CASE Goes(t, Idle) /\ volume' = volume
            BY <2>1, <3>2, StaysTyped DEF Places
        <3> QED
            BY <1>2, <3>1, <3>2 DEF RemoveFile
    <2> QED
        BY <2>1, <2>2, <2>3, TypedFrom DEF TypeOK
<1> QED
    BY <1>1, <1>2

LEMMA MoveTyped ==
    ASSUME TypeOK, Handles, NEW t \in Tasks, Move(t)
    PROVE  TypeOK' /\ Handles'
<1>1. PICK from \in Names, to \in Names, over \in BOOLEAN :
        from # to /\
        Goes(t, [Idle EXCEPT !.at = IF Exists(to) THEN "clear" ELSE "move",
                             !.name = from, !.to = to, !.over = over])
    BY DEF Move
<1> DEFINE next == [Idle EXCEPT !.at = IF Exists(to) THEN "clear" ELSE "move",
                                !.name = from, !.to = to, !.over = over]
<1>2. next \in OpType /\ Sound(next) /\ next.file = NoFile
    BY <1>1, IdleTyped DEF OpType, Sound, Places
<1>3. Goes(t, next)
    BY <1>1
<1> HIDE DEF next
<1>4. volume' \in VolumeType /\ volume' = volume
    BY DEF Move, TypeOK, VolumeType
<1>5. op' \in [Tasks -> OpType] /\ Handles'
    BY <1>2, <1>3, <1>4, GoesSound
<1> QED
    BY <1>4, <1>5, TypedFrom DEF Move, TypeOK

LEMMA ClearToTyped ==
    ASSUME TypeOK, Handles, NEW t \in Tasks, ClearTo(t)
    PROVE  TypeOK' /\ Handles'
<1>1. op[t].at = "clear" /\ File(op[t].to) \in Paths /\ UNCHANGED <<had, cost, left, shared>>
    BY PathFacts DEF ClearTo, Handles
<1>2. op' \in [Tasks -> OpType] /\ volume' \in VolumeType /\ Handles'
    <2>1. CASE Unlinks(t, File(op[t].to), At(t, "move"))
        BY <1>1, <2>1, AtTyped, UnlinksSound DEF Sound, Handles, Places
    <2>2. CASE Goes(t, Idle) /\ volume' = volume
        BY <1>1, <2>2, StaysTyped DEF Places
    <2> QED
        BY <2>1, <2>2 DEF ClearTo
<1> QED
    BY <1>1, <1>2, TypedFrom DEF TypeOK

LEMMA MoveFileTyped ==
    ASSUME TypeOK, Handles, NEW t \in Tasks, MoveFile(t)
    PROVE  TypeOK' /\ Handles'
<1> DEFINE from == op[t].name
           to == op[t].to
<1>1. op[t].at = "move" /\ from \in Names /\ to \in Names \ {from} /\ UNCHANGED <<left, shared>>
    BY DEF MoveFile, Handles
<1>2. File(from) \in Paths /\ File(to) \in Paths /\ File(from) # File(to)
    BY <1>1, PathFacts
<1>3. CASE /\ Exists(from)
           /\ Renames(t, File(from), File(to), Idle)
           /\ had' = (had \ {from}) \cup {to} /\ cost' = Restored(to)
    <2>1. op' \in [Tasks -> OpType] /\ volume' \in VolumeType /\ Handles'
        BY <1>2, <1>3, IdleTyped, IdleSound, RenamesSound DEF Exists
    <2>2. had' \subseteq Names /\ cost' \subseteq Names \X {"failed", "reset"}
        BY <1>1, <1>3, HistoryTyped DEF TypeOK
    <2> QED
        BY <1>1, <2>1, <2>2, TypedFrom DEF TypeOK
<1>4. CASE RenameFails(t, File(from), to) /\ Goes(t, Idle)
    <2>1. op' \in [Tasks -> OpType] /\ volume' \in VolumeType /\ Handles'
        BY <1>1, <1>2, <1>4, RenameFailsTyped, StaysTyped DEF Places
    <2> QED
        BY <1>1, <1>2, <1>4, <2>1, RenameFailsTyped, TypedFrom DEF TypeOK
<1> QED
    BY <1>3, <1>4 DEF MoveFile

LEMMA ResetTyped ==
    ASSUME TypeOK, Handles, Reset
    PROVE  TypeOK' /\ Handles'
<1>1. op' \in [Tasks -> OpType] /\ \A t \in Tasks : op'[t] = Idle
    BY IdleTyped DEF Reset
<1>2. volume' \in VolumeType
    BY DEF Reset, TypeOK, VolumeType
<1>3. left' \subseteq Names /\ cost' \subseteq Names \X {"failed", "reset"}
    BY DEF Reset, TypeOK
<1> QED
    BY <1>1, <1>2, <1>3, IdleTyped, TypedFrom DEF Reset, TypeOK, Handles

LEMMA InitTyped == Init => TypeOK /\ Handles
<1> SUFFICES ASSUME Init PROVE TypeOK /\ Handles
    OBVIOUS
<1>1. op \in [Tasks -> OpType] /\ \A t \in Tasks : op[t] = Idle
    BY IdleTyped DEF Init
<1>2. volume \in VolumeType
    BY SizeFacts DEF Init, VolumeType
<1> QED
    BY <1>1, <1>2, IdleTyped DEF Init, TypeOK, VolumeType, OpType, Handles

LEMMA NextTyped == TypeOK /\ Handles /\ [Next]_vars => TypeOK' /\ Handles'
<1> SUFFICES ASSUME TypeOK, Handles, [Next]_vars PROVE TypeOK' /\ Handles'
    OBVIOUS
<1>1. CASE UNCHANGED vars
    BY <1>1 DEF vars, TypeOK, Handles
<1>2. ASSUME NEW t \in Tasks, Put(t) \/ Upload(t) \/ Copy(t) \/ Remove(t) \/ Move(t) \/ Works(t)
      PROVE  TypeOK' /\ Handles'
    BY <1>2, StartTyped, OpenPartTyped, WriteTyped, CloseTyped, UnlinkOldTyped, RenamePartTyped,
       DropTyped, RemoveTyped, MoveTyped, ClearToTyped, MoveFileTyped DEF Works
<1>3. CASE Reset
    BY <1>3, ResetTyped
<1> QED
    BY <1>1, <1>2, <1>3 DEF Next

\* Every reachable state of the file operations has its types, and every open handle is on a
\* file that is there.
THEOREM Typed == Spec => [](TypeOK /\ Handles)
    BY InitTyped, NextTyped, PTL DEF Spec

----------------------------------------------------------------------------
(* What a step of one task leaves of the others, and of the volume. *)

Does(t) == Put(t) \/ Upload(t) \/ Copy(t) \/ Remove(t) \/ Move(t) \/ Works(t)

Others(t) == \A u \in Tasks \ {t} : Kept(u)

LEMMA OthersKept ==
    ASSUME TypeOK, Handles, NEW t \in Tasks, Does(t)
    PROVE  Others(t)
<1> USE DEF Others
<1>1. ASSUME NEW next \in OpType, Goes(t, next)
      PROVE  Others(t)
    BY <1>1, GoesKeeps
<1>2. \A place \in Places : At(t, place) \in OpType /\ [At(t, place) EXCEPT !.file = NoFile] \in OpType
    BY AtTyped
<1>3. op[t] \in OpType /\ Idle \in OpType
    BY OpTyped, IdleTyped
<1>4. CASE Put(t) \/ Upload(t) \/ Copy(t)
    <2>1. PICK n \in Names, over \in BOOLEAN, end \in 0 .. Size : Begin(t, n, over, end)
        BY <1>4, SizeFacts, PathFacts DEF Put, Upload, Copy, Exists, TypeOK
    <2>2. [Idle EXCEPT !.at = "open", !.name = n, !.over = over, !.end = end] \in OpType
        BY IdleTyped DEF OpType, Places
    <2> QED
        BY <1>1, <2>1, <2>2 DEF Begin
<1>5. CASE Remove(t)
    <2>1. PICK n \in Names : Goes(t, [Idle EXCEPT !.at = "remove", !.name = n])
        BY <1>5 DEF Remove
    <2>2. [Idle EXCEPT !.at = "remove", !.name = n] \in OpType
        BY IdleTyped DEF OpType, Places
    <2> QED
        BY <1>1, <2>1, <2>2
<1>6. CASE Move(t)
    <2>1. PICK from \in Names, to \in Names, over \in BOOLEAN :
            Goes(t, [Idle EXCEPT !.at = IF Exists(to) THEN "clear" ELSE "move",
                                 !.name = from, !.to = to, !.over = over])
        BY <1>6 DEF Move
    <2>2. [Idle EXCEPT !.at = IF Exists(to) THEN "clear" ELSE "move",
                       !.name = from, !.to = to, !.over = over] \in OpType
        BY IdleTyped DEF OpType, Places
    <2> QED
        BY <1>1, <2>1, <2>2
<1>7. CASE OpenPart(t)
    <2>1. Part(op[t].name) \in Paths
        BY <1>7, PathFacts DEF OpenPart, Handles
    <2>2. [At(t, "write") EXCEPT !.file = Part(op[t].name)] \in OpType
        BY <2>1, AtTyped DEF Places
    <2> QED
        BY <1>1, <1>2, <1>3, <1>7, <2>2 DEF OpenPart, Places
<1>8. CASE Write(t)
    <2>1. [op[t] EXCEPT !.off = @ + 1] \in OpType
        BY <1>3, <1>8, SizeFacts DEF Write, OpType
    <2> QED
        BY <1>1, <1>8, <2>1 DEF Write
<1>9. CASE Cut(t) \/ Close(t) \/ Check(t)
    <2>1. \E place \in Places :
            Goes(t, At(t, place)) \/ Goes(t, [At(t, place) EXCEPT !.file = NoFile])
        BY <1>9 DEF Cut, Close, Check, Places
    <2> QED
        BY <1>1, <1>2, <2>1
<1>10. CASE UnlinkOld(t) \/ RenamePart(t) \/ Drop(t) \/ RemoveFile(t) \/ ClearTo(t) \/ MoveFile(t)
    <2>1. op[t].name \in Names /\ (op[t].at \in {"clear", "move"} => op[t].to \in Names)
        BY <1>10 DEF Handles, UnlinkOld, RenamePart, Drop, RemoveFile, ClearTo, MoveFile
    <2>2. \E next \in OpType :
            \/ Goes(t, next)
            \/ \E p \in Paths : Unlinks(t, p, next)
            \/ \E from, to \in Paths : Renames(t, from, to, next)
        BY <1>2, <1>3, <1>10, <2>1, PathFacts
        DEF UnlinkOld, RenamePart, Drop, RemoveFile, ClearTo, MoveFile, Places
    <2> QED
        BY <1>1, <2>2, UnlinksKeeps, RenamesKeeps
<1> QED
    BY <1>4, <1>5, <1>6, <1>7, <1>8, <1>9, <1>10 DEF Does, Works

\* The places are where a task goes to from where it is.
LEMMA UnlinkedFacts ==
    ASSUME TypeOK, NEW t \in Tasks, NEW p \in Paths, NEW next \in OpType, Unlinks(t, p, next)
    PROVE  op'[t] = next /\ volume'[p] = NoFile /\ \A q \in Paths \ {p} : volume'[q] = volume[q]
    BY UnlinksKeeps DEF Unlinks, TypeOK

LEMMA RenamedFacts ==
    ASSUME TypeOK, NEW t \in Tasks, NEW from \in Paths, NEW to \in Paths, from # to,
           NEW next \in OpType, Renames(t, from, to, next)
    PROVE  /\ op'[t] = next /\ volume'[to] = volume[from] /\ volume'[from] = NoFile
           /\ \A q \in Paths \ {from, to} : volume'[q] = volume[q]
    BY RenamesKeeps DEF Renames, TypeOK

----------------------------------------------------------------------------
(* A .part is somebody's. *)

\* The parts after a step are parts from before it, and the task still has those it had.
LEMMA PartsStay ==
    ASSUME TypeOK, Handles, PartsAreTemporary, NEW t \in Tasks, Others(t), left' = left,
           \A n \in Names : volume'[Part(n)] # NoFile => volume[Part(n)] # NoFile,
           \A n \in Names : HasPart(t, n) => HasPart(t, n)' \/ volume'[Part(n)] = NoFile
    PROVE  PartsAreTemporary'
<1> SUFFICES ASSUME NEW n \in Names, volume'[Part(n)] # NoFile
             PROVE  n \in left' \/ \E u \in Tasks : HasPart(u, n)'
    BY DEF PartsAreTemporary
<1>1. n \in left \/ \E u \in Tasks : HasPart(u, n)
    BY DEF PartsAreTemporary
<1>2. \A u \in Tasks \ {t} : HasPart(u, n) => HasPart(u, n)'
    BY DEF Others, Kept, HasPart
<1> QED
    BY <1>1, <1>2

LEMMA OpenPartTemporary ==
    ASSUME TypeOK, Handles, PartsAreTemporary, NEW t \in Tasks, OpenPart(t), Others(t)
    PROVE  PartsAreTemporary'
<1> DEFINE n == op[t].name
<1>1. n \in Names /\ op[t].at = "open" /\ op[t] \in OpType
    BY OpTyped DEF OpenPart, Handles
<1>2. CASE Goes(t, Idle) /\ UNCHANGED <<volume, had, cost, left, shared>>
    BY <1>1, <1>2, PartsStay DEF HasPart
<1>3. CASE /\ volume' = [volume EXCEPT ![Part(n)] = 0]
           /\ \/ Goes(t, [At(t, "write") EXCEPT !.file = Part(n)])
              \/ Goes(t, At(t, "drop"))
           /\ left' = left \ {n}
    <2>1. op'[t].name = n /\ op'[t].at \in {"write", "drop"}
        <3>1. Part(n) \in Paths /\ "write" \in Places /\ "drop" \in Places
            BY <1>1, PathFacts DEF Places
        <3>2. CASE Goes(t, [At(t, "write") EXCEPT !.file = Part(n)])
            <4> DEFINE next == [At(t, "write") EXCEPT !.file = Part(n)]
            <4>1. next \in OpType /\ next.at = "write" /\ next.name = n
                BY <3>1, AtTyped
            <4>2. Goes(t, next)
                BY <3>2
            <4> HIDE DEF next
            <4> QED
                BY <4>1, <4>2, GoesKeeps
        <3>3. CASE Goes(t, At(t, "drop"))
            BY <3>1, <3>3, AtTyped, GoesKeeps
        <3> QED
            BY <1>3, <3>2, <3>3
    <2>2. ASSUME NEW m \in Names \ {n}, volume'[Part(m)] # NoFile
          PROVE  m \in left' \/ \E u \in Tasks : HasPart(u, m)'
        <3>1. volume[Part(m)] # NoFile
            BY <1>1, <1>3, <2>2, PathFacts DEF TypeOK
        <3>2. m \in left \/ \E u \in Tasks \ {t} : HasPart(u, m)
            BY <1>1, <3>1 DEF PartsAreTemporary, HasPart
        <3>3. \A u \in Tasks \ {t} : HasPart(u, m) => HasPart(u, m)'
            BY DEF Others, Kept, HasPart
        <3> QED
            BY <1>3, <3>2, <3>3
    <2>3. ASSUME NEW m \in Names, volume'[Part(m)] # NoFile
          PROVE  m \in left' \/ \E u \in Tasks : HasPart(u, m)'
        <3>1. CASE m = n
            BY <2>1, <3>1 DEF HasPart
        <3>2. CASE m # n
            BY <2>2, <2>3, <3>2
        <3> QED
            BY <3>1, <3>2
    <2> QED
        BY <2>3 DEF PartsAreTemporary
<1> QED
    BY <1>2, <1>3 DEF OpenPart

LEMMA WriteTemporary ==
    ASSUME TypeOK, Handles, PartsAreTemporary, NEW t \in Tasks, Write(t), Others(t)
    PROVE  PartsAreTemporary'
<1>1. op[t] \in OpType /\ op[t].at = "write" /\ left' = left
    BY OpTyped DEF Write
<1>2. op'[t].at = "write" /\ op'[t].name = op[t].name
    BY <1>1 DEF Write, Goes, TypeOK, OpType
<1>3. \A n \in Names : volume'[Part(n)] # NoFile => volume[Part(n)] # NoFile
    <2>1. op[t].file # NoFile => op[t].file \in Paths /\ volume[op[t].file] # NoFile
        BY <1>1 DEF Handles, OpType
    <2> QED
        BY <2>1, PathFacts DEF Write, TypeOK
<1> QED
    BY <1>1, <1>2, <1>3, PartsStay DEF HasPart

LEMMA StepTemporary ==
    ASSUME TypeOK, Handles, PartsAreTemporary, NEW t \in Tasks, Does(t)
    PROVE  PartsAreTemporary'
<1> DEFINE n == op[t].name
<1>1. Others(t)
    BY OthersKept
<1>2. CASE Put(t) \/ Upload(t) \/ Copy(t) \/ Remove(t) \/ Move(t)
    <2>1. op[t].at = "idle" /\ volume' = volume /\ left' = left
        BY <1>2 DEF Put, Upload, Copy, Remove, Move, Begin
    <2> QED
        BY <1>1, <2>1, PartsStay DEF HasPart
<1>3. CASE Cut(t) \/ Close(t) \/ Check(t)
    <2>1. volume' = volume /\ left' = left
        BY <1>3 DEF Cut, Close, Check
    <2>2. op'[t].name = n /\ op'[t].at \in {"check", "unlink", "rename", "drop"}
        <3>1. PICK place \in {"check", "unlink", "rename", "drop"} :
                Goes(t, At(t, place)) \/ Goes(t, [At(t, place) EXCEPT !.file = NoFile])
            BY <1>3 DEF Cut, Close, Check
        <3>2. place \in Places
            BY DEF Places
        <3>3. CASE Goes(t, At(t, place))
            BY <3>2, <3>3, AtTyped, GoesKeeps
        <3>4. CASE Goes(t, [At(t, place) EXCEPT !.file = NoFile])
            <4> DEFINE next == [At(t, place) EXCEPT !.file = NoFile]
            <4>1. next \in OpType /\ next.at = place /\ next.name = n
                BY <3>2, AtTyped
            <4>2. Goes(t, next)
                BY <3>4
            <4> HIDE DEF next
            <4> QED
                BY <4>1, <4>2, GoesKeeps
        <3> QED
            BY <3>1, <3>3, <3>4
    <2> QED
        BY <1>1, <2>1, <2>2, PartsStay DEF HasPart
<1>4. CASE UnlinkOld(t)
    <2>1. op[t].at = "unlink" /\ n \in Names /\ left' = left
        BY <1>4 DEF UnlinkOld, Handles
    <2>2. At(t, "rename") \in OpType /\ At(t, "drop") \in OpType
          /\ At(t, "rename").name = n /\ At(t, "rename").at = "rename"
          /\ At(t, "drop").name = n /\ At(t, "drop").at = "drop"
        BY AtTyped DEF Places
    <2>3. CASE Unlinks(t, File(n), At(t, "rename"))
        BY <1>1, <2>1, <2>2, <2>3, UnlinkedFacts, PathFacts, PartsStay DEF HasPart
    <2>4. CASE Goes(t, At(t, "drop")) /\ volume' = volume
        BY <1>1, <2>1, <2>2, <2>4, GoesKeeps, PartsStay DEF HasPart
    <2> QED
        BY <1>4, <2>3, <2>4 DEF UnlinkOld
<1>5. CASE RenamePart(t)
    <2>1. op[t].at = "rename" /\ n \in Names /\ left' = left
        BY <1>5 DEF RenamePart, Handles
    <2>2. File(n) \in Paths /\ Part(n) \in Paths /\ File(n) # Part(n)
        BY <2>1, PathFacts
    <2>3. CASE Renames(t, Part(n), File(n), Idle)
        <3>1. volume'[Part(n)] = NoFile /\ \A q \in Paths \ {Part(n), File(n)} : volume'[q] = volume[q]
            BY <2>2, <2>3, IdleTyped, RenamedFacts
        <3>2. \A m \in Names : volume'[Part(m)] # NoFile => volume[Part(m)] # NoFile
            BY <2>1, <3>1, PathFacts
        <3> QED
            BY <1>1, <2>1, <3>1, <3>2, PartsStay DEF HasPart
    <2>4. CASE RenameFails(t, Part(n), n) /\ Goes(t, At(t, "drop"))
        <3>1. op'[t].name = n /\ op'[t].at = "drop" /\ volume' = volume
            BY <2>4, AtTyped DEF RenameFails, Goes, TypeOK, Places
        <3> QED
            BY <1>1, <2>1, <3>1, PartsStay DEF HasPart
    <2> QED
        BY <1>5, <2>3, <2>4 DEF RenamePart
<1>6. CASE Drop(t)
    <2>1. op[t].at = "drop" /\ n \in Names
        BY <1>6 DEF Drop, Handles
    <2>2. CASE Unlinks(t, Part(n), Idle) /\ left' = left
        <3>1. volume'[Part(n)] = NoFile /\ \A q \in Paths \ {Part(n)} : volume'[q] = volume[q]
            BY <2>1, <2>2, IdleTyped, UnlinkedFacts, PathFacts
        <3> QED
            BY <1>1, <2>1, <2>2, <3>1, PartsStay, PathFacts DEF HasPart
    <2>3. CASE volume' = volume /\ left' = left \cup {n}
        <3> SUFFICES ASSUME NEW m \in Names, volume'[Part(m)] # NoFile
                     PROVE  m \in left' \/ \E u \in Tasks : HasPart(u, m)'
            BY DEF PartsAreTemporary
        <3>1. m \in left \/ \E u \in Tasks : HasPart(u, m)
            BY <2>3 DEF PartsAreTemporary
        <3>2. \A u \in Tasks \ {t} : HasPart(u, m) => HasPart(u, m)'
            BY <1>1 DEF Others, Kept, HasPart
        <3>3. HasPart(t, m) => m = n
            BY DEF HasPart
        <3> QED
            BY <2>3, <3>1, <3>2, <3>3
    <2> QED
        BY <1>6, <2>2, <2>3 DEF Drop
<1>7. CASE RemoveFile(t) \/ ClearTo(t)
    <2>1. op[t].at \in {"remove", "clear"} /\ left' = left
        BY <1>7 DEF RemoveFile, ClearTo
    <2>2. \A m \in Names : volume'[Part(m)] # NoFile => volume[Part(m)] # NoFile
        BY <1>7, PathFacts DEF RemoveFile, ClearTo, Unlinks, Handles, TypeOK
    <2> QED
        BY <1>1, <2>1, <2>2, PartsStay DEF HasPart
<1>8. CASE MoveFile(t)
    <2>1. op[t].at = "move" /\ left' = left /\ n \in Names /\ op[t].to \in Names
        BY <1>8 DEF MoveFile, Handles
    <2>2. \A m \in Names : volume'[Part(m)] # NoFile => volume[Part(m)] # NoFile
        BY <1>8, <2>1, PathFacts DEF MoveFile, Renames, RenameFails, TypeOK
    <2> QED
        BY <1>1, <2>1, <2>2, PartsStay DEF HasPart
<1> QED
    BY <1>1, <1>2, <1>3, <1>4, <1>5, <1>6, <1>7, <1>8, OpenPartTemporary, WriteTemporary
    DEF Does, Works

\* A .part on the volume is being written, or was left by a reset or by an unlink that failed.
THEOREM Temporary == Spec => []PartsAreTemporary
<1>1. Init => PartsAreTemporary
    BY PathFacts DEF Init, PartsAreTemporary, Part
<1>2. TypeOK /\ Handles /\ PartsAreTemporary /\ [Next]_vars => PartsAreTemporary'
    <2> SUFFICES ASSUME TypeOK, Handles, PartsAreTemporary, [Next]_vars PROVE PartsAreTemporary'
        OBVIOUS
    <2>1. CASE UNCHANGED vars
        BY <2>1 DEF vars, PartsAreTemporary, HasPart
    <2>2. ASSUME NEW t \in Tasks, Does(t) PROVE PartsAreTemporary'
        BY <2>2, StepTemporary
    <2>3. CASE Reset
        BY <2>3 DEF Reset, PartsAreTemporary
    <2> QED
        BY <2>1, <2>2, <2>3 DEF Next, Does
<1> QED
    BY <1>1, <1>2, Typed, PTL DEF Spec

----------------------------------------------------------------------------
(* No file is lost but to a replacement that fails. *)

Costly(n) == n \in {c[1] : c \in cost}

LEMMA CostlyFacts ==
    ASSUME NEW n \in Names, NEW why
    PROVE  /\ <<n, why>> \in cost' => Costly(n)'
           /\ cost \subseteq cost' /\ Costly(n) => Costly(n)'
           /\ \A m : cost' = Restored(m) /\ Costly(n) /\ n # m => Costly(n)'
    BY DEF Costly, Restored

\* A name other than those the step is about keeps what it has.
LEMMA FilesStay ==
    ASSUME TypeOK, Handles, FilesAreKept, NEW t \in Tasks, Others(t), NEW n \in Names,
           n \in had, Exists(n) => Exists(n)' \/ Replacing(t, n)',
           Replacing(t, n) => Replacing(t, n)' \/ Exists(n)', Costly(n) => Costly(n)' \/ Exists(n)'
    PROVE  Exists(n)' \/ (\E u \in Tasks : Replacing(u, n)') \/ Costly(n)'
<1>1. Exists(n) \/ (\E u \in Tasks : Replacing(u, n)) \/ Costly(n)
    BY DEF FilesAreKept, Costly
<1>2. \A u \in Tasks \ {t} : Replacing(u, n) => Replacing(u, n)'
    BY DEF Others, Kept, Replacing
<1> QED
    BY <1>1, <1>2

\* A rename that fails leaves its name a file, or another to give it one, or counts the cost.
LEMMA RenameFailsKept ==
    ASSUME TypeOK, Handles, FilesAreKept, NEW t \in Tasks, Others(t), NEW from \in Paths,
           NEW to \in Names, RenameFails(t, from, to),
           \A n \in Names : Replacing(t, n) => n = to
    PROVE  FilesAreKept'
<1>1. volume' = volume /\ had' = had /\ cost \subseteq cost'
    BY DEF RenameFails
<1>2. ASSUME NEW n \in Names, n \in had
      PROVE  Exists(n)' \/ (\E u \in Tasks : Replacing(u, n)') \/ Costly(n)'
    <2>1. Exists(n)' <=> Exists(n)
        BY <1>1 DEF Exists
    <2>2. CASE n = to /\ Lost(to, t)
        <3>1. <<n, "failed">> \in cost'
            BY <2>2 DEF RenameFails
        <3> QED
            BY <3>1, CostlyFacts
    <2>3. CASE n = to /\ ~Lost(to, t)
        BY <1>2, <2>1, <2>3 DEF Lost, Others, Kept, Replacing
    <2>4. CASE n # to
        BY <1>1, <1>2, <2>1, <2>4, FilesStay, CostlyFacts
    <2> QED
        BY <2>2, <2>3, <2>4
<1> QED
    BY <1>1, <1>2 DEF FilesAreKept, Costly, TypeOK

\* A step that neither removes a file nor has one to give
LEMMA QuietKept ==
    ASSUME TypeOK, Handles, FilesAreKept, NEW t \in Tasks, Others(t), had' \subseteq had,
           cost' = cost, \A n \in Names : Exists(n) /\ n \in had' => Exists(n)' \/ Replacing(t, n)',
           \A n \in Names : Replacing(t, n) => Replacing(t, n)'
    PROVE  FilesAreKept'
<1>1. ASSUME NEW n \in Names, n \in had'
      PROVE  Exists(n)' \/ (\E u \in Tasks : Replacing(u, n)') \/ Costly(n)'
    BY <1>1, FilesStay DEF Costly
<1> QED
    BY <1>1 DEF FilesAreKept, Costly, TypeOK

\* A file given a name: that name has it, and the file's own name no longer has to.
LEMMA RenamesKept ==
    ASSUME TypeOK, Handles, FilesAreKept, NEW t \in Tasks, Others(t), NEW from \in Paths,
           NEW to \in Names, from # File(to), volume[from] # NoFile,
           Renames(t, from, File(to), Idle), cost' = Restored(to),
           \A n \in had' : n \in Names /\ n \in had \cup {to} /\ from # File(n),
           \A n \in Names : Replacing(t, n) => n = to
    PROVE  FilesAreKept'
<1>1. File(to) \in Paths
    BY PathFacts
<1>2. /\ volume'[File(to)] # NoFile
      /\ \A q \in Paths \ {from, File(to)} : volume'[q] = volume[q]
    BY <1>1, IdleTyped, RenamedFacts
<1>3. ASSUME NEW n \in Names, n \in had'
      PROVE  Exists(n)' \/ (\E u \in Tasks : Replacing(u, n)') \/ Costly(n)'
    <2>1. CASE n = to
        BY <1>2, <2>1 DEF Exists
    <2>2. CASE n # to
        <3>1. File(n) \in Paths \ {from, File(to)} /\ n \in had
            BY <1>3, <2>2, PathFacts
        <3>2. Exists(n)' <=> Exists(n)
            BY <1>2, <3>1 DEF Exists
        <3> QED
            BY <2>2, <3>1, <3>2, FilesStay, CostlyFacts
    <2> QED
        BY <2>1, <2>2
<1> QED
    BY <1>3 DEF FilesAreKept, Costly

LEMMA StepKeepsFiles ==
    ASSUME TypeOK, Handles, FilesAreKept, NEW t \in Tasks, Does(t)
    PROVE  FilesAreKept'
<1> DEFINE n == op[t].name
           to == op[t].to
<1>1. Others(t)
    BY OthersKept
<1>2. CASE Put(t) \/ Upload(t) \/ Copy(t) \/ Remove(t) \/ Move(t)
    <2>1. op[t].at = "idle" /\ UNCHANGED <<volume, had, cost>>
        BY <1>2 DEF Put, Upload, Copy, Remove, Move, Begin
    <2> QED
        BY <1>1, <2>1, QuietKept DEF Replacing, Exists
<1>3. CASE OpenPart(t)
    <2>1. op[t].at = "open" /\ n \in Names /\ had' = had /\ cost' = cost
        BY <1>3 DEF OpenPart, Handles
    <2>2. \A m \in Names : Exists(m) => Exists(m)'
        BY <1>3, <2>1, PathFacts DEF OpenPart, Exists, TypeOK
    <2> QED
        BY <1>1, <2>1, <2>2, QuietKept DEF Replacing
<1>4. CASE Write(t)
    <2>1. op[t].at = "write" /\ had' = had /\ cost' = cost
        BY <1>4 DEF Write
    <2>2. op[t] \in OpType
        BY OpTyped
    <2>3. ASSUME NEW p \in Paths, p = op[t].file
          PROVE  Longer(volume[p], op[t].off) # NoFile
        BY <2>2, <2>3, SizeFacts, NoFileAssumption DEF Longer, Handles, TypeOK, OpType
    <2>4. \A m \in Names : Exists(m) => Exists(m)'
        BY <1>4, <2>2, <2>3, PathFacts DEF Write, Exists, TypeOK, OpType
    <2> QED
        BY <1>1, <2>1, <2>4, QuietKept DEF Replacing
<1>5. CASE Cut(t) \/ Close(t) \/ Check(t)
    <2>1. op[t].at \in {"write", "check"} /\ UNCHANGED <<volume, had, cost>>
        BY <1>5 DEF Cut, Close, Check
    <2> QED
        BY <1>1, <2>1, QuietKept DEF Replacing, Exists
<1>6. CASE UnlinkOld(t)
    <2>1. op[t].at = "unlink" /\ n \in Names /\ had' = had /\ cost' = cost /\ File(n) \in Paths
        BY <1>6, PathFacts DEF UnlinkOld, Handles
    <2>2. CASE Unlinks(t, File(n), At(t, "rename"))
        <3>1. op'[t].at = "rename" /\ op'[t].name = n
              /\ \A q \in Paths \ {File(n)} : volume'[q] = volume[q]
            BY <2>1, <2>2, AtTyped, UnlinkedFacts DEF Places
        <3>2. \A m \in Names : Exists(m) => Exists(m)' \/ Replacing(t, m)'
            BY <2>1, <3>1, PathFacts DEF Exists, Replacing
        <3> QED
            BY <1>1, <2>1, <3>2, QuietKept DEF Replacing
    <2>3. CASE volume' = volume
        BY <1>1, <2>1, <2>3, QuietKept DEF Replacing, Exists
    <2> QED
        BY <1>6, <2>2, <2>3 DEF UnlinkOld
<1>7. CASE RenamePart(t)
    <2>1. /\ op[t].at = "rename" /\ n \in Names
          /\ Part(n) \in Paths /\ Part(n) # File(n) /\ \A m \in Names : Part(n) # File(m)
        BY <1>7, PathFacts DEF RenamePart, Handles
    <2>2. \A m \in Names : Replacing(t, m) => m = n
        BY <2>1 DEF Replacing
    <2>3. CASE /\ volume[Part(n)] # NoFile
               /\ Renames(t, Part(n), File(n), Idle)
               /\ had' = had \cup {n} /\ cost' = Restored(n)
        BY <1>1, <2>1, <2>2, <2>3, RenamesKept DEF TypeOK
    <2>4. CASE RenameFails(t, Part(n), n)
        BY <1>1, <2>1, <2>2, <2>4, RenameFailsKept
    <2> QED
        BY <1>7, <2>3, <2>4 DEF RenamePart
<1>8. CASE Drop(t)
    <2>1. op[t].at = "drop" /\ n \in Names /\ had' = had /\ cost' = cost
        BY <1>8 DEF Drop, Handles
    <2>2. \A m \in Names : Exists(m) => Exists(m)'
        BY <1>8, <2>1, PathFacts DEF Drop, Unlinks, Exists, TypeOK
    <2> QED
        BY <1>1, <2>1, <2>2, QuietKept DEF Replacing
<1>9. CASE RemoveFile(t)
    <2>1. op[t].at = "remove" /\ n \in Names /\ had' \subseteq had /\ cost' = cost
        BY <1>9 DEF RemoveFile, Handles
    <2>2. \A m \in Names : Exists(m) /\ m \in had' => Exists(m)'
        BY <1>9, <2>1, PathFacts DEF RemoveFile, Unlinks, Exists, TypeOK
    <2> QED
        BY <1>1, <2>1, <2>2, QuietKept DEF Replacing
<1>10. CASE ClearTo(t)
    <2>1. op[t].at = "clear" /\ to \in Names /\ had' = had /\ cost' = cost /\ File(to) \in Paths
        BY <1>10, PathFacts DEF ClearTo, Handles
    <2>2. CASE Unlinks(t, File(to), At(t, "move"))
        <3>1. Idle.file = NoFile /\ op'[t].at = "move" /\ op'[t].to = to
              /\ \A q \in Paths \ {File(to)} : volume'[q] = volume[q]
            BY <2>1, <2>2, AtTyped, IdleTyped, UnlinkedFacts DEF Places
        <3>2. \A m \in Names : Exists(m) => Exists(m)' \/ Replacing(t, m)'
            BY <2>1, <3>1, PathFacts DEF Exists, Replacing
        <3> QED
            BY <1>1, <2>1, <3>2, QuietKept DEF Replacing
    <2>3. CASE volume' = volume
        BY <1>1, <2>1, <2>3, QuietKept DEF Replacing, Exists
    <2> QED
        BY <1>10, <2>2, <2>3 DEF ClearTo
<1>11. CASE MoveFile(t)
    <2>1. /\ op[t].at = "move" /\ n \in Names /\ to \in Names \ {n}
          /\ File(n) \in Paths /\ File(n) # File(to)
        BY <1>11, PathFacts DEF MoveFile, Handles
    <2>2. \A m \in Names : Replacing(t, m) => m = to
        BY <2>1 DEF Replacing
    <2>3. CASE /\ Exists(n)
               /\ Renames(t, File(n), File(to), Idle)
               /\ had' = (had \ {n}) \cup {to} /\ cost' = Restored(to)
        <3>1. \A m \in had' : m \in Names /\ m \in had \cup {to} /\ File(n) # File(m)
            BY <2>1, <2>3, PathFacts DEF TypeOK
        <3> QED
            BY <1>1, <2>1, <2>2, <2>3, <3>1, RenamesKept DEF Exists
    <2>4. CASE RenameFails(t, File(n), to)
        BY <1>1, <2>1, <2>2, <2>4, RenameFailsKept
    <2> QED
        BY <1>11, <2>3, <2>4 DEF MoveFile
<1> QED
    BY <1>2, <1>3, <1>4, <1>5, <1>6, <1>7, <1>8, <1>9, <1>10, <1>11 DEF Does, Works

LEMMA ResetKeepsFiles ==
    ASSUME TypeOK, FilesAreKept, Reset
    PROVE  FilesAreKept'
<1>1. ASSUME NEW n \in Names, n \in had
      PROVE  Exists(n)' \/ Costly(n)'
    <2>1. Exists(n)' <=> Exists(n)
        BY DEF Reset, Exists
    <2>2. CASE Costly(n)
        BY <2>2 DEF Reset, Costly
    <2>3. CASE ~Exists(n) /\ \E u \in Tasks : Replacing(u, n)
        <3>1. <<n, "reset">> \in cost'
            BY <1>1, <2>3 DEF Reset
        <3> QED
            BY <3>1, CostlyFacts
    <2> QED
        BY <1>1, <2>1, <2>2, <2>3 DEF FilesAreKept, Costly
<1> QED
    BY <1>1 DEF FilesAreKept, Costly, TypeOK, Reset

\* A name loses its file to nothing but a replacement that fails, or is cut off, after its
\* unlink.
THEOREM FilesKept == Spec => []FilesAreKept
<1>1. Init => FilesAreKept
    BY PathFacts, SizeFacts, SizeAssumption DEF Init, FilesAreKept, Exists, File, Paths
<1>2. TypeOK /\ Handles /\ FilesAreKept /\ [Next]_vars => FilesAreKept'
    <2> SUFFICES ASSUME TypeOK, Handles, FilesAreKept, [Next]_vars PROVE FilesAreKept'
        OBVIOUS
    <2>1. CASE UNCHANGED vars
        BY <2>1 DEF vars, FilesAreKept, Exists, Replacing
    <2>2. ASSUME NEW t \in Tasks, Does(t) PROVE FilesAreKept'
        BY <2>2, StepKeepsFiles
    <2>3. CASE Reset
        BY <2>3, ResetKeepsFiles
    <2> QED
        BY <2>1, <2>2, <2>3 DEF Next, Does
<1> QED
    BY <1>1, <1>2, Typed, PTL DEF Spec

----------------------------------------------------------------------------
(* A name's file is whole, until two have written one .part at once. *)

\* What a writer's place says of its .part
WriterOf(t) ==
    LET n == op[t].name
    IN  /\ op[t].at = "open" => op[t].off = 0
        /\ op[t].at \in {"open", "write"} => op[t].end = Size
        /\ op[t].at = "write" => op[t].file = Part(n) /\ volume[Part(n)] = op[t].off
        /\ op[t].at \in {"check", "unlink", "rename"} => volume[Part(n)] = Size

\* Files are whole, a .part has one writer, and it holds what its writer has written.
Wholeness ==
    ~shared =>
        /\ \A n \in Names : Exists(n) => volume[File(n)] = Size
        /\ \A t, u \in Tasks, n \in Names : HasPart(t, n) /\ HasPart(u, n) => t = u
        /\ \A t \in Tasks : WriterOf(t)

\* The others' writing is undisturbed by a step that leaves their .parts and their handles.
LEMMA WritersStay ==
    ASSUME TypeOK, Handles, NEW t \in Tasks, Others(t), NEW u \in Tasks \ {t}, WriterOf(u),
           op[u].at \in {"write", "check", "unlink", "rename"} =>
                volume'[Part(op[u].name)] = volume[Part(op[u].name)],
           op[u].at = "write" => op'[u].file = op[u].file
    PROVE  WriterOf(u)'
    BY DEF WriterOf, Others, Kept

\* A step that leaves the .parts of others, its own to itself, and the files whole
LEMMA WholeFrom ==
    ASSUME TypeOK, Handles, Wholeness, NEW t \in Tasks, Others(t), ~shared', ~shared,
           \A n \in Names : Exists(n)' => volume'[File(n)] = Size,
           \A n \in Names : HasPart(t, n)' => HasPart(t, n) \/ \A u \in Tasks \ {t} : ~HasPart(u, n),
           \A u \in Tasks \ {t} : op[u].at \in {"write", "check", "unlink", "rename"} =>
                volume'[Part(op[u].name)] = volume[Part(op[u].name)],
           \A u \in Tasks \ {t} : op[u].at = "write" => op'[u].file = op[u].file,
           WriterOf(t)'
    PROVE  Wholeness'
<1>1. \A u \in Tasks \ {t}, n \in Names : HasPart(u, n)' <=> HasPart(u, n)
    BY DEF Others, Kept, HasPart
<1>2. \A u, v \in Tasks, n \in Names : HasPart(u, n)' /\ HasPart(v, n)' => u = v
    BY <1>1 DEF Wholeness
<1>3. \A u \in Tasks : WriterOf(u)'
    BY WritersStay DEF Wholeness
<1> QED
    BY <1>2, <1>3 DEF Wholeness

\* A step that leaves the volume as it is
LEMMA QuietWhole ==
    ASSUME TypeOK, Handles, Wholeness, NEW t \in Tasks, NEW next \in OpType, Goes(t, next),
           volume' = volume, ~shared', ~shared,
           \A n \in Names : HasPart(t, n)' => HasPart(t, n),
           WriterOf(t)'
    PROVE  Wholeness'
<1>1. \A u \in Tasks \ {t} : Kept(u) /\ op'[u].file = op[u].file
    BY GoesKeeps
<1>2. Others(t)
    BY <1>1 DEF Others
<1>3. \A n \in Names : Exists(n)' => volume'[File(n)] = Size
    BY DEF Wholeness, Exists
<1> QED
    BY <1>1, <1>2, <1>3, WholeFrom

\* In Wholeness, another that is at a .part is at another name's.
LEMMA OtherParts ==
    ASSUME TypeOK, Handles, Wholeness, ~shared, NEW t \in Tasks, NEW n \in Names, HasPart(t, n),
           NEW u \in Tasks \ {t}, op[u].at \in {"write", "check", "unlink", "rename", "drop"}
    PROVE  /\ op[u].name \in Names \ {n} /\ Part(op[u].name) # Part(n)
           /\ \A m \in Names : Part(op[u].name) # File(m)
<1>1. op[u].name \in Names
    BY DEF Handles
<1>2. HasPart(u, op[u].name)
    BY DEF HasPart
<1>3. op[u].name # n
    BY <1>1, <1>2 DEF Wholeness
<1> QED
    BY <1>1, <1>3, PathFacts

LEMMA BeginWhole ==
    ASSUME TypeOK, Handles, Wholeness, NEW t \in Tasks, ~shared, ~shared',
           Put(t) \/ Upload(t) \/ Copy(t)
    PROVE  Wholeness'
<1>1. PICK n \in Names, over \in BOOLEAN : Begin(t, n, over, Size)
    <2>1. CASE Put(t) \/ Upload(t)
        BY <2>1 DEF Put, Upload
    <2>2. CASE Copy(t)
        BY <2>2 DEF Copy, Wholeness
    <2> QED
        BY <2>1, <2>2
<1> DEFINE next == [Idle EXCEPT !.at = "open", !.name = n, !.over = over, !.end = Size]
<1>2. next \in OpType /\ next.at = "open" /\ next.off = 0 /\ next.end = Size
    BY SizeFacts, IdleTyped DEF Idle, OpType, Places
<1>3. Goes(t, next) /\ volume' = volume
    BY <1>1 DEF Begin
<1> HIDE DEF next
<1>4. op'[t] = next
    BY <1>2, <1>3, GoesKeeps
<1> QED
    BY <1>2, <1>3, <1>4, QuietWhole DEF HasPart, WriterOf

LEMMA OpenPartWhole ==
    ASSUME TypeOK, Handles, Wholeness, NEW t \in Tasks, ~shared, ~shared', OpenPart(t)
    PROVE  Wholeness'
<1> DEFINE n == op[t].name
<1>1. n \in Names /\ op[t].at = "open" /\ Part(n) \in Paths
    BY PathFacts DEF OpenPart, Handles
<1>2. CASE Goes(t, Idle) /\ volume' = volume
    <2>1. op'[t] = Idle
        BY <1>2, IdleTyped, GoesKeeps
    <2> QED
        BY <1>2, <2>1, IdleTyped, QuietWhole DEF HasPart, WriterOf
<1>3. CASE /\ volume' = [volume EXCEPT ![Part(n)] = 0]
           /\ \/ Goes(t, [At(t, "write") EXCEPT !.file = Part(n)])
              \/ Goes(t, At(t, "drop"))
           /\ shared' = (shared \/ \E u \in Tasks \ {t} : HasPart(u, n))
    <2>1. PICK next \in OpType :
            /\ Goes(t, next)
            /\ next.at \in {"write", "drop"} /\ next.name = n
            /\ next.off = op[t].off /\ next.end = op[t].end
            /\ next.at = "write" => next.file = Part(n)
        <3>1. "write" \in Places /\ "drop" \in Places
            BY DEF Places
        <3>2. CASE Goes(t, [At(t, "write") EXCEPT !.file = Part(n)])
            <4> DEFINE w == [At(t, "write") EXCEPT !.file = Part(n)]
            <4>1. w \in OpType /\ w.at = "write" /\ w.name = n /\ w.file = Part(n)
                  /\ w.off = op[t].off /\ w.end = op[t].end
                BY <1>1, <3>1, AtTyped
            <4>2. Goes(t, w)
                BY <3>2
            <4> HIDE DEF w
            <4> QED
                BY <4>1, <4>2
        <3>3. CASE Goes(t, At(t, "drop"))
            BY <3>1, <3>3, AtTyped
        <3> QED
            BY <1>3, <3>2, <3>3
    <2>2. op'[t] = next /\ \A u \in Tasks \ {t} : Kept(u) /\ op'[u].file = op[u].file
        BY <2>1, GoesKeeps
    <2>3. \A u \in Tasks \ {t} : ~HasPart(u, n)
        BY <1>3
    <2>4. volume'[Part(n)] = 0 /\ \A q \in Paths \ {Part(n)} : volume'[q] = volume[q]
        BY <1>1, <1>3 DEF TypeOK
    <2>5. WriterOf(t)'
        BY <1>1, <2>1, <2>2, <2>4 DEF WriterOf, Wholeness
    <2>6. ASSUME NEW u \in Tasks \ {t}, op[u].at \in {"write", "check", "unlink", "rename"}
          PROVE  volume'[Part(op[u].name)] = volume[Part(op[u].name)]
        <3>1. op[u].name \in Names \ {n}
            BY <2>3, <2>6 DEF Handles, HasPart
        <3> QED
            BY <1>1, <2>4, <3>1, PathFacts
    <2>7. \A m \in Names : Exists(m)' => volume'[File(m)] = Size
        BY <1>1, <2>4, PathFacts DEF Wholeness, Exists
    <2>8. \A m \in Names : HasPart(t, m)' => m = n
        BY <2>1, <2>2 DEF HasPart
    <2> QED
        BY <2>2, <2>3, <2>5, <2>6, <2>7, <2>8, WholeFrom DEF Others
<1> QED
    BY <1>2, <1>3 DEF OpenPart

LEMMA WriteWhole ==
    ASSUME TypeOK, Handles, Wholeness, NEW t \in Tasks, ~shared, ~shared', Write(t)
    PROVE  Wholeness'
<1> DEFINE n == op[t].name
           next == [op[t] EXCEPT !.off = @ + 1]
<1>1. /\ op[t] \in OpType /\ op[t].at = "write" /\ op[t].off < op[t].end /\ n \in Names
      /\ Part(n) \in Paths /\ HasPart(t, n)
    BY OpTyped, PathFacts DEF Write, Handles, HasPart
<1>2. op[t].end = Size /\ op[t].file = Part(n) /\ volume[Part(n)] = op[t].off
    BY <1>1 DEF Wholeness, WriterOf
<1>3. next \in OpType /\ next.at = "write" /\ next.name = n /\ next.file = Part(n)
      /\ next.end = Size /\ next.off = op[t].off + 1
    BY <1>1, <1>2, SizeFacts DEF OpType
<1>4. Goes(t, next)
    BY DEF Write
<1> HIDE DEF next
<1>5. op'[t] = next /\ \A u \in Tasks \ {t} : Kept(u) /\ op'[u].file = op[u].file
    BY <1>3, <1>4, GoesKeeps
<1>6. volume' = [volume EXCEPT ![Part(n)] = op[t].off + 1]
    <2>1. op[t].off \in Nat /\ Part(n) # NoFile
        BY <1>1, PathFacts, SizeFacts DEF OpType
    <2>2. volume' = [volume EXCEPT ![Part(n)] = Longer(volume[Part(n)], op[t].off)]
        BY <1>2, <2>1 DEF Write
    <2>3. \A k \in Nat : Longer(k, k) = k + 1
        BY DEF Longer
    <2> QED
        BY <1>2, <2>1, <2>2, <2>3
<1>7. volume'[Part(n)] = op[t].off + 1 /\ \A q \in Paths \ {Part(n)} : volume'[q] = volume[q]
    BY <1>1, <1>6 DEF TypeOK
<1>8. WriterOf(t)'
    BY <1>3, <1>5, <1>7 DEF WriterOf
<1>9. ASSUME NEW u \in Tasks \ {t}, op[u].at \in {"write", "check", "unlink", "rename"}
      PROVE  volume'[Part(op[u].name)] = volume[Part(op[u].name)]
    BY <1>1, <1>7, <1>9, OtherParts, PathFacts
<1>10. \A m \in Names : Exists(m)' => volume'[File(m)] = Size
    BY <1>1, <1>7, PathFacts DEF Wholeness, Exists
<1>11. \A m \in Names : HasPart(t, m)' => HasPart(t, m)
    BY <1>1, <1>3, <1>5 DEF HasPart
<1> QED
    BY <1>5, <1>8, <1>9, <1>10, <1>11, WholeFrom DEF Others

LEMMA CloseWhole ==
    ASSUME TypeOK, Handles, Wholeness, NEW t \in Tasks, ~shared, ~shared',
           Cut(t) \/ Close(t) \/ Check(t)
    PROVE  Wholeness'
<1> DEFINE n == op[t].name
<1>1. n \in Names /\ op[t].at \in {"write", "check"} /\ op[t] \in OpType /\ volume' = volume
    BY OpTyped DEF Cut, Close, Check, Handles
<1>2. PICK place \in {"check", "unlink", "rename", "drop"} :
        /\ Goes(t, At(t, place)) \/ Goes(t, [At(t, place) EXCEPT !.file = NoFile])
        /\ place # "drop" => volume[Part(n)] = Size
    <2>1. CASE Cut(t)
        BY <2>1 DEF Cut
    <2>2. CASE Close(t)
        BY <2>2 DEF Close, Wholeness, WriterOf
    <2>3. CASE Check(t)
        BY <2>3 DEF Check, Wholeness, WriterOf
    <2> QED
        BY <2>1, <2>2, <2>3
<1>3. PICK next \in OpType : Goes(t, next) /\ next.at = place /\ next.name = n
    <2>1. place \in Places
        BY DEF Places
    <2>2. CASE Goes(t, At(t, place))
        BY <2>1, <2>2, AtTyped
    <2>3. CASE Goes(t, [At(t, place) EXCEPT !.file = NoFile])
        <3> DEFINE w == [At(t, place) EXCEPT !.file = NoFile]
        <3>1. w \in OpType /\ w.at = place /\ w.name = n
            BY <2>1, AtTyped
        <3>2. Goes(t, w)
            BY <2>3
        <3> HIDE DEF w
        <3> QED
            BY <3>1, <3>2
    <2> QED
        BY <1>2, <2>2, <2>3
<1>4. op'[t] = next
    BY <1>3, GoesKeeps
<1>5. WriterOf(t)'
    BY <1>1, <1>2, <1>3, <1>4 DEF WriterOf
<1>6. \A m \in Names : HasPart(t, m)' => HasPart(t, m)
    BY <1>1, <1>3, <1>4 DEF HasPart
<1> QED
    BY <1>1, <1>3, <1>5, <1>6, QuietWhole

\* A step that unlinks a file, or the task's own .part
LEMMA UnlinksWhole ==
    ASSUME TypeOK, Handles, Wholeness, NEW t \in Tasks, ~shared, ~shared', NEW p \in Paths,
           NEW next \in OpType, Unlinks(t, p, next),
           \/ \E n \in Names : p = File(n)
           \/ \E n \in Names : p = Part(n) /\ HasPart(t, n),
           \/ next.at \in {"idle", "move"}
           \/ /\ next.at = "rename" /\ op[t].at = "unlink" /\ next.name = op[t].name
              /\ p = File(op[t].name)
    PROVE  Wholeness'
<1>1. op'[t] = next /\ volume'[p] = NoFile /\ \A q \in Paths \ {p} : volume'[q] = volume[q]
    BY UnlinkedFacts
<1>2. \A u \in Tasks \ {t} : Kept(u) /\ op'[u].file = Followed(op[u].file, p, NoFile)
    BY UnlinksKeeps
<1>3. ASSUME NEW u \in Tasks \ {t}, op[u].at \in {"write", "check", "unlink", "rename"}
      PROVE  Part(op[u].name) # p /\ op[u].name \in Names
    BY <1>3, OtherParts, PathFacts DEF Handles
<1>4. \A u \in Tasks \ {t} : op[u].at = "write" => op'[u].file = op[u].file
    BY <1>2, <1>3, PathFacts DEF Followed, Wholeness, WriterOf
<1>5. \A n \in Names : Exists(n)' => volume'[File(n)] = Size
    BY <1>1, PathFacts DEF Wholeness, Exists
<1>6. \A n \in Names : HasPart(t, n)' => HasPart(t, n)
    BY <1>1 DEF HasPart
<1>7. WriterOf(t)'
    <2>1. CASE next.at \in {"idle", "move"}
        BY <1>1, <2>1 DEF WriterOf
    <2>2. CASE /\ next.at = "rename" /\ op[t].at = "unlink" /\ next.name = op[t].name
               /\ p = File(op[t].name)
        <3>1. op[t].name \in Names /\ volume[Part(op[t].name)] = Size
            BY <2>2 DEF Handles, Wholeness, WriterOf
        <3>2. Part(op[t].name) \in Paths \ {p}
            BY <2>2, <3>1, PathFacts
        <3> QED
            BY <1>1, <2>2, <3>1, <3>2 DEF WriterOf
    <2> QED
        BY <2>1, <2>2
<1> QED
    BY <1>1, <1>2, <1>3, <1>4, <1>5, <1>6, <1>7, PathFacts, WholeFrom DEF Others

\* A step that gives a name a whole file: another's, or the task's own .part
LEMMA RenamesWhole ==
    ASSUME TypeOK, Handles, Wholeness, NEW t \in Tasks, ~shared, ~shared', NEW from \in Paths,
           NEW to \in Names, from # File(to), volume[from] = Size, Renames(t, from, File(to), Idle),
           \/ \E n \in Names : from = File(n)
           \/ \E n \in Names : from = Part(n) /\ HasPart(t, n)
    PROVE  Wholeness'
<1>0. File(to) \in Paths /\ Idle \in OpType /\ Idle.at = "idle"
    BY PathFacts, IdleTyped
<1>1. /\ op'[t] = Idle /\ volume'[File(to)] = Size /\ volume'[from] = NoFile
      /\ \A q \in Paths \ {from, File(to)} : volume'[q] = volume[q]
    BY <1>0, RenamedFacts
<1>2. \A u \in Tasks \ {t} : Kept(u) /\ op'[u].file = Followed(op[u].file, from, File(to))
    BY <1>0, RenamesKeeps
<1>3. ASSUME NEW u \in Tasks \ {t}, op[u].at \in {"write", "check", "unlink", "rename"}
      PROVE  /\ Part(op[u].name) # from /\ Part(op[u].name) # File(to)
             /\ op[u].name \in Names /\ Part(op[u].name) \in Paths
    BY <1>3, OtherParts, PathFacts DEF Handles
<1>4. \A u \in Tasks \ {t} : op[u].at = "write" => op'[u].file = op[u].file
    BY <1>2, <1>3 DEF Followed, Wholeness, WriterOf
<1>5. \A n \in Names : Exists(n)' => volume'[File(n)] = Size
    BY <1>1, PathFacts DEF Wholeness, Exists
<1>6. (\A n \in Names : ~HasPart(t, n)') /\ WriterOf(t)'
    BY <1>0, <1>1 DEF HasPart, WriterOf
<1>7. Others(t)
    BY <1>2 DEF Others
<1> QED
    BY <1>1, <1>3, <1>4, <1>5, <1>6, <1>7, WholeFrom

\* A step to a place where nothing is said of the .part
LEMMA LeavesWhole ==
    ASSUME TypeOK, Handles, Wholeness, NEW t \in Tasks, ~shared, ~shared', volume' = volume,
           NEW next \in OpType, Goes(t, next),
           \/ next.at \in {"idle", "remove", "clear", "move"}
           \/ /\ next.at = "drop" /\ next.name = op[t].name
              /\ op[t].at \in {"write", "check", "unlink", "rename", "drop"}
    PROVE  Wholeness'
<1>1. op'[t] = next
    BY GoesKeeps
<1>2. WriterOf(t)' /\ \A n \in Names : HasPart(t, n)' => HasPart(t, n)
    BY <1>1 DEF WriterOf, HasPart
<1> QED
    BY <1>2, QuietWhole

\* A removal or a move looks at what is there.
LEMMA LookWhole ==
    ASSUME TypeOK, Handles, Wholeness, NEW t \in Tasks, ~shared, ~shared', Remove(t) \/ Move(t)
    PROVE  Wholeness'
<1>1. CASE Remove(t)
    <2>1. PICK m \in Names : Goes(t, [Idle EXCEPT !.at = "remove", !.name = m])
        BY <1>1 DEF Remove
    <2>2. /\ [Idle EXCEPT !.at = "remove", !.name = m] \in OpType
          /\ [Idle EXCEPT !.at = "remove", !.name = m].at = "remove"
        BY IdleTyped DEF OpType, Places
    <2> QED
        BY <1>1, <2>1, <2>2, LeavesWhole DEF Remove
<1>2. CASE Move(t)
    <2>1. PICK from \in Names, dest \in Names, over \in BOOLEAN :
            Goes(t, [Idle EXCEPT !.at = IF Exists(dest) THEN "clear" ELSE "move",
                                 !.name = from, !.to = dest, !.over = over])
        BY <1>2 DEF Move
    <2> DEFINE next == [Idle EXCEPT !.at = IF Exists(dest) THEN "clear" ELSE "move",
                                    !.name = from, !.to = dest, !.over = over]
    <2>2. next \in OpType /\ next.at \in {"clear", "move"}
        BY IdleTyped DEF OpType, Places
    <2>3. Goes(t, next)
        BY <2>1
    <2> HIDE DEF next
    <2> QED
        BY <1>2, <2>2, <2>3, LeavesWhole DEF Move
<1> QED
    BY <1>1, <1>2

LEMMA StepWhole ==
    ASSUME TypeOK, Handles, Wholeness, NEW t \in Tasks, Does(t), ~shared'
    PROVE  Wholeness'
<1> DEFINE n == op[t].name
           to == op[t].to
<1>1. ~shared
    <2>1. CASE OpenPart(t)
        BY <2>1 DEF OpenPart
    <2>2. CASE ~OpenPart(t)
        <3>1. shared' = shared
            BY <2>2 DEF Does, Works, Put, Upload, Copy, Remove, Move, Begin, Write, Cut, Close, Check,
                        UnlinkOld, RenamePart, Drop, RemoveFile, ClearTo, MoveFile
        <3> QED
            BY <3>1
    <2> QED
        BY <2>1, <2>2
<1>2. CASE Put(t) \/ Upload(t) \/ Copy(t) \/ Remove(t) \/ Move(t)
    BY <1>1, <1>2, BeginWhole, LookWhole
<1>3. CASE OpenPart(t) \/ Write(t) \/ Cut(t) \/ Close(t) \/ Check(t)
    BY <1>1, <1>3, OpenPartWhole, WriteWhole, CloseWhole
<1>4. CASE UnlinkOld(t)
    <2>1. op[t].at = "unlink" /\ n \in Names /\ File(n) \in Paths
        BY <1>4, PathFacts DEF UnlinkOld, Handles
    <2>2. /\ At(t, "rename") \in OpType /\ At(t, "rename").at = "rename" /\ At(t, "rename").name = n
          /\ At(t, "drop") \in OpType /\ At(t, "drop").at = "drop" /\ At(t, "drop").name = n
        BY AtTyped DEF Places
    <2>3. CASE Unlinks(t, File(n), At(t, "rename"))
        BY <1>1, <2>1, <2>2, <2>3, UnlinksWhole
    <2>4. CASE Goes(t, At(t, "drop")) /\ volume' = volume
        BY <1>1, <2>1, <2>2, <2>4, LeavesWhole
    <2> QED
        BY <1>4, <2>3, <2>4 DEF UnlinkOld
<1>5. CASE RenamePart(t)
    <2>1. /\ op[t].at = "rename" /\ n \in Names /\ Part(n) \in Paths
          /\ Part(n) # File(n) /\ HasPart(t, n)
        BY <1>5, PathFacts DEF RenamePart, Handles, HasPart
    <2>2. CASE Renames(t, Part(n), File(n), Idle)
        <3>1. volume[Part(n)] = Size
            BY <1>1, <2>1 DEF Wholeness, WriterOf
        <3> QED
            BY <1>1, <2>1, <2>2, <3>1, RenamesWhole
    <2>3. CASE RenameFails(t, Part(n), n) /\ Goes(t, At(t, "drop"))
        <3>1. At(t, "drop") \in OpType /\ At(t, "drop").at = "drop" /\ At(t, "drop").name = n
            BY AtTyped DEF Places
        <3> QED
            BY <1>1, <2>1, <2>3, <3>1, LeavesWhole DEF RenameFails
    <2> QED
        BY <1>5, <2>2, <2>3 DEF RenamePart
<1>6. CASE Drop(t)
    <2>1. n \in Names /\ HasPart(t, n) /\ Part(n) \in Paths
        BY <1>6, PathFacts DEF Drop, Handles, HasPart
    <2>2. CASE Unlinks(t, Part(n), Idle)
        BY <1>1, <2>1, <2>2, IdleTyped, UnlinksWhole
    <2>3. CASE Goes(t, Idle) /\ volume' = volume
        BY <1>1, <2>3, IdleTyped, LeavesWhole
    <2> QED
        BY <1>6, <2>2, <2>3 DEF Drop
<1>7. CASE RemoveFile(t)
    <2>1. n \in Names /\ File(n) \in Paths
        BY <1>7, PathFacts DEF RemoveFile, Handles
    <2>2. CASE Unlinks(t, File(n), Idle)
        BY <1>1, <2>1, <2>2, IdleTyped, UnlinksWhole
    <2>3. CASE Goes(t, Idle) /\ volume' = volume
        BY <1>1, <2>3, IdleTyped, LeavesWhole
    <2> QED
        BY <1>7, <2>2, <2>3 DEF RemoveFile
<1>8. CASE ClearTo(t)
    <2>1. to \in Names /\ File(to) \in Paths
        BY <1>8, PathFacts DEF ClearTo, Handles
    <2>2. At(t, "move") \in OpType /\ At(t, "move").at = "move"
        BY AtTyped DEF Places
    <2>3. CASE Unlinks(t, File(to), At(t, "move"))
        BY <1>1, <2>1, <2>2, <2>3, UnlinksWhole
    <2>4. CASE Goes(t, Idle) /\ volume' = volume
        BY <1>1, <2>4, IdleTyped, LeavesWhole
    <2> QED
        BY <1>8, <2>3, <2>4 DEF ClearTo
<1>9. CASE MoveFile(t)
    <2>1. n \in Names /\ to \in Names /\ File(n) \in Paths /\ File(n) # File(to)
        BY <1>9, PathFacts DEF MoveFile, Handles
    <2>2. CASE Exists(n) /\ Renames(t, File(n), File(to), Idle)
        <3>1. volume[File(n)] = Size
            BY <1>1, <2>1, <2>2 DEF Wholeness
        <3> QED
            BY <1>1, <2>1, <2>2, <3>1, RenamesWhole
    <2>3. CASE RenameFails(t, File(n), to) /\ Goes(t, Idle)
        BY <1>1, <2>3, IdleTyped, LeavesWhole DEF RenameFails
    <2> QED
        BY <1>9, <2>2, <2>3 DEF MoveFile
<1> QED
    BY <1>2, <1>3, <1>4, <1>5, <1>6, <1>7, <1>8, <1>9 DEF Does, Works

\* Whatever fails, is cut off or races, the file a name names is whole: a .part is put in its
\* place only by its one writer, who has written all of it.
THEOREM Whole == Spec => []NamesAreWhole
<1>1. Init => Wholeness
    <2> SUFFICES ASSUME Init PROVE Wholeness
        OBVIOUS
    <2>1. \A n \in Names : Exists(n) => volume[File(n)] = Size
        BY PathFacts DEF Init, Exists
    <2>2. \A t \in Tasks : op[t].at = "idle"
        BY IdleTyped DEF Init
    <2> QED
        BY <2>1, <2>2 DEF Wholeness, WriterOf, HasPart
<1>2. TypeOK /\ Handles /\ Wholeness /\ [Next]_vars => Wholeness'
    <2> SUFFICES ASSUME TypeOK, Handles, Wholeness, [Next]_vars, ~shared' PROVE Wholeness'
        BY DEF Wholeness
    <2>1. CASE UNCHANGED vars
        BY <2>1 DEF vars, Wholeness, WriterOf, HasPart, Exists
    <2>2. ASSUME NEW t \in Tasks, Does(t) PROVE Wholeness'
        BY <2>2, StepWhole
    <2>3. CASE Reset
        <3>1. \A t \in Tasks : op'[t].at = "idle"
            BY <2>3, IdleTyped DEF Reset
        <3> QED
            BY <2>3, <3>1 DEF Reset, Wholeness, WriterOf, HasPart, Exists
    <2> QED
        BY <2>1, <2>2, <2>3 DEF Next, Does
<1>3. Wholeness => NamesAreWhole
    BY DEF Wholeness, NamesAreWhole
<1> QED
    BY <1>1, <1>2, <1>3, Typed, PTL DEF Spec
=============================================================================
