------------------------------ MODULE OtaCore ------------------------------
(***************************************************************************)
(* Application updates: the session of cmd_fs/ota_core.c, and those who    *)
(* run it -- `ota put` on the console (cmd_ota.c), an upload on the web    *)
(* server's job task (web_ota.c, web_server.c) and a pull (ota_pull.c) --  *)
(* with those who cancel it or choose the boot image meanwhile.            *)
(*                                                                         *)
(* A section under s_lock is one step.  What a function does between two   *)
(* of them is a step of its own, for the session and s_cancel may change   *)
(* in between; closing the handle (release()) goes with the section that   *)
(* follows it.  An image is counted in chunks, and is whole ("good") or    *)
(* not ("torn"); its header, its project and its hash are choices, as is   *)
(* what ESP-IDF says of the flash.                                         *)
(***************************************************************************)
EXTENDS Integers, FiniteSets

CONSTANTS
    Putters,        \* the console's task, as it runs `ota put`
    Uploaders,      \* PUT /ota/image requests
    Pullers,        \* pulls
    Followers,      \* the console's task, as it runs `ota pull`
    Askers,         \* those who choose a slot: the console (`ota activate`), the web server
    SlotA, SlotB,   \* the two application slots
    SlotSize,       \* of each, in chunks
    HeadLen,        \* HEAD_LEN, in chunks
    None            \* no slot, no job

Updaters == Putters \cup Uploaders \cup Pullers
Tasks == Updaters \cup Followers \cup Askers
Slots == {SlotA, SlotB}

ASSUME TasksAssumption ==
    /\ Putters \cap Uploaders = {} /\ Putters \cap Pullers = {} /\ Uploaders \cap Pullers = {}
    /\ (Askers \cup Followers) \cap (Uploaders \cup Pullers) = {} /\ None \notin Uploaders
ASSUME SlotsAssumption == SlotA # SlotB /\ None \notin Slots
ASSUME SizesAssumption == SlotSize \in Nat /\ HeadLen \in Nat \ {0}

VARIABLES
    session,        \* s_session: its state, dry_run, bytes and total
    cancel,         \* s_cancel
    part,           \* s_part
    open,           \* s_open: there is a handle to end or abort
    headChecked,    \* s_head_checked
    job,            \* s_job: the upload that has the web server's one job
    pc,             \* where each task is
    local,          \* what each task read and has not used yet
    left,           \* the chunks each sender has still to send
    image,          \* flash: what each slot holds
    boot,           \* flash: the slot chosen to boot
    running,        \* the slot that booted
    owners,         \* history: the tasks whose begin succeeded and whose session has not ended
    intruded        \* history: a task has ended a session that was not its own

ram == <<session, cancel, part, open, headChecked, job>>
tasks == <<pc, local, left>>
flash == <<image, boot, running>>
history == <<owners, intruded>>
vars == <<ram, tasks, flash, history>>

NoSession == [state |-> "idle", dry |-> FALSE, bytes |-> 0, total |-> 0]
NoLocal == [bytes |-> 0, total |-> 0, state |-> "idle", slot |-> None]

\* in_progress()
InProgress(st) == st \in {"receiving", "verifying"}

\* Mutant: the slot after, the last one having none
OtherAfter(s) == IF s = SlotA THEN SlotB ELSE None

Other(s) == IF s = SlotA THEN SlotB ELSE SlotA

\* Mutant: the slot that is not chosen to boot, which may be the one running
UpdateSlotByBoot == Other(boot)

\* esp_ota_get_next_update_partition(NULL)
UpdateSlot == Other(running)

Init ==
    /\ session = NoSession /\ cancel = FALSE /\ part = None /\ open = FALSE
    /\ headChecked = FALSE /\ job = None
    /\ pc = [t \in Tasks |-> "idle"]
    /\ local = [t \in Tasks |-> NoLocal] /\ left = [t \in Tasks |-> 0]
    /\ image = [s \in Slots |-> "good"]
    /\ boot \in Slots /\ running = boot
    /\ owners = {} /\ intruded = FALSE

Goto(t, label) == pc' = [pc EXCEPT ![t] = label]

\* The task is done with the session; an upload still has its reply to send, and its job to release
Leave(t) ==
    /\ pc' = [pc EXCEPT ![t] = IF t \in Uploaders THEN "replying" ELSE "idle"]
    /\ local' = [local EXCEPT ![t] = NoLocal] /\ left' = [left EXCEPT ![t] = 0]

\* Mutant: without release()
SetFailedOpen ==
    /\ session' = [session EXCEPT !.state = "failed"]
    /\ UNCHANGED open

\* set_failed_locked(), after release()
SetFailed ==
    /\ session' = [session EXCEPT !.state = "failed"]
    /\ open' = FALSE

----------------------------------------------------------------------------
(* Before a session. *)

\* The web server handles one request at a time: the start of an upload and an activation that is
\* not the console's run on its one task.
ServerFree ==
    /\ \A u \in Uploaders : pc[u] \notin {"claimed", "ready", "opening"}
    /\ \A t \in Askers \ Putters : pc[t] = "idle"

\* web_job_claim(): the one job is taken first, and only then is the update looked for
Claim(u) ==
    /\ pc[u] = "idle" /\ ServerFree /\ job = None
    /\ job' = u
    /\ Goto(u, "claimed")
    /\ UNCHANGED <<session, cancel, part, open, headChecked, local, left, flash, history>>

\* Mutant: the job kept when an update is in progress
ClaimCheckKeeps(u) ==
    /\ pc[u] = "claimed"
    /\ Goto(u, IF InProgress(session.state) THEN "idle" ELSE "ready")
    /\ UNCHANGED <<ram, local, left, flash, history>>

ClaimCheck(u) ==
    /\ pc[u] = "claimed"
    /\ IF InProgress(session.state) THEN job' = None /\ Goto(u, "idle")
                                    ELSE job' = job /\ Goto(u, "ready")
    /\ UNCHANGED <<session, cancel, part, open, headChecked, local, left, flash, history>>

\* web_job_release(), at the end of the job's task
Release(u) ==
    /\ pc[u] = "replying"
    /\ job' = None
    /\ Goto(u, "idle")
    /\ UNCHANGED <<session, cancel, part, open, headChecked, local, left, flash, history>>

\* ota_pull_start() refuses while a job runs; it does not take the job
PullCheck(p) ==
    /\ pc[p] = "idle" /\ job = None
    /\ Goto(p, "ready")
    /\ UNCHANGED <<ram, local, left, flash, history>>

Ready(t) == IF t \in Putters THEN pc[t] = "idle" ELSE pc[t] = "ready"

\* Mutant: without looking for an update in progress
BeginAnyway(t, total, dry) ==
    /\ Ready(t)
    /\ total <= SlotSize
    /\ session' = [NoSession EXCEPT !.state = "receiving", !.dry = dry, !.total = total]
    /\ cancel' = FALSE
    /\ owners' = owners \cup {t}
    /\ left' = [left EXCEPT ![t] = total]
    /\ Goto(t, "opening")
    /\ UNCHANGED <<part, open, headChecked, job, local, flash, intruded>>

\* ota_core_begin(), to the end of its locked section
Begin(t, total, dry) ==
    /\ Ready(t)
    /\ ~InProgress(session.state)
    /\ total <= SlotSize
    /\ session' = [NoSession EXCEPT !.state = "receiving", !.dry = dry, !.total = total]
    /\ cancel' = FALSE
    /\ owners' = owners \cup {t}
    /\ left' = [left EXCEPT ![t] = total]
    /\ Goto(t, "opening")
    /\ UNCHANGED <<part, open, headChecked, job, local, flash, intruded>>

\* ota_core_begin() refuses: the size, or an update in progress
BeginRefused(t, total) ==
    /\ Ready(t)
    /\ InProgress(session.state) \/ total > SlotSize
    /\ Leave(t)
    /\ UNCHANGED <<ram, flash, history>>

\* Only `ota put` has the slot erased there and then
Erased(t) == IF ~session.dry /\ t \in Putters
             THEN [image EXCEPT ![UpdateSlot] = "torn"] ELSE image

\* Mutant: a failure of esp_ota_begin() leaves the session receiving
OpenForgets(t, ok) ==
    /\ pc[t] = "opening"
    /\ part' = UpdateSlot /\ headChecked' = FALSE
    /\ IF ok THEN
            /\ open' = ~session.dry
            /\ image' = Erased(t)
            /\ Goto(t, IF t \in Pullers THEN "resolving" ELSE "transfer")
            /\ UNCHANGED <<local, left, owners>>
       ELSE /\ Leave(t)
            /\ owners' = owners \ {t}
            /\ image' \in {image, Erased(t)} /\ UNCHANGED open
    /\ UNCHANGED <<session, cancel, job, boot, running, intruded>>

\* The rest of ota_core_begin(): the hash, and esp_ota_begin() unless nothing is to be written
Open(t, ok) ==
    /\ pc[t] = "opening"
    /\ part' = UpdateSlot /\ headChecked' = FALSE
    /\ IF ok THEN
            /\ open' = ~session.dry
            /\ image' = Erased(t)
            /\ Goto(t, IF t \in Pullers THEN "resolving" ELSE "transfer")
            /\ UNCHANGED <<session, local, left, owners>>
       ELSE /\ SetFailed
            /\ Leave(t)
            /\ owners' = owners \ {t}
            /\ image' \in {image, Erased(t)}
    /\ UNCHANGED <<cancel, job, boot, running, intruded>>

\* A pull has resolved its target: ota_core_set_source(), from the manifest or the length the server
\* gives, if either does; what then comes may be another number of chunks.
SetSource(p, total, size) ==
    /\ pc[p] = "resolving"
    /\ session' = [session EXCEPT !.total = total]
    /\ left' = [left EXCEPT ![p] = size]
    /\ Goto(p, "transfer")
    /\ UNCHANGED <<cancel, part, open, headChecked, job, local, flash, history>>

----------------------------------------------------------------------------
(* The transfer. *)

\* What ota_core_write() refuses before it looks at the data
Refuses(before) ==
    \/ cancel
    \/ session.total # 0 /\ before + 1 > session.total
    \/ before + 1 > SlotSize

\* ota_core_write() of one chunk, up to its locked section.  `mine`: check_head() finds an
\* application for this chip and project; `ok`: flash takes the chunk.
Write(t, mine, ok) ==
    LET before == session.bytes
        heads == ~Refuses(before) /\ ~headChecked /\ before + 1 >= HeadLen
        writes == ~Refuses(before) /\ (heads => mine) /\ open
    IN  /\ pc[t] = "transfer" /\ left[t] > 0
        /\ left' = [left EXCEPT ![t] = @ - 1]
        /\ headChecked' = (headChecked \/ heads)
        /\ image' = IF writes THEN [image EXCEPT ![part] = "torn"] ELSE image
        /\ local' = [local EXCEPT ![t].bytes = before]
        /\ Goto(t, IF Refuses(before) \/ (heads /\ ~mine) \/ (writes /\ ~ok)
                   THEN "rejecting" ELSE "accepting")
        /\ UNCHANGED <<session, cancel, part, open, job, boot, running, history>>

\* Its locked section, the chunk written
Accept(t) ==
    /\ pc[t] = "accepting"
    /\ session' = [session EXCEPT !.bytes = local[t].bytes + 1]
    /\ local' = [local EXCEPT ![t] = NoLocal]
    /\ Goto(t, "transfer")
    /\ UNCHANGED <<cancel, part, open, headChecked, job, left, flash, history>>

\* Its locked section otherwise: the session ends.  `ota put` has XMODEM to wind up before it
\* looks at the session; the others are done.
Reject(t) ==
    /\ pc[t] = "rejecting"
    /\ SetFailed
    /\ owners' = owners \ {t}
    /\ IF t \in Putters THEN Goto(t, "stopped") /\ UNCHANGED <<local, left>>
                        ELSE Leave(t)
    /\ UNCHANGED <<cancel, part, headChecked, job, flash, intruded>>

\* The transfer itself fails: a dropped connection, a timeout, no memory
Stop(t) ==
    /\ pc[t] \in {"resolving", "transfer"}
    /\ Goto(t, IF t \in Putters THEN "stopped" ELSE "failing")
    /\ UNCHANGED <<ram, local, left, flash, history>>

\* `ota put` fails the session unless it finds it failed already
Look(t) ==
    /\ pc[t] = "stopped"
    /\ IF session.state = "failed" THEN Leave(t) /\ owners' = owners \ {t}
                                   ELSE Goto(t, "failing") /\ UNCHANGED <<local, left, owners>>
    /\ UNCHANGED <<ram, flash, intruded>>

\* Mutant: only the handle is given up
FailCloses(t) ==
    /\ pc[t] = "failing"
    /\ open' = FALSE
    /\ owners' = owners \ {t}
    /\ intruded' = (intruded \/ owners \ {t} # {})
    /\ Leave(t)
    /\ UNCHANGED <<session, cancel, part, headChecked, job, flash>>

\* ota_core_fail()
Fail(t) ==
    /\ pc[t] = "failing"
    /\ open' = FALSE
    /\ session' = IF InProgress(session.state)
                  THEN [session EXCEPT !.state = "failed"] ELSE session
    /\ owners' = owners \ {t}
    /\ intruded' = (intruded \/ owners \ {t} # {})
    /\ Leave(t)
    /\ UNCHANGED <<cancel, part, headChecked, job, flash>>

----------------------------------------------------------------------------
(* ota_core_finish(): a locked section, the checks and esp_ota_end(), a locked section. *)

Finish(t) ==
    /\ pc[t] = "transfer" /\ left[t] = 0
    /\ session' = [session EXCEPT !.state = "verifying"]
    /\ local' = [local EXCEPT ![t].bytes = session.bytes, ![t].total = session.total]
    /\ Goto(t, "verifying")
    /\ UNCHANGED <<cancel, part, open, headChecked, job, left, flash, history>>

\* Mutant: s_cancel is not looked at again
UnfitLate(t) ==
    \/ local[t].total # 0 /\ local[t].bytes # local[t].total
    \/ local[t].bytes < HeadLen

\* What ota_core_finish() refuses before esp_ota_end()
Unfit(t) ==
    \/ cancel
    \/ local[t].total # 0 /\ local[t].bytes # local[t].total
    \/ local[t].bytes < HeadLen

\* `ok`: the hash is the one expected, and esp_ota_end() verifies the image
Verify(t, ok) ==
    LET dry == session.dry
        good == ~Unfit(t) /\ ok /\ (dry \/ open)
    IN  /\ pc[t] = "verifying"
        /\ open' = (open /\ ~good)
        /\ image' = IF good /\ ~dry THEN [image EXCEPT ![part] = "good"] ELSE image
        /\ Goto(t, IF ~good THEN "unverified" ELSE IF dry THEN "counted" ELSE "verified")
        /\ UNCHANGED <<session, cancel, part, headChecked, job, local, left, boot, running, history>>

\* The state each outcome leaves the session in; a good image may be made the boot image next
Conclude(t) ==
    /\ pc[t] \in {"unverified", "counted", "verified"}
    /\ owners' = owners \ {t}
    /\ IF pc[t] = "unverified" THEN SetFailed
       ELSE /\ session' = [session EXCEPT !.state = IF pc[t] = "counted" THEN "idle" ELSE "staged"]
            /\ UNCHANGED open
    /\ IF pc[t] = "verified" THEN Goto(t, "staged") /\ UNCHANGED <<local, left>>
                             ELSE Leave(t)
    /\ UNCHANGED <<cancel, part, headChecked, job, flash, intruded>>

----------------------------------------------------------------------------
(* Choosing the boot image, cancelling, restarting. *)

\* An update that only stages; `ota put` always goes on to activate
LeaveStaged(t) ==
    /\ pc[t] = "staged" /\ t \notin Putters
    /\ Leave(t)
    /\ UNCHANGED <<ram, flash, history>>

\* ota_core_activate(): the state is read in one locked section...  None is the staged image, which
\* is what an update asks for when it has staged one; an asker may name a slot.
Activate(t, slot) ==
    /\ \/ pc[t] = "staged" /\ slot = None
       \/ pc[t] = "idle" /\ t \in Askers /\ (t \in Putters \/ ServerFree)
    /\ local' = [local EXCEPT ![t].state = session.state, ![t].slot = slot]
    /\ Goto(t, "selecting")
    /\ UNCHANGED <<ram, left, flash, history>>

Target(t) == IF local[t].slot = None THEN part ELSE local[t].slot

Selectable(t) ==
    IF local[t].slot = None THEN local[t].state = "staged" /\ part # None
    ELSE ~(InProgress(local[t].state) /\ part = local[t].slot)

\* ...the slot is looked at and chosen with none held: esp_ota_set_boot_partition() wants a whole
\* image.  `ok`: it was not rolled back...
Select(t, ok) ==
    /\ pc[t] = "selecting"
    /\ IF Selectable(t) /\ ok /\ image[Target(t)] = "good" THEN
            /\ boot' = Target(t)
            /\ local' = [local EXCEPT ![t].slot = Target(t)]
            /\ Goto(t, "selected") /\ UNCHANGED left
       ELSE Leave(t) /\ UNCHANGED boot
    /\ UNCHANGED <<ram, image, running, history>>

\* ...and another locked section records it
Selected(t) ==
    /\ pc[t] = "selected"
    /\ session' = IF local[t].state # "staged" \/ local[t].slot # part
                  THEN [NoSession EXCEPT !.state = "active"]
                  ELSE [session EXCEPT !.state = "active"]
    /\ intruded' = (intruded \/ owners # {})
    /\ Leave(t)
    /\ UNCHANGED <<cancel, part, open, headChecked, job, flash, owners>>

\* ota_core_discard(), where it is not refused
Discard ==
    /\ session.state \notin {"verifying", "active"}
    /\ IF session.state = "receiving" THEN cancel' = TRUE /\ UNCHANGED session
       ELSE session' = NoSession /\ UNCHANGED cancel
    /\ UNCHANGED <<part, open, headChecked, job, tasks, flash, history>>

\* Power cut, esp_restart(): the bootloader takes the other slot when the chosen one is not whole
Reset ==
    /\ session' = NoSession /\ cancel' = FALSE /\ part' = None /\ open' = FALSE
    /\ headChecked' = FALSE /\ job' = None
    /\ pc' = [t \in Tasks |-> "idle"]
    /\ local' = [t \in Tasks |-> NoLocal] /\ left' = [t \in Tasks |-> 0]
    /\ running' = IF image[boot] = "good" THEN boot ELSE Other(boot)
    /\ owners' = {} /\ intruded' = FALSE
    /\ UNCHANGED <<image, boot>>

\* `ota pull` on the console: the pull it has started runs on its own task, and it waits...
Follow(t) ==
    /\ pc[t] = "idle" /\ t \in Followers
    /\ \E p \in Pullers : pc[p] = "resolving"
    /\ Goto(t, "following")
    /\ UNCHANGED <<ram, local, left, flash, history>>

\* ...for no update to be in progress, at a look every 250 ms: an image staged by then goes on to be
\* activated, unless it was asked only to be staged
Followed(t, stageOnly) ==
    /\ pc[t] = "following" /\ ~InProgress(session.state)
    /\ IF session.state = "staged" /\ ~stageOnly THEN Goto(t, "staged") /\ UNCHANGED <<local, left>>
       ELSE Leave(t)
    /\ UNCHANGED <<ram, flash, history>>

----------------------------------------------------------------------------
Totals == 0 .. SlotSize + 1

\* An updater's next step
Update(t) ==
    \/ t \in Uploaders /\ (Claim(t) \/ ClaimCheck(t) \/ Release(t))
    \/ t \in Pullers /\ (PullCheck(t) \/ \E total, size \in Totals : SetSource(t, total, size))
    \/ \E total \in Totals :
         /\ total = 0 <=> t \in Pullers
         /\ BeginRefused(t, total) \/ \E dry \in BOOLEAN : (dry => t \in Putters) /\ Begin(t, total, dry)
    \/ \E ok \in BOOLEAN : Open(t, ok) \/ Verify(t, ok) \/ \E mine \in BOOLEAN : Write(t, mine, ok)
    \/ Accept(t) \/ Reject(t) \/ Stop(t) \/ Look(t) \/ Fail(t) \/ Finish(t) \/ Conclude(t)
    \/ LeaveStaged(t)

Choose(t) ==
    \/ \E slot \in Slots \cup {None} : Activate(t, slot)
    \/ \E ok \in BOOLEAN : Select(t, ok)
    \/ Selected(t)
    \/ Follow(t) \/ \E stageOnly \in BOOLEAN : Followed(t, stageOnly)

Next ==
    \/ \E t \in Updaters : Update(t)
    \/ \E t \in Tasks : Choose(t)
    \/ Discard
    \/ Reset

Spec == Init /\ [][Next]_vars

\* A task that has begun something goes on with it: the scheduler runs it, and every wait of a
\* transfer ends (three receive timeouts, XMODEM's retries, the HTTP client's timeout).
GoesOn(t) == pc[t] # "idle" /\ (Choose(t) \/ (t \in Updaters /\ Update(t)))

Fairness == \A t \in Tasks : WF_vars(GoesOn(t))

FairSpec == Spec /\ Fairness

----------------------------------------------------------------------------
(* What is promised. *)

States == {"idle", "receiving", "verifying", "staged", "active", "failed"}
Labels == {"idle", "claimed", "ready", "opening", "resolving", "transfer", "accepting", "rejecting",
           "stopped", "failing", "verifying", "unverified", "counted", "verified", "staged",
           "selecting", "selected", "following", "replying"}
SlotOrNone == Slots \cup {None}

TypeOK ==
    /\ session \in [state : States, dry : BOOLEAN, bytes : Nat, total : Nat]
    /\ cancel \in BOOLEAN /\ part \in SlotOrNone /\ open \in BOOLEAN
    /\ headChecked \in BOOLEAN /\ job \in Uploaders \cup {None}
    /\ pc \in [Tasks -> Labels]
    /\ left \in [Tasks -> Nat]
    /\ local \in [Tasks -> [bytes : Nat, total : Nat, state : States, slot : SlotOrNone]]
    /\ image \in [Slots -> {"good", "torn"}] /\ boot \in Slots /\ running \in Slots
    /\ owners \subseteq Updaters /\ intruded \in BOOLEAN

\* ota_core.h:2, "one application update at a time, whoever brings the image".
OneUpdateAtATime == \A t, u \in owners : t = u

\* One update at a time, until a task ends a session that is not its own: nothing but
\* activate's last section and a late ota_core_fail() can let a second one in.
Exclusive == ~intruded => OneUpdateAtATime

\* An update that shows as in progress has somebody bringing it: no way out of a session, error
\* paths included, leaves it receiving or verifying, refusing every later begin.
InProgressIsOwned == InProgress(session.state) => owners # {}

\* The handle is open only within a session: each of its ends closes it.
HandleIsOwned == ~intruded /\ open => owners # {}

\* ota_core.h:5-7: a staged image is written and good -- all that was announced of it, none of it
\* overwritten since -- and no session cancelled while receiving gets that far.
StagedIsWhole ==
    ~intruded /\ session.state = "staged" =>
        /\ part # None /\ image[part] = "good"
        /\ session.total # 0 => session.bytes = session.total
        /\ ~cancel

\* ota_core.c:4-6: nothing that happens during a session, a power cut at any step included, leaves
\* the board without a working image to boot.
AlwaysBoots ==
    /\ image[running] = "good"
    /\ image[boot] = "good" \/ Other(boot) = running

\* An update ends: it does not stay in progress, whoever lost a connection, was cancelled or failed.
UpdateEnds == InProgress(session.state) ~> ~InProgress(session.state)

\* The web server's one job is always given back, a refused begin and a failed upload included.
JobIsReleased == job # None ~> job = None
=============================================================================
