------------------------------ MODULE Desktop -------------------------------
(***************************************************************************)
(* The window (src/gui/dist/app.js) on top of the backend: one row with a  *)
(* badge per torrent, the buttons the badge offers, and the `stats` and    *)
(* `finished` events that set it.  Events arrive in the order they were    *)
(* emitted; replies of commands take a way of their own.  Rendering of     *)
(* numbers and log lines is left out.                                      *)
(***************************************************************************)
EXTENDS Registry, Sequences

CONSTANT MaxEvents      \* bound: events on their way to the window
ASSUME MaxEventsAssumption == MaxEvents \in Nat \ {0}
\* The toggle button sends one of two commands.
ASSUME ToggleAssumption == "toggle" \in Commands => {"pause", "resume"} \subseteq Commands

VARIABLES
    rows,       \* id -> badge
    added,      \* ids whose add_torrent has answered, row not yet created
    removing,   \* [id, mode] of the remove the window waits for, or NoRemoval
    events,     \* events on their way
    emitter     \* emitter task of each pipeline: its torrent, None once ended

uiVars == <<rows, added, removing, events, emitter>>
desktopVars == <<registryVars, uiVars>>

NoRemoval == [id |-> None, mode |-> None]

\* applyStatus: which buttons a badge offers.
startable(status) == status \in {"stopped", "stalled", "error"}
running(status) == status \in {"downloading", "paused"}

\* DOMContentLoaded: the rows of list_torrents.
DesktopInit ==
    /\ RegistryInit
    /\ rows = Records(torrents)
    /\ added = {}
    /\ removing = NoRemoval
    /\ events = <<>>
    /\ emitter = [k \in Pipelines |-> None]

SetBadge(id, status) ==
    rows' = IF id \in DOMAIN rows THEN [rows EXCEPT ![id] = status] ELSE rows
-----------------------------------------------------------------------------
(* The user *)

\* Requests are taken up on the main thread in order: an add that follows a
\* remove is handled after the remove has run and been answered.
ClickAdd(id) == removing = NoRemoval /\ add_torrent(id) /\ UNCHANGED uiVars
ClickStart(id) == startable(rows[id]) /\ start_torrent(id) /\ UNCHANGED uiVars
togglePause(id) ==
    /\ running(rows[id])
    /\ IF rows[id] = "paused" THEN resume_download(id) ELSE pause_download(id)
    /\ UNCHANGED uiVars

\* doRemove up to the await.
doRemove(id, mode) ==
    /\ removing = NoRemoval
    /\ remove_torrent(id, mode)
    /\ removing' = [id |-> id, mode |-> mode]
    /\ UNCHANGED <<rows, added, events, emitter>>

Click(c, id) ==
    \/ c = "add" /\ ClickAdd(id)
    \/ /\ id \in DOMAIN rows
       /\ \/ c = "start" /\ ClickStart(id)
          \/ c = "toggle" /\ togglePause(id)
          \/ c \in Modes /\ doRemove(id, c)
-----------------------------------------------------------------------------
(* Replies *)

\* createRow(record) once invoke("add_torrent") resolves, with the record as
\* add_torrent made it.
CreateRow(id) ==
    /\ id \in added
    /\ added' = added \ {id}
    /\ rows' = [i \in DOMAIN rows \cup {id} |-> IF i = id THEN "downloading" ELSE rows[i]]
    /\ UNCHANGED <<registryVars, removing, events, emitter>>

\* The rest of doRemove, once the command has run on the main thread.
RemoveReplies_row_kept ==
    /\ removing # NoRemoval
    /\ pc["main"] = "idle"
    /\ removing' = NoRemoval
    /\ UNCHANGED <<registryVars, rows, added, events, emitter>>
RemoveReplies ==
    /\ removing # NoRemoval
    /\ pc["main"] = "idle"
    /\ IF removing.mode = "data_only"
       THEN SetBadge(removing.id, "stopped")
       ELSE rows' = [i \in DOMAIN rows \ {removing.id} |-> rows[i]]
    /\ removing' = NoRemoval
    /\ UNCHANGED <<registryVars, added, events, emitter>>
-----------------------------------------------------------------------------
(* Events *)

Emit(kind, k, id, status) ==
    /\ Len(events) < MaxEvents
    /\ events' = Append(events, [kind |-> kind, from |-> k, id |-> id, status |-> status])

\* The badge render() derives from a snapshot of pipeline k.
SnapshotBadge(k) ==
    IF k \in complete THEN "complete"
    ELSE IF control[k] = "Paused" THEN "paused" ELSE "downloading"

\* `finished` is set when run has returned.
finished(k) == pc[k] \notin {"published", "running"}

\* One turn of the stats emitter.
EmitStats_until_complete(k) ==
    /\ emitter[k] # None
    /\ Emit("stats", k, emitter[k], SnapshotBadge(k))
    /\ emitter' = [emitter EXCEPT ![k] = IF k \in complete THEN None ELSE @]
    /\ UNCHANGED <<registryVars, rows, added, removing>>
EmitStats(k) ==
    /\ emitter[k] # None
    /\ Emit("stats", k, emitter[k], SnapshotBadge(k))
    /\ emitter' = [emitter EXCEPT ![k] = IF k \in complete \/ finished(k) THEN None ELSE @]
    /\ UNCHANGED <<registryVars, rows, added, removing>>

\* The pipeline publishes its coordinator and starts its emitter.
PublishAndEmit(k) ==
    /\ Publish(k)
    /\ emitter' = [emitter EXCEPT ![k] = IF Has(job[k].id) THEN job[k].id ELSE None]
    /\ UNCHANGED <<rows, added, removing, events>>

\* emitter.await, the last snapshot, and the final status.
SettleAfterEmitter(k) ==
    /\ emitter[k] = None
    /\ Settle(k)
    /\ Emit("stats", k, job[k].id, SnapshotBadge(k))
    /\ UNCHANGED <<rows, added, removing, emitter>>

Finish(k) ==
    /\ EmitFinished(k)
    /\ Emit("finished", k, job[k].id,
            IF job[k].status = "error" THEN "error" ELSE final_status(k))
    /\ UNCHANGED <<rows, added, removing, emitter>>

\* render and the listener of `finished`: both ignore a torrent without a row.
Deliver ==
    /\ events # <<>>
    /\ SetBadge(Head(events).id, Head(events).status)
    /\ events' = Tail(events)
    /\ UNCHANGED <<registryVars, added, removing, emitter>>

\* A task slot is reused when the emitter of its last pipeline is gone too.
SpawnAndReply(a) ==
    /\ spawn_pipeline(a)
    /\ \A k \in Pipelines : pc'[k] # pc[k] => emitter[k] = None
    /\ added' = IF a = "add" THEN added \cup {job[a].id} ELSE added
    /\ UNCHANGED <<rows, removing, events, emitter>>
-----------------------------------------------------------------------------
BackendStep(k) ==
    /\ SaveStep(k) \/ PipelineFails(k) \/ CreateStorage(k) \/ RunStarts(k) \/ WriterEnds(k)
    /\ UNCHANGED uiVars
EngineStep(k) == (EngineCompletes(k) \/ RunReturns(k)) /\ UNCHANGED uiVars
TaskStep(k) ==
    BackendStep(k) \/ PublishAndEmit(k) \/ SettleAfterEmitter(k) \/ Finish(k)
HandlersStep ==
    \/ (DropEntry \/ delete_data \/ SaveStep("main") \/ SaveStep("add")) /\ UNCHANGED uiVars
    \/ SpawnAndReply("main") \/ SpawnAndReply("add")
WindowStep == Deliver \/ RemoveReplies \/ \E id \in Ids : CreateRow(id)

DesktopNext ==
    \/ \E c \in Commands, id \in Ids : Click(c, id)
    \/ HandlersStep \/ WindowStep
    \/ \E k \in Pipelines : TaskStep(k) \/ EmitStats(k) \/ EngineStep(k)

DesktopSpec == DesktopInit /\ [][DesktopNext]_desktopVars

\* The runtime polls ready tasks, and the window is handed its events.
FairDesktopSpec ==
    /\ DesktopSpec
    /\ WF_desktopVars(Deliver) /\ WF_desktopVars(HandlersStep)
    /\ \A k \in Pipelines : WF_desktopVars(TaskStep(k)) /\ SF_desktopVars(EmitStats(k))
-----------------------------------------------------------------------------
\* The window shows a row for exactly the torrents of the registry whenever no
\* add or remove is under way, although rows are made from replies and removed
\* on replies while pipelines come and go.
RowsMatchRegistry ==
    /\ removing = NoRemoval /\ added = {} /\ pc["add"] = "idle"
    /\ pc["main"] = "idle"
    => DOMAIN rows = DOMAIN torrents

\* A pipeline whose engine has returned always gets to report it: neither the
\* emitter it waits for nor saving the list can hold it up, complete or not.
FinishedReported ==
    \A k \in Pipelines : pc[k] = "flushing" ~> pc[k] = "ended"

\* The emitter sends snapshots "until finished": no snapshot of a pipeline
\* reaches the window behind its `finished` event.
FinishedIsLast ==
    \A i, j \in DOMAIN events :
        i < j /\ events[i].kind = "finished" /\ events[i].from = events[j].from
        => events[j].kind # "stats"

\* render trusts that "a later snapshot won't revert" a completion.
CompletionNotReverted ==
    [][\A id \in DOMAIN rows \cap DOMAIN rows' :
        rows[id] = "complete" /\ Deliver /\ Head(events).kind = "stats"
        => rows'[id] = "complete"]_desktopVars
=============================================================================
