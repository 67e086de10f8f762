------------------------------ MODULE Registry ------------------------------
(***************************************************************************)
(* The GUI backend (src/gui/src/main.rs): the registry of torrents behind  *)
(* one Mutex, the commands of the window, one pipeline task per start, and *)
(* the file torrents.json the registry is saved to and restored from.      *)
(*                                                                         *)
(* A step is one lock section, one operation on the file, or one await of  *)
(* a pipeline.  Synchronous commands run one after another on the main     *)
(* thread ("main"); add_torrent ("add") and the pipelines run on the async *)
(* runtime, in parallel.  The engine is reduced to what its caller sees:   *)
(* control calls reach it only while its tasks are subscribed (as in       *)
(* ControlCall of Coordinator), it may complete, and run returns.          *)
(***************************************************************************)
EXTENDS Integers, FiniteSets, FiniteSetsExt

CONSTANTS
    Ids,            \* torrents, by info-hash
    Commands,       \* the commands the window sends
    Faults,         \* of "save" (a save may fail), "quit" (the process may end)
    InitialFiles,   \* what an earlier session may have saved: id -> status
    Pipelines       \* bound: pipelines alive at one time

VARIABLES
    torrents,       \* AppState: id -> [status, coordinator]
    pc,             \* where each actor stands
    job,            \* its torrent, a status to set, the records it collected,
                    \* and where it goes on after saving
    control,        \* ControlState of each pipeline's coordinator
    complete,       \* pipelines whose engine has verified every piece
    store,          \* torrents.json: length, contents if it parses
    linked,         \* pipelines whose open files are the ones in the output
    whole,          \* torrents whose files hold the whole content
    \* for the properties only:
    earned,         \* torrents some pipeline verified and flushed
    spoiled         \* the last save overlapped another one, or failed

registryVars == <<torrents, pc, job, control, complete, store, linked, whole,
                  earned, spoiled>>
engineView == <<control, complete, linked, whole, earned>>
fileView == <<store, spoiled>>

Actors == {"main", "add"} \cup Pipelines
None == "none"
Stale == "stale"    \* in a handle: a coordinator whose pipeline has ended

\* Pipelines are told from the other actors and from the marks in a handle.
ASSUME PipelinesAssumption == Pipelines \cap {"main", "add", None, Stale} = {}

StatusLen == [downloading |-> 11, paused |-> 6, complete |-> 8, stopped |-> 7,
              stalled |-> 7, error |-> 5]
Statuses == DOMAIN StatusLen

\* A list is finite, and what an earlier session saved is a list.
ASSUME IdsAssumption ==
    /\ IsFiniteSet(Ids)
    /\ \A f \in InitialFiles : DOMAIN f \subseteq Ids /\ \A id \in DOMAIN f : f[id] \in Statuses

Has(id) == id \in DOMAIN torrents
Records(map) == [id \in DOMAIN map |-> map[id].status]

\* The JSON text of a record differs in length only by its status; the rest is
\* longer than any difference between two statuses.
RecordLen == 100
text_len(records) ==
    2 + MapThenSumSet(LAMBDA id : RecordLen + StatusLen[records[id]],
                      DOMAIN records)

Unreadable(n) == [len |-> n, parses |-> FALSE, records |-> <<>>]
Text(records) ==
    [len |-> text_len(records), parses |-> TRUE, records |-> records]

\* restore: what the registry holds after a start; a file that is missing or
\* does not parse counts as an empty list.
restored_status(s) == IF s = "complete" THEN s ELSE "stopped"
restore ==
    [id \in DOMAIN store.records |->
        [status |-> restored_status(store.records[id]), coordinator |-> None]]

NoJob == [id |-> None, status |-> None, records |-> <<>>, then |-> "idle"]

RegistryInit ==
    /\ store \in {Unreadable(0)} \cup {Text(f) : f \in InitialFiles}
    /\ torrents = restore
    /\ pc = [a \in Actors |-> IF a \in Pipelines THEN "ended" ELSE "idle"]
    /\ job = [a \in Actors |-> NoJob]
    /\ control = [k \in Pipelines |-> "Running"]
    /\ complete = {}
    /\ linked = {}
    /\ earned = {id \in DOMAIN torrents : torrents[id].status = "complete"}
    /\ whole = earned
    /\ spoiled = TRUE
-----------------------------------------------------------------------------
GoTo(a, place) == pc' = [pc EXCEPT ![a] = place]
Assign(a, id, status, then) ==
    job' = [job EXCEPT ![a] = [id |-> id, status |-> status, records |-> <<>>,
                               then |-> then]]

\* persist, in three steps: the records under the lock; File::create, which
\* truncates; the write, at offset 0 of what the file holds by then.
Saving(a) == pc[a] \in {"truncate", "write"}

Collect(a) ==
    /\ pc[a] = "collect"
    /\ job' = [job EXCEPT ![a].records = Records(torrents)]
    /\ spoiled' = \E b \in Actors : Saving(b)
    /\ GoTo(a, "truncate")
    /\ UNCHANGED <<torrents, engineView, store>>

Truncate(a) ==
    /\ pc[a] = "truncate"
    /\ store' = Unreadable(0)
    /\ GoTo(a, "write")
    /\ UNCHANGED <<torrents, job, engineView, spoiled>>

\* A shorter text over a longer one leaves the tail of the longer one.
written(records) ==
    IF store.len <= text_len(records) THEN Text(records) ELSE Unreadable(store.len)

Saved(a) ==
    /\ GoTo(a, job[a].then)
    /\ job' = [job EXCEPT ![a] =
                IF @.then = "idle" THEN NoJob
                                   ELSE [@ EXCEPT !.records = <<>>]]
    /\ UNCHANGED <<torrents, engineView>>

Write(a) ==
    /\ pc[a] = "write"
    /\ store' = written(job[a].records)
    /\ UNCHANGED spoiled
    /\ Saved(a)

\* Errors of saving are ignored: of the directory or File::create (the file is
\* left alone) or of the write (it is left truncated).
SaveFails(a) ==
    /\ "save" \in Faults
    /\ Saving(a)
    /\ spoiled' = TRUE
    /\ UNCHANGED store
    /\ Saved(a)

\* The lock section of set_status.
set_status(a) ==
    /\ pc[a] = "status"
    /\ torrents' = IF Has(job[a].id)
                   THEN [torrents EXCEPT ![job[a].id].status = job[a].status]
                   ELSE torrents
    /\ GoTo(a, "collect")
    /\ UNCHANGED <<job, engineView, fileView>>
-----------------------------------------------------------------------------
\* Coordinator::pause, resume, cancel through the handle: heard only while the
\* engine's tasks hold receivers.
send(id, c) ==
    control' = IF Has(id) /\ torrents[id].coordinator \in Pipelines
                          /\ pc[torrents[id].coordinator] = "running"
               THEN [control EXCEPT ![torrents[id].coordinator] = c]
               ELSE control

\* pause_download, resume_download, cancel_download: the call, made under the
\* lock; set_status follows as a section of its own.
ControlCommand(id, c, status) ==
    /\ pc["main"] = "idle"
    /\ send(id, c)
    /\ Assign("main", id, status, "idle")
    /\ GoTo("main", "status")
    /\ UNCHANGED <<torrents, complete, linked, whole, earned, fileView>>

pause_download(id) == ControlCommand(id, "Paused", "paused")
resume_download(id) == ControlCommand(id, "Running", "downloading")
cancel_download(id) == ControlCommand(id, "Cancelled", "stopped")

\* remove_torrent, in three steps.  First lock section: the entry must exist.
Modes == {"list", "list_and_data", "data_only"}
remove_torrent(id, mode) ==
    /\ pc["main"] = "idle"
    /\ Has(id)
    /\ send(id, "Cancelled")
    /\ torrents' = [torrents EXCEPT
                     ![id].coordinator = None,
                     ![id].status = IF mode = "data_only" THEN "stopped" ELSE @]
    /\ Assign("main", id, None, "idle")
    /\ GoTo("main", CASE mode = "list" -> "drop"
                      [] mode = "list_and_data" -> "dropAndDelete"
                      [] mode = "data_only" -> "delete")
    /\ UNCHANGED <<complete, linked, whole, earned, fileView>>

\* Second lock section.
DropEntry ==
    /\ pc["main"] \in {"drop", "dropAndDelete"}
    /\ torrents' = [i \in DOMAIN torrents \ {job["main"].id} |-> torrents[i]]
    /\ GoTo("main", IF pc["main"] = "drop" THEN "collect" ELSE "delete")
    /\ UNCHANGED <<job, engineView, fileView>>

\* Pipelines keep writing to files that have no name any more.
delete_data ==
    /\ pc["main"] = "delete"
    /\ linked' = {k \in linked : job[k].id # job["main"].id}
    /\ whole' = whole \ {job["main"].id}
    /\ GoTo("main", "collect")
    /\ UNCHANGED <<torrents, job, control, complete, earned, fileView>>

\* add_torrent; a duplicate is refused and nothing changes.
Inserted(id) ==
    [i \in DOMAIN torrents \cup {id} |->
        IF i = id THEN [status |-> "downloading", coordinator |-> None]
                  ELSE torrents[i]]
add_torrent(id) ==
    /\ pc["add"] = "idle"
    /\ ~ Has(id)
    /\ torrents' = Inserted(id)
    /\ Assign("add", id, None, "spawn")
    /\ GoTo("add", "collect")
    /\ UNCHANGED <<engineView, fileView>>

\* start_torrent: refused for an unknown torrent or one with a coordinator.
start_torrent(id) ==
    /\ pc["main"] = "idle"
    /\ Has(id)
    /\ torrents[id].coordinator = None
    /\ Assign("main", id, "downloading", "spawn")
    /\ GoTo("main", "status")
    /\ UNCHANGED <<torrents, engineView, fileView>>

\* spawn_pipeline, once a slot is free.
spawn_pipeline(a) ==
    /\ a \in {"main", "add"}
    /\ pc[a] = "spawn"
    /\ \E k \in Pipelines :
        /\ pc[k] = "ended"
        /\ pc' = [pc EXCEPT ![a] = "idle", ![k] = "announcing"]
        /\ job' = [job EXCEPT ![a] = NoJob,
                              ![k] = [NoJob EXCEPT !.id = job[a].id, !.then = "emit"]]
        /\ control' = [control EXCEPT ![k] = "Running"]
        /\ complete' = complete \ {k}
    /\ UNCHANGED <<torrents, linked, whole, earned, fileView>>
-----------------------------------------------------------------------------
(* run_pipeline *)

\* Metainfo, announce, Storage::create or Coordinator::new failed, or the writer
\* (at consumer.await): the error leaves run_pipeline, spawn_pipeline handles it.
PipelineFails_silent(k) ==
    /\ pc[k] \in {"announcing", "publishing", "flushing"}
    /\ GoTo(k, "emit")
    /\ UNCHANGED <<torrents, job, engineView, fileView>>
PipelineFails(k) ==
    /\ pc[k] \in {"announcing", "publishing", "flushing"}
    /\ job' = [job EXCEPT ![k].status = "error"]
    /\ GoTo(k, "status")
    /\ UNCHANGED <<torrents, engineView, fileView>>

\* Storage::create opens the files of the torrent, making those not there.
CreateStorage(k) ==
    /\ pc[k] = "announcing"
    /\ linked' = linked \cup {k}
    /\ GoTo(k, "publishing")
    /\ UNCHANGED <<torrents, job, control, complete, whole, earned, fileView>>

\* The task ends and drops its files; a handle may keep its coordinator.
Ends(k) ==
    /\ GoTo(k, "ended")
    /\ torrents' = [id \in DOMAIN torrents |->
                     [torrents[id] EXCEPT !.coordinator = IF @ = k THEN Stale ELSE @]]
    /\ job' = [job EXCEPT ![k] = NoJob]
    /\ linked' = linked \ {k}
    /\ UNCHANGED <<control, complete, whole, earned>>

Publish(k) ==
    /\ pc[k] = "publishing"
    /\ IF Has(job[k].id)
       THEN /\ torrents' = [torrents EXCEPT ![job[k].id].coordinator = k]
            /\ GoTo(k, "published")
            /\ UNCHANGED <<job, engineView>>
       ELSE Ends(k)
    /\ UNCHANGED fileView

\* Coordinator::run subscribes its tasks; from here on control is heard.
RunStarts(k) ==
    /\ pc[k] = "published"
    /\ GoTo(k, "running")
    /\ UNCHANGED <<torrents, job, engineView, fileView>>

EngineCompletes(k) ==
    /\ pc[k] = "running"
    /\ complete' = complete \cup {k}
    /\ UNCHANGED <<torrents, pc, job, control, linked, whole, earned, fileView>>

RunReturns(k) ==
    /\ pc[k] = "running"
    /\ GoTo(k, "flushing")
    /\ UNCHANGED <<torrents, job, engineView, fileView>>

\* The writer has written and flushed every piece it was sent.
WriterEnds(k) ==
    /\ pc[k] = "flushing"
    /\ GoTo(k, "settling")
    /\ whole' = IF k \in complete \cap linked THEN whole \cup {job[k].id} ELSE whole
    /\ earned' = IF k \in complete THEN earned \cup {job[k].id} ELSE earned
    /\ UNCHANGED <<torrents, job, control, complete, linked, fileView>>

\* The status the final snapshot gives.  Control calls are no longer heard and
\* no piece is verified any more, so it does not matter when it is taken.
final_status_as_label(k) ==
    IF k \in complete THEN "finished"
    ELSE IF control[k] = "Cancelled" THEN "stopped" ELSE "stalled"
final_status_optimistic(k) ==
    IF control[k] = "Cancelled" THEN "stopped" ELSE "complete"
final_status(k) ==
    IF k \in complete THEN "complete"
    ELSE IF control[k] = "Cancelled" THEN "stopped" ELSE "stalled"

Settled(k) == [status |-> final_status(k), coordinator |-> None]
Settle_inserts(k) ==
    /\ pc[k] = "settling"
    /\ torrents' = [i \in DOMAIN torrents \cup {job[k].id} |->
                     IF i = job[k].id
                     THEN Settled(k)
                     ELSE torrents[i]]
    /\ GoTo(k, "collect")
    /\ UNCHANGED <<job, engineView, fileView>>
Settle_unsaved(k) ==
    /\ pc[k] = "settling"
    /\ torrents' = IF Has(job[k].id)
                   THEN [torrents EXCEPT ![job[k].id] =
                            Settled(k)]
                   ELSE torrents
    /\ GoTo(k, "emit")
    /\ UNCHANGED <<job, engineView, fileView>>
Settle(k) ==
    /\ pc[k] = "settling"
    /\ torrents' = IF Has(job[k].id)
                   THEN [torrents EXCEPT ![job[k].id] =
                            Settled(k)]
                   ELSE torrents
    /\ GoTo(k, "collect")
    /\ UNCHANGED <<job, engineView, fileView>>

\* The `finished` event is the last thing a pipeline does.
EmitFinished(k) ==
    /\ pc[k] = "emit"
    /\ Ends(k)
    /\ UNCHANGED fileView

\* The process ends, by the user or not, and is started again: main restores
\* the registry before the window exists.
Restart ==
    /\ "quit" \in Faults
    /\ torrents' = restore
    /\ pc' = [a \in Actors |-> IF a \in Pipelines THEN "ended" ELSE "idle"]
    /\ job' = [a \in Actors |-> NoJob]
    /\ control' = [k \in Pipelines |-> "Running"]
    /\ complete' = {}
    /\ linked' = {}
    /\ spoiled' = TRUE
    /\ UNCHANGED <<store, whole, earned>>
-----------------------------------------------------------------------------
Command(c, id) ==
    \/ c = "pause" /\ pause_download(id)
    \/ c = "resume" /\ resume_download(id)
    \/ c = "cancel" /\ cancel_download(id)
    \/ c \in Modes /\ remove_torrent(id, c)
    \/ c = "start" /\ start_torrent(id)
    \/ c = "add" /\ add_torrent(id)

\* The steps an actor takes on its own.
SaveStep(a) ==
    Collect(a) \/ Truncate(a) \/ Write(a) \/ SaveFails(a) \/ set_status(a)
HandlerStep ==
    DropEntry \/ delete_data \/ \E a \in {"main", "add"} : SaveStep(a) \/ spawn_pipeline(a)
PipelineStep(k) ==
    \/ SaveStep(k) \/ PipelineFails(k) \/ CreateStorage(k) \/ Publish(k)
    \/ RunStarts(k) \/ WriterEnds(k) \/ Settle(k) \/ EmitFinished(k)

RegistryNext ==
    \/ \E c \in Commands, id \in Ids : Command(c, id)
    \/ HandlerStep \/ Restart
    \/ \E k \in Pipelines : PipelineStep(k) \/ EngineCompletes(k) \/ RunReturns(k)

RegistrySpec == RegistryInit /\ [][RegistryNext]_registryVars
-----------------------------------------------------------------------------
RegistryTypeOK ==
    /\ DOMAIN torrents \subseteq Ids
    /\ \A id \in DOMAIN torrents :
        torrents[id] \in [status : Statuses, coordinator : Pipelines \cup {None, Stale}]
    /\ control \in [Pipelines -> {"Running", "Paused", "Cancelled"}]
    /\ complete \subseteq Pipelines /\ linked \subseteq Pipelines
    /\ whole \subseteq earned /\ earned \subseteq Ids
    /\ store.len \in Nat /\ (store.parses => store = Text(store.records))

\* "complete", in the registry or in the file a restart would read, is only
\* ever said of a torrent that a pipeline verified to the last piece and whose
\* writer flushed without an error, whatever commands, failures, overlapping
\* saves and restarts happened in between.
CompleteEarned ==
    /\ \A id \in DOMAIN torrents : torrents[id].status = "complete" => id \in earned
    /\ \A id \in DOMAIN store.records : store.records[id] = "complete" => id \in earned

\* A torrent that nobody works on any more and that is shown as downloading: no
\* pipeline that has yet to set its status, and no command about to spawn one.
Settling(k) == pc[k] \notin {"collect", "truncate", "write", "emit", "ended"}
Unattended(id) ==
    /\ Has(id) /\ torrents[id].status = "downloading"
    /\ \A a \in Actors : job[a].id = id =>
           IF a \in Pipelines THEN ~ Settling(a) ELSE job[a].then # "spawn"

\* No failure, removal, restart or end of a pipeline leaves a torrent shown as
\* downloading for ever.  Only resume_download can: it sets the status of a
\* torrent that does not run as well.
DownloadingIsAttended ==
    [][\A id \in Ids : ~ Unattended(id) /\ Unattended(id)' =>
          pc["main"] = "status" /\ job["main"].id = id /\ job["main"].then = "idle"]_registryVars

\* A pipeline that outlives its entry never brings it back: an id enters the
\* registry only through add_torrent or a restart.
NoResurrection ==
    [][\A id \in Ids : ~ Has(id) /\ id \in DOMAIN torrents'
          => add_torrent(id) \/ Restart]_registryVars

\* Nobody is between a change of the registry and the end of its save.
Quiet == \A a \in Actors : pc[a] \notin {"status", "drop", "dropAndDelete",
                                        "delete", "collect", "truncate", "write"}

\* Every operation that changes the registry saves it before it ends: when
\* nobody is changing or saving, and the last save neither overlapped another
\* nor failed, the file holds exactly the registry, and a restart loses nothing.
\* (A publication changes the handle, not the record.)
SerialSavesExact ==
    Quiet /\ ~ spoiled => store.parses /\ store.records = Records(torrents)

\* What the comments promise of persistence ("the list survives restarts",
\* "completed ones stay complete"): once nobody is changing or saving the
\* registry, a restart would bring back the same list and every completion.
ListSurvives ==
    Quiet => /\ DOMAIN restore = DOMAIN torrents
             /\ \A id \in DOMAIN torrents :
                 torrents[id].status = "complete" => restore[id].status = "complete"

\* The coordinator of a handle is that of a running download ("the running
\* coordinator (absent when stopped/restored)").
CoordinatorIsRunning == \A id \in DOMAIN torrents : torrents[id].coordinator # Stale

\* And a download that runs, and has not been told to stop, has its coordinator in
\* the handle of its torrent, where the commands look for it.
RunningHasCoordinator ==
    \A k \in Pipelines :
        pc[k] = "running" /\ control[k] # "Cancelled" /\ Has(job[k].id)
        => torrents[job[k].id].coordinator # None

\* One torrent is downloaded by one engine at a time, which start_torrent means
\* to ensure with "Torrent is already running."
OneEngine ==
    \A k, l \in Pipelines :
        pc[k] = "running" /\ pc[l] = "running" /\ job[k].id = job[l].id => k = l

\* pause_download is a "no-op if not running".
PausedIsRunning ==
    Quiet => \A id \in DOMAIN torrents :
        torrents[id].status = "paused" =>
            \E k \in Pipelines : job[k].id = id /\ pc[k] # "ended"

\* pause_download is to "pause torrent `id`": the engine of a torrent that is shown
\* as paused is paused.
PausedIsHeld ==
    Quiet => \A k \in Pipelines :
        pc[k] = "running" /\ Has(job[k].id) /\ torrents[job[k].id].status = "paused"
        => control[k] = "Paused"

\* data_only means "delete its files but keep the entry (stopped)": no torrent
\* whose files are gone is shown as complete.
CompleteHasFiles ==
    \A id \in DOMAIN torrents : torrents[id].status = "complete" => id \in whole
=============================================================================
