--------------------------- MODULE RegistryProofs ---------------------------
(***************************************************************************)
(* The backend of the desktop program and its window, for any number of    *)
(* torrents and of pipelines, two on one torrent included, any commands,   *)
(* faults and files to start from.                                         *)
(***************************************************************************)
EXTENDS Desktop, FoldTheorems

(***************************************************************************)
(* "complete" is earned.  CompleteEarned is not inductive: a status or a   *)
(* record on its way into the registry or the file must be earned before   *)
(* it gets there.                                                          *)
(***************************************************************************)
Handle(h) == [status |-> h.status, coordinator |-> h.coordinator]
JobOK(j, verified) ==
    /\ j = [id |-> j.id, status |-> j.status, records |-> j.records, then |-> j.then]
    /\ \A id \in DOMAIN j.records : j.records[id] = "complete" => id \in verified
    /\ j.status # "complete"
    /\ j.then \in {"idle", "spawn", "emit"}

HandlesInv ==
    /\ torrents = [id \in DOMAIN torrents |-> torrents[id]]
    /\ \A id \in DOMAIN torrents :
        torrents[id] = Handle(torrents[id]) /\ (torrents[id].status = "complete" => id \in earned)
FileInv == \A id \in DOMAIN store.records : store.records[id] = "complete" => id \in earned
JobsInv ==
    /\ job = [a \in Actors |-> job[a]]
    /\ \A a \in Actors : JobOK(job[a], earned)
\* A pipeline about to settle a completed download has had it flushed.
SettlingInv ==
    /\ pc = [a \in Actors |-> pc[a]]
    /\ \A k \in Pipelines : pc[k] = "settling" /\ k \in complete => job[k].id \in earned

RegistryInv == HandlesInv /\ FileInv /\ JobsInv /\ SettlingInv

\* Who acts: the main thread, add_torrent and the pipelines.
LEMMA ActorsAre ==
    /\ "main" \in Actors /\ "add" \in Actors /\ Pipelines \subseteq Actors
    /\ "main" \notin Pipelines /\ "add" \notin Pipelines
BY PipelinesAssumption DEF Actors

\* A job there is not.
LEMMA NoJobOK == ASSUME NEW e PROVE JobOK(NoJob, e)
<1>1. DOMAIN NoJob.records = {}  BY DEF NoJob
<1>. QED  BY <1>1 DEF JobOK, NoJob, None

\* The invariant holds of any file to start from.
LEMMA RegistryInitInv == RegistryInit => RegistryInv
<1>. SUFFICES ASSUME RegistryInit PROVE RegistryInv
  OBVIOUS
<1>1. torrents = restore  BY DEF RegistryInit
<1>2. DOMAIN torrents = DOMAIN store.records
  BY <1>1 DEF restore
<1>3. \A id \in DOMAIN store.records : store.records[id] = "complete" => torrents[id].status = "complete"
  BY <1>1 DEF restore, restored_status
<1>4. earned = {id \in DOMAIN torrents : torrents[id].status = "complete"}  BY DEF RegistryInit
<1>5. HandlesInv  BY <1>1, <1>4 DEF HandlesInv, Handle, restore
<1>6. FileInv  BY <1>2, <1>3, <1>4 DEF FileInv
<1>7. JobsInv  BY NoJobOK DEF JobsInv, RegistryInit
<1>8. SettlingInv  BY ActorsAre DEF SettlingInv, RegistryInit
<1>. QED  BY <1>5, <1>6, <1>7, <1>8 DEF RegistryInv

\* One actor's job is replaced by another that says nothing unearned.
LEMMA JobReplaced ==
    ASSUME JobsInv, NEW a \in Actors, NEW j, JobOK(j, earned),
           job' = [job EXCEPT ![a] = j], UNCHANGED earned
    PROVE  JobsInv' /\ job'[a] = j /\ \A b \in Actors \ {a} : job'[b] = job[b]
BY DEF JobsInv

\* One actor moves on, and not to the place before settling.
LEMMA PlaceChanged ==
    ASSUME SettlingInv, NEW a \in Actors, NEW p, p # "settling",
           pc' = [pc EXCEPT ![a] = p], UNCHANGED <<complete, earned>>,
           \A b \in Pipelines \ {a} : job'[b].id = job[b].id
    PROVE  SettlingInv'
BY ActorsAre DEF SettlingInv

\* A job that has written keeps the invariant.
LEMMA SavedInv ==
    ASSUME RegistryInv, NEW a \in Actors, Saved(a)
    PROVE  HandlesInv' /\ JobsInv' /\ SettlingInv'
<1>. DEFINE j == job[a]
            kept == [id |-> j.id, status |-> j.status, records |-> <<>>, then |-> j.then]
            next == IF j.then = "idle" THEN NoJob ELSE kept
<1>1. JobOK(j, earned)  BY DEF RegistryInv, JobsInv
<1>2. [j EXCEPT !.records = <<>>] = kept  BY <1>1 DEF JobOK
<1>3. job' = [job EXCEPT ![a] = next]  BY <1>2 DEF Saved
<1>4. JobOK(kept, earned)  BY <1>1 DEF JobOK
<1>5. JobOK(next, earned)  BY <1>4, NoJobOK
<1>6. UNCHANGED <<torrents, complete, earned>>  BY DEF Saved, engineView
<1>. HIDE DEF next
<1>7. JobsInv' /\ \A b \in Actors \ {a} : job'[b] = job[b]
  BY <1>3, <1>5, <1>6, JobReplaced DEF RegistryInv
<1>8. pc' = [pc EXCEPT ![a] = j.then] /\ j.then # "settling"
  BY <1>1 DEF Saved, GoTo, JobOK
<1>9. SettlingInv'
  BY <1>6, <1>7, <1>8, PlaceChanged, ActorsAre DEF RegistryInv
<1>10. HandlesInv'  BY <1>6 DEF RegistryInv, HandlesInv
<1>. QED  BY <1>7, <1>9, <1>10

\* A command takes up a new job.
LEMMA AssignedInv ==
    ASSUME RegistryInv, NEW a \in Actors, NEW id, NEW status, NEW then,
           NEW p, p # "settling", status # "complete", then \in {"idle", "spawn", "emit"},
           Assign(a, id, status, then), GoTo(a, p), UNCHANGED <<complete, earned>>
    PROVE  JobsInv' /\ SettlingInv'
<1>. DEFINE j == [id |-> id, status |-> status, records |-> <<>>, then |-> then]
<1>1. JobOK(j, earned)  BY DEF JobOK
<1>2. job' = [job EXCEPT ![a] = j]  BY DEF Assign
<1>. HIDE DEF j
<1>3. JobsInv' /\ \A b \in Actors \ {a} : job'[b] = job[b]
  BY <1>1, <1>2, JobReplaced DEF RegistryInv
<1>4. SettlingInv'
  BY <1>3, PlaceChanged, ActorsAre DEF RegistryInv, GoTo
<1>. QED  BY <1>3, <1>4

\* A step that changes no job and takes one actor to another place.
LEMMA MovedInv ==
    ASSUME RegistryInv, NEW a \in Actors, NEW p, p # "settling", GoTo(a, p),
           UNCHANGED <<job, complete, earned>>
    PROVE  JobsInv' /\ SettlingInv'
<1>1. JobsInv'  BY DEF RegistryInv, JobsInv
<1>2. SettlingInv'  BY PlaceChanged, ActorsAre DEF RegistryInv, GoTo
<1>. QED  BY <1>1, <1>2

\* So does a pipeline that ends.
LEMMA EndsInv ==
    ASSUME RegistryInv, NEW k \in Pipelines, Ends(k), UNCHANGED fileView
    PROVE  RegistryInv'
<1>1. job' = [job EXCEPT ![k] = NoJob] /\ UNCHANGED <<complete, earned, store>>
  BY DEF Ends, fileView
<1>2. JobsInv' /\ \A b \in Actors \ {k} : job'[b] = job[b]
  BY <1>1, NoJobOK, JobReplaced, ActorsAre DEF RegistryInv
<1>3. SettlingInv'
  BY <1>1, <1>2, PlaceChanged, ActorsAre DEF RegistryInv, Ends, GoTo
<1>4. FileInv'  BY <1>1 DEF RegistryInv, FileInv
<1>5. DOMAIN torrents' = DOMAIN torrents /\ torrents' = [id \in DOMAIN torrents' |-> torrents'[id]]
  BY DEF Ends
<1>6. ASSUME NEW id \in DOMAIN torrents
      PROVE  torrents'[id] = Handle(torrents'[id]) /\ torrents'[id].status = torrents[id].status
  <2>1. torrents[id] = Handle(torrents[id])  BY DEF RegistryInv, HandlesInv
  <2>2. torrents'[id] = [torrents[id] EXCEPT !.coordinator = IF @ = k THEN Stale ELSE @]
    BY DEF Ends
  <2>. QED  BY <2>1, <2>2 DEF Handle
<1>7. HandlesInv'  BY <1>1, <1>5, <1>6 DEF RegistryInv, HandlesInv
<1>. QED  BY <1>2, <1>3, <1>4, <1>7 DEF RegistryInv

\* The handle of one torrent is replaced; "complete" is written only if earned.
LEMMA HandleReplaced ==
    ASSUME RegistryInv, NEW id \in DOMAIN torrents, NEW h, h = Handle(h),
           h.status = "complete" => id \in earned,
           torrents' = [torrents EXCEPT ![id] = h], UNCHANGED earned
    PROVE  HandlesInv'
BY DEF RegistryInv, HandlesInv

\* Every step keeps it.
LEMMA RegistryStepInv == RegistryInv /\ [RegistryNext]_registryVars => RegistryInv'
<1>. SUFFICES ASSUME RegistryInv, [RegistryNext]_registryVars PROVE RegistryInv'
  OBVIOUS
<1>. USE ActorsAre
<1>a. ASSUME UNCHANGED <<torrents, earned>> PROVE HandlesInv'
  BY <1>a DEF RegistryInv, HandlesInv
<1>b. ASSUME UNCHANGED <<store, earned>> PROVE FileInv'
  BY <1>b DEF RegistryInv, FileInv
<1>1. ASSUME NEW a \in Actors, Collect(a) PROVE RegistryInv'
  <2>. DEFINE j == job[a]
              full == [id |-> j.id, status |-> j.status, records |-> Records(torrents), then |-> j.then]
  <2>1. UNCHANGED <<torrents, complete, earned, store>>  BY <1>1 DEF Collect, engineView
  <2>2. JobOK(j, earned)  BY DEF RegistryInv, JobsInv
  <2>3. \A id \in DOMAIN Records(torrents) : Records(torrents)[id] = "complete" => id \in earned
    BY DEF RegistryInv, HandlesInv, Records
  <2>4. JobOK(full, earned)  BY <2>2, <2>3 DEF JobOK
  <2>5. job' = [job EXCEPT ![a] = full]
    <3>1. [j EXCEPT !.records = Records(torrents)] = full  BY <2>2 DEF JobOK
    <3>2. job' = [job EXCEPT ![a] = [j EXCEPT !.records = Records(torrents)]]
      BY <1>1 DEF Collect
    <3>. QED  BY <3>1, <3>2
  <2>. HIDE DEF full
  <2>6. JobsInv' /\ \A b \in Actors \ {a} : job'[b] = job[b]
    BY <2>1, <2>4, <2>5, JobReplaced DEF RegistryInv
  <2>7. SettlingInv'  BY <1>1, <2>1, <2>6, PlaceChanged DEF RegistryInv, Collect, GoTo
  <2>. QED  BY <1>a, <1>b, <2>1, <2>6, <2>7 DEF RegistryInv
<1>2. ASSUME NEW a \in Actors, Truncate(a) PROVE RegistryInv'
  <2>1. JobsInv' /\ SettlingInv'  BY <1>2, MovedInv DEF Truncate, engineView
  <2>2. FileInv'  BY <1>2 DEF Truncate, Unreadable, FileInv
  <2>. QED  BY <1>2, <1>a, <2>1, <2>2 DEF Truncate, engineView, RegistryInv
<1>3. ASSUME NEW a \in Actors, Write(a) PROVE RegistryInv'
  <2>1. HandlesInv' /\ JobsInv' /\ SettlingInv'  BY <1>3, SavedInv DEF Write
  <2>2. store'.records \in {job[a].records, <<>>} /\ UNCHANGED earned
    BY <1>3 DEF Write, written, Text, Unreadable, Saved, engineView
  <2>3. JobOK(job[a], earned)  BY DEF RegistryInv, JobsInv
  <2>4. FileInv'  BY <2>2, <2>3 DEF FileInv, JobOK
  <2>. QED  BY <2>1, <2>4 DEF RegistryInv
<1>4. ASSUME NEW a \in Actors, SaveFails(a) PROVE RegistryInv'
  BY <1>4, <1>b, SavedInv DEF SaveFails, Saved, engineView, RegistryInv
<1>5. ASSUME NEW a \in Actors, set_status(a) PROVE RegistryInv'
  <2>1. UNCHANGED <<job, complete, earned, store>>  BY <1>5 DEF set_status, engineView, fileView
  <2>2. JobsInv' /\ SettlingInv'  BY <1>5, <2>1, MovedInv DEF set_status
  <2>3. JobOK(job[a], earned)  BY DEF RegistryInv, JobsInv
  <2>4. HandlesInv'
    <3>1. CASE Has(job[a].id)
      <4>. DEFINE t == job[a].id
                  h == [status |-> job[a].status, coordinator |-> torrents[t].coordinator]
      <4>1. torrents[t] = Handle(torrents[t])  BY <3>1 DEF Has, RegistryInv, HandlesInv
      <4>2. torrents' = [torrents EXCEPT ![t] = h]
        <5>1. [torrents[t] EXCEPT !.status = job[a].status] = h  BY <4>1 DEF Handle
        <5>2. torrents' = [torrents EXCEPT ![t] = [torrents[t] EXCEPT !.status = job[a].status]]
          BY <1>5, <3>1 DEF set_status
        <5>. QED  BY <5>1, <5>2
      <4>3. h = Handle(h) /\ h.status # "complete"  BY <2>3 DEF Handle, JobOK
      <4>. HIDE DEF h
      <4>. QED  BY <2>1, <3>1, <4>2, <4>3, HandleReplaced DEF Has
    <3>2. CASE ~ Has(job[a].id)  BY <1>5, <1>a, <2>1, <3>2 DEF set_status
    <3>. QED  BY <3>1, <3>2
  <2>. QED  BY <1>b, <2>1, <2>2, <2>4 DEF RegistryInv
<1>6. ASSUME NEW id, NEW c, NEW status \in {"paused", "downloading", "stopped"},
             ControlCommand(id, c, status)
      PROVE  RegistryInv'
  <2>1. UNCHANGED <<torrents, complete, earned, store>>  BY <1>6 DEF ControlCommand, fileView
  <2>2. JobsInv' /\ SettlingInv'  BY <1>6, <2>1, AssignedInv DEF ControlCommand
  <2>. QED  BY <1>a, <1>b, <2>1, <2>2 DEF RegistryInv
<1>7. ASSUME NEW id, NEW mode \in Modes, remove_torrent(id, mode) PROVE RegistryInv'
  <2>. DEFINE h == [status |-> IF mode = "data_only" THEN "stopped" ELSE torrents[id].status,
                    coordinator |-> None]
  <2>1. UNCHANGED <<complete, earned, store>>  BY <1>7 DEF remove_torrent, fileView
  <2>2. PICK p \in {"drop", "dropAndDelete", "delete"} : GoTo("main", p)
    BY <1>7 DEF remove_torrent, Modes
  <2>3. JobsInv' /\ SettlingInv'
    BY <1>7, <2>1, <2>2, AssignedInv DEF remove_torrent, None
  <2>4. id \in DOMAIN torrents  BY <1>7 DEF remove_torrent, Has
  <2>5. torrents[id] = Handle(torrents[id]) /\ (torrents[id].status = "complete" => id \in earned)
    BY <2>4 DEF RegistryInv, HandlesInv
  <2>6. torrents' = [torrents EXCEPT ![id] = h]
    <3>. DEFINE s == IF mode = "data_only" THEN "stopped" ELSE torrents[id].status
                h1 == [torrents[id] EXCEPT !.coordinator = None]
                t1 == [torrents EXCEPT ![id] = h1]
    <3>1. h1 = [status |-> torrents[id].status, coordinator |-> None]  BY <2>5 DEF Handle
    <3>2. [h1 EXCEPT !.status = s] = h
      <4>. HIDE DEF h1, s
      <4>1. [h1 EXCEPT !.status = s] = [status |-> s, coordinator |-> None]  BY <3>1
      <4>. QED  BY <4>1 DEF s
    <3>3. t1[id] = h1 /\ h1.status = torrents[id].status
      BY <2>4, <3>1 DEF RegistryInv, HandlesInv
    <3>4. torrents' = [t1 EXCEPT ![id] = [h1 EXCEPT !.status = s]]
      BY <1>7, <2>4, <3>3 DEF remove_torrent
    <3>. QED  BY <3>2, <3>4
  <2>7. h = Handle(h) /\ (h.status = "complete" => id \in earned)  BY <2>5 DEF Handle
  <2>. HIDE DEF h
  <2>8. HandlesInv'  BY <2>1, <2>4, <2>6, <2>7, HandleReplaced
  <2>. QED  BY <1>b, <2>1, <2>3, <2>8 DEF RegistryInv
<1>8. ASSUME DropEntry PROVE RegistryInv'
  <2>1. UNCHANGED <<job, complete, earned, store>>  BY <1>8 DEF DropEntry, engineView, fileView
  <2>2. PICK p \in {"collect", "delete"} : GoTo("main", p)  BY <1>8 DEF DropEntry
  <2>3. JobsInv' /\ SettlingInv'  BY <2>1, <2>2, MovedInv
  <2>4. HandlesInv'  BY <1>8, <2>1 DEF DropEntry, RegistryInv, HandlesInv
  <2>. QED  BY <1>b, <2>1, <2>3, <2>4 DEF RegistryInv
<1>9. ASSUME delete_data PROVE RegistryInv'
  <2>1. UNCHANGED <<torrents, job, complete, earned, store>>  BY <1>9 DEF delete_data, fileView
  <2>2. JobsInv' /\ SettlingInv'  BY <1>9, <2>1, MovedInv DEF delete_data
  <2>. QED  BY <1>a, <1>b, <2>1, <2>2 DEF RegistryInv
<1>10. ASSUME NEW id, add_torrent(id) PROVE RegistryInv'
  <2>1. UNCHANGED <<complete, earned, store>>  BY <1>10 DEF add_torrent, engineView, fileView
  <2>2. JobsInv' /\ SettlingInv'  BY <1>10, <2>1, AssignedInv DEF add_torrent, None
  <2>3. HandlesInv'
    BY <1>10, <2>1 DEF add_torrent, Inserted, Handle, RegistryInv, HandlesInv
  <2>. QED  BY <1>b, <2>1, <2>2, <2>3 DEF RegistryInv
<1>11. ASSUME NEW id, start_torrent(id) PROVE RegistryInv'
  <2>1. UNCHANGED <<torrents, complete, earned, store>>
    BY <1>11 DEF start_torrent, engineView, fileView
  <2>2. JobsInv' /\ SettlingInv'  BY <1>11, <2>1, AssignedInv DEF start_torrent
  <2>. QED  BY <1>a, <1>b, <2>1, <2>2 DEF RegistryInv
<1>12. ASSUME NEW a \in {"main", "add"}, spawn_pipeline(a) PROVE RegistryInv'
  <2>1. PICK k \in Pipelines :
            /\ pc' = [pc EXCEPT ![a] = "idle", ![k] = "announcing"]
            /\ job' = [job EXCEPT ![a] = NoJob,
                                  ![k] = [NoJob EXCEPT !.id = job[a].id, !.then = "emit"]]
            /\ complete' = complete \ {k}
    BY <1>12 DEF spawn_pipeline
  <2>2. UNCHANGED <<torrents, earned, store>>  BY <1>12 DEF spawn_pipeline, fileView
  <2>. DEFINE j == [NoJob EXCEPT !.id = job[a].id, !.then = "emit"]
  <2>3. JobOK(j, earned)
    <3>. DEFINE i == job[a].id
                j1 == [NoJob EXCEPT !.id = i]
    <3>. HIDE DEF i
    <3>1. j1 = [id |-> i, status |-> "none", records |-> <<>>, then |-> "idle"]  BY DEF NoJob, None
    <3>2. j = [j1 EXCEPT !.then = "emit"]  BY DEF i
    <3>. HIDE DEF j, j1
    <3>3. j = [id |-> i, status |-> "none", records |-> <<>>, then |-> "emit"]  BY <3>1, <3>2
    <3>. QED  BY <3>3 DEF JobOK
  <2>. HIDE DEF j
  <2>4. job' = [job EXCEPT ![a] = NoJob, ![k] = j]  BY <2>1 DEF j
  <2>5. JobsInv'  BY <2>2, <2>3, <2>4, NoJobOK DEF RegistryInv, JobsInv
  <2>6. \A b \in Pipelines \ {k} : job'[b] = job[b] /\ pc'[b] = pc[b]
    BY <2>1, <2>4 DEF RegistryInv, JobsInv, SettlingInv
  <2>7. SettlingInv'
    <3>1. pc' = [b \in Actors |-> pc'[b]]  BY <2>1 DEF RegistryInv, SettlingInv
    <3>2. pc'[k] = "announcing"  BY <2>1 DEF RegistryInv, SettlingInv
    <3>3. \A b \in Pipelines : pc'[b] = "settling" /\ b \in complete' => job'[b].id \in earned'
      <4>. SUFFICES ASSUME NEW b \in Pipelines, pc'[b] = "settling", b \in complete'
                    PROVE  job'[b].id \in earned'
        OBVIOUS
      <4>1. b # k /\ b \in complete  BY <2>1, <3>2
      <4>2. job[b].id \in earned  BY <2>6, <4>1 DEF RegistryInv, SettlingInv
      <4>. QED  BY <2>2, <2>6, <4>1, <4>2
    <3>. QED  BY <3>1, <3>3 DEF SettlingInv
  <2>. QED  BY <1>a, <1>b, <2>2, <2>5, <2>7 DEF RegistryInv
<1>13. ASSUME NEW k \in Pipelines, PipelineFails(k) PROVE RegistryInv'
  <2>. DEFINE j == [id |-> job[k].id, status |-> "error", records |-> job[k].records,
                    then |-> job[k].then]
  <2>1. UNCHANGED <<torrents, complete, earned, store>>
    BY <1>13 DEF PipelineFails, engineView, fileView
  <2>2. JobOK(job[k], earned)  BY DEF RegistryInv, JobsInv
  <2>3. JobOK(j, earned)  BY <2>2 DEF JobOK
  <2>4. job' = [job EXCEPT ![k] = j]
    <3>1. [job[k] EXCEPT !.status = "error"] = j  BY <2>2 DEF JobOK
    <3>2. job' = [job EXCEPT ![k] = [job[k] EXCEPT !.status = "error"]]
      BY <1>13 DEF PipelineFails
    <3>. QED  BY <3>1, <3>2
  <2>. HIDE DEF j
  <2>5. JobsInv' /\ \A b \in Actors \ {k} : job'[b] = job[b]
    BY <2>1, <2>3, <2>4, JobReplaced DEF RegistryInv
  <2>6. SettlingInv'  BY <1>13, <2>1, <2>5, PlaceChanged DEF RegistryInv, PipelineFails, GoTo
  <2>. QED  BY <1>a, <1>b, <2>1, <2>5, <2>6 DEF RegistryInv
<1>14. ASSUME NEW k \in Pipelines, CreateStorage(k) PROVE RegistryInv'
  <2>1. UNCHANGED <<torrents, job, complete, earned, store>>  BY <1>14 DEF CreateStorage, fileView
  <2>2. JobsInv' /\ SettlingInv'  BY <1>14, <2>1, MovedInv DEF CreateStorage
  <2>. QED  BY <1>a, <1>b, <2>1, <2>2 DEF RegistryInv
<1>15. ASSUME NEW k \in Pipelines, Publish(k) PROVE RegistryInv'
  <2>1. CASE Has(job[k].id)
    <3>. DEFINE t == job[k].id
                h == [status |-> torrents[t].status, coordinator |-> k]
    <3>1. UNCHANGED <<job, complete, earned, store>>
      BY <1>15, <2>1 DEF Publish, engineView, fileView
    <3>2. JobsInv' /\ SettlingInv'  BY <1>15, <2>1, <3>1, MovedInv DEF Publish
    <3>3. torrents[t] = Handle(torrents[t]) /\ (torrents[t].status = "complete" => t \in earned)
      BY <2>1 DEF Has, RegistryInv, HandlesInv
    <3>4. torrents' = [torrents EXCEPT ![t] = h]  BY <1>15, <2>1, <3>3 DEF Publish, Handle
    <3>5. h = Handle(h) /\ (h.status = "complete" => t \in earned)  BY <3>3 DEF Handle
    <3>. HIDE DEF h
    <3>6. HandlesInv'  BY <2>1, <3>1, <3>4, <3>5, HandleReplaced DEF Has
    <3>. QED  BY <1>b, <3>1, <3>2, <3>6 DEF RegistryInv
  <2>2. CASE ~ Has(job[k].id)  BY <1>15, <2>2, EndsInv DEF Publish
  <2>. QED  BY <2>1, <2>2
<1>16. ASSUME NEW k \in Pipelines, RunStarts(k) \/ RunReturns(k) PROVE RegistryInv'
  <2>1. UNCHANGED <<torrents, job, complete, earned, store>>
    BY <1>16 DEF RunStarts, RunReturns, engineView, fileView
  <2>2. JobsInv' /\ SettlingInv'  BY <1>16, <2>1, MovedInv DEF RunStarts, RunReturns
  <2>. QED  BY <1>a, <1>b, <2>1, <2>2 DEF RegistryInv
<1>17. ASSUME NEW k \in Pipelines, EngineCompletes(k) PROVE RegistryInv'
  <2>1. UNCHANGED <<torrents, pc, job, earned, store>>  BY <1>17 DEF EngineCompletes, fileView
  <2>2. JobsInv'  BY <2>1 DEF RegistryInv, JobsInv
  <2>3. SettlingInv'  BY <1>17, <2>1 DEF EngineCompletes, RegistryInv, SettlingInv
  <2>. QED  BY <1>a, <1>b, <2>1, <2>2, <2>3 DEF RegistryInv
<1>18. ASSUME NEW k \in Pipelines, WriterEnds(k) PROVE RegistryInv'
  <2>1. UNCHANGED <<torrents, job, complete, store>>  BY <1>18 DEF WriterEnds, fileView
  <2>2. earned \subseteq earned' /\ (k \in complete => job[k].id \in earned')
    BY <1>18 DEF WriterEnds
  <2>3. HandlesInv' /\ FileInv'  BY <2>1, <2>2 DEF RegistryInv, HandlesInv, FileInv
  <2>4. JobsInv'  BY <2>1, <2>2 DEF RegistryInv, JobsInv, JobOK
  <2>5. SettlingInv'  BY <1>18, <2>1, <2>2 DEF WriterEnds, GoTo, RegistryInv, SettlingInv
  <2>. QED  BY <2>3, <2>4, <2>5 DEF RegistryInv
<1>19. ASSUME NEW k \in Pipelines, Settle(k) PROVE RegistryInv'
  <2>1. UNCHANGED <<job, complete, earned, store>>  BY <1>19 DEF Settle, engineView, fileView
  <2>2. JobsInv' /\ SettlingInv'  BY <1>19, <2>1, MovedInv DEF Settle
  <2>3. Settled(k) = Handle(Settled(k)) /\ (Settled(k).status = "complete" => job[k].id \in earned)
    BY <1>19 DEF Settle, Settled, final_status, Handle, RegistryInv, SettlingInv
  <2>4. HandlesInv'
    BY <1>19, <1>a, <2>1, <2>3, HandleReplaced DEF Settle, Has
  <2>. QED  BY <1>b, <2>1, <2>2, <2>4 DEF RegistryInv
<1>20. ASSUME NEW k \in Pipelines, EmitFinished(k) PROVE RegistryInv'
  BY <1>20, EndsInv DEF EmitFinished
<1>21. ASSUME Restart PROVE RegistryInv'
  <2>1. torrents' = restore /\ UNCHANGED <<earned, store>>  BY <1>21 DEF Restart
  <2>2. HandlesInv'
    BY <2>1 DEF restore, restored_status, Handle, RegistryInv, FileInv, HandlesInv
  <2>3. JobsInv'  BY <1>21, NoJobOK DEF Restart, JobsInv
  <2>4. SettlingInv'  BY <1>21 DEF Restart, SettlingInv
  <2>. QED  BY <1>b, <2>1, <2>2, <2>3, <2>4 DEF RegistryInv
<1>22. CASE UNCHANGED registryVars
  <2>1. UNCHANGED <<torrents, pc, job, complete, store, earned>>  BY <1>22 DEF registryVars
  <2>2. JobsInv' /\ SettlingInv'  BY <2>1 DEF RegistryInv, JobsInv, SettlingInv
  <2>. QED  BY <1>a, <1>b, <2>1, <2>2 DEF RegistryInv
<1>23. ASSUME NEW a \in Actors, SaveStep(a) PROVE RegistryInv'
  BY <1>1, <1>2, <1>3, <1>4, <1>5, <1>23 DEF SaveStep
<1>24. ASSUME NEW c, NEW id, Command(c, id) PROVE RegistryInv'
  BY <1>6, <1>7, <1>10, <1>11, <1>24
  DEF Command, pause_download, resume_download, cancel_download
<1>25. ASSUME HandlerStep PROVE RegistryInv'
  BY <1>8, <1>9, <1>12, <1>23, <1>25 DEF HandlerStep
<1>26. ASSUME NEW k \in Pipelines, PipelineStep(k) PROVE RegistryInv'
  BY <1>13, <1>14, <1>15, <1>16, <1>18, <1>19, <1>20, <1>23, <1>26 DEF PipelineStep
<1>. QED
  BY <1>16, <1>17, <1>21, <1>22, <1>24, <1>25, <1>26 DEF RegistryNext

\* What the registry, or the file a restarted program reads, calls complete has
\* been verified to the last piece by some pipeline and flushed by its writer,
\* with any number of torrents, pipelines, overlapping saves and restarts.
THEOREM CompleteIsEarned == RegistrySpec => []CompleteEarned
<1>1. RegistryInv => CompleteEarned
  BY DEF RegistryInv, HandlesInv, FileInv, CompleteEarned
<1>. QED  BY RegistryInitInv, RegistryStepInv, <1>1, PTL DEF RegistrySpec

\* No step of a pipeline or a command other than add_torrent makes an entry.
LEMMA EntriesOnlyAdded ==
    ASSUME [RegistryNext]_registryVars
    PROVE  \/ DOMAIN torrents' \subseteq DOMAIN torrents
           \/ \E id : add_torrent(id)
           \/ Restart
<1>. DEFINE Fewer == DOMAIN torrents' \subseteq DOMAIN torrents
<1>1. ASSUME NEW a, SaveStep(a) PROVE Fewer
  BY <1>1 DEF SaveStep, Collect, Truncate, Write, SaveFails, Saved, set_status
<1>2. ASSUME NEW c, NEW id, Command(c, id) PROVE Fewer \/ add_torrent(id)
  BY <1>2 DEF Command, pause_download, resume_download, cancel_download, ControlCommand,
              remove_torrent, start_torrent
<1>3. ASSUME HandlerStep PROVE Fewer
  BY <1>1, <1>3 DEF HandlerStep, DropEntry, delete_data, spawn_pipeline
<1>4. ASSUME NEW k, PipelineStep(k) \/ EngineCompletes(k) \/ RunReturns(k) PROVE Fewer
  BY <1>1, <1>4 DEF PipelineStep, PipelineFails, CreateStorage, Publish, Ends, RunStarts,
              EngineCompletes, RunReturns, WriterEnds, Settle, EmitFinished
<1>5. CASE UNCHANGED registryVars  BY <1>5 DEF registryVars
<1>. QED  BY <1>2, <1>3, <1>4, <1>5 DEF RegistryNext

\* A removed torrent does not come back through a pipeline, or a save, that was
\* under way when it was removed, however many there are.
THEOREM RemovedStaysRemoved == RegistrySpec => NoResurrection
<1>1. ASSUME [RegistryNext]_registryVars, NEW t \in Ids, ~ Has(t), t \in DOMAIN torrents'
      PROVE  add_torrent(t) \/ Restart
  <2>1. ASSUME NEW id, add_torrent(id) PROVE id = t
    BY <1>1, <2>1 DEF add_torrent, Inserted, Has
  <2>. QED  BY <1>1, <2>1, EntriesOnlyAdded DEF Has
<1>2. [RegistryNext]_registryVars =>
        [\A id \in Ids : ~ Has(id) /\ id \in DOMAIN torrents'
            => add_torrent(id) \/ Restart]_registryVars
  BY <1>1
<1>. QED  BY <1>2, PTL DEF RegistrySpec, NoResurrection

-----------------------------------------------------------------------------
(***************************************************************************)
(* Types.                                                                  *)
(***************************************************************************)
(* Types: statuses, ids and texts.  An actor that has a job has an id for it, *)
(* and a status to set when it is about to set one.                           *)

RecordsOK(records) ==
    DOMAIN records \subseteq Ids /\ \A id \in DOMAIN records : records[id] \in Statuses
PlaceOK(a, p, j) ==
    /\ RecordsOK(j.records)
    /\ p \notin {"idle", "ended"} => j.id \in Ids
    /\ p = "status" => j.status \in Statuses
    /\ a \in Pipelines => j.status \in {None, "error"} /\ j.then # "spawn"
    /\ a \notin Pipelines => j.then # "emit" /\ (p = "idle" => j.then = "idle")
    /\ a = "add" => p # "status"
HandlesTyped ==
    /\ DOMAIN torrents \subseteq Ids
    /\ \A id \in DOMAIN torrents :
        torrents[id].status \in Statuses /\ torrents[id].coordinator \in Pipelines \cup {None, Stale}
FileTyped ==
    /\ store.len \in Nat /\ (store.parses => store = Text(store.records))
    /\ RecordsOK(store.records)
EngineTyped ==
    /\ control \in [Pipelines -> {"Running", "Paused", "Cancelled"}]
    /\ complete \subseteq Pipelines /\ linked \subseteq Pipelines
    /\ whole \subseteq earned /\ earned \subseteq Ids
PlacesOK == \A a \in Actors : PlaceOK(a, pc[a], job[a])

TypeInv == HandlesTyped /\ FileTyped /\ EngineTyped /\ PlacesOK

\* A list on its way to the file has a length.
LEMMA TextLenNat ==
    ASSUME NEW records, RecordsOK(records)
    PROVE  text_len(records) \in Nat
<1>. DEFINE D == DOMAIN records
            f == [id \in D |-> RecordLen + StatusLen[records[id]]]
            G(g) == [s \in SUBSET D |-> IF s = {} THEN 0
                          ELSE (RecordLen + StatusLen[records[CHOOSE x \in s : TRUE]])
                               + g[s \ {CHOOSE x \in s : TRUE}]]
            sum == CHOOSE g : g = G(g)
<1>1. IsFiniteSet(D) /\ f \in [D -> Nat]
  <2>1. IsFiniteSet(D)  BY IdsAssumption, FS_Subset DEF RecordsOK
  <2>. QED  BY <2>1 DEF RecordsOK, Statuses, StatusLen, RecordLen
<1>2. ASSUME NEW g PROVE g = G(g) <=> Sums(g, D, f)
  <2>1. ASSUME NEW s \in SUBSET D, s # {}
        PROVE  RecordLen + StatusLen[records[CHOOSE x \in s : TRUE]] = f[pick(s)]
    BY <2>1 DEF pick
  <2>2. G(g) = [s \in SUBSET D |-> IF s = {} THEN 0 ELSE f[pick(s)] + g[s \ {pick(s)}]]
    <3>. HIDE DEF D, f
    <3>. QED  BY <2>1 DEF pick
  <2>. HIDE DEF G, D, f
  <2>. QED  BY <2>2 DEF Sums
<1>3. text_len(records) = 2 + sum[D]
  BY DEF text_len, MapThenSumSet, MapThenFoldSet
<1>4. sum = G(sum)
  <2>1. \E g : g = G(g)
    <3>. HIDE DEF G, D, f
    <3>. QED  BY <1>1, <1>2, SumExists
  <2>. HIDE DEF G
  <2>. QED  BY <2>1
<1>. HIDE DEF sum, D, G, f
<1>5. sum \in [SUBSET D -> Nat]  BY <1>1, <1>2, <1>4, SumType
<1>. QED  BY <1>3, <1>5

\* A list on its way to the file is one of records.
LEMMA TextTyped ==
    ASSUME NEW records, RecordsOK(records), store' \in {Text(records), Unreadable(0)}
    PROVE  FileTyped'
<1>1. text_len(records) \in Nat  BY TextLenNat
<1>2. RecordsOK(<<>>)  BY DEF RecordsOK
<1>. QED  BY <1>1, <1>2 DEF FileTyped, Text, Unreadable, RecordsOK

\* A place without a job.
LEMMA NoJobPlace ==
    ASSUME NEW a \in Actors, NEW p \in {"idle", "ended"} PROVE PlaceOK(a, p, NoJob)
BY ActorsAre DEF PlaceOK, RecordsOK, NoJob, None

\* Types hold at the start.
LEMMA RegistryInitTyped == RegistryInit => TypeInv
<1>. SUFFICES ASSUME RegistryInit PROVE TypeInv
  OBVIOUS
<1>1. PICK f : RecordsOK(f) /\ store \in {Text(f), Unreadable(0)}
  <2>1. RecordsOK(<<>>)  BY DEF RecordsOK
  <2>. QED  BY <2>1, IdsAssumption DEF RegistryInit, RecordsOK
<1>2. FileTyped
  <2>1. text_len(f) \in Nat  BY <1>1, TextLenNat
  <2>2. RecordsOK(<<>>)  BY DEF RecordsOK
  <2>. QED  BY <1>1, <2>1, <2>2 DEF FileTyped, Text, Unreadable, RecordsOK
<1>3. HandlesTyped
  BY <1>2 DEF RegistryInit, restore, restored_status, FileTyped, RecordsOK, HandlesTyped, Statuses,
              StatusLen
<1>4. EngineTyped  BY <1>3 DEF RegistryInit, HandlesTyped, EngineTyped
<1>5. PlacesOK  BY NoJobPlace DEF RegistryInit, PlacesOK
<1>. QED  BY <1>2, <1>3, <1>4, <1>5 DEF TypeInv

\* One actor goes to another place with another job.
LEMMA ActorMoves ==
    ASSUME RegistryInv, TypeInv, NEW a \in Actors, NEW p, NEW j, PlaceOK(a, p, j),
           pc' = [pc EXCEPT ![a] = p], job' = [job EXCEPT ![a] = j]
    PROVE  PlacesOK'
BY DEF RegistryInv, JobsInv, SettlingInv, TypeInv, PlacesOK, PlaceOK, RecordsOK

\* One actor goes to another place with the job it has.
LEMMA ActorGoes ==
    ASSUME RegistryInv, TypeInv, NEW a \in Actors, NEW p, PlaceOK(a, p, job[a]),
           GoTo(a, p), UNCHANGED job
    PROVE  PlacesOK'
<1>1. job' = [job EXCEPT ![a] = job[a]]  BY DEF RegistryInv, JobsInv
<1>. QED  BY <1>1, ActorMoves DEF GoTo

\* A job that has written.
LEMMA SavedTyped ==
    ASSUME RegistryInv, TypeInv, NEW a \in Actors, Saving(a), Saved(a) PROVE PlacesOK'
<1>. DEFINE j == job[a]
            kept == [id |-> j.id, status |-> j.status, records |-> <<>>, then |-> j.then]
            next == IF j.then = "idle" THEN NoJob ELSE kept
<1>1. JobOK(j, earned)  BY DEF RegistryInv, JobsInv
<1>2. [j EXCEPT !.records = <<>>] = kept  BY <1>1 DEF JobOK
<1>3. job' = [job EXCEPT ![a] = next]  BY <1>2 DEF Saved
<1>4. PlaceOK(a, pc[a], j)  BY DEF TypeInv, PlacesOK
<1>5. CASE j.then = "idle"
  <2>1. PlaceOK(a, "idle", NoJob)  BY NoJobPlace
  <2>. QED  BY <1>3, <1>5, <2>1, ActorMoves DEF Saved, GoTo
<1>6. CASE j.then # "idle"
  <2>1. PlaceOK(a, j.then, kept)
    BY <1>1, <1>4, <1>6 DEF PlaceOK, RecordsOK, JobOK, Saving
  <2>. HIDE DEF kept
  <2>. QED  BY <1>3, <1>6, <2>1, ActorMoves DEF Saved, GoTo
<1>. QED  BY <1>5, <1>6

\* The end of a job.
LEMMA EndsTyped ==
    ASSUME RegistryInv, TypeInv, NEW k \in Pipelines, Ends(k), UNCHANGED fileView
    PROVE  TypeInv'
<1>1. PlacesOK'
  BY NoJobPlace, ActorMoves, ActorsAre DEF Ends, GoTo
<1>2. FileTyped'  BY DEF fileView, TypeInv, FileTyped
<1>3. EngineTyped'  BY DEF Ends, TypeInv, EngineTyped
<1>4. DOMAIN torrents' = DOMAIN torrents  BY DEF Ends
<1>5. ASSUME NEW id \in DOMAIN torrents
      PROVE  /\ torrents'[id].status = torrents[id].status
             /\ torrents'[id].coordinator \in {torrents[id].coordinator, Stale}
  <2>1. torrents[id] = Handle(torrents[id])  BY DEF RegistryInv, HandlesInv
  <2>2. torrents'[id] = [torrents[id] EXCEPT !.coordinator = IF @ = k THEN Stale ELSE @]
    BY DEF Ends
  <2>. QED  BY <2>1, <2>2 DEF Handle
<1>6. HandlesTyped'  BY <1>4, <1>5 DEF TypeInv, HandlesTyped
<1>. QED  BY <1>1, <1>2, <1>3, <1>6 DEF TypeInv

\* A handle put into the registry.
LEMMA HandleTyped ==
    ASSUME RegistryInv, TypeInv, NEW id \in DOMAIN torrents, NEW h,
           h.status \in Statuses, h.coordinator \in Pipelines \cup {None, Stale},
           torrents' = [torrents EXCEPT ![id] = h]
    PROVE  HandlesTyped'
BY DEF RegistryInv, HandlesInv, TypeInv, HandlesTyped

\* Every step keeps the types.
LEMMA RegistryStepTyped ==
    RegistryInv /\ TypeInv /\ [RegistryNext]_registryVars => TypeInv'
<1>. SUFFICES ASSUME RegistryInv, TypeInv, [RegistryNext]_registryVars PROVE TypeInv'
  OBVIOUS
<1>. USE ActorsAre
<1>a. ASSUME UNCHANGED torrents PROVE HandlesTyped'
  BY <1>a DEF TypeInv, HandlesTyped
<1>b. ASSUME UNCHANGED store PROVE FileTyped'
  BY <1>b DEF TypeInv, FileTyped
<1>c. ASSUME UNCHANGED engineView PROVE EngineTyped'
  BY <1>c DEF engineView, TypeInv, EngineTyped
<1>d. \A a \in Actors : PlaceOK(a, pc[a], job[a]) /\ JobOK(job[a], earned)
  BY DEF TypeInv, PlacesOK, RegistryInv, JobsInv
<1>e. \A id \in DOMAIN torrents :
        /\ id \in Ids /\ torrents[id] = Handle(torrents[id]) /\ torrents[id].status \in Statuses
        /\ torrents[id].coordinator \in Pipelines \cup {None, Stale}
  BY DEF TypeInv, HandlesTyped, RegistryInv, HandlesInv
<1>1. ASSUME NEW a \in Actors, Collect(a) PROVE TypeInv'
  <2>. DEFINE j == job[a]
              full == [id |-> j.id, status |-> j.status, records |-> Records(torrents), then |-> j.then]
  <2>1. job' = [job EXCEPT ![a] = full]
    <3>0. JobOK(j, earned)  BY <1>d
    <3>1. [j EXCEPT !.records = Records(torrents)] = full  BY <3>0 DEF JobOK
    <3>2. job' = [job EXCEPT ![a] = [j EXCEPT !.records = Records(torrents)]]
      BY <1>1 DEF Collect
    <3>. QED  BY <3>1, <3>2
  <2>2. RecordsOK(Records(torrents))  BY <1>e DEF Records, RecordsOK
  <2>3. PlaceOK(a, "truncate", full)  BY <1>1, <1>d, <2>2 DEF PlaceOK, Collect
  <2>. HIDE DEF full
  <2>4. PlacesOK'  BY <1>1, <2>1, <2>3, ActorMoves DEF Collect, GoTo
  <2>. QED  BY <1>1, <1>a, <1>b, <1>c, <2>4 DEF Collect, TypeInv
<1>2. ASSUME NEW a \in Actors, Truncate(a) PROVE TypeInv'
  <2>1. PlaceOK(a, "write", job[a])  BY <1>2, <1>d DEF PlaceOK, Truncate
  <2>2. PlacesOK'  BY <1>2, <2>1, ActorGoes DEF Truncate
  <2>3. FileTyped'  BY <1>2, <1>d, TextTyped DEF Truncate, PlaceOK
  <2>. QED  BY <1>2, <1>a, <1>c, <2>2, <2>3 DEF Truncate, TypeInv
<1>3. ASSUME NEW a \in Actors, Write(a) PROVE TypeInv'
  <2>1. PlacesOK'  BY <1>3, SavedTyped DEF Write, Saving
  <2>2. RecordsOK(job[a].records)  BY <1>d DEF PlaceOK
  <2>3. FileTyped'
    <3>1. CASE store' = Text(job[a].records)  BY <2>2, <3>1, TextTyped
    <3>2. CASE store' = Unreadable(store.len)
      BY <3>2 DEF TypeInv, FileTyped, Unreadable, RecordsOK
    <3>. QED  BY <1>3, <3>1, <3>2 DEF Write, written
  <2>. QED  BY <1>3, <1>a, <1>c, <2>1, <2>3 DEF Write, Saved, TypeInv
<1>4. ASSUME NEW a \in Actors, SaveFails(a) PROVE TypeInv'
  BY <1>4, <1>a, <1>b, <1>c, SavedTyped DEF SaveFails, Saved, TypeInv
<1>5. ASSUME NEW a \in Actors, set_status(a) PROVE TypeInv'
  <2>1. PlaceOK(a, "collect", job[a])  BY <1>5, <1>d DEF PlaceOK, set_status
  <2>2. PlacesOK'  BY <1>5, <2>1, ActorGoes DEF set_status
  <2>3. HandlesTyped'
    <3>1. CASE Has(job[a].id)
      <4>. DEFINE t == job[a].id
                  h == [status |-> job[a].status, coordinator |-> torrents[t].coordinator]
      <4>1. torrents' = [torrents EXCEPT ![t] = h]
        <5>1. [torrents[t] EXCEPT !.status = job[a].status] = h  BY <3>1, <1>e DEF Has, Handle
        <5>2. torrents' = [torrents EXCEPT ![t] = [torrents[t] EXCEPT !.status = job[a].status]]
          BY <1>5, <3>1 DEF set_status
        <5>. QED  BY <5>1, <5>2
      <4>2. h.status \in Statuses /\ h.coordinator \in Pipelines \cup {None, Stale}
        BY <1>5, <1>d, <1>e, <3>1 DEF PlaceOK, set_status, Has
      <4>. HIDE DEF h
      <4>. QED  BY <3>1, <4>1, <4>2, HandleTyped DEF Has
    <3>2. CASE ~ Has(job[a].id)  BY <1>5, <1>a, <3>2 DEF set_status
    <3>. QED  BY <3>1, <3>2
  <2>. QED  BY <1>5, <1>b, <1>c, <2>2, <2>3 DEF set_status, fileView, TypeInv
<1>f. ASSUME NEW id, NEW c \in {"Running", "Paused", "Cancelled"}, send(id, c),
             UNCHANGED <<complete, linked, whole, earned>>
      PROVE  EngineTyped'
  BY <1>f DEF send, TypeInv, EngineTyped
<1>6. ASSUME NEW id \in Ids, NEW c \in {"Running", "Paused", "Cancelled"},
             NEW status \in {"paused", "downloading", "stopped"}, ControlCommand(id, c, status)
      PROVE  TypeInv'
  <2>. DEFINE j == [id |-> id, status |-> status, records |-> <<>>, then |-> "idle"]
  <2>1. PlaceOK("main", "status", j)  BY DEF PlaceOK, RecordsOK, Statuses, StatusLen
  <2>2. job' = [job EXCEPT !["main"] = j]  BY <1>6 DEF ControlCommand, Assign
  <2>. HIDE DEF j
  <2>3. PlacesOK'  BY <1>6, <2>1, <2>2, ActorMoves DEF ControlCommand, GoTo
  <2>4. EngineTyped'  BY <1>6, <1>f DEF ControlCommand
  <2>. QED  BY <1>6, <1>a, <1>b, <2>3, <2>4 DEF ControlCommand, fileView, TypeInv
<1>7. ASSUME NEW id \in Ids, NEW mode \in Modes, remove_torrent(id, mode) PROVE TypeInv'
  <2>. DEFINE j == [id |-> id, status |-> None, records |-> <<>>, then |-> "idle"]
  <2>1. PICK p \in {"drop", "dropAndDelete", "delete"} : GoTo("main", p)
    BY <1>7 DEF remove_torrent, Modes
  <2>2. PlaceOK("main", p, j)  BY DEF PlaceOK, RecordsOK
  <2>3. job' = [job EXCEPT !["main"] = j]  BY <1>7 DEF remove_torrent, Assign
  <2>. HIDE DEF j
  <2>4. PlacesOK'  BY <2>1, <2>2, <2>3, ActorMoves DEF GoTo
  <2>5. EngineTyped'  BY <1>7, <1>f DEF remove_torrent
  <2>6. id \in DOMAIN torrents  BY <1>7 DEF remove_torrent, Has
  <2>. DEFINE s == IF mode = "data_only" THEN "stopped" ELSE torrents[id].status
              h1 == [torrents[id] EXCEPT !.coordinator = None]
              t1 == [torrents EXCEPT ![id] = h1]
              h == [status |-> s, coordinator |-> None]
  <2>7. torrents' = [torrents EXCEPT ![id] = h]
    <3>1. h1 = [status |-> torrents[id].status, coordinator |-> None]  BY <1>e, <2>6 DEF Handle
    <3>2. [h1 EXCEPT !.status = s] = h
      <4>. HIDE DEF h1, s
      <4>. QED  BY <3>1
    <3>3. t1[id] = h1 /\ h1.status = torrents[id].status
      BY <2>6, <3>1 DEF RegistryInv, HandlesInv
    <3>4. torrents' = [t1 EXCEPT ![id] = [h1 EXCEPT !.status = s]]
      BY <1>7, <2>6, <3>3 DEF remove_torrent
    <3>. HIDE DEF s
    <3>. QED  BY <3>2, <3>4
  <2>8. h.status \in Statuses /\ h.coordinator \in Pipelines \cup {None, Stale}
    BY <1>e, <2>6 DEF Statuses, StatusLen
  <2>. HIDE DEF h
  <2>9. HandlesTyped'  BY <2>6, <2>7, <2>8, HandleTyped
  <2>. QED  BY <1>7, <1>b, <2>4, <2>5, <2>9 DEF remove_torrent, fileView, TypeInv
<1>8. ASSUME DropEntry PROVE TypeInv'
  <2>1. PICK p \in {"collect", "delete"} : GoTo("main", p)  BY <1>8 DEF DropEntry
  <2>2. PlaceOK("main", p, job["main"])  BY <1>8, <1>d DEF PlaceOK, DropEntry
  <2>3. PlacesOK'  BY <1>8, <2>1, <2>2, ActorGoes DEF DropEntry
  <2>4. HandlesTyped'  BY <1>8, <1>e DEF DropEntry, HandlesTyped
  <2>. QED  BY <1>8, <1>b, <1>c, <2>3, <2>4 DEF DropEntry, fileView, TypeInv
<1>9. ASSUME delete_data PROVE TypeInv'
  <2>1. PlaceOK("main", "collect", job["main"])  BY <1>9, <1>d DEF PlaceOK, delete_data
  <2>2. PlacesOK'  BY <1>9, <2>1, ActorGoes DEF delete_data
  <2>3. EngineTyped'  BY <1>9 DEF delete_data, TypeInv, EngineTyped
  <2>. QED  BY <1>9, <1>a, <1>b, <2>2, <2>3 DEF delete_data, fileView, TypeInv
<1>10. ASSUME NEW id \in Ids, add_torrent(id) PROVE TypeInv'
  <2>. DEFINE j == [id |-> id, status |-> None, records |-> <<>>, then |-> "spawn"]
  <2>1. PlaceOK("add", "collect", j)  BY DEF PlaceOK, RecordsOK
  <2>2. job' = [job EXCEPT !["add"] = j]  BY <1>10 DEF add_torrent, Assign
  <2>. HIDE DEF j
  <2>3. PlacesOK'  BY <1>10, <2>1, <2>2, ActorMoves DEF add_torrent, GoTo
  <2>4. HandlesTyped'
    BY <1>10, <1>e DEF add_torrent, Inserted, HandlesTyped, Statuses, StatusLen
  <2>. QED  BY <1>10, <1>b, <1>c, <2>3, <2>4 DEF add_torrent, fileView, TypeInv
<1>11. ASSUME NEW id \in Ids, start_torrent(id) PROVE TypeInv'
  <2>. DEFINE j == [id |-> id, status |-> "downloading", records |-> <<>>, then |-> "spawn"]
  <2>1. PlaceOK("main", "status", j)  BY DEF PlaceOK, RecordsOK, Statuses, StatusLen
  <2>2. job' = [job EXCEPT !["main"] = j]  BY <1>11 DEF start_torrent, Assign
  <2>. HIDE DEF j
  <2>3. PlacesOK'  BY <1>11, <2>1, <2>2, ActorMoves DEF start_torrent, GoTo
  <2>. QED  BY <1>11, <1>a, <1>b, <1>c, <2>3 DEF start_torrent, fileView, TypeInv
<1>12. ASSUME NEW a \in {"main", "add"}, spawn_pipeline(a) PROVE TypeInv'
  <2>1. PICK k \in Pipelines :
            /\ pc' = [pc EXCEPT ![a] = "idle", ![k] = "announcing"]
            /\ job' = [job EXCEPT ![a] = NoJob,
                                  ![k] = [NoJob EXCEPT !.id = job[a].id, !.then = "emit"]]
            /\ control' = [control EXCEPT ![k] = "Running"]
            /\ complete' = complete \ {k}
    BY <1>12 DEF spawn_pipeline
  <2>. DEFINE i == job[a].id
              j == [NoJob EXCEPT !.id = i, !.then = "emit"]
  <2>2. j = [id |-> i, status |-> None, records |-> <<>>, then |-> "emit"]
    <3>. DEFINE j1 == [NoJob EXCEPT !.id = i]
    <3>. HIDE DEF i
    <3>1. j1 = [id |-> i, status |-> None, records |-> <<>>, then |-> "idle"]  BY DEF NoJob
    <3>2. j = [j1 EXCEPT !.then = "emit"]  OBVIOUS
    <3>. HIDE DEF j, j1
    <3>. QED  BY <3>1, <3>2
  <2>3. i \in Ids  BY <1>12, <1>d DEF spawn_pipeline, PlaceOK
  <2>4. PlaceOK(k, "announcing", j)
    <3>. HIDE DEF j, i
    <3>. QED  BY <2>2, <2>3 DEF PlaceOK, RecordsOK
  <2>5. PlaceOK(a, "idle", NoJob)  BY NoJobPlace
  <2>6. a \in Actors /\ k \in Actors /\ a # k  OBVIOUS
  <2>7. PlacesOK'
    <3>1. job' = [job EXCEPT ![a] = NoJob, ![k] = j]  BY <2>1
    <3>. HIDE DEF j
    <3>2. ASSUME NEW b \in Actors PROVE PlaceOK(b, pc'[b], job'[b])
      <4>1. CASE b = k
        <5>1. pc'[k] = "announcing" /\ job'[k] = j
          BY <2>1, <2>6, <3>1 DEF RegistryInv, JobsInv, SettlingInv
        <5>. QED  BY <2>4, <4>1, <5>1
      <4>2. CASE b = a
        <5>1. pc'[a] = "idle" /\ job'[a] = NoJob
          BY <2>1, <2>6, <3>1 DEF RegistryInv, JobsInv, SettlingInv
        <5>. QED  BY <2>5, <4>2, <5>1
      <4>3. CASE b # k /\ b # a
        <5>1. pc'[b] = pc[b] /\ job'[b] = job[b]
          BY <2>1, <2>6, <3>1, <4>3 DEF RegistryInv, JobsInv, SettlingInv
        <5>. QED  BY <1>d, <5>1
      <4>. QED  BY <4>1, <4>2, <4>3
    <3>. QED  BY <3>2 DEF PlacesOK, PlaceOK, RecordsOK
  <2>8. EngineTyped'  BY <1>12, <2>1 DEF spawn_pipeline, TypeInv, EngineTyped
  <2>. QED  BY <1>12, <1>a, <1>b, <2>7, <2>8 DEF spawn_pipeline, fileView, TypeInv
<1>13. ASSUME NEW k \in Pipelines, PipelineFails(k) PROVE TypeInv'
  <2>. DEFINE j == [id |-> job[k].id, status |-> "error", records |-> job[k].records,
                    then |-> job[k].then]
  <2>1. job' = [job EXCEPT ![k] = j]
    <3>0. JobOK(job[k], earned)  BY <1>d
    <3>1. [job[k] EXCEPT !.status = "error"] = j  BY <3>0 DEF JobOK
    <3>2. job' = [job EXCEPT ![k] = [job[k] EXCEPT !.status = "error"]]
      BY <1>13 DEF PipelineFails
    <3>. QED  BY <3>1, <3>2
  <2>2. PlaceOK(k, "status", j)
    BY <1>13, <1>d DEF PlaceOK, PipelineFails, Statuses, StatusLen
  <2>. HIDE DEF j
  <2>3. PlacesOK'  BY <1>13, <2>1, <2>2, ActorMoves DEF PipelineFails, GoTo
  <2>. QED  BY <1>13, <1>a, <1>b, <1>c, <2>3 DEF PipelineFails, fileView, TypeInv
<1>g. ASSUME NEW k \in Pipelines, pc[k] \notin {"idle", "ended"}, NEW p, p # "status",
             GoTo(k, p), UNCHANGED job
      PROVE  PlacesOK'
  <2>1. PlaceOK(k, p, job[k])  BY <1>g, <1>d DEF PlaceOK
  <2>. QED  BY <1>g, <2>1, ActorGoes
<1>14. ASSUME NEW k \in Pipelines, CreateStorage(k) PROVE TypeInv'
  <2>1. PlacesOK'  BY <1>14, <1>g DEF CreateStorage
  <2>2. EngineTyped'  BY <1>14 DEF CreateStorage, TypeInv, EngineTyped
  <2>. QED  BY <1>14, <1>a, <1>b, <2>1, <2>2 DEF CreateStorage, fileView, TypeInv
<1>15. ASSUME NEW k \in Pipelines, Publish(k) PROVE TypeInv'
  <2>1. CASE Has(job[k].id)
    <3>. DEFINE t == job[k].id
                h == [status |-> torrents[t].status, coordinator |-> k]
    <3>1. PlacesOK'  BY <1>15, <2>1, <1>g DEF Publish
    <3>2. torrents' = [torrents EXCEPT ![t] = h]  BY <1>15, <1>e, <2>1 DEF Publish, Has, Handle
    <3>3. h.status \in Statuses /\ h.coordinator \in Pipelines \cup {None, Stale}
      BY <1>e, <2>1 DEF Has
    <3>. HIDE DEF h
    <3>4. HandlesTyped'  BY <2>1, <3>2, <3>3, HandleTyped DEF Has
    <3>. QED  BY <1>15, <1>b, <1>c, <2>1, <3>1, <3>4 DEF Publish, fileView, TypeInv
  <2>2. CASE ~ Has(job[k].id)  BY <1>15, <2>2, EndsTyped DEF Publish
  <2>. QED  BY <2>1, <2>2
<1>16. ASSUME NEW k \in Pipelines, RunStarts(k) \/ RunReturns(k) PROVE TypeInv'
  <2>1. PlacesOK'  BY <1>16, <1>g DEF RunStarts, RunReturns
  <2>. QED  BY <1>16, <1>a, <1>b, <1>c, <2>1 DEF RunStarts, RunReturns, fileView, TypeInv
<1>17. ASSUME NEW k \in Pipelines, EngineCompletes(k) PROVE TypeInv'
  <2>1. PlacesOK'  BY <1>17, <1>d DEF EngineCompletes, PlacesOK, PlaceOK, RecordsOK
  <2>2. EngineTyped'  BY <1>17 DEF EngineCompletes, TypeInv, EngineTyped
  <2>. QED  BY <1>17, <1>a, <1>b, <2>1, <2>2 DEF EngineCompletes, fileView, TypeInv
<1>18. ASSUME NEW k \in Pipelines, WriterEnds(k) PROVE TypeInv'
  <2>1. PlacesOK'  BY <1>18, <1>g DEF WriterEnds
  <2>2. job[k].id \in Ids  BY <1>18, <1>d DEF WriterEnds, PlaceOK
  <2>3. EngineTyped'  BY <1>18, <2>2 DEF WriterEnds, TypeInv, EngineTyped
  <2>. QED  BY <1>18, <1>a, <1>b, <2>1, <2>3 DEF WriterEnds, fileView, TypeInv
<1>19. ASSUME NEW k \in Pipelines, Settle(k) PROVE TypeInv'
  <2>1. PlacesOK'  BY <1>19, <1>g DEF Settle
  <2>2. Settled(k).status \in Statuses /\ Settled(k).coordinator = None
    BY DEF Settled, final_status, Statuses, StatusLen
  <2>3. HandlesTyped'
    <3>1. CASE Has(job[k].id)
      <4>1. torrents' = [torrents EXCEPT ![job[k].id] = Settled(k)]  BY <1>19, <3>1 DEF Settle
      <4>. QED  BY <2>2, <3>1, <4>1, HandleTyped DEF Has
    <3>2. CASE ~ Has(job[k].id)  BY <1>19, <1>a, <3>2 DEF Settle
    <3>. QED  BY <3>1, <3>2
  <2>. QED  BY <1>19, <1>b, <1>c, <2>1, <2>3 DEF Settle, fileView, TypeInv
<1>20. ASSUME NEW k \in Pipelines, EmitFinished(k) PROVE TypeInv'
  BY <1>20, EndsTyped DEF EmitFinished
<1>21. ASSUME Restart PROVE TypeInv'
  <2>1. HandlesTyped'
    BY <1>21 DEF Restart, restore, restored_status, TypeInv, FileTyped, RecordsOK, HandlesTyped,
                 Statuses, StatusLen
  <2>2. EngineTyped'  BY <1>21 DEF Restart, TypeInv, EngineTyped
  <2>3. PlacesOK'
    <3>1. ASSUME NEW a \in Actors PROVE PlaceOK(a, pc'[a], job'[a])
      BY <1>21, NoJobPlace DEF Restart
    <3>. QED  BY <3>1 DEF PlacesOK, PlaceOK, RecordsOK
  <2>. QED  BY <1>21, <1>b, <2>1, <2>2, <2>3 DEF Restart, TypeInv
<1>22. CASE UNCHANGED registryVars
  <2>1. UNCHANGED <<torrents, pc, job, store>> /\ UNCHANGED engineView
    BY <1>22 DEF registryVars, engineView
  <2>2. PlacesOK'  BY <1>d, <2>1 DEF PlacesOK, PlaceOK, RecordsOK
  <2>. QED  BY <1>a, <1>b, <1>c, <2>1, <2>2 DEF TypeInv
<1>23. ASSUME NEW a \in Actors, SaveStep(a) PROVE TypeInv'
  BY <1>1, <1>2, <1>3, <1>4, <1>5, <1>23 DEF SaveStep
<1>24. ASSUME NEW c, NEW id \in Ids, Command(c, id) PROVE TypeInv'
  BY <1>6, <1>7, <1>10, <1>11, <1>24
  DEF Command, pause_download, resume_download, cancel_download
<1>25. ASSUME HandlerStep PROVE TypeInv'
  BY <1>8, <1>9, <1>12, <1>23, <1>25 DEF HandlerStep
<1>26. ASSUME NEW k \in Pipelines, PipelineStep(k) PROVE TypeInv'
  BY <1>13, <1>14, <1>15, <1>16, <1>18, <1>19, <1>20, <1>23, <1>26 DEF PipelineStep
<1>. QED
  BY <1>16, <1>17, <1>21, <1>22, <1>24, <1>25, <1>26 DEF RegistryNext

-----------------------------------------------------------------------------
(***************************************************************************)
(* Saves that do not overlap lose nothing.                                 *)
(***************************************************************************)
Changing == {"status", "drop", "dropAndDelete", "delete", "collect"}
SerialInv ==
    ~ spoiled =>
        /\ \A a, b \in Actors : Saving(a) /\ Saving(b) => a = b
        /\ \A a \in Actors : pc[a] = "write" => store.len = 0
        /\ \/ \E a \in Actors : pc[a] \in Changing
           \/ /\ \A a \in Actors : Saving(a) => job[a].records = Records(torrents)
              /\ (\A a \in Actors : ~ Saving(a)) =>
                     store.parses /\ store.records = Records(torrents)

\* Whoever has just changed the registry has yet to save it.
LEMMA SerialChanging ==
    ASSUME RegistryInv, SerialInv, NEW a \in Actors, NEW p \in Changing,
           pc' = [pc EXCEPT ![a] = p], UNCHANGED <<store, spoiled>>
    PROVE  SerialInv'
<1>1. pc'[a] = p /\ \A b \in Actors : pc'[b] # p => pc'[b] = pc[b]
  BY DEF RegistryInv, SettlingInv
<1>2. p \notin {"truncate", "write"}  BY DEF Changing
<1>. QED  BY <1>1, <1>2 DEF SerialInv, Saving

\* The records do not change, and neither does who is changing or saving them.
LEMMA SerialCalm ==
    ASSUME SerialInv, Records(torrents)' = Records(torrents), UNCHANGED <<store, spoiled>>,
           \A b \in Actors :
               \/ pc'[b] = pc[b] /\ job'[b].records = job[b].records
               \/ {pc[b], pc'[b]} \cap (Changing \cup {"truncate", "write"}) = {}
    PROVE  SerialInv'
<1>1. \A b \in Actors : /\ Saving(b)' <=> Saving(b)
                        /\ pc'[b] = "write" <=> pc[b] = "write"
                        /\ pc'[b] \in Changing <=> pc[b] \in Changing
                        /\ Saving(b) => job'[b].records = job[b].records
  BY DEF Saving
<1>. QED  BY <1>1 DEF SerialInv

\* Only the coordinator of a handle changes.
LEMMA SameRecords ==
    ASSUME DOMAIN torrents' = DOMAIN torrents,
           \A id \in DOMAIN torrents : torrents'[id].status = torrents[id].status
    PROVE  Records(torrents)' = Records(torrents)
BY DEF Records

\* A job that ends leaves the others where they are.
LEMMA EndsSerial ==
    ASSUME RegistryInv, SerialInv, NEW k \in Pipelines, Ends(k), UNCHANGED fileView,
           pc[k] \notin Changing \cup {"truncate", "write"}
    PROVE  SerialInv'
<1>1. \A id \in DOMAIN torrents : torrents'[id].status = torrents[id].status
  <2>1. ASSUME NEW id \in DOMAIN torrents PROVE torrents'[id].status = torrents[id].status
    <3>1. torrents[id] = Handle(torrents[id])  BY DEF RegistryInv, HandlesInv
    <3>2. torrents'[id] = [torrents[id] EXCEPT !.coordinator = IF @ = k THEN Stale ELSE @]
      BY DEF Ends
    <3>. QED  BY <3>1, <3>2 DEF Handle
  <2>. QED  BY <2>1
<1>2. Records(torrents)' = Records(torrents)  BY <1>1, SameRecords DEF Ends
<1>3. pc'[k] = "ended" /\ \A b \in Actors \ {k} : pc'[b] = pc[b] /\ job'[b] = job[b]
  BY ActorsAre DEF Ends, GoTo, RegistryInv, SettlingInv, JobsInv
<1>4. "ended" \notin Changing  BY DEF Changing
<1>. QED  BY <1>2, <1>3, <1>4, SerialCalm DEF fileView

\* Every step keeps it, as long as two saves have not been under way together.
LEMMA SerialStep ==
    RegistryInv /\ TypeInv /\ SerialInv /\ [RegistryNext]_registryVars => SerialInv'
<1>. SUFFICES ASSUME RegistryInv, TypeInv, SerialInv, [RegistryNext]_registryVars
              PROVE  SerialInv'
  OBVIOUS
<1>. USE ActorsAre
<1>a. ASSUME spoiled' PROVE SerialInv'
  BY <1>a DEF SerialInv
<1>b. ASSUME NEW a \in Actors, NEW p, pc[a] \notin Changing \cup {"truncate", "write"},
             p \notin Changing \cup {"truncate", "write"}, GoTo(a, p),
             Records(torrents)' = Records(torrents), UNCHANGED <<job, store, spoiled>>
      PROVE  SerialInv'
  <2>1. pc'[a] = p /\ \A c \in Actors \ {a} : pc'[c] = pc[c]
    BY <1>b DEF GoTo, RegistryInv, SettlingInv
  <2>. QED  BY <1>b, <2>1, SerialCalm
<1>c. \A a \in Actors : \A p : GoTo(a, p) => pc'[a] = p /\ \A b \in Actors \ {a} : pc'[b] = pc[b]
  BY DEF GoTo, RegistryInv, SettlingInv
<1>1. ASSUME NEW a \in Actors, Collect(a) PROVE SerialInv'
  <2>1. CASE \E b \in Actors : Saving(b)  BY <1>1, <1>a, <2>1 DEF Collect
  <2>2. CASE \A b \in Actors : ~ Saving(b)
    <3>1. pc'[a] = "truncate" /\ \A b \in Actors \ {a} : pc'[b] = pc[b]
      BY <1>1, <1>c DEF Collect
    <3>2. job'[a].records = Records(torrents)
      <4>1. JobOK(job[a], earned)  BY DEF RegistryInv, JobsInv
      <4>2. job' = [job EXCEPT ![a] = [job[a] EXCEPT !.records = Records(torrents)]]
        BY <1>1 DEF Collect
      <4>3. job'[a] = [job[a] EXCEPT !.records = Records(torrents)]
        BY <4>2 DEF RegistryInv, JobsInv
      <4>. QED  BY <4>1, <4>3 DEF JobOK
    <3>3. Records(torrents)' = Records(torrents)  BY <1>1 DEF Collect, Records
    <3>. QED  BY <2>2, <3>1, <3>2, <3>3 DEF SerialInv, Saving
  <2>. QED  BY <2>1, <2>2
<1>2. ASSUME NEW a \in Actors, Truncate(a) PROVE SerialInv'
  <2>1. pc'[a] = "write" /\ \A b \in Actors \ {a} : pc'[b] = pc[b]  BY <1>2, <1>c DEF Truncate
  <2>2. store'.len = 0 /\ UNCHANGED <<torrents, job, spoiled>>
    BY <1>2 DEF Truncate, Unreadable
  <2>3. \A b \in Actors : Saving(b)' <=> Saving(b)  BY <1>2, <2>1 DEF Truncate, Saving
  <2>4. \A b \in Actors : pc'[b] \in Changing <=> pc[b] \in Changing
    BY <1>2, <2>1 DEF Truncate, Changing
  <2>5. Saving(a)  BY <1>2 DEF Truncate, Saving
  <2>. QED  BY <2>2, <2>3, <2>4, <2>5 DEF SerialInv, Records, Saving
<1>3. ASSUME NEW a \in Actors, Write(a) PROVE SerialInv'
  <2>. SUFFICES ASSUME ~ spoiled PROVE SerialInv'
    BY <1>3, <1>a DEF Write
  <2>1. PICK p \in {"idle", "spawn", "emit"} :
            pc'[a] = p /\ \A b \in Actors \ {a} : pc'[b] = pc[b]
    <3>1. job[a].then \in {"idle", "spawn", "emit"}  BY DEF RegistryInv, JobsInv, JobOK
    <3>. QED  BY <1>3, <1>c, <3>1 DEF Write, Saved
  <2>2. \A b \in Actors : Saving(b) => b = a  BY <1>3 DEF SerialInv, Write, Saving
  <2>3. \A b \in Actors : ~ Saving(b)'  BY <2>1, <2>2 DEF Saving
  <2>4. RecordsOK(job[a].records)  BY DEF TypeInv, PlacesOK, PlaceOK
  <2>5. store.len = 0 /\ text_len(job[a].records) \in Nat
    BY <1>3, <2>4, TextLenNat DEF Write, SerialInv
  <2>6. store'.parses /\ store'.records = job[a].records
    BY <1>3, <2>5 DEF Write, written, Text
  <2>7. Saving(a)  BY <1>3 DEF Write, Saving
  <2>8. UNCHANGED torrents  BY <1>3 DEF Write, Saved
  <2>9. \A b \in Actors : pc[b] \in Changing => pc'[b] \in Changing
    BY <1>3, <2>1 DEF Write, Changing
  <2>10. Records(torrents)' = Records(torrents)  BY <2>8 DEF Records
  <2>. QED  BY <2>3, <2>6, <2>7, <2>9, <2>10 DEF SerialInv, Saving
<1>4. ASSUME NEW a \in Actors, SaveFails(a) PROVE SerialInv'
  BY <1>4, <1>a DEF SaveFails
<1>5. ASSUME NEW a \in Actors, set_status(a) PROVE SerialInv'
  BY <1>5, SerialChanging DEF set_status, GoTo, fileView, Changing
<1>6. ASSUME NEW id, NEW c, NEW status, ControlCommand(id, c, status) PROVE SerialInv'
  BY <1>6, SerialChanging DEF ControlCommand, GoTo, fileView, Changing
<1>7. ASSUME NEW id, NEW mode \in Modes, remove_torrent(id, mode) PROVE SerialInv'
  <2>1. PICK p \in Changing : GoTo("main", p)
    BY <1>7 DEF remove_torrent, Modes, Changing
  <2>. QED  BY <1>7, <2>1, SerialChanging DEF remove_torrent, GoTo, fileView
<1>8. ASSUME DropEntry PROVE SerialInv'
  <2>1. PICK p \in Changing : GoTo("main", p)  BY <1>8 DEF DropEntry, Changing
  <2>. QED  BY <1>8, <2>1, SerialChanging DEF DropEntry, GoTo, fileView
<1>9. ASSUME delete_data PROVE SerialInv'
  BY <1>9, SerialChanging DEF delete_data, GoTo, fileView, Changing
<1>10. ASSUME NEW id, add_torrent(id) PROVE SerialInv'
  BY <1>10, SerialChanging DEF add_torrent, GoTo, fileView, Changing
<1>11. ASSUME NEW id, start_torrent(id) PROVE SerialInv'
  BY <1>11, SerialChanging DEF start_torrent, GoTo, fileView, Changing
<1>12. ASSUME NEW a \in {"main", "add"}, spawn_pipeline(a) PROVE SerialInv'
  <2>1. PICK k \in Pipelines :
            /\ pc[k] = "ended"
            /\ pc' = [pc EXCEPT ![a] = "idle", ![k] = "announcing"]
            /\ job' = [job EXCEPT ![a] = NoJob,
                                  ![k] = [NoJob EXCEPT !.id = job[a].id, !.then = "emit"]]
    BY <1>12 DEF spawn_pipeline
  <2>2. \A b \in Actors \ {a, k} : pc'[b] = pc[b] /\ job'[b] = job[b]
    <3>. DEFINE j == [NoJob EXCEPT !.id = job[a].id, !.then = "emit"]
    <3>1. job' = [job EXCEPT ![a] = NoJob, ![k] = j]  BY <2>1
    <3>. HIDE DEF j
    <3>. QED  BY <2>1, <3>1 DEF RegistryInv, JobsInv, SettlingInv
  <2>3. pc'[a] = "idle" /\ pc'[k] = "announcing"  BY <2>1 DEF RegistryInv, SettlingInv
  <2>4. pc[a] = "spawn" /\ UNCHANGED <<torrents, store, spoiled>>
    BY <1>12 DEF spawn_pipeline, fileView
  <2>5. Records(torrents)' = Records(torrents)  BY <2>4 DEF Records
  <2>6. {"spawn", "idle", "ended", "announcing"} \cap (Changing \cup {"truncate", "write"}) = {}
    BY DEF Changing
  <2>7. ASSUME NEW b \in Actors
        PROVE  \/ pc'[b] = pc[b] /\ job'[b].records = job[b].records
               \/ {pc[b], pc'[b]} \cap (Changing \cup {"truncate", "write"}) = {}
    BY <2>1, <2>2, <2>3, <2>4, <2>6
  <2>. QED  BY <2>4, <2>5, <2>7, SerialCalm
<1>13. ASSUME NEW k \in Pipelines, PipelineFails(k) PROVE SerialInv'
  BY <1>13, SerialChanging DEF PipelineFails, GoTo, fileView, Changing
<1>14. ASSUME NEW k \in Pipelines,
              CreateStorage(k) \/ RunStarts(k) \/ RunReturns(k) \/ WriterEnds(k)
       PROVE  SerialInv'
  <2>1. Records(torrents)' = Records(torrents)
    BY <1>14 DEF CreateStorage, RunStarts, RunReturns, WriterEnds, Records
  <2>. QED  BY <1>14, <1>b, <2>1
            DEF CreateStorage, RunStarts, RunReturns, WriterEnds, fileView, Changing
<1>15. ASSUME NEW k \in Pipelines, Publish(k) PROVE SerialInv'
  <2>1. CASE Has(job[k].id)
    <3>. DEFINE t == job[k].id
                h == [status |-> torrents[t].status, coordinator |-> k]
    <3>1. torrents[t] = Handle(torrents[t])  BY <2>1 DEF Has, RegistryInv, HandlesInv
    <3>2. torrents' = [torrents EXCEPT ![t] = h]  BY <1>15, <2>1, <3>1 DEF Publish, Handle
    <3>3. Records(torrents)' = Records(torrents)
      BY <3>2, SameRecords DEF RegistryInv, HandlesInv
    <3>. QED  BY <1>15, <1>b, <2>1, <3>3 DEF Publish, fileView, Changing
  <2>2. CASE ~ Has(job[k].id)
    BY <1>15, <2>2, EndsSerial DEF Publish, Changing
  <2>. QED  BY <2>1, <2>2
<1>17. ASSUME NEW k \in Pipelines, EngineCompletes(k) PROVE SerialInv'
  BY <1>17, SerialCalm DEF EngineCompletes, fileView, Records
<1>19. ASSUME NEW k \in Pipelines, Settle(k) PROVE SerialInv'
  BY <1>19, SerialChanging DEF Settle, GoTo, fileView, Changing
<1>20. ASSUME NEW k \in Pipelines, EmitFinished(k) PROVE SerialInv'
  BY <1>20, EndsSerial DEF EmitFinished, Changing
<1>21. ASSUME Restart PROVE SerialInv'
  BY <1>21, <1>a DEF Restart
<1>22. CASE UNCHANGED registryVars
  BY <1>22, SerialCalm DEF registryVars, Records
<1>23. ASSUME NEW a \in Actors, SaveStep(a) PROVE SerialInv'
  BY <1>1, <1>2, <1>3, <1>4, <1>5, <1>23 DEF SaveStep
<1>24. ASSUME NEW c, NEW id, Command(c, id) PROVE SerialInv'
  BY <1>6, <1>7, <1>10, <1>11, <1>24
  DEF Command, pause_download, resume_download, cancel_download
<1>25. ASSUME HandlerStep PROVE SerialInv'
  BY <1>8, <1>9, <1>12, <1>23, <1>25 DEF HandlerStep
<1>26. ASSUME NEW k \in Pipelines, PipelineStep(k) PROVE SerialInv'
  BY <1>13, <1>14, <1>15, <1>19, <1>20, <1>23, <1>26 DEF PipelineStep
<1>. QED
  BY <1>14, <1>17, <1>21, <1>22, <1>24, <1>25, <1>26 DEF RegistryNext

\* The registry, the file and what is on its way between them keep their types.
THEOREM RegistryTyped == RegistrySpec => []RegistryTypeOK
<1>1. RegistryInv /\ TypeInv => RegistryTypeOK
  BY DEF RegistryInv, HandlesInv, Handle, TypeInv, HandlesTyped, FileTyped, EngineTyped, RegistryTypeOK
<1>. QED
  BY RegistryInitInv, RegistryStepInv, RegistryInitTyped, RegistryStepTyped, <1>1, PTL
  DEF RegistrySpec

\* Saves that neither overlap nor fail lose nothing: once nobody is changing or
\* saving the registry, the file is the registry.
THEOREM SerialSavesLoseNothing == RegistrySpec => []SerialSavesExact
<1>1. RegistryInit => SerialInv  BY DEF RegistryInit, SerialInv
<1>2. SerialInv => SerialSavesExact
  BY DEF SerialInv, SerialSavesExact, Quiet, Saving, Changing
<1>. QED
  BY RegistryInitInv, RegistryStepInv, RegistryInitTyped, RegistryStepTyped, SerialStep,
     <1>1, <1>2, PTL
  DEF RegistrySpec

-----------------------------------------------------------------------------
(***************************************************************************)
(* A download that is shown as running has a pipeline.                     *)
(***************************************************************************)
\* An actor that will yet see to torrent id.
Attends(a, id) ==
    job[a].id = id /\ IF a \in Pipelines THEN Settling(a) ELSE job[a].then = "spawn"
Downloading(id) == Has(id) /\ torrents[id].status = "downloading"

\* Whoever attended to the torrent still does, or somebody does in its place.
LEMMA StillAttended ==
    ASSUME NEW id, ~ Unattended(id), Downloading(id)' => Downloading(id),
           \A a \in Actors : Attends(a, id) => \E b \in Actors : Attends(b, id)'
    PROVE  ~ Unattended(id)'
<1>1. ~ Downloading(id) \/ \E a \in Actors : Attends(a, id)
  BY DEF Unattended, Downloading, Attends
<1>. QED  BY <1>1 DEF Unattended, Downloading, Attends

\* The allowance of DownloadingIsAttended: main is in the status section of a
\* command that starts nothing.
Resuming(id) == pc["main"] = "status" /\ job["main"].id = id /\ job["main"].then = "idle"

\* Every step keeps it.
LEMMA StepAttended ==
    ASSUME RegistryInv, TypeInv, [RegistryNext]_registryVars, NEW id, ~ Unattended(id)
    PROVE  ~ Unattended(id)' \/ Resuming(id)
<1>. USE ActorsAre
<1>. DEFINE Goal == ~ Unattended(id)' \/ Resuming(id)
<1>. SUFFICES Goal
  OBVIOUS
<1>. HIDE DEF Goal
<1>a. ASSUME Downloading(id)' => Downloading(id), NEW a \in Actors, ~ Attends(a, id),
             \A b \in Actors \ {a} : pc'[b] = pc[b] /\ job'[b] = job[b]
      PROVE  Goal
  BY <1>a, StillAttended DEF Goal, Attends, Settling
<1>b. ASSUME Downloading(id)' => Downloading(id), NEW a \in Actors,
             job'[a].id = job[a].id, job'[a].then = job[a].then,
             a \in Pipelines /\ Settling(a) => Settling(a)',
             \A b \in Actors \ {a} : pc'[b] = pc[b] /\ job'[b] = job[b]
      PROVE  Goal
  BY <1>b, StillAttended DEF Goal, Attends, Settling
<1>c. \A a \in Actors : \A p : GoTo(a, p) => pc'[a] = p /\ \A b \in Actors \ {a} : pc'[b] = pc[b]
  BY DEF GoTo, RegistryInv, SettlingInv
<1>d. \A a \in Actors : \A j : job' = [job EXCEPT ![a] = j] =>
          job'[a] = j /\ \A b \in Actors \ {a} : job'[b] = job[b]
  BY DEF RegistryInv, JobsInv
<1>e. ASSUME UNCHANGED torrents PROVE Downloading(id)' => Downloading(id)
  BY <1>e DEF Downloading, Has
<1>f. \A a \in Actors : PlaceOK(a, pc[a], job[a]) /\ JobOK(job[a], earned)
  BY DEF TypeInv, PlacesOK, RegistryInv, JobsInv
<1>g. ASSUME ~ Downloading(id)' PROVE Goal
  BY <1>g DEF Goal, Unattended, Downloading
<1>h. ASSUME NEW h, NEW t \in DOMAIN torrents, torrents' = [torrents EXCEPT ![t] = h],
             h.status = "downloading" => torrents[t].status = "downloading"
      PROVE  Downloading(id)' => Downloading(id)
  BY <1>h DEF Downloading, Has, RegistryInv, HandlesInv
<1>1. ASSUME NEW a \in Actors, Collect(a) PROVE Goal
  <2>1. pc'[a] = "truncate" /\ \A b \in Actors \ {a} : pc'[b] = pc[b]  BY <1>1, <1>c DEF Collect
  <2>. DEFINE j == [job[a] EXCEPT !.records = Records(torrents)]
  <2>2. job' = [job EXCEPT ![a] = j]  BY <1>1 DEF Collect
  <2>3. JobOK(job[a], earned)  BY <1>f
  <2>4. j.id = job[a].id /\ j.then = job[a].then  BY <2>3 DEF JobOK
  <2>. HIDE DEF j
  <2>5. job'[a] = j /\ \A b \in Actors \ {a} : job'[b] = job[b]  BY <1>d, <2>2
  <2>6. ~ (a \in Pipelines /\ Settling(a))  BY <1>1 DEF Collect, Settling
  <2>. QED  BY <1>1, <1>b, <1>e, <2>1, <2>4, <2>5, <2>6 DEF Collect
<1>2. ASSUME NEW a \in Actors, Truncate(a) PROVE Goal
  <2>1. pc'[a] = "write" /\ \A b \in Actors \ {a} : pc'[b] = pc[b]  BY <1>2, <1>c DEF Truncate
  <2>2. ~ (a \in Pipelines /\ Settling(a))  BY <1>2 DEF Truncate, Settling
  <2>. QED  BY <1>2, <1>b, <1>e, <2>1, <2>2 DEF Truncate
<1>3. ASSUME NEW a \in Actors, Saving(a), Saved(a) PROVE Goal
  <2>1. \A b \in Actors \ {a} : pc'[b] = pc[b]  BY <1>3, <1>c DEF Saved
  <2>. DEFINE kept == [job[a] EXCEPT !.records = <<>>]
              j == IF job[a].then = "idle" THEN NoJob ELSE kept
  <2>2. job' = [job EXCEPT ![a] = j]  BY <1>3 DEF Saved
  <2>3. JobOK(job[a], earned)  BY <1>f
  <2>4. kept.id = job[a].id /\ kept.then = job[a].then  BY <2>3 DEF JobOK
  <2>. HIDE DEF kept
  <2>5. job[a].then # "idle" => j.id = job[a].id /\ j.then = job[a].then  BY <2>4
  <2>. HIDE DEF j
  <2>6. job'[a] = j /\ \A b \in Actors \ {a} : job'[b] = job[b]  BY <1>d, <2>2
  <2>7. ~ (a \in Pipelines /\ Settling(a))  BY <1>3 DEF Saving, Settling
  <2>8. Downloading(id)' => Downloading(id)  BY <1>3, <1>e DEF Saved
  <2>9. CASE job[a].then = "idle"
    <3>1. ~ Attends(a, id)  BY <2>7, <2>9 DEF Attends
    <3>. QED  BY <1>a, <2>1, <2>6, <2>8, <3>1
  <2>10. CASE job[a].then # "idle"  BY <1>b, <2>1, <2>5, <2>6, <2>7, <2>8, <2>10
  <2>. QED  BY <2>9, <2>10
<1>5. ASSUME NEW a \in Actors, set_status(a) PROVE Goal
  <2>1. pc'[a] = "collect" /\ \A b \in Actors \ {a} : pc'[b] = pc[b]  BY <1>5, <1>c DEF set_status
  <2>2. UNCHANGED job /\ pc[a] = "status"  BY <1>5 DEF set_status
  <2>3. CASE job[a].id # id
    <3>1. Downloading(id)' => Downloading(id)
      <4>1. CASE Has(job[a].id)
        <5>1. torrents' = [torrents EXCEPT ![job[a].id] = [torrents[job[a].id] EXCEPT !.status = job[a].status]]
          BY <1>5, <4>1 DEF set_status
        <5>2. DOMAIN torrents' = DOMAIN torrents /\ (id \in DOMAIN torrents => torrents'[id] = torrents[id])
          BY <2>3, <5>1 DEF RegistryInv, HandlesInv
        <5>. QED  BY <5>2 DEF Downloading, Has
      <4>2. CASE ~ Has(job[a].id)  BY <1>5, <1>e, <4>2 DEF set_status
      <4>. QED  BY <4>1, <4>2
    <3>2. ~ Attends(a, id)  BY <2>3 DEF Attends
    <3>. QED  BY <1>a, <2>1, <2>2, <3>1, <3>2
  <2>4. CASE job[a].id = id /\ a \in Pipelines
    <3>1. job[a].status = "error"
      BY <1>f, <2>2, <2>4 DEF PlaceOK, Statuses, StatusLen, None
    <3>2. ~ Downloading(id)'
      <4>1. CASE Has(id)
        <5>. DEFINE h == [torrents[id] EXCEPT !.status = job[a].status]
        <5>1. torrents' = [torrents EXCEPT ![id] = h]  BY <1>5, <2>4, <4>1 DEF set_status
        <5>2. torrents[id] = Handle(torrents[id])  BY <4>1 DEF Has, RegistryInv, HandlesInv
        <5>3. h.status = job[a].status  BY <5>2 DEF Handle
        <5>. HIDE DEF h
        <5>4. torrents'[id] = h  BY <4>1, <5>1 DEF Has, RegistryInv, HandlesInv
        <5>. QED  BY <3>1, <5>3, <5>4 DEF Downloading
      <4>2. CASE ~ Has(id)  BY <1>5, <2>4, <4>2 DEF set_status, Downloading, Has
      <4>. QED  BY <4>1, <4>2
    <3>. QED  BY <1>g, <3>2
  <2>5. CASE job[a].id = id /\ a = "main" /\ job[a].then = "spawn"
    <3>1. Attends(a, id)'  BY <2>2, <2>5 DEF Attends
    <3>. QED  BY <3>1 DEF Goal, Unattended, Attends
  <2>6. CASE job[a].id = id /\ a = "main" /\ job[a].then = "idle"
    BY <2>2, <2>6 DEF Goal, Resuming
  <2>7. a # "add" /\ (a \notin Pipelines => job[a].then \in {"idle", "spawn"})
    BY <1>f, <2>2 DEF PlaceOK, JobOK
  <2>. QED  BY <2>3, <2>4, <2>5, <2>6, <2>7 DEF Actors
<1>i. ASSUME NEW t, NEW s, NEW then, Assign("main", t, s, then), pc["main"] = "idle", NEW p,
             GoTo("main", p), Downloading(id)' => Downloading(id)
      PROVE  Goal
  <2>1. ~ Attends("main", id)  BY <1>i, <1>f DEF Attends, PlaceOK
  <2>2. \A b \in Actors \ {"main"} : pc'[b] = pc[b] /\ job'[b] = job[b]
    BY <1>i, <1>c, <1>d DEF Assign
  <2>. QED  BY <1>i, <1>a, <2>1, <2>2
<1>6. ASSUME NEW t, NEW c, NEW s, ControlCommand(t, c, s) PROVE Goal
  BY <1>6, <1>e, <1>i DEF ControlCommand
<1>7. ASSUME NEW t, NEW mode \in Modes, remove_torrent(t, mode) PROVE Goal
  <2>1. PICK p : GoTo("main", p)  BY <1>7 DEF remove_torrent
  <2>2. t \in DOMAIN torrents  BY <1>7 DEF remove_torrent, Has
  <2>. DEFINE s == IF mode = "data_only" THEN "stopped" ELSE torrents[t].status
              h1 == [torrents[t] EXCEPT !.coordinator = None]
              t1 == [torrents EXCEPT ![t] = h1]
              h == [h1 EXCEPT !.status = s]
  <2>3. torrents[t] = Handle(torrents[t])  BY <2>2 DEF RegistryInv, HandlesInv
  <2>4. h1 = [status |-> torrents[t].status, coordinator |-> None]  BY <2>3 DEF Handle
  <2>5. h.status = s
    <3>. HIDE DEF h1, s
    <3>. QED  BY <2>4
  <2>6. torrents' = [torrents EXCEPT ![t] = h]
    <3>1. t1[t] = h1 /\ h1.status = torrents[t].status
      BY <2>2, <2>4 DEF RegistryInv, HandlesInv
    <3>2. torrents' = [t1 EXCEPT ![t] = h]
      BY <1>7, <2>2, <3>1 DEF remove_torrent
    <3>. HIDE DEF h, h1
    <3>. QED  BY <3>2
  <2>7. s = "downloading" => torrents[t].status = "downloading"  OBVIOUS
  <2>. HIDE DEF h, s
  <2>8. Downloading(id)' => Downloading(id)  BY <1>h, <2>2, <2>5, <2>6, <2>7
  <2>. QED  BY <1>7, <1>i, <2>1, <2>8 DEF remove_torrent
<1>8. ASSUME DropEntry PROVE Goal
  <2>1. Downloading(id)' => Downloading(id)  BY <1>8 DEF DropEntry, Downloading, Has
  <2>2. PICK p : GoTo("main", p) /\ UNCHANGED job  BY <1>8 DEF DropEntry
  <2>. QED  BY <1>b, <1>c, <2>1, <2>2
<1>9. ASSUME delete_data PROVE Goal
  BY <1>9, <1>b, <1>c, <1>e DEF delete_data
<1>10. ASSUME NEW t, add_torrent(t) PROVE Goal
  <2>1. \A b \in Actors \ {"add"} : pc'[b] = pc[b] /\ job'[b] = job[b]
    BY <1>10, <1>c, <1>d DEF add_torrent, Assign
  <2>2. CASE t = id
    <3>. DEFINE j == [id |-> id, status |-> None, records |-> <<>>, then |-> "spawn"]
    <3>0. job' = [job EXCEPT !["add"] = j]  BY <1>10, <2>2 DEF add_torrent, Assign
    <3>1. job'["add"].id = id /\ job'["add"].then = "spawn"
      <4>1. j.id = id /\ j.then = "spawn"  OBVIOUS
      <4>. HIDE DEF j
      <4>. QED  BY <1>d, <3>0, <4>1
    <3>. QED  BY <3>1 DEF Goal, Unattended
  <2>3. CASE t # id
    <3>1. Downloading(id)' => Downloading(id)
      BY <1>10, <2>3 DEF add_torrent, Inserted, Downloading, Has
    <3>2. ~ Attends("add", id)  BY <1>10, <1>f DEF Attends, PlaceOK, add_torrent
    <3>. QED  BY <1>a, <2>1, <3>1, <3>2
  <2>. QED  BY <2>2, <2>3
<1>11. ASSUME NEW t, start_torrent(t) PROVE Goal
  BY <1>11, <1>e, <1>i DEF start_torrent
<1>12. ASSUME NEW a \in {"main", "add"}, spawn_pipeline(a) PROVE Goal
  <2>1. PICK k \in Pipelines :
            /\ pc[k] = "ended"
            /\ pc' = [pc EXCEPT ![a] = "idle", ![k] = "announcing"]
            /\ job' = [job EXCEPT ![a] = NoJob,
                                  ![k] = [NoJob EXCEPT !.id = job[a].id, !.then = "emit"]]
    BY <1>12 DEF spawn_pipeline
  <2>. DEFINE i == job[a].id
              j == [NoJob EXCEPT !.id = i, !.then = "emit"]
  <2>2. j.id = i
    <3>. HIDE DEF i
    <3>. QED  BY DEF NoJob
  <2>3. job' = [job EXCEPT ![a] = NoJob, ![k] = j]  BY <2>1
  <2>. HIDE DEF j
  <2>4. /\ job'[k].id = job[a].id /\ pc'[k] = "announcing"
        /\ \A b \in Actors \ {a, k} : pc'[b] = pc[b] /\ job'[b] = job[b]
    BY <2>1, <2>2, <2>3 DEF RegistryInv, JobsInv, SettlingInv
  <2>5. ~ Attends(k, id)  BY <2>1 DEF Attends, Settling
  <2>6. Attends(a, id) => Attends(k, id)'  BY <2>4 DEF Attends, Settling
  <2>7. \A b \in Actors \ {a, k} : Attends(b, id) => Attends(b, id)'
    BY <2>4 DEF Attends, Settling
  <2>8. Downloading(id)' => Downloading(id)  BY <1>12, <1>e DEF spawn_pipeline
  <2>. QED  BY <2>5, <2>6, <2>7, <2>8, StillAttended DEF Goal
<1>13. ASSUME NEW k \in Pipelines, PipelineFails(k) PROVE Goal
  <2>. DEFINE j == [job[k] EXCEPT !.status = "error"]
  <2>1. JobOK(job[k], earned)  BY <1>f
  <2>2. j.id = job[k].id /\ j.then = job[k].then  BY <2>1 DEF JobOK
  <2>3. job' = [job EXCEPT ![k] = j]  BY <1>13 DEF PipelineFails
  <2>. HIDE DEF j
  <2>4. job'[k] = j /\ \A b \in Actors \ {k} : job'[b] = job[b]  BY <1>d, <2>3
  <2>5. pc'[k] = "status" /\ \A b \in Actors \ {k} : pc'[b] = pc[b]
    BY <1>13, <1>c DEF PipelineFails
  <2>6. Settling(k)'  BY <2>5 DEF Settling
  <2>. QED  BY <1>13, <1>b, <1>e, <2>2, <2>4, <2>5, <2>6 DEF PipelineFails
<1>j. ASSUME NEW k \in Pipelines, NEW p,
             p \notin {"collect", "truncate", "write", "emit", "ended"},
             GoTo(k, p), UNCHANGED job, Downloading(id)' => Downloading(id)
      PROVE  Goal
  <2>1. pc'[k] = p /\ \A b \in Actors \ {k} : pc'[b] = pc[b]  BY <1>j, <1>c
  <2>2. Settling(k)'  BY <1>j, <2>1 DEF Settling
  <2>. QED  BY <1>b, <1>j, <2>1, <2>2
<1>14. ASSUME NEW k \in Pipelines,
              CreateStorage(k) \/ RunStarts(k) \/ RunReturns(k) \/ WriterEnds(k)
       PROVE  Goal
  BY <1>14, <1>e, <1>j DEF CreateStorage, RunStarts, RunReturns, WriterEnds
<1>k. ASSUME NEW k \in Pipelines, Ends(k), ~ Has(job[k].id) \/ ~ Settling(k) PROVE Goal
  <2>1. \A t \in DOMAIN torrents : torrents'[t].status = torrents[t].status
    <3>1. ASSUME NEW t \in DOMAIN torrents PROVE torrents'[t].status = torrents[t].status
      <4>1. torrents[t] = Handle(torrents[t])  BY DEF RegistryInv, HandlesInv
      <4>2. torrents'[t] = [torrents[t] EXCEPT !.coordinator = IF @ = k THEN Stale ELSE @]
        BY <1>k DEF Ends
      <4>. QED  BY <4>1, <4>2 DEF Handle
    <3>. QED  BY <3>1
  <2>2. DOMAIN torrents' = DOMAIN torrents  BY <1>k DEF Ends
  <2>3. Downloading(id)' => Downloading(id)  BY <2>1, <2>2 DEF Downloading, Has
  <2>4. \A b \in Actors \ {k} : pc'[b] = pc[b] /\ job'[b] = job[b]
    BY <1>k, <1>c, <1>d DEF Ends
  <2>5. CASE Attends(k, id)
    <3>1. ~ Has(id)  BY <1>k, <2>5 DEF Attends
    <3>. QED  BY <1>g, <2>2, <3>1 DEF Downloading, Has
  <2>6. CASE ~ Attends(k, id)  BY <1>a, <2>3, <2>4, <2>6
  <2>. QED  BY <2>5, <2>6
<1>15. ASSUME NEW k \in Pipelines, Publish(k) PROVE Goal
  <2>1. CASE Has(job[k].id)
    <3>. DEFINE t == job[k].id
                h == [status |-> torrents[t].status, coordinator |-> k]
    <3>1. torrents[t] = Handle(torrents[t])  BY <2>1 DEF Has, RegistryInv, HandlesInv
    <3>2. torrents' = [torrents EXCEPT ![t] = h]  BY <1>15, <2>1, <3>1 DEF Publish, Handle
    <3>3. h.status = torrents[t].status  OBVIOUS
    <3>. HIDE DEF h
    <3>4. Downloading(id)' => Downloading(id)  BY <1>h, <2>1, <3>2, <3>3 DEF Has
    <3>. QED  BY <1>15, <1>j, <2>1, <3>4 DEF Publish
  <2>2. CASE ~ Has(job[k].id)  BY <1>15, <1>k, <2>2 DEF Publish
  <2>. QED  BY <2>1, <2>2
<1>17. ASSUME NEW k \in Pipelines, EngineCompletes(k) PROVE Goal
  BY <1>17, <1>b, <1>e DEF EngineCompletes, Settling
<1>19. ASSUME NEW k \in Pipelines, Settle(k) PROVE Goal
  <2>1. pc'[k] = "collect" /\ \A b \in Actors \ {k} : pc'[b] = pc[b] /\ job'[b] = job[b]
    BY <1>19, <1>c DEF Settle
  <2>2. Settled(k).status # "downloading"  BY DEF Settled, final_status
  <2>3. CASE Has(job[k].id)
    <3>1. torrents' = [torrents EXCEPT ![job[k].id] = Settled(k)]  BY <1>19, <2>3 DEF Settle
    <3>2. CASE job[k].id = id
      BY <1>g, <2>2, <2>3, <3>1, <3>2 DEF Downloading, Has, RegistryInv, HandlesInv
    <3>3. CASE job[k].id # id
      <4>1. Downloading(id)' => Downloading(id)  BY <1>h, <2>2, <2>3, <3>1 DEF Has
      <4>. QED  BY <1>a, <2>1, <3>3, <4>1 DEF Attends
    <3>. QED  BY <3>2, <3>3
  <2>4. CASE ~ Has(job[k].id)
    <3>1. UNCHANGED torrents  BY <1>19, <2>4 DEF Settle
    <3>2. CASE job[k].id = id  BY <1>g, <2>4, <3>1, <3>2 DEF Downloading, Has
    <3>3. CASE job[k].id # id  BY <1>a, <1>e, <2>1, <3>1, <3>3 DEF Attends
    <3>. QED  BY <3>2, <3>3
  <2>. QED  BY <2>3, <2>4
<1>20. ASSUME NEW k \in Pipelines, EmitFinished(k) PROVE Goal
  BY <1>20, <1>k DEF EmitFinished, Settling
<1>21. ASSUME Restart PROVE Goal
  <2>1. ~ Downloading(id)'  BY <1>21 DEF Restart, restore, restored_status, Downloading, Has
  <2>. QED  BY <1>g, <2>1
<1>22. CASE UNCHANGED registryVars
  BY <1>22, StillAttended DEF registryVars, Goal, Downloading, Has, Attends, Settling
<1>23. ASSUME NEW a \in Actors, SaveStep(a) PROVE Goal
  BY <1>1, <1>2, <1>3, <1>5, <1>23 DEF SaveStep, Write, SaveFails, Saving
<1>24. ASSUME NEW c, NEW t, Command(c, t) PROVE Goal
  BY <1>6, <1>7, <1>10, <1>11, <1>24
  DEF Command, pause_download, resume_download, cancel_download
<1>25. ASSUME HandlerStep PROVE Goal
  BY <1>8, <1>9, <1>12, <1>23, <1>25 DEF HandlerStep
<1>26. ASSUME NEW k \in Pipelines, PipelineStep(k) PROVE Goal
  BY <1>13, <1>14, <1>15, <1>19, <1>20, <1>23, <1>26 DEF PipelineStep
<1>. QED
  BY <1>14, <1>17, <1>21, <1>22, <1>24, <1>25, <1>26 DEF RegistryNext

\* Nothing but the status section of a resumed (or paused, or cancelled) command
\* leaves a torrent shown as downloading with nobody to see to it: not a failed
\* or outlived pipeline, not a removal under way, not a restart.
THEOREM DownloadsAreAttended == RegistrySpec => DownloadingIsAttended
<1>1. RegistryInv /\ TypeInv /\ [RegistryNext]_registryVars =>
        [\A id \in Ids : ~ Unattended(id) /\ Unattended(id)' =>
            pc["main"] = "status" /\ job["main"].id = id /\ job["main"].then = "idle"]_registryVars
  BY StepAttended DEF Resuming
<1>. QED
  BY RegistryInitInv, RegistryStepInv, RegistryInitTyped, RegistryStepTyped, <1>1, PTL
  DEF RegistrySpec, DownloadingIsAttended

-----------------------------------------------------------------------------
(***************************************************************************)
(* The window.                                                             *)
(***************************************************************************)
\* A step of the window is a step of the backend, or none.
LEMMA DesktopStepIsRegistryStep == [DesktopNext]_desktopVars => [RegistryNext]_registryVars
<1>. SUFFICES ASSUME [DesktopNext]_desktopVars PROVE [RegistryNext]_registryVars
  OBVIOUS
<1>1. ASSUME NEW c \in Commands, NEW id \in Ids, Click(c, id) PROVE RegistryNext
  <2>1. PICK d \in Commands : Command(d, id)
    <3>1. CASE c = "toggle"
      BY <1>1, <3>1, ToggleAssumption
      DEF Click, togglePause, ClickAdd, ClickStart, doRemove, Command, Modes
    <3>2. CASE c # "toggle"
      BY <1>1, <3>2 DEF Click, ClickAdd, ClickStart, doRemove, Command, Modes
    <3>. QED  BY <3>1, <3>2
  <2>. QED  BY <2>1 DEF RegistryNext
<1>2. ASSUME HandlersStep PROVE RegistryNext
  BY <1>2 DEF HandlersStep, SpawnAndReply, RegistryNext, HandlerStep
<1>3. ASSUME WindowStep PROVE UNCHANGED registryVars
  BY <1>3 DEF WindowStep, Deliver, RemoveReplies, CreateRow
<1>4. ASSUME NEW k \in Pipelines, TaskStep(k) PROVE RegistryNext
  BY <1>4 DEF TaskStep, BackendStep, PublishAndEmit, SettleAfterEmitter, Finish, RegistryNext,
              PipelineStep
<1>5. ASSUME NEW k \in Pipelines, EmitStats(k) PROVE UNCHANGED registryVars
  BY <1>5 DEF EmitStats
<1>6. ASSUME NEW k \in Pipelines, EngineStep(k) PROVE RegistryNext
  BY <1>6 DEF EngineStep, RegistryNext
<1>7. CASE UNCHANGED desktopVars  BY <1>7 DEF desktopVars
<1>. QED  BY <1>1, <1>2, <1>3, <1>4, <1>5, <1>6, <1>7 DEF DesktopNext

\* The window, its events and its replies in front of it, the backend is still
\* the registry: whatever is proved of RegistrySpec holds under the window.
THEOREM DesktopImplementsRegistry == DesktopSpec => RegistrySpec
<1>1. DesktopInit => RegistryInit  BY DEF DesktopInit
<1>. QED  BY <1>1, DesktopStepIsRegistryStep, PTL DEF DesktopSpec, RegistrySpec

\* The torrents without a row because add_torrent is under way, and the row
\* without a torrent because the answer to its removal is.
Adding == IF pc["add"] # "idle" THEN {job["add"].id} ELSE {}
Dropping == pc["main"] \in {"drop", "dropAndDelete"}
Gone ==
    IF removing # NoRemoval /\ removing.mode # "data_only" /\ ~ Dropping THEN {removing.id} ELSE {}
RowsInv ==
    /\ added \cap DOMAIN rows = {}
    /\ pc["add"] # "idle" =>
        /\ job["add"].id \notin DOMAIN rows \cup added
        /\ job["add"].then = "spawn" /\ pc["add"] \in {"collect", "truncate", "write", "spawn"}
    /\ Dropping => removing # NoRemoval /\ removing.mode # "data_only"
                   /\ removing.id = job["main"].id
    /\ removing # NoRemoval => removing.id \in DOMAIN rows
    /\ DOMAIN torrents = (DOMAIN rows \ Gone) \cup added \cup Adding

\* A step that neither adds nor drops an entry, and leaves rows and replies alone.
LEMMA RowsCalm ==
    ASSUME RowsInv, DOMAIN torrents' = DOMAIN torrents, DOMAIN rows' = DOMAIN rows,
           UNCHANGED <<added, removing>>,
           pc'["add"] = pc["add"] \/ (pc["add"] \in {"collect", "truncate", "write"}
                                      /\ pc'["add"] \in {"truncate", "write", "spawn"}),
           job'["add"].id = job["add"].id, job'["add"].then = job["add"].then,
           (~ Dropping' /\ ~ Dropping) \/ (pc'["main"] = pc["main"] /\ job'["main"] = job["main"])
    PROVE  RowsInv'
<1>1. Dropping' <=> Dropping  BY DEF Dropping
<1>2. Adding' = Adding /\ Gone' = Gone  BY <1>1 DEF Adding, Gone
<1>3. pc'["add"] # "idle" => pc["add"] # "idle"  OBVIOUS
<1>. QED  BY <1>1, <1>2, <1>3 DEF RowsInv, Dropping

\* Every step keeps the rows and what is on its way to them in accord.
LEMMA RowsStep ==
    RegistryInv /\ TypeInv /\ RowsInv /\ [DesktopNext]_desktopVars => RowsInv'
<1>. SUFFICES ASSUME RegistryInv, TypeInv, RowsInv, [DesktopNext]_desktopVars PROVE RowsInv'
  OBVIOUS
<1>. USE ActorsAre
<1>c. \A a \in Actors : \A p : GoTo(a, p) => pc'[a] = p /\ \A b \in Actors \ {a} : pc'[b] = pc[b]
  BY DEF GoTo, RegistryInv, SettlingInv
<1>d. \A a \in Actors : \A j : job' = [job EXCEPT ![a] = j] =>
          job'[a] = j /\ \A b \in Actors \ {a} : job'[b] = job[b]
  BY DEF RegistryInv, JobsInv
<1>f. \A a \in Actors : PlaceOK(a, pc[a], job[a]) /\ JobOK(job[a], earned)
  BY DEF TypeInv, PlacesOK, RegistryInv, JobsInv
<1>g. \A t, h : torrents' = [torrents EXCEPT ![t] = h] => DOMAIN torrents' = DOMAIN torrents
  OBVIOUS
\* Steps of a pipeline.
<1>h. ASSUME NEW k \in Pipelines, DOMAIN torrents' = DOMAIN torrents, UNCHANGED <<rows, added, removing>>,
             \A b \in Actors \ {k} : pc'[b] = pc[b] /\ job'[b] = job[b]
      PROVE  RowsInv'
  BY <1>h, RowsCalm
\* Steps of main that neither start nor end between the two lock sections of a
\* removal.
<1>i. ASSUME DOMAIN torrents' = DOMAIN torrents, UNCHANGED <<rows, added, removing>>,
             ~ Dropping, ~ Dropping', pc'["add"] = pc["add"], job'["add"] = job["add"]
      PROVE  RowsInv'
  BY <1>i, RowsCalm
<1>1. ASSUME NEW a \in Actors, Collect(a), UNCHANGED uiVars PROVE RowsInv'
  <2>. DEFINE j == [job[a] EXCEPT !.records = Records(torrents)]
  <2>1. job' = [job EXCEPT ![a] = j]  BY <1>1 DEF Collect
  <2>2. JobOK(job[a], earned)  BY <1>f
  <2>3. j.id = job[a].id /\ j.then = job[a].then  BY <2>2 DEF JobOK
  <2>. HIDE DEF j
  <2>4. job'[a].id = job[a].id /\ job'[a].then = job[a].then
        /\ \A b \in Actors \ {a} : job'[b] = job[b]
    BY <1>d, <2>1, <2>3
  <2>5. pc[a] = "collect" /\ pc'[a] = "truncate" /\ \A b \in Actors \ {a} : pc'[b] = pc[b]
    BY <1>1, <1>c DEF Collect
  <2>6. UNCHANGED <<torrents, rows, added, removing>>  BY <1>1 DEF Collect, uiVars
  <2>7. a = "main" => ~ Dropping /\ ~ Dropping'  BY <2>5 DEF Dropping
  <2>. QED  BY <1>h, <1>i, <2>4, <2>5, <2>6, <2>7, RowsCalm DEF Actors
<1>2. ASSUME NEW a \in Actors, Truncate(a), UNCHANGED uiVars PROVE RowsInv'
  <2>1. pc[a] = "truncate" /\ pc'[a] = "write" /\ \A b \in Actors \ {a} : pc'[b] = pc[b]
    BY <1>2, <1>c DEF Truncate
  <2>2. UNCHANGED <<torrents, job, rows, added, removing>>  BY <1>2 DEF Truncate, uiVars
  <2>3. a = "main" => ~ Dropping /\ ~ Dropping'  BY <2>1 DEF Dropping
  <2>. QED  BY <1>h, <1>i, <2>1, <2>2, <2>3, RowsCalm DEF Actors
<1>3. ASSUME NEW a \in Actors, Saving(a), Saved(a), UNCHANGED uiVars PROVE RowsInv'
  <2>. DEFINE kept == [job[a] EXCEPT !.records = <<>>]
              j == IF job[a].then = "idle" THEN NoJob ELSE kept
  <2>1. job' = [job EXCEPT ![a] = j]  BY <1>3 DEF Saved
  <2>2. JobOK(job[a], earned)  BY <1>f
  <2>3. kept.id = job[a].id /\ kept.then = job[a].then  BY <2>2 DEF JobOK
  <2>. HIDE DEF kept
  <2>4. job[a].then # "idle" => j.id = job[a].id /\ j.then = job[a].then  BY <2>3
  <2>. HIDE DEF j
  <2>5. job'[a] = j /\ \A b \in Actors \ {a} : job'[b] = job[b]  BY <1>d, <2>1
  <2>6. pc'[a] = job[a].then /\ \A b \in Actors \ {a} : pc'[b] = pc[b]
    BY <1>3, <1>c DEF Saved
  <2>7. UNCHANGED <<torrents, rows, added, removing>>  BY <1>3 DEF Saved, uiVars
  <2>8. CASE a = "add"
    <3>1. pc["add"] \in {"truncate", "write"}  BY <1>3, <2>8 DEF Saving
    <3>2. job["add"].then = "spawn"  BY <3>1 DEF RowsInv
    <3>. QED  BY <2>4, <2>5, <2>6, <2>7, <2>8, <3>1, <3>2, RowsCalm
  <2>9. CASE a = "main"
    <3>1. ~ Dropping /\ ~ Dropping'  BY <1>3, <2>2, <2>6, <2>9 DEF Dropping, Saving, JobOK
    <3>. QED  BY <1>i, <2>5, <2>6, <2>7, <2>9, <3>1
  <2>10. CASE a \in Pipelines  BY <1>h, <2>5, <2>6, <2>7, <2>10
  <2>. QED  BY <2>8, <2>9, <2>10 DEF Actors
<1>4. ASSUME NEW a \in Actors, set_status(a), UNCHANGED uiVars PROVE RowsInv'
  <2>1. pc[a] = "status" /\ pc'[a] = "collect" /\ \A b \in Actors \ {a} : pc'[b] = pc[b]
    BY <1>4, <1>c DEF set_status
  <2>2. UNCHANGED <<job, rows, added, removing>>  BY <1>4 DEF set_status, uiVars
  <2>3. DOMAIN torrents' = DOMAIN torrents  BY <1>4, <1>g DEF set_status
  <2>4. a # "add"  BY <1>f, <2>1 DEF PlaceOK
  <2>5. a = "main" => ~ Dropping /\ ~ Dropping'  BY <2>1 DEF Dropping
  <2>. QED  BY <1>h, <1>i, <2>1, <2>2, <2>3, <2>4, <2>5 DEF Actors
<1>5. ASSUME NEW a \in Actors, SaveStep(a), UNCHANGED uiVars PROVE RowsInv'
  BY <1>1, <1>2, <1>3, <1>4, <1>5 DEF SaveStep, Write, SaveFails, Saving
\* Commands of main other than a removal.
<1>j. ASSUME NEW t, NEW s, NEW then, pc["main"] = "idle", Assign("main", t, s, then),
             GoTo("main", "status"), UNCHANGED torrents, UNCHANGED uiVars
      PROVE  RowsInv'
  <2>1. pc'["main"] = "status" /\ \A b \in Actors \ {"main"} : pc'[b] = pc[b] /\ job'[b] = job[b]
    BY <1>j, <1>c, <1>d DEF Assign
  <2>2. ~ Dropping /\ ~ Dropping'  BY <1>j, <2>1 DEF Dropping
  <2>. QED  BY <1>i, <1>j, <2>1, <2>2 DEF uiVars
<1>6. ASSUME NEW id, ClickStart(id) \/ togglePause(id) PROVE RowsInv'
  BY <1>6, <1>j DEF ClickStart, start_torrent, togglePause, resume_download, pause_download,
                    ControlCommand
<1>7. ASSUME NEW id, ClickAdd(id) PROVE RowsInv'
  <2>. DEFINE j == [id |-> id, status |-> None, records |-> <<>>, then |-> "spawn"]
  <2>1. job' = [job EXCEPT !["add"] = j]  BY <1>7 DEF ClickAdd, add_torrent, Assign
  <2>2. j.id = id /\ j.then = "spawn"  OBVIOUS
  <2>. HIDE DEF j
  <2>3. job'["add"] = j /\ pc["add"] = "idle" /\ pc'["add"] = "collect"
        /\ pc'["main"] = pc["main"] /\ job'["main"] = job["main"]
    BY <1>7, <1>c, <1>d, <2>1 DEF ClickAdd, add_torrent
  <2>4. DOMAIN torrents' = DOMAIN torrents \cup {id} /\ id \notin DOMAIN torrents
    BY <1>7 DEF ClickAdd, add_torrent, Inserted, Has
  <2>5. UNCHANGED <<rows, added, removing>> /\ removing = NoRemoval
    BY <1>7 DEF ClickAdd, uiVars
  <2>6. ~ Dropping /\ ~ Dropping'  BY <2>3, <2>5 DEF RowsInv, Dropping
  <2>7. Gone = {} /\ Gone' = {}  BY <2>5 DEF Gone
  <2>8. Adding = {} /\ Adding' = {id}  BY <2>2, <2>3 DEF Adding
  <2>. QED  BY <2>2, <2>3, <2>4, <2>5, <2>6, <2>7, <2>8 DEF RowsInv
<1>8. ASSUME NEW id \in DOMAIN rows, NEW mode \in Modes, doRemove(id, mode) PROVE RowsInv'
  <2>1. /\ removing = NoRemoval /\ removing' = [id |-> id, mode |-> mode]
        /\ UNCHANGED <<rows, added>> /\ pc["main"] = "idle" /\ id \in DOMAIN torrents
    BY <1>8 DEF doRemove, remove_torrent, Has
  <2>2. DOMAIN torrents' = DOMAIN torrents  BY <1>8 DEF doRemove, remove_torrent
  <2>. DEFINE j == [id |-> id, status |-> None, records |-> <<>>, then |-> "idle"]
  <2>3. job' = [job EXCEPT !["main"] = j]  BY <1>8 DEF doRemove, remove_torrent, Assign
  <2>4. j.id = id  OBVIOUS
  <2>. HIDE DEF j
  <2>5. job'["main"].id = id /\ job'["add"] = job["add"]  BY <1>d, <2>3, <2>4
  <2>6. /\ pc'["add"] = pc["add"]
        /\ pc'["main"] \in IF mode = "data_only" THEN {"delete"} ELSE {"drop", "dropAndDelete"}
    BY <1>8, <1>c DEF doRemove, remove_torrent, Modes
  <2>7. removing' # NoRemoval /\ removing'.id = id /\ removing'.mode = mode
    BY <2>1 DEF NoRemoval, None, Modes
  <2>8. Dropping' <=> mode # "data_only"  BY <2>6 DEF Dropping
  <2>9. Gone = {} /\ Gone' = {}  BY <2>1, <2>7, <2>8 DEF Gone
  <2>10. Adding' = Adding  BY <2>5, <2>6 DEF Adding
  <2>. QED  BY <2>1, <2>2, <2>5, <2>6, <2>7, <2>8, <2>9, <2>10 DEF RowsInv
<1>9. ASSUME NEW c, NEW id, Click(c, id) PROVE RowsInv'
  BY <1>6, <1>7, <1>8, <1>9 DEF Click
<1>10. ASSUME DropEntry, UNCHANGED uiVars PROVE RowsInv'
  <2>1. PICK p \in {"collect", "delete"} : GoTo("main", p)  BY <1>10 DEF DropEntry
  <2>2. pc'["main"] = p /\ pc'["add"] = pc["add"]  BY <1>c, <2>1
  <2>3. Dropping /\ ~ Dropping' /\ UNCHANGED <<job, rows, added, removing>>
    BY <1>10, <2>2 DEF DropEntry, Dropping, uiVars
  <2>4. Gone = {} /\ Gone' = {removing.id} /\ Adding' = Adding
    BY <2>2, <2>3 DEF RowsInv, Gone, Adding
  <2>5. DOMAIN torrents' = DOMAIN torrents \ {removing.id}
    BY <1>10, <2>3 DEF DropEntry, RowsInv
  <2>. QED  BY <2>2, <2>3, <2>4, <2>5 DEF RowsInv, Adding
<1>11. ASSUME delete_data, UNCHANGED uiVars PROVE RowsInv'
  <2>1. pc["main"] = "delete" /\ pc'["main"] = "collect" /\ pc'["add"] = pc["add"]
    BY <1>11, <1>c DEF delete_data
  <2>2. ~ Dropping /\ ~ Dropping'  BY <2>1 DEF Dropping
  <2>. QED  BY <1>11, <1>i, <2>1, <2>2 DEF delete_data, uiVars
<1>12. ASSUME NEW a \in {"main", "add"}, SpawnAndReply(a) PROVE RowsInv'
  <2>1. PICK k \in Pipelines :
            /\ pc' = [pc EXCEPT ![a] = "idle", ![k] = "announcing"]
            /\ job' = [job EXCEPT ![a] = NoJob,
                                  ![k] = [NoJob EXCEPT !.id = job[a].id, !.then = "emit"]]
    BY <1>12 DEF SpawnAndReply, spawn_pipeline
  <2>. DEFINE j == [NoJob EXCEPT !.id = job[a].id, !.then = "emit"]
  <2>2. job' = [job EXCEPT ![a] = NoJob, ![k] = j]  BY <2>1
  <2>. HIDE DEF j
  <2>3. pc'[a] = "idle" /\ \A b \in {"main", "add"} \ {a} : pc'[b] = pc[b] /\ job'[b] = job[b]
    BY <2>1, <2>2 DEF RegistryInv, JobsInv, SettlingInv
  <2>4. pc[a] = "spawn" /\ UNCHANGED <<torrents, rows, removing>>
    BY <1>12 DEF SpawnAndReply, spawn_pipeline
  <2>5. CASE a = "main"
    <3>1. ~ Dropping /\ ~ Dropping'  BY <2>3, <2>4, <2>5 DEF Dropping
    <3>2. UNCHANGED added  BY <1>12, <2>5 DEF SpawnAndReply
    <3>. QED  BY <1>i, <2>3, <2>4, <2>5, <3>1, <3>2
  <2>6. CASE a = "add"
    <3>1. added' = added \cup {job["add"].id}  BY <1>12, <2>6 DEF SpawnAndReply
    <3>2. pc'["main"] = pc["main"] /\ job'["main"] = job["main"]  BY <2>3, <2>6
    <3>3. (Dropping' <=> Dropping) /\ Gone' = Gone  BY <2>4, <3>2 DEF Dropping, Gone
    <3>4. Adding = {job["add"].id} /\ Adding' = {}  BY <2>3, <2>4, <2>6 DEF Adding
    <3>5. job["add"].id \notin DOMAIN rows \cup added  BY <2>4, <2>6 DEF RowsInv
    <3>. QED  BY <2>3, <2>4, <2>6, <3>1, <3>2, <3>3, <3>4, <3>5 DEF RowsInv
  <2>. QED  BY <2>5, <2>6
<1>13. ASSUME HandlersStep PROVE RowsInv'
  BY <1>5, <1>10, <1>11, <1>12, <1>13 DEF HandlersStep
\* The window.
<1>k. ASSUME NEW id, NEW status, SetBadge(id, status) PROVE DOMAIN rows' = DOMAIN rows
  BY <1>k DEF SetBadge
<1>14. ASSUME Deliver PROVE RowsInv'
  <2>1. DOMAIN rows' = DOMAIN rows  BY <1>14, <1>k DEF Deliver
  <2>. QED  BY <1>14, <2>1, RowsCalm DEF Deliver, registryVars
<1>15. ASSUME RemoveReplies PROVE RowsInv'
  <2>1. /\ removing # NoRemoval /\ removing' = NoRemoval /\ pc["main"] = "idle"
        /\ UNCHANGED <<torrents, pc, job, added>>
    BY <1>15 DEF RemoveReplies, registryVars
  <2>2. ~ Dropping /\ ~ Dropping' /\ Gone' = {} /\ Adding' = Adding
    BY <2>1 DEF Dropping, Gone, Adding
  <2>3. CASE removing.mode = "data_only"
    <3>1. DOMAIN rows' = DOMAIN rows  BY <1>15, <1>k, <2>3 DEF RemoveReplies
    <3>2. Gone = {}  BY <2>3 DEF Gone
    <3>. QED  BY <2>1, <2>2, <3>1, <3>2 DEF RowsInv
  <2>4. CASE removing.mode # "data_only"
    <3>1. DOMAIN rows' = DOMAIN rows \ {removing.id}  BY <1>15, <2>4 DEF RemoveReplies
    <3>2. Gone = {removing.id}  BY <2>1, <2>2, <2>4 DEF Gone
    <3>. QED  BY <2>1, <2>2, <3>1, <3>2 DEF RowsInv
  <2>. QED  BY <2>3, <2>4
<1>16. ASSUME NEW id, CreateRow(id) PROVE RowsInv'
  <2>1. /\ id \in added /\ added' = added \ {id} /\ DOMAIN rows' = DOMAIN rows \cup {id}
        /\ UNCHANGED <<torrents, pc, job, removing>>
    BY <1>16 DEF CreateRow, registryVars
  <2>2. (Dropping' <=> Dropping) /\ Gone' = Gone /\ Adding' = Adding
    BY <2>1 DEF Dropping, Gone, Adding
  <2>3. id \notin Gone  BY <2>1 DEF RowsInv, Gone
  <2>. QED  BY <2>1, <2>2, <2>3 DEF RowsInv
<1>17. ASSUME WindowStep PROVE RowsInv'
  BY <1>14, <1>15, <1>16, <1>17 DEF WindowStep
\* The pipelines.
<1>l. ASSUME NEW k \in Pipelines, Ends(k), UNCHANGED <<rows, added, removing>> PROVE RowsInv'
  <2>1. \A b \in Actors \ {k} : pc'[b] = pc[b] /\ job'[b] = job[b]
    BY <1>l, <1>c, <1>d DEF Ends
  <2>. QED  BY <1>h, <1>l, <2>1 DEF Ends
<1>m. ASSUME NEW k \in Pipelines, NEW p, GoTo(k, p), UNCHANGED <<job, rows, added, removing>>,
             DOMAIN torrents' = DOMAIN torrents
      PROVE  RowsInv'
  BY <1>c, <1>h, <1>m
<1>18. ASSUME NEW k \in Pipelines, BackendStep(k) PROVE RowsInv'
  <2>1. CASE PipelineFails(k)
    <3>1. \A b \in Actors \ {k} : pc'[b] = pc[b] /\ job'[b] = job[b]
      BY <1>c, <2>1 DEF PipelineFails, RegistryInv, JobsInv
    <3>. QED  BY <1>h, <1>18, <2>1, <3>1 DEF BackendStep, PipelineFails, uiVars
  <2>2. CASE CreateStorage(k) \/ RunStarts(k) \/ WriterEnds(k)
    BY <1>m, <1>18, <2>2 DEF BackendStep, CreateStorage, RunStarts, WriterEnds, uiVars
  <2>. QED  BY <1>5, <1>18, <2>1, <2>2 DEF BackendStep
<1>19. ASSUME NEW k \in Pipelines, PublishAndEmit(k) PROVE RowsInv'
  <2>1. CASE Has(job[k].id)
    <3>1. DOMAIN torrents' = DOMAIN torrents  BY <1>19, <2>1 DEF PublishAndEmit, Publish
    <3>. QED  BY <1>m, <1>19, <2>1, <3>1 DEF PublishAndEmit, Publish
  <2>2. CASE ~ Has(job[k].id)  BY <1>l, <1>19, <2>2 DEF PublishAndEmit, Publish
  <2>. QED  BY <2>1, <2>2
<1>20. ASSUME NEW k \in Pipelines, SettleAfterEmitter(k) PROVE RowsInv'
  <2>1. DOMAIN torrents' = DOMAIN torrents  BY <1>20, <1>g DEF SettleAfterEmitter, Settle
  <2>. QED  BY <1>m, <1>20, <2>1 DEF SettleAfterEmitter, Settle
<1>21. ASSUME NEW k \in Pipelines, Finish(k) PROVE RowsInv'
  BY <1>l, <1>21 DEF Finish, EmitFinished
<1>22. ASSUME NEW k \in Pipelines, EmitStats(k) PROVE RowsInv'
  BY <1>22, RowsCalm DEF EmitStats, registryVars
<1>23. ASSUME NEW k \in Pipelines, EngineStep(k) PROVE RowsInv'
  <2>1. CASE EngineCompletes(k)
    BY <1>h, <1>23, <2>1 DEF EngineStep, EngineCompletes, uiVars
  <2>2. CASE RunReturns(k)
    BY <1>m, <1>23, <2>2 DEF EngineStep, RunReturns, uiVars
  <2>. QED  BY <1>23, <2>1, <2>2 DEF EngineStep
<1>24. CASE UNCHANGED desktopVars
  BY <1>24, RowsCalm DEF desktopVars, registryVars, uiVars
<1>. QED
  BY <1>9, <1>13, <1>17, <1>18, <1>19, <1>20, <1>21, <1>22, <1>23, <1>24
  DEF DesktopNext, TaskStep

\* The window lists what the registry holds, whenever no add or remove is under
\* way, for any number of torrents and pipelines and any clicks in between.
THEOREM RowsFollowRegistry == DesktopSpec => []RowsMatchRegistry
<1>1. DesktopInit => RegistryInit /\ RowsInv
  <2>. SUFFICES ASSUME DesktopInit PROVE RegistryInit /\ RowsInv
    OBVIOUS
  <2>1. pc["add"] = "idle" /\ pc["main"] = "idle"
    BY ActorsAre DEF DesktopInit, RegistryInit
  <2>2. DOMAIN rows = DOMAIN torrents /\ added = {} /\ removing = NoRemoval
    BY DEF DesktopInit, Records
  <2>. QED  BY <2>1, <2>2 DEF DesktopInit, RowsInv, Dropping, Gone, Adding
<1>2. RowsInv => RowsMatchRegistry
  BY DEF RowsInv, RowsMatchRegistry, Gone, Adding
<1>. QED
  BY <1>1, <1>2, RegistryInitInv, RegistryStepInv, RegistryInitTyped, RegistryStepTyped,
     DesktopStepIsRegistryStep, RowsStep, PTL
  DEF DesktopSpec
=============================================================================
