----------------------------- MODULE UploadTasks -----------------------------
(***************************************************************************)
(* Background tasks of the management server: UploadTask and               *)
(* UploadTaskManager (internal/knowledge/upload_task.go), the goroutines   *)
(* that upload a file or rebuild vectors (manage/handlers_core.go), the    *)
(* event streams that follow them, the periodic cleanup (manage/router.go) *)
(* and the task files read back when the server restarts.                  *)
(*                                                                         *)
(* An event is the number it has in its task's log.                        *)
(***************************************************************************)
EXTENDS Integers, Sequences

CONSTANTS
    Tasks,      \* task IDs, given out once
    Streams,    \* connections to /api/tasks/{id}/events
    Kinds,      \* what the tasks do, a subset of {"upload", "rebuild"}
    MaxEvents,  \* the longest event log
    MaxFaults   \* lost saves and restarts in one behaviour

ASSUME KindsAssumption == Kinds \subseteq {"upload", "rebuild"} /\ Kinds # {}
ASSUME BoundsAssumption == MaxEvents \in Nat \ {0, 1} /\ MaxFaults \in Nat

Terminal == {"done", "error"}
WorkerPlaces == {"none", "open", "write", "work", "mark", "reopen", "rewrite", "over"}
StreamPlaces == {"off", "replay", "check", "poll", "recheck", "final", "ended"}

VARIABLES
    tasks,    \* the IDs in UploadTaskManager.tasks
    status, closes, tmp, events,  \* the fields of each task; closes counts close(doneCh)
    old,      \* CreatedAt is more than maxAge ago
    file,     \* tasks/<ID>.json: "none", "torn" or the status it records
    worker, kind, outcome,        \* the goroutine of each task
    at, on, last, sent, told,     \* the event streams
    faults,
    saved     \* history: the result of the task has been written

task == <<tasks, status, closes, tmp, events>>
disk == <<file, saved>>
goroutine == <<worker, kind, outcome>>
stream == <<at, on, last, sent, told>>
vars == <<task, old, disk, goroutine, stream, faults>>

Init ==
    /\ tasks = {} /\ faults = 0
    /\ status = [t \in Tasks |-> "pending"]
    /\ closes = [t \in Tasks |-> 0]
    /\ tmp = [t \in Tasks |-> FALSE]
    /\ events = [t \in Tasks |-> 0]
    /\ old = [t \in Tasks |-> FALSE]
    /\ file = [t \in Tasks |-> "none"]
    /\ saved = [t \in Tasks |-> FALSE]
    /\ worker = [t \in Tasks |-> "none"]
    /\ kind \in [Tasks -> Kinds]
    /\ outcome = [t \in Tasks |-> "none"]
    /\ at = [s \in Streams |-> "off"]
    /\ on \in [Streams -> Tasks]
    /\ last = [s \in Streams |-> 0]
    /\ sent = [s \in Streams |-> <<>>]
    /\ told = [s \in Streams |-> "none"]

-----------------------------------------------------------------------------
(* The task's goroutine.                                                   *)

WorkerGoes(t, place) == worker' = [worker EXCEPT ![t] = place]

\* The handler has copied the file to a temporary directory.
Create(t) ==
    /\ worker[t] = "none"
    /\ tasks' = tasks \cup {t}
    /\ tmp' = [tmp EXCEPT ![t] = kind[t] = "upload"]
    /\ WorkerGoes(t, "open")
    /\ UNCHANGED <<status, closes, events, old, disk, kind, outcome, stream, faults>>

\* saveTask: os.WriteFile truncates the file, then writes it.  A save that
\* fails, at either point, is only logged.
SaveOpen(t) ==
    /\ worker[t] \in {"open", "reopen"}
    /\ file' = [file EXCEPT ![t] = "torn"]
    /\ WorkerGoes(t, IF worker[t] = "open" THEN "write" ELSE "rewrite")
    /\ UNCHANGED <<task, old, saved, kind, outcome, stream, faults>>

SaveWrite(t) ==
    /\ worker[t] \in {"write", "rewrite"}
    /\ file' = [file EXCEPT ![t] = status[t]]
    /\ saved' = [saved EXCEPT ![t] = worker[t] = "rewrite"]
    /\ WorkerGoes(t, IF worker[t] = "write" THEN "work" ELSE "over")
    /\ UNCHANGED <<task, old, kind, outcome, stream, faults>>

SaveFails(t) ==
    /\ worker[t] \in {"open", "write", "reopen", "rewrite"} /\ faults < MaxFaults
    /\ faults' = faults + 1
    /\ WorkerGoes(t, IF worker[t] \in {"open", "write"} THEN "work" ELSE "over")
    /\ UNCHANGED <<task, old, disk, kind, outcome, stream>>

RecordEvent(t) == events' = [events EXCEPT ![t] = @ + 1]

Progress(t) ==
    /\ worker[t] = "work" /\ events[t] < MaxEvents - 1
    /\ RecordEvent(t)
    /\ UNCHANGED <<tasks, status, closes, tmp, old, disk, goroutine, stream, faults>>

\* The work succeeds or fails (an upload that panics is recovered and fails):
\* its last event is recorded.
WorkEnds(t) ==
    /\ worker[t] = "work" /\ events[t] > 0
    /\ \E result \in {"ok", "failed"} : outcome' = [outcome EXCEPT ![t] = result]
    /\ RecordEvent(t)
    /\ WorkerGoes(t, "mark")
    /\ UNCHANGED <<tasks, status, closes, tmp, old, disk, kind, stream, faults>>

ResultSwallowed(t) == "done"  \* mutant: a failed upload is marked done

\* A rebuild defers MarkDone whatever its result.
ResultOf(t) == IF outcome[t] = "ok" \/ kind[t] = "rebuild" THEN "done" ELSE "error"

MarkUnclosed(t) ==  \* mutant: doneCh stays open
    /\ worker[t] = "mark"
    /\ status' = [status EXCEPT ![t] = ResultOf(t)]
    /\ tmp' = [tmp EXCEPT ![t] = FALSE]
    /\ WorkerGoes(t, "reopen")
    /\ UNCHANGED <<tasks, closes, events, old, disk, kind, outcome, stream, faults>>

MarkAgain(t) ==  \* mutant: the deferred handler marks a failure that was marked already
    /\ worker[t] = "mark"
    /\ status' = [status EXCEPT ![t] = ResultOf(t)]
    /\ tmp' = [tmp EXCEPT ![t] = FALSE]
    /\ closes' = [closes EXCEPT ![t] = IF outcome[t] = "ok" THEN @ + 1 ELSE @ + 2]
    /\ WorkerGoes(t, "reopen")
    /\ UNCHANGED <<tasks, events, old, disk, kind, outcome, stream, faults>>

\* MarkDone, MarkError.
Mark(t) ==
    /\ worker[t] = "mark"
    /\ status' = [status EXCEPT ![t] = ResultOf(t)]
    /\ tmp' = [tmp EXCEPT ![t] = FALSE]
    /\ closes' = [closes EXCEPT ![t] = @ + 1]
    /\ WorkerGoes(t, "reopen")
    /\ UNCHANGED <<tasks, events, old, disk, kind, outcome, stream, faults>>

Work(t) ==
    \/ SaveOpen(t) \/ SaveWrite(t) \/ SaveFails(t)
    \/ Progress(t) \/ WorkEnds(t) \/ Mark(t)

-----------------------------------------------------------------------------
(* Event streams.                                                          *)

StreamGoes(s, place) == at' = [at EXCEPT ![s] = place]

\* A client connects, or its EventSource reconnects.
Connect(s) ==
    /\ at[s] \in {"off", "ended"}
    /\ \E t \in tasks : on' = [on EXCEPT ![s] = t]
    /\ sent' = [sent EXCEPT ![s] = <<>>]
    /\ last' = [last EXCEPT ![s] = 0]
    /\ told' = [told EXCEPT ![s] = "none"]
    /\ StreamGoes(s, "replay")
    /\ UNCHANGED <<task, old, disk, goroutine, faults>>

SendNewUncounted(s) ==  \* mutant: lastCount is not advanced by a tick
    LET n == events[on[s]]
    IN  /\ sent' = [sent EXCEPT ![s] = @ \o [i \in 1 .. n - last[s] |-> last[s] + i]]
        /\ last' = [last EXCEPT ![s] = IF at[s] = "poll" THEN @ ELSE n]

\* Sends what Events() returns past the first `last` ones.
SendNew(s) ==
    LET n == events[on[s]]
    IN  /\ sent' = [sent EXCEPT ![s] = @ \o [i \in 1 .. n - last[s] |-> last[s] + i]]
        /\ last' = [last EXCEPT ![s] = n]

Replay(s) ==
    /\ at[s] = "replay"
    /\ SendNew(s)
    /\ StreamGoes(s, "check")
    /\ UNCHANGED <<task, old, disk, goroutine, on, told, faults>>

\* Snapshot() after the events were copied.
Check(s) ==
    /\ at[s] \in {"check", "recheck"}
    /\ StreamGoes(s, IF status[on[s]] \in Terminal THEN "final" ELSE "poll")
    /\ UNCHANGED <<task, old, disk, goroutine, on, last, sent, told, faults>>

\* The ticker: with nothing new it changes nothing.
Tick(s) ==
    /\ at[s] = "poll" /\ events[on[s]] > last[s]
    /\ SendNew(s)
    /\ StreamGoes(s, "recheck")
    /\ UNCHANGED <<task, old, disk, goroutine, on, told, faults>>

\* The task's channel is closed.
Done(s) ==
    /\ at[s] = "poll" /\ closes[on[s]] > 0
    /\ SendNew(s)
    /\ StreamGoes(s, "final")
    /\ UNCHANGED <<task, old, disk, goroutine, on, told, faults>>

\* sendUploadTaskFinalEvent: anything but "done" is reported as an error.
Final(s) ==
    /\ at[s] = "final"
    /\ told' = [told EXCEPT ![s] = IF status[on[s]] = "done" THEN "complete" ELSE "error"]
    /\ StreamGoes(s, "ended")
    /\ UNCHANGED <<task, old, disk, goroutine, on, last, sent, faults>>

Disconnect(s) ==
    /\ at[s] = "poll"
    /\ StreamGoes(s, "off")
    /\ UNCHANGED <<task, old, disk, goroutine, on, last, sent, told, faults>>

Serve(s) == Replay(s) \/ Check(s) \/ Tick(s) \/ Done(s) \/ Final(s)

-----------------------------------------------------------------------------
(* Cleanup, time and restarts.                                             *)

GrowOld(t) ==
    /\ t \in tasks /\ ~old[t]
    /\ old' = [old EXCEPT ![t] = TRUE]
    /\ UNCHANGED <<task, disk, goroutine, stream, faults>>

RemovableAnyAge(t) == status[t] \in Terminal  \* mutant: no age check

Removable(t) == status[t] \in Terminal /\ old[t]

Cleanup(t) ==
    /\ t \in tasks /\ Removable(t)
    /\ tasks' = tasks \ {t}
    /\ file' = [file EXCEPT ![t] = "none"]
    /\ UNCHANGED <<status, closes, tmp, events, old, saved, goroutine, stream, faults>>

\* loadTasks: finished tasks come back, with a closed channel and without
\* events; the files of the others are deleted; a torn file is skipped.
Restart ==
    /\ faults < MaxFaults
    /\ faults' = faults + 1
    /\ tasks' = {t \in Tasks : file[t] \in Terminal}
    /\ file' = [t \in Tasks |-> IF file[t] = "pending" THEN "none" ELSE file[t]]
    /\ status' = [t \in Tasks |-> IF file[t] \in Terminal THEN file[t] ELSE "pending"]
    /\ closes' = [t \in Tasks |-> IF file[t] \in Terminal THEN 1 ELSE 0]
    /\ events' = [t \in Tasks |-> 0]
    /\ worker' = [t \in Tasks |-> IF worker[t] = "none" THEN "none" ELSE "over"]
    /\ at' = [s \in Streams |-> "off"]
    /\ UNCHANGED <<tmp, old, saved, kind, outcome, on, last, sent, told>>

Next ==
    \/ Restart
    \/ \E t \in Tasks : Create(t) \/ Work(t) \/ GrowOld(t) \/ Cleanup(t)
    \/ \E s \in Streams : Connect(s) \/ Serve(s) \/ Disconnect(s)

Spec == Init /\ [][Next]_vars

\* Goroutines run, and a select whose channel is closed is not kept from it
\* by the ticker, which is ready once in 300 ms.
Fairness ==
    /\ \A t \in Tasks : WF_vars(Work(t))
    /\ \A s \in Streams : WF_vars(Serve(s))
FairSpec == Spec /\ Fairness

-----------------------------------------------------------------------------
TypeOK ==
    /\ tasks \subseteq Tasks
    /\ status \in [Tasks -> Terminal \cup {"pending"}]
    /\ closes \in [Tasks -> 0 .. 1] \* a second close(doneCh) panics
    /\ tmp \in [Tasks -> BOOLEAN] /\ old \in [Tasks -> BOOLEAN]
    /\ events \in [Tasks -> 0 .. MaxEvents]
    /\ file \in [Tasks -> Terminal \cup {"pending", "none", "torn"}]
    /\ saved \in [Tasks -> BOOLEAN]
    /\ worker \in [Tasks -> WorkerPlaces] /\ kind \in [Tasks -> Kinds]
    /\ outcome \in [Tasks -> {"none", "ok", "failed"}]
    /\ at \in [Streams -> StreamPlaces] /\ on \in [Streams -> Tasks]
    /\ last \in [Streams -> 0 .. MaxEvents]
    /\ sent \in [Streams -> Seq(1 .. MaxEvents)]
    /\ told \in [Streams -> {"none", "complete", "error"}]
    /\ faults \in 0 .. MaxFaults

\* A client that follows an upload to the end is told what became of it,
\* however its connection fell among the task's steps, a restart included.
UploadOutcomeTold ==
    \A s \in Streams : at[s] = "ended" /\ kind[on[s]] = "upload" =>
        told[s] = IF outcome[on[s]] = "ok" THEN "complete" ELSE "error"

\* A stream delivers the log in order, no event twice.
EventsInOrder == \A s \in Streams : \A i \in 1 .. Len(sent[s]) : sent[s][i] = i

\* A result that has been written is forgotten only when it is old, and never
\* changes: neither a cleanup nor a restart loses it.
ResultsKept ==
    [][\A t \in Tasks : t \in tasks /\ saved[t] =>
        \/ t \in tasks' /\ status'[t] = status[t]
        \/ t \notin tasks' /\ old[t]]_vars

\* Every stream comes to its final event, or its connection ends.
StreamsEnd == \A s \in Streams : at[s] = "replay" ~> at[s] \in {"ended", "off"}

\* "On connect it replays all recorded events, then waits for new ones until
\* the task completes" (manage/handlers_core.go:444-446): a stream that has
\* ended has delivered the whole log.
LogDelivered ==
    \A s \in Streams : at[s] = "ended" => Len(sent[s]) >= events[on[s]]

=============================================================================
