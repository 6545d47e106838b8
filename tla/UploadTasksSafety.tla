--------------------------- MODULE UploadTasksSafety ---------------------------
(***************************************************************************)
(* TypeOK, UploadOutcomeTold, EventsInOrder and ResultsKept of             *)
(* UploadTasks, for any number of tasks and streams, logs of any length    *)
(* and any number of faults.                                               *)
(***************************************************************************)
EXTENDS UploadTasks, SequenceTheorems, TLAPS

Working == {"none", "open", "write", "work"}

(* What the place of a task's goroutine says of the task and its file.      *)
TaskOK(t) ==
    /\ worker[t] \in Working => outcome[t] = "none" /\ events[t] < MaxEvents
    /\ worker[t] \notin Working /\ worker[t] # "over" => outcome[t] # "none"
    /\ worker[t] \in Working \cup {"mark"} =>
         /\ closes[t] = 0 /\ status[t] = "pending" /\ ~saved[t]
         /\ file[t] \notin Terminal
    /\ worker[t] \in {"reopen", "rewrite"} => status[t] \in Terminal
    /\ closes[t] = IF status[t] \in Terminal THEN 1 ELSE 0
    /\ status[t] \in Terminal => status[t] = ResultOf(t)
    /\ file[t] \in Terminal => file[t] = ResultOf(t)
    /\ saved[t] /\ t \in tasks => worker[t] = "over" /\ file[t] = status[t] /\ status[t] \in Terminal

(* A stream has sent the first `last' events of its task's log.             *)
StreamOK(s) ==
    /\ Len(sent[s]) = last[s]
    /\ \A i \in 1 .. last[s] : sent[s][i] = i
    /\ at[s] # "off" => last[s] <= events[on[s]]
    /\ at[s] \in {"final", "ended"} => status[on[s]] \in Terminal
    /\ at[s] = "ended" => told[s] = IF status[on[s]] = "done" THEN "complete" ELSE "error"

TasksOK == \A t \in Tasks : TaskOK(t)
StreamsOK == \A s \in Streams : StreamOK(s)
FollowInv == TypeOK /\ TasksOK /\ StreamsOK

-----------------------------------------------------------------------------
(* Appending the events a to n to the first a - 1 gives the first n.        *)
LEMMA AppendEvents ==
    \A q \in Seq(1 .. MaxEvents) : \A n \in 0 .. MaxEvents : \A r :
        /\ Len(q) <= n /\ \A i \in 1 .. Len(q) : q[i] = i
        /\ r = q \o [i \in 1 .. n - Len(q) |-> Len(q) + i]
        => r \in Seq(1 .. MaxEvents) /\ Len(r) = n /\ \A i \in 1 .. n : r[i] = i
<1> SUFFICES ASSUME NEW q \in Seq(1 .. MaxEvents), NEW n \in 0 .. MaxEvents, NEW r,
                    Len(q) <= n, \A i \in 1 .. Len(q) : q[i] = i,
                    r = q \o [i \in 1 .. n - Len(q) |-> Len(q) + i]
             PROVE  r \in Seq(1 .. MaxEvents) /\ Len(r) = n /\ \A i \in 1 .. n : r[i] = i
  OBVIOUS
<1> DEFINE tail == [i \in 1 .. n - Len(q) |-> Len(q) + i]
<1>1. MaxEvents \in Nat /\ Len(q) \in Nat /\ n - Len(q) \in Nat
  BY BoundsAssumption, LenProperties
<1>2. tail \in [1 .. n - Len(q) -> 1 .. MaxEvents]
  BY <1>1
<1>3. tail \in Seq(1 .. MaxEvents) /\ Len(tail) = n - Len(q)
  BY <1>1, <1>2
<1>4. /\ r \in Seq(1 .. MaxEvents)
      /\ Len(r) = Len(q) + Len(tail)
      /\ \A i \in 1 .. Len(q) + Len(tail) : r[i] = IF i <= Len(q) THEN q[i] ELSE tail[i - Len(q)]
  BY <1>3, ConcatProperties
<1>5. Len(r) = n
  BY <1>1, <1>3, <1>4
<1>6. ASSUME NEW i \in 1 .. n PROVE r[i] = i
  <2>1. CASE i <= Len(q) BY <1>1, <1>3, <1>4, <2>1
  <2>2. CASE i > Len(q)
    <3>1. i - Len(q) \in 1 .. n - Len(q)
      BY <1>1, <2>2
    <3>2. r[i] = Len(q) + (i - Len(q))
      BY <1>1, <1>3, <1>4, <2>2, <3>1
    <3>3. QED BY <1>1, <3>2
  <2>3. QED BY <1>1, <2>1, <2>2
<1>7. QED BY <1>4, <1>5, <1>6

LEMMA FollowInit == Init => FollowInv
<1>1. SUFFICES ASSUME Init PROVE FollowInv
  OBVIOUS
<1>2. MaxEvents \in Nat \ {0, 1} /\ MaxFaults \in Nat
  BY BoundsAssumption
<1>3. TypeOK
  BY <1>1, <1>2 DEF Init, TypeOK, Terminal, WorkerPlaces, StreamPlaces
<1>4. TasksOK
  <2>1. SUFFICES ASSUME NEW t \in Tasks PROVE TaskOK(t)
    BY DEF TasksOK
  <2>2. /\ t \notin tasks /\ ~saved[t] /\ status[t] = "pending" /\ closes[t] = 0 /\ events[t] = 0
        /\ file[t] = "none" /\ worker[t] = "none" /\ outcome[t] = "none"
    BY <1>1 DEF Init
  <2>3. QED BY <1>2, <2>2 DEF TaskOK, Terminal, Working
<1>5. StreamsOK
  BY <1>1, <1>2 DEF Init, StreamsOK, StreamOK
<1>6. QED BY <1>3, <1>4, <1>5 DEF FollowInv

-----------------------------------------------------------------------------
(* A step of a task's goroutine leaves the streams where they are and only  *)
(* adds to the log and to the result.                                       *)
LEMMA StreamsUndisturbed ==
    ASSUME FollowInv, TypeOK', UNCHANGED stream,
           \A t \in Tasks : events'[t] >= events[t],
           \A t \in Tasks : status[t] \in Terminal => status'[t] = status[t]
    PROVE  StreamsOK'
<1>1. SUFFICES ASSUME NEW s \in Streams PROVE StreamOK(s)'
  BY DEF StreamsOK
<1>2. /\ on[s] \in Tasks /\ last[s] \in Int /\ events[on[s]] \in Int /\ events'[on[s]] \in Int
      /\ events'[on[s]] >= events[on[s]]
      /\ status[on[s]] \in Terminal => status'[on[s]] = status[on[s]]
  BY BoundsAssumption DEF FollowInv, TypeOK
<1>3. StreamOK(s)
  BY DEF FollowInv, StreamsOK
<1>4. QED BY <1>2, <1>3 DEF StreamOK, stream

LEMMA WorkStep ==
    ASSUME FollowInv, NEW t \in Tasks, Create(t) \/ Work(t) PROVE FollowInv'
<1> USE BoundsAssumption
<1>1. TypeOK /\ TasksOK /\ TaskOK(t)
  BY DEF FollowInv, TasksOK
<1>2. CASE Create(t)
  <2>1. TypeOK'
    BY <1>1, <1>2 DEF Create, WorkerGoes, TypeOK, WorkerPlaces, disk, stream
  <2>2. TasksOK'
    BY <1>1, <1>2
       DEF Create, WorkerGoes, TypeOK, TasksOK, TaskOK, Working, ResultOf, disk, Terminal
  <2>3. StreamsOK'
    BY <1>2, <2>1, StreamsUndisturbed DEF Create, FollowInv, TypeOK
  <2>4. QED BY <2>1, <2>2, <2>3 DEF FollowInv
<1>3. CASE SaveOpen(t)
  <2>1. TypeOK'
    BY <1>1, <1>3 DEF SaveOpen, WorkerGoes, TypeOK, WorkerPlaces, task, stream
  <2>2. TasksOK'
    BY <1>1, <1>3
       DEF SaveOpen, WorkerGoes, TypeOK, TasksOK, TaskOK, Working, ResultOf, task, Terminal
  <2>3. StreamsOK'
    BY <1>3, <2>1, StreamsUndisturbed DEF SaveOpen, FollowInv, TypeOK, task
  <2>4. QED BY <2>1, <2>2, <2>3 DEF FollowInv
<1>4. CASE SaveWrite(t)
  <2>1. TypeOK'
    BY <1>1, <1>4 DEF SaveWrite, WorkerGoes, TypeOK, WorkerPlaces, task, stream
  <2>2. TasksOK'
    BY <1>1, <1>4
       DEF SaveWrite, WorkerGoes, TypeOK, TasksOK, TaskOK, Working, ResultOf, task, Terminal
  <2>3. StreamsOK'
    BY <1>4, <2>1, StreamsUndisturbed DEF SaveWrite, FollowInv, TypeOK, task
  <2>4. QED BY <2>1, <2>2, <2>3 DEF FollowInv
<1>5. CASE SaveFails(t)
  <2>1. TypeOK'
    BY <1>1, <1>5 DEF SaveFails, WorkerGoes, TypeOK, WorkerPlaces, task, disk, stream
  <2>2. TasksOK'
    BY <1>1, <1>5
       DEF SaveFails, WorkerGoes, TypeOK, TasksOK, TaskOK, Working, ResultOf, task, disk, Terminal
  <2>3. StreamsOK'
    BY <1>5, <2>1, StreamsUndisturbed DEF SaveFails, FollowInv, TypeOK, task
  <2>4. QED BY <2>1, <2>2, <2>3 DEF FollowInv
<1>6. CASE Progress(t)
  <2>1. TypeOK'
    BY <1>1, <1>6 DEF Progress, RecordEvent, TypeOK, disk, goroutine, stream
  <2>2. TasksOK'
    BY <1>1, <1>6
       DEF Progress, RecordEvent, TypeOK, TasksOK, TaskOK, Working, ResultOf, disk, goroutine
  <2>3. StreamsOK'
    BY <1>1, <1>6, <2>1, StreamsUndisturbed DEF Progress, RecordEvent, TypeOK
  <2>4. QED BY <2>1, <2>2, <2>3 DEF FollowInv
<1>7. CASE WorkEnds(t)
  <2>1. PICK result \in {"ok", "failed"} : outcome' = [outcome EXCEPT ![t] = result]
    BY <1>7 DEF WorkEnds
  <2>2. TypeOK'
    BY <1>1, <1>7, <2>1
       DEF WorkEnds, RecordEvent, WorkerGoes, TypeOK, TaskOK, Working, WorkerPlaces, disk, stream
  <2>3. TasksOK'
    BY <1>1, <1>7, <2>1
       DEF WorkEnds, RecordEvent, WorkerGoes, TypeOK, TasksOK, TaskOK, Working, ResultOf, disk,
           Terminal
  <2>4. StreamsOK'
    BY <1>1, <1>7, <2>2, StreamsUndisturbed DEF WorkEnds, RecordEvent, TypeOK
  <2>5. QED BY <2>2, <2>3, <2>4 DEF FollowInv
<1>8. CASE Mark(t)
  <2>1. TypeOK'
    BY <1>1, <1>8
       DEF Mark, WorkerGoes, TypeOK, TaskOK, Working, ResultOf, WorkerPlaces, Terminal, disk, stream
  <2>2. TasksOK'
    BY <1>1, <1>8
       DEF Mark, WorkerGoes, TypeOK, TasksOK, TaskOK, Working, ResultOf, disk, Terminal
  <2>3. StreamsOK'
    BY <1>1, <1>8, <2>1, StreamsUndisturbed DEF Mark, TypeOK, TaskOK, Working, Terminal
  <2>4. QED BY <2>1, <2>2, <2>3 DEF FollowInv
<1>9. QED BY <1>2, <1>3, <1>4, <1>5, <1>6, <1>7, <1>8 DEF Work

(* A step of a stream leaves the tasks where they are.                      *)
LEMMA StreamStep ==
    ASSUME FollowInv, NEW s \in Streams, Connect(s) \/ Serve(s) \/ Disconnect(s)
    PROVE  FollowInv'
<1> USE BoundsAssumption
<1>1. TypeOK /\ TasksOK /\ StreamsOK /\ StreamOK(s) /\ (\A t \in Tasks : TaskOK(t))
  BY DEF FollowInv, StreamsOK, TasksOK
<1>2. UNCHANGED <<task, old, disk, goroutine, faults>>
  BY DEF Connect, Serve, Replay, Check, Tick, Done, Final, Disconnect
<1>3. TasksOK'
  BY <1>1, <1>2 DEF TasksOK, TaskOK, ResultOf, task, disk, goroutine
<1>4. SUFFICES TypeOK' /\ StreamsOK'
  BY <1>3 DEF FollowInv
<1>5. CASE Connect(s)
  <2>1. PICK t \in tasks : on' = [on EXCEPT ![s] = t]
    BY <1>5 DEF Connect
  <2>2. t \in Tasks /\ events[t] \in Nat /\ <<>> \in Seq(1 .. MaxEvents) /\ Len(<<>>) = 0
    BY <1>1, EmptySeq DEF TypeOK
  <2>3. QED
    BY <1>1, <1>2, <1>5, <2>1, <2>2
       DEF Connect, StreamGoes, TypeOK, StreamsOK, StreamOK, StreamPlaces, task, disk, goroutine
<1>6. ASSUME SendNew(s), at[s] # "off", NEW place \in StreamPlaces \ {"ended"}, StreamGoes(s, place),
             place = "final" => status[on[s]] \in Terminal, UNCHANGED <<on, told>>
      PROVE  TypeOK' /\ StreamsOK'
  <2>1. /\ sent[s] \in Seq(1 .. MaxEvents) /\ events[on[s]] \in 0 .. MaxEvents
        /\ last[s] \in 0 .. MaxEvents /\ Len(sent[s]) = last[s] /\ last[s] <= events[on[s]]
        /\ \A i \in 1 .. last[s] : sent[s][i] = i
    BY <1>1, <1>6 DEF TypeOK, StreamOK
  <2>2. /\ last' = [last EXCEPT ![s] = events[on[s]]]
        /\ sent' = [sent EXCEPT ![s] =
                      sent[s] \o [i \in 1 .. events[on[s]] - Len(sent[s]) |-> Len(sent[s]) + i]]
    BY <1>6, <2>1 DEF SendNew
  <2>3. /\ sent'[s] \in Seq(1 .. MaxEvents) /\ Len(sent'[s]) = events[on[s]]
        /\ \A i \in 1 .. events[on[s]] : sent'[s][i] = i
    <3>1. sent'[s] = sent[s] \o [i \in 1 .. events[on[s]] - Len(sent[s]) |-> Len(sent[s]) + i]
      BY <1>1, <2>2 DEF TypeOK
    <3> DEFINE q == sent[s]
               n == events[on[s]]
               r == sent'[s]
    <3>2. /\ q \in Seq(1 .. MaxEvents) /\ n \in 0 .. MaxEvents
          /\ Len(q) <= n /\ \A i \in 1 .. Len(q) : q[i] = i
          /\ r = q \o [i \in 1 .. n - Len(q) |-> Len(q) + i]
      BY <2>1, <3>1
    <3> HIDE DEF q, n, r
    <3>3. r \in Seq(1 .. MaxEvents) /\ Len(r) = n /\ \A i \in 1 .. n : r[i] = i
      BY ONLY <3>2, AppendEvents, Zenon
    <3>4. QED BY <3>3 DEF q, n, r
  <2>4. sent' \in [Streams -> Seq(1 .. MaxEvents)]
    BY <1>1, <2>2, <2>3 DEF TypeOK
  <2>5. TypeOK'
    BY <1>1, <1>2, <1>6, <2>1, <2>2, <2>4
       DEF StreamGoes, TypeOK, task, disk, goroutine
  <2>6. ASSUME NEW q \in Streams PROVE StreamOK(q)'
    <3>1. CASE q = s
      BY <1>1, <1>2, <1>6, <2>1, <2>2, <2>3, <3>1 DEF StreamGoes, TypeOK, StreamOK, task
    <3>2. CASE q # s
      BY <1>1, <1>2, <1>6, <2>2, <3>2 DEF StreamGoes, TypeOK, StreamsOK, StreamOK, task
    <3>3. QED BY <3>1, <3>2
  <2>7. QED BY <2>5, <2>6 DEF StreamsOK
<1>7. CASE Replay(s)
  BY <1>6, <1>7 DEF Replay, StreamPlaces
<1>8. CASE Tick(s)
  BY <1>6, <1>8 DEF Tick, StreamPlaces
<1>9. CASE Done(s)
  <2>1. status[on[s]] \in Terminal
    BY <1>1, <1>9 DEF Done, TypeOK, TaskOK
  <2>2. QED BY <1>6, <1>9, <2>1 DEF Done, StreamPlaces
<1>10. CASE Check(s)
  BY <1>1, <1>2, <1>10
     DEF Check, StreamGoes, TypeOK, StreamsOK, StreamOK, StreamPlaces, task, disk, goroutine
<1>11. CASE Final(s)
  <2>1. TypeOK'
    BY <1>1, <1>2, <1>11 DEF Final, StreamGoes, TypeOK, StreamPlaces, task, disk, goroutine
  <2>2. ASSUME NEW q \in Streams PROVE StreamOK(q)'
    BY <1>1, <1>2, <1>11, <2>2 DEF Final, StreamGoes, TypeOK, StreamsOK, StreamOK, task
  <2>3. QED BY <2>1, <2>2 DEF StreamsOK
<1>12. CASE Disconnect(s)
  BY <1>1, <1>2, <1>12
     DEF Disconnect, StreamGoes, TypeOK, StreamsOK, StreamOK, StreamPlaces, task, disk, goroutine
<1>13. QED BY <1>5, <1>7, <1>8, <1>9, <1>10, <1>11, <1>12 DEF Serve

LEMMA UpkeepStep ==
    ASSUME FollowInv,
           Restart \/ (\E t \in Tasks : GrowOld(t) \/ Cleanup(t)) \/ UNCHANGED vars
    PROVE  FollowInv'
<1> USE BoundsAssumption
<1>1. TypeOK /\ TasksOK /\ StreamsOK
  BY DEF FollowInv
<1>2. CASE Restart
  <2>1. TypeOK'
    BY <1>1, <1>2 DEF Restart, TypeOK, Terminal, WorkerPlaces, StreamPlaces
  <2>2. TasksOK'
    BY <1>1, <1>2 DEF Restart, TypeOK, TasksOK, TaskOK, Working, ResultOf, Terminal
  <2>3. StreamsOK'
    BY <1>1, <1>2 DEF Restart, TypeOK, StreamsOK, StreamOK
  <2>4. QED BY <2>1, <2>2, <2>3 DEF FollowInv
<1>3. ASSUME NEW t \in Tasks, GrowOld(t) PROVE FollowInv'
  <2>1. TypeOK'
    BY <1>1, <1>3 DEF GrowOld, TypeOK, task, disk, goroutine, stream
  <2>2. TasksOK' /\ StreamsOK'
    BY <1>1, <1>3
       DEF GrowOld, TasksOK, TaskOK, ResultOf, StreamsOK, StreamOK, task, disk, goroutine, stream
  <2>3. QED BY <2>1, <2>2 DEF FollowInv
<1>4. ASSUME NEW t \in Tasks, Cleanup(t) PROVE FollowInv'
  <2>1. TypeOK'
    BY <1>1, <1>4 DEF Cleanup, TypeOK, goroutine, stream
  <2>2. TasksOK'
    BY <1>1, <1>4
       DEF Cleanup, Removable, TypeOK, TasksOK, TaskOK, Working, ResultOf, goroutine, Terminal
  <2>3. StreamsOK'
    BY <1>1, <1>4 DEF Cleanup, StreamsOK, StreamOK, stream
  <2>4. QED BY <2>1, <2>2, <2>3 DEF FollowInv
<1>5. CASE UNCHANGED vars
  BY <1>1, <1>5
     DEF vars, FollowInv, TypeOK, TasksOK, TaskOK, ResultOf, StreamsOK, StreamOK, task, disk,
         goroutine, stream
<1>6. QED BY <1>2, <1>3, <1>4, <1>5

LEMMA FollowStep == FollowInv /\ [Next]_vars => FollowInv'
BY WorkStep, StreamStep, UpkeepStep DEF Next

-----------------------------------------------------------------------------
LEMMA FollowImplies == FollowInv => TypeOK /\ UploadOutcomeTold /\ EventsInOrder
<1>1. SUFFICES ASSUME FollowInv PROVE UploadOutcomeTold /\ EventsInOrder
  BY DEF FollowInv
<1>2. EventsInOrder
  BY <1>1 DEF FollowInv, StreamsOK, StreamOK, EventsInOrder
<1>3. ASSUME NEW s \in Streams, at[s] = "ended", kind[on[s]] = "upload"
      PROVE  told[s] = IF outcome[on[s]] = "ok" THEN "complete" ELSE "error"
  <2>1. on[s] \in Tasks
    BY <1>1 DEF FollowInv, TypeOK
  <2>2. StreamOK(s) /\ TaskOK(on[s])
    BY <1>1, <2>1 DEF FollowInv, StreamsOK, TasksOK
  <2>3. QED BY <1>3, <2>2 DEF StreamOK, TaskOK, ResultOf
<1>4. QED BY <1>2, <1>3 DEF UploadOutcomeTold

LEMMA ResultStays ==
    ASSUME FollowInv, [Next]_vars, NEW t \in Tasks, t \in tasks, saved[t]
    PROVE  \/ t \in tasks' /\ status'[t] = status[t]
           \/ t \notin tasks' /\ old[t]
<1>1. /\ TypeOK /\ worker[t] = "over" /\ file[t] = status[t] /\ status[t] \in Terminal
  BY DEF FollowInv, TasksOK, TaskOK
<1>2. ASSUME NEW u \in Tasks, Create(u) \/ Work(u)
      PROVE  t \in tasks' /\ status'[t] = status[t]
  BY <1>1, <1>2
     DEF TypeOK, Create, Work, SaveOpen, SaveWrite, SaveFails, Progress, WorkEnds, Mark, task
<1>3. ASSUME NEW u \in Tasks, GrowOld(u) \/ Cleanup(u)
      PROVE  \/ t \in tasks' /\ status'[t] = status[t]
             \/ t \notin tasks' /\ old[t]
  BY <1>1, <1>3 DEF GrowOld, Cleanup, Removable, task
<1>4. ASSUME NEW s \in Streams, Connect(s) \/ Serve(s) \/ Disconnect(s)
      PROVE  t \in tasks' /\ status'[t] = status[t]
  BY <1>4 DEF Connect, Serve, Replay, Check, Tick, Done, Final, Disconnect, task
<1>5. CASE Restart
  BY <1>1, <1>5 DEF Restart
<1>6. CASE UNCHANGED vars
  BY <1>6 DEF vars, task
<1>7. QED BY <1>2, <1>3, <1>4, <1>5, <1>6 DEF Next

(* The variables keep their types; in particular no channel is closed twice. *)
THEOREM TaskTypes == Spec => []TypeOK
<1>1. QED BY FollowInit, FollowStep, FollowImplies, PTL DEF Spec

(* Streams deliver the log in order and end with the upload's own result.   *)
THEOREM StreamsAreTrue == Spec => [](UploadOutcomeTold /\ EventsInOrder)
<1>1. QED BY FollowInit, FollowStep, FollowImplies, PTL DEF Spec

(* A written result is forgotten only by a cleanup that finds it old.       *)
THEOREM ResultsAreKept == Spec => ResultsKept
<1>1. FollowInv /\ [Next]_vars =>
        [\A t \in Tasks : t \in tasks /\ saved[t] =>
            \/ t \in tasks' /\ status'[t] = status[t]
            \/ t \notin tasks' /\ old[t]]_vars
  BY ResultStays
<1>2. QED BY <1>1, FollowInit, FollowStep, PTL DEF Spec, ResultsKept

(* A stream never skips or repeats an event, on whichever of its three ways *)
(* - replay, tick, end of the task - it is sent.                            *)
COROLLARY StreamsAreOrdered == Spec => []EventsInOrder
<1>1. QED BY StreamsAreTrue, PTL
=============================================================================
