---------------------------- MODULE GPUScheduler ----------------------------
(***************************************************************************)
(* Sharing one GPU between three model services:                           *)
(* internal/knowledge/gpu_scheduler.go and every caller of a model: the    *)
(* upload pipeline (ingest/engine.go, parser.go, store.go), the search     *)
(* engine (search/engine.go, search/rerank.go), the KB router and the      *)
(* vector rebuild.                                                         *)
(*                                                                         *)
(* A request walks through the stages of its job.  A guarded stage calls   *)
(* PrepareFor*, which takes the scheduler's mutex (gpu), sleeps what may   *)
(* be loaded and leaves the mutex to the restore function; an unguarded    *)
(* stage calls its service without asking the scheduler.  A service loads  *)
(* its model on the first call after a sleep.                              *)
(***************************************************************************)
EXTENDS Integers, FiniteSets

CONSTANTS
    Procs,        \* goroutines serving requests
    Free,         \* the owner of a mutex nobody holds
    Jobs,         \* what requests ask for, a subset of AllJobs
    Services,     \* the models with a configured endpoint
    SleepURLs,    \* the models with a configured sleep URL
    SleepMayFail, \* a sleep request may fail or be refused
    Reloads       \* the management page may switch the scheduler off

Models == {"embedding", "reranker", "docparser"}
Idle == "idle"
AllJobs == {"upload", "reembed", "bm25", "hybrid", "vector", "route"}
Places == {"out", "mu", "plan", "lock", "switch", "ready", "call"}

ASSUME FreeIsNobody == Free \notin Procs
ASSUME ConfigAssumption ==
    /\ Jobs \subseteq AllJobs /\ Services \subseteq Models /\ SleepURLs \subseteq Models
    /\ SleepMayFail \in BOOLEAN /\ Reloads \in BOOLEAN

VARIABLES
    mu,           \* who holds Store.mu
    gpu,          \* who holds GPUScheduler.mu
    activeModel,  \* GPUScheduler.activeModel
    parserGPUScheduler,  \* the parser's global pointer to the scheduler is set
    pending,      \* the sleep requests the holder of gpu has still to send
    loaded,       \* the models that occupy GPU memory
    stray,        \* history: loaded past the scheduler, or not put to sleep by it
    at, job, stage  \* where each request is

vars == <<mu, gpu, activeModel, parserGPUScheduler, pending, loaded, stray, at, job, stage>>
requests == <<at, job, stage>>
scheduler == <<gpu, activeModel, pending>>
memory == <<loaded, stray>>

-----------------------------------------------------------------------------
(* The stages, the model each one calls and the order a job visits them.   *)

ModelOf == [parse |-> "docparser", rawparse |-> "docparser", merge |-> "embedding",
            index |-> "embedding", recall |-> "embedding", brute |-> "embedding",
            fallback |-> "embedding", rerank |-> "reranker", rescue |-> "embedding",
            vector |-> "embedding", route |-> "embedding", batch |-> "embedding"]
Stages == DOMAIN ModelOf

\* The stages wrapped in PrepareFor* and its restore function.
Guarded == {"parse", "merge", "recall", "brute", "rerank", "vector"}

\* Those whose restore is deferred to the end of the function.
Deferred == {"rerank", "vector"}

\* What a job may do next: any stage may be the last one, on an error or
\* because there is nothing more to do.
Plan ==
    [upload  |-> {<<"begin", "parse">>, <<"begin", "rawparse">>, <<"begin", "merge">>,
                  <<"parse", "merge">>, <<"rawparse", "merge">>, <<"merge", "index">>},
     reembed |-> {<<"begin", "batch">>},
     bm25    |-> {<<"begin", "rerank">>, <<"rerank", "rescue">>},
     hybrid  |-> {<<"begin", "recall">>, <<"begin", "brute">>, <<"begin", "rerank">>,
                  <<"recall", "fallback">>, <<"recall", "brute">>, <<"recall", "rerank">>,
                  <<"fallback", "rerank">>, <<"brute", "rerank">>, <<"rerank", "rescue">>},
     vector  |-> {<<"begin", "vector">>},
     route   |-> {<<"begin", "route">>}]

\* The uploads and the vector rebuild run under Store.mu.
HoldsMu == {"upload", "reembed"}

Follow(p) ==
    {s \in Stages :
        /\ <<stage[p], s>> \in Plan[job[p]]
        /\ ModelOf[s] \in Services
        /\ s = "parse" => parserGPUScheduler
        /\ s = "rawparse" => ~parserGPUScheduler}

ToSleepTrusting(m) == {activeModel} \ {m, Idle}  \* mutant: nothing is slept in the unknown state

\* The models doSleep is called for before m may use the GPU: the active one,
\* or both others when the scheduler does not know what is loaded.
ToSleep(m) ==
    IF activeModel = Idle THEN Models \ {m} ELSE {activeModel} \ {m}

Init ==
    /\ mu = Free /\ gpu = Free /\ activeModel = Idle /\ pending = {}
    /\ parserGPUScheduler = TRUE
    /\ loaded \in SUBSET Models \* an earlier process may have left models loaded
    /\ stray = {}
    /\ at = [p \in Procs |-> "out"]
    /\ job = [p \in Procs |-> "none"]
    /\ stage = [p \in Procs |-> "begin"]

Move(p, place) == at' = [at EXCEPT ![p] = place]

Begin(p) ==
    /\ at[p] = "out"
    /\ \E j \in Jobs :
         /\ job' = [job EXCEPT ![p] = j]
         /\ Move(p, IF j \in HoldsMu THEN "mu" ELSE "plan")
    /\ UNCHANGED <<mu, scheduler, parserGPUScheduler, memory, stage>>

TakeMu(p) ==
    /\ at[p] = "mu" /\ mu = Free
    /\ mu' = p
    /\ Move(p, "plan")
    /\ UNCHANGED <<scheduler, parserGPUScheduler, memory, job, stage>>

Enter(p) ==
    /\ at[p] = "plan"
    /\ \E s \in Follow(p) :
         /\ stage' = [stage EXCEPT ![p] = s]
         /\ Move(p, IF s \in Guarded THEN "lock" ELSE "ready")
    /\ UNCHANGED <<mu, scheduler, parserGPUScheduler, memory, job>>

LockSkipsUnlocked(p) ==  \* mutant: a skipped switch does not keep the mutex
    /\ at[p] = "lock" /\ gpu = Free
    /\ gpu' = IF activeModel = ModelOf[stage[p]] THEN Free ELSE p
    /\ pending' = ToSleep(ModelOf[stage[p]])
    /\ Move(p, IF activeModel = ModelOf[stage[p]] THEN "ready" ELSE "switch")
    /\ UNCHANGED <<mu, activeModel, parserGPUScheduler, memory, job, stage>>

\* PrepareFor*: with its model already active the switch is skipped.
Lock(p) ==
    /\ at[p] = "lock" /\ gpu = Free
    /\ gpu' = p
    /\ pending' = ToSleep(ModelOf[stage[p]])
    /\ Move(p, IF activeModel = ModelOf[stage[p]] THEN "ready" ELSE "switch")
    /\ UNCHANGED <<mu, activeModel, parserGPUScheduler, memory, job, stage>>

\* One doSleep.  Without a URL it sends nothing and reports success; a failed
\* request is logged and the switch goes on.
SleepSent(p, m) ==
    /\ at[p] = "switch" /\ m \in pending
    /\ m \in SleepURLs
    /\ pending' = pending \ {m}
    /\ loaded' = loaded \ {m}
    /\ stray' = stray \ {m}
    /\ UNCHANGED <<mu, gpu, activeModel, parserGPUScheduler, requests>>

SleepMissed(p, m) ==
    /\ at[p] = "switch" /\ m \in pending
    /\ m \notin SleepURLs \/ SleepMayFail
    /\ pending' = pending \ {m}
    /\ stray' = stray \cup (loaded \cap {m})
    /\ UNCHANGED <<mu, gpu, activeModel, parserGPUScheduler, loaded, requests>>

Switched(p) ==
    /\ at[p] = "switch" /\ pending = {}
    /\ activeModel' = ModelOf[stage[p]]
    /\ stray' = stray \ {ModelOf[stage[p]]}
    /\ Move(p, "ready")
    /\ UNCHANGED <<mu, gpu, pending, parserGPUScheduler, loaded, job, stage>>

\* The request reaches the service, which loads its model if it is not there.
Call(p) ==
    /\ at[p] = "ready"
    /\ loaded' = loaded \cup {ModelOf[stage[p]]}
    /\ stray' = IF stage[p] \in Guarded THEN stray ELSE stray \cup {ModelOf[stage[p]]}
    /\ Move(p, "call")
    /\ UNCHANGED <<mu, scheduler, parserGPUScheduler, job, stage>>

ReturnLocked(p) ==  \* mutant: a failed recall returns past its restore
    /\ at[p] = "call"
    /\ \E answered \in BOOLEAN :
         gpu' = IF stage[p] \in Guarded \ Deferred /\ (answered \/ stage[p] # "recall")
                  THEN Free ELSE gpu
    /\ Move(p, "plan")
    /\ UNCHANGED <<mu, activeModel, pending, parserGPUScheduler, memory, job, stage>>

\* The service answers, or the client's timeout ends the call; restore runs
\* unless it is deferred.
Return(p) ==
    /\ at[p] = "call"
    /\ gpu' = IF stage[p] \in Guarded \ Deferred THEN Free ELSE gpu
    /\ Move(p, "plan")
    /\ UNCHANGED <<mu, activeModel, pending, parserGPUScheduler, memory, job, stage>>

\* The function returns: its deferred restore and Unlock run.  With the scores
\* of this query and these texts in the rerank cache it does so uncalled.
End(p) ==
    /\ at[p] = "plan" \/ (at[p] = "ready" /\ stage[p] = "rerank")
    /\ gpu' = IF stage[p] \in Deferred \cup {"rescue"} THEN Free ELSE gpu
    /\ mu' = IF job[p] \in HoldsMu THEN Free ELSE mu
    /\ Move(p, "out")
    /\ job' = [job EXCEPT ![p] = "none"]
    /\ stage' = [stage EXCEPT ![p] = "begin"]
    /\ UNCHANGED <<activeModel, pending, parserGPUScheduler, memory>>

\* reloadGPUScheduler with the scheduler switched off: only the parser's
\* pointer is cleared, the engines keep theirs; switching it on again does
\* not set it.
ReloadGPUScheduler ==
    /\ Reloads /\ parserGPUScheduler
    /\ parserGPUScheduler' = FALSE
    /\ UNCHANGED <<mu, scheduler, memory, requests>>

Step(p) ==
    \/ TakeMu(p) \/ Enter(p) \/ Lock(p) \/ Switched(p) \/ Call(p) \/ Return(p)
    \/ End(p)
    \/ \E m \in Models : SleepSent(p, m) \/ SleepMissed(p, m)

Next == ReloadGPUScheduler \/ \E p \in Procs : Begin(p) \/ Step(p)

Spec == Init /\ [][Next]_vars

\* Goroutines run, the HTTP clients' timeouts end every call, and sync.Mutex
\* starves no waiter.
Fairness ==
    \A p \in Procs : WF_vars(Step(p)) /\ SF_vars(TakeMu(p)) /\ SF_vars(Lock(p))
FairSpec == Spec /\ Fairness

-----------------------------------------------------------------------------
TypeOK ==
    /\ mu \in Procs \cup {Free} /\ gpu \in Procs \cup {Free}
    /\ activeModel \in Models \cup {Idle}
    /\ parserGPUScheduler \in BOOLEAN
    /\ pending \subseteq Models /\ loaded \subseteq Models /\ stray \subseteq Models
    /\ at \in [Procs -> Places]
    /\ job \in [Procs -> AllJobs \cup {"none"}]
    /\ stage \in [Procs -> Stages \cup {"begin"}]

\* Once the scheduler has given the GPU to a model, any other model in its
\* memory was loaded by a call outside the scheduler, or is one the scheduler
\* tried to put to sleep and could not: PrepareFor* forgets none.
LoadedAccountedFor ==
    activeModel # Idle => loaded \ {activeModel} \subseteq stray

\* "Only one model operation can be in flight at a time": the model a guarded
\* call is using stays on the GPU until the call returns.  A switch for
\* another request never unloads it.
ServedFromGPU ==
    \A p \in Procs :
        at[p] = "call" /\ stage[p] \in Guarded => ModelOf[stage[p]] \in loaded

\* Every upload and search ends: the two mutexes and the restore functions
\* never leave requests waiting for each other.
RequestsComplete == \A p \in Procs : at[p] # "out" ~> at[p] = "out"

\* The scheduler's promise, "ensuring only one model is loaded at a time"
\* (gpu_scheduler.go:44-46).
OneModelLoaded == activeModel # Idle => Cardinality(loaded) <= 1

=============================================================================
