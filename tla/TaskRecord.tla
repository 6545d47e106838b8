------------------------------ MODULE TaskRecord ------------------------------
(***************************************************************************)
(* The record of an index task (state_machine.go) under any sequence of    *)
(* its methods.  Nothing in the repository drives one: the record is a     *)
(* state machine by itself.                                                *)
(***************************************************************************)
EXTENDS Integers

CONSTANTS
    Limits,     \* what MaxAttempts is set to, 0 for no limit
    MaxRetries  \* bound: attempts of a task without a limit

ASSUME LimitsAssumption == Limits \subseteq Nat /\ MaxRetries \in Nat

VARIABLES
    state, attempt, maxAttempts,
    checkpoints  \* the results the record holds: of "parsed_text" and "manifest"

recordVars == <<state, attempt, maxAttempts, checkpoints>>

Failures == {"failed", "failed_permanent"}
Forward ==
    [pending |-> {"parsing"}, parsing |-> {"chunking"}, chunking |-> {"embedding", "writing"},
     embedding |-> {"writing"}, writing |-> {"verifying"}, verifying |-> {"active"},
     active |-> {"tombstoning"}, tombstoning |-> {"tombstoned"}, tombstoned |-> {"cleaning"},
     cleaning |-> {"cleaned"}, cleaned |-> {}]
TaskStates == DOMAIN Forward \cup Failures

CanTransitionTo(target) ==
    \/ state = "failed" /\ target \notin Failures
    \/ state \in DOMAIN Forward /\ target \in Forward[state]
    \/ target \in Failures /\ state \in DOMAIN Forward \ {"active", "tombstoned", "cleaning", "cleaned"}
    \/ state = "cleaning" /\ target = "failed"

NewTaskRecord ==
    /\ state = "pending" /\ attempt = 0 /\ checkpoints = {}
    /\ maxAttempts \in Limits

Transition(target) ==
    /\ CanTransitionTo(target)
    /\ state' = target
    /\ UNCHANGED <<attempt, maxAttempts, checkpoints>>

ExhaustedTooLate == maxAttempts > 0 /\ attempt > maxAttempts  \* mutant
Exhausted == maxAttempts > 0 /\ attempt >= maxAttempts

(* From any state, a terminal one included.                                 *)
RecordError ==
    /\ state' = IF Exhausted THEN "failed_permanent" ELSE "failed"
    /\ UNCHANGED <<attempt, maxAttempts, checkpoints>>

Retry ==
    /\ state = "failed" /\ ~Exhausted
    /\ maxAttempts = 0 => attempt < MaxRetries
    /\ attempt' = attempt + 1
    /\ state' = "pending"
    /\ UNCHANGED <<maxAttempts, checkpoints>>

(* Whoever runs the task keeps what a step has made.                        *)
Checkpoint ==
    /\ checkpoints' = checkpoints \cup
          (CASE state = "parsing" -> {"parsed_text"} [] state = "writing" -> {"manifest"} [] OTHER -> {})
    /\ checkpoints' # checkpoints
    /\ UNCHANGED <<state, attempt, maxAttempts>>

ResumePoint ==
    IF state # "failed" THEN state
    ELSE IF "manifest" \in checkpoints THEN "verifying"
    ELSE IF "parsed_text" \in checkpoints THEN "chunking"
    ELSE "parsing"

Resume == state = "failed" /\ Transition(ResumePoint)

RecordNext ==
    \/ \E target \in TaskStates : Transition(target)
    \/ RecordError \/ Retry \/ Checkpoint \/ Resume

RecordSpec == NewTaskRecord /\ [][RecordNext]_recordVars

-----------------------------------------------------------------------------
(* Retry counts no further than the limit, and a task whose attempts are    *)
(* used up and that is failed for good stays so, whatever is called on it:  *)
(* no error, retry or transition brings it back.  How often a task is tried *)
(* is not bounded: a failed one also goes on by Transition, which counts    *)
(* nothing (a finding).                                                     *)
ExhaustedIsFinal ==
    [][/\ maxAttempts > 0 => attempt' <= maxAttempts
       /\ Exhausted /\ state = "failed_permanent" => state' = "failed_permanent"]_recordVars
=============================================================================
