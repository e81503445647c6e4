----------------------------- MODULE AiRuntimeRuns ----------------------------
(***************************************************************************)
(* The AI Runtime in detail: RunService over its in-memory store, the      *)
(* ProviderRuntime that tracks the calls under way, and its three drivers. *)
(* AgentRuntime, which the API's models use, is its abstract specification.*)
(*                                                                         *)
(* The process is one event loop: a step ends where a handler waits for    *)
(* HTTP or sleeps.  The store and the locks never make it wait.  A poll    *)
(* and the handling of its answer are one step: a task that has stopped    *)
(* stays so, and a poll changes nothing at the provider.                   *)
(*                                                                         *)
(* Left out: the contents, request ids, which error a failed run reports,  *)
(* the delays between retries.  A cancellation's own requests retry as     *)
(* polls do, which only delays their answer.                               *)
(***************************************************************************)
EXTENDS Integers

CONSTANTS RunIds,                \* runs of the runtime
          MaxRateLimitRetries,   \* of one request
          MaxVisibilityRetries,  \* 5: of one read of a task not visible yet
          MaxIncompleteRetries,  \* of consecutive answers that make no sense
          MaxSilentStops,        \* 3: reads of a stopped task without a message
          MaxCancelPolls         \* 5

ASSUME RuntimeAssumption ==
  /\ MaxRateLimitRetries \in Nat /\ MaxVisibilityRetries \in Nat
  /\ MaxIncompleteRetries \in Nat
  /\ MaxSilentStops \in Nat \ {0} /\ MaxCancelPolls \in Nat \ {0}

VARIABLES driver,    \* RuntimeDriver of the process
          record,    \* status of each run in the store
          task,      \* external: the Manus task of each run
          exec,      \* where the handler that executes a run stands
          cancel,    \* where a handler that cancels it stands
          stray      \* history: runs whose task was given up without a stop that reached it

runtimeVars == <<driver, record, task, exec, cancel, stray>>

Terminal == {"succeeded", "failed", "cancelled"}
StoppedTask == {"answered", "silent", "broken", "error"}   \* listMessages says stopped or error
ActiveTask == {"running", "waiting"}

NoRetries == [rateLimited |-> 0, invisible |-> 0]
NotExecuting == [at |-> "idle", request |-> NoRetries, incomplete |-> 0, silent |-> 0]
NotCancelling == [at |-> "idle", polls |-> 0]

AiRuntimeInit ==
  /\ driver \in {"manus", "openai_compatible", "noop"}
  /\ record = [x \in RunIds |-> "absent"] /\ task = [x \in RunIds |-> "none"]
  /\ exec = [x \in RunIds |-> NotExecuting] /\ cancel = [x \in RunIds |-> NotCancelling]
  /\ stray = {}

-----------------------------------------------------------------------------
(* The store.                                                              *)

\* Bug: a late result overwrites what the run has become.
BugAllowedTransition(current, target) ==
  current # target /\ current \notin {"absent", "lost"} /\ target \in {"running"} \cup Terminal

AllowedTransition(current, target) ==
  \/ current = "queued" /\ target \in {"running", "failed", "cancelled"}
  \/ current = "running" /\ target \in Terminal

\* _finish_terminal: who comes second returns what the first has written.
Finish(x, status) ==
  record' = IF AllowedTransition(record[x], status) THEN [record EXCEPT ![x] = status] ELSE record

CreateRun(x) ==
  /\ record[x] = "absent" /\ record' = [record EXCEPT ![x] = "queued"]
  /\ UNCHANGED <<driver, task, exec, cancel, stray>>

-----------------------------------------------------------------------------
(* execute.  A run that is not QUEUED is returned as it is.                *)

Stands(x, at) == exec' = [exec EXCEPT ![x] = [NotExecuting EXCEPT !.at = at]]
Counts(x, counter, n) == exec' = [exec EXCEPT ![x][counter] = n, ![x].request = NoRetries]
Leaves(x) == exec' = [exec EXCEPT ![x] = NotExecuting]

Execute(x) ==
  /\ record[x] = "queued" /\ AllowedTransition(record[x], "running")
  /\ record' = [record EXCEPT ![x] = "running"]
  /\ \/ driver = "manus" /\ Stands(x, "creating")
     \/ driver = "openai_compatible" /\ Stands(x, "calling")
     \/ Stands(x, "refused")     \* attachments, too long an input, no provider
  /\ UNCHANGED <<driver, task, cancel, stray>>

\* OpenAICompatibleProvider.complete, _budget_error.
CompletionReturns(x) ==
  /\ exec[x].at \in {"calling", "refused"} /\ Leaves(x)
  /\ Finish(x, "failed") \/ (exec[x].at = "calling" /\ Finish(x, "succeeded"))
  /\ UNCHANGED <<driver, task, cancel, stray>>

\* _request_json: 429, and a task that cannot be read yet, are tried again.
Limited(x) ==
  /\ exec[x].request.rateLimited < MaxRateLimitRetries
  /\ exec' = [exec EXCEPT ![x].request.rateLimited = @ + 1]
Invisible(x) ==
  /\ exec[x].request.invisible < MaxVisibilityRetries
  /\ exec' = [exec EXCEPT ![x].request.invisible = @ + 1]
RequestIsRetried(x) ==
  /\ exec[x].at \in {"creating", "polling"}
  /\ Limited(x) \/ (exec[x].at = "polling" /\ Invisible(x))
  /\ UNCHANGED <<driver, record, task, cancel, stray>>

\* _create_task.
TaskIsCreated(x) ==
  /\ exec[x].at = "creating" /\ Stands(x, "polling")
  /\ task' = [task EXCEPT ![x] = "running"]
  /\ UNCHANGED <<driver, record, cancel, stray>>

\* It fails, or the time of the run is over, before or after it took effect:
\* without a task_id there is nothing to stop.
TaskCreationFails(x) ==
  /\ exec[x].at = "creating" /\ Leaves(x) /\ Finish(x, "failed")
  /\ \/ UNCHANGED <<task, stray>>
     \/ task' = [task EXCEPT ![x] = "running"] /\ stray' = stray \cup {x}
  /\ UNCHANGED <<driver, cancel>>

\* Bug: only an interruption stops the task, an error does not.
BugAfterError(x) == Leaves(x) /\ Finish(x, "failed")

\* complete, except TimeoutError and RuntimeExecutionError: the task is stopped
\* first.
AfterError(x) == Stands(x, "stopping") /\ UNCHANGED record

Incomplete(x) ==
  IF exec[x].incomplete >= MaxIncompleteRetries THEN AfterError(x)
  ELSE Counts(x, "incomplete", exec[x].incomplete + 1) /\ UNCHANGED record

\* _wait_for_result: one answer of listMessages.
Poll(x) ==
  /\ exec[x].at = "polling"
  /\ \/ task[x] = "running"
          /\ exec' = [exec EXCEPT ![x].incomplete = 0, ![x].request = NoRetries] /\ UNCHANGED record
     \/ task[x] = "answered" /\ Leaves(x) /\ Finish(x, "succeeded")
     \/ /\ task[x] = "silent"
        /\ IF exec[x].silent + 1 >= MaxSilentStops THEN AfterError(x)
           ELSE /\ exec' = [exec EXCEPT ![x].silent = @ + 1, ![x].incomplete = 0, ![x].request = NoRetries]
                /\ UNCHANGED record
     \/ task[x] \in {"broken", "error", "waiting"} /\ AfterError(x)
     \/ Incomplete(x)
     \/ AfterError(x)     \* an HTTP error, retries used up, the run's time is over
  /\ UNCHANGED <<driver, task, cancel, stray>>

\* complete, any other exception (an answer whose encoding is broken, or that is
\* nested too deep): execute records the failure and nothing stops the task.
AnswerBreaks(x) ==
  /\ exec[x].at = "polling" /\ Leaves(x) /\ Finish(x, "failed")
  /\ stray' = stray \cup {x}
  /\ UNCHANGED <<driver, task, cancel>>

\* _stop_after_interruption: one request within five seconds, then the
\* error that led to it is raised again.
StopReturns(x) ==
  /\ exec[x].at \in {"stopping", "interrupted"} /\ Leaves(x)
  /\ Finish(x, IF exec[x].at = "interrupted" THEN "cancelled" ELSE "failed")
  /\ \/ /\ task' = [task EXCEPT ![x] = IF @ \in ActiveTask THEN "silent" ELSE @]
        /\ UNCHANGED stray
     \/ UNCHANGED task /\ stray' = stray \cup {x}
  /\ UNCHANGED <<driver, cancel>>

-----------------------------------------------------------------------------
(* cancel.  A run that has ended is refused or returned as it is.          *)

KnowsTask(x) == exec[x].at \in {"polling", "stopping", "interrupted"}

CancelBegins(x) ==
  /\ record[x] \in {"queued", "running"} /\ cancel[x].at = "idle"
  /\ driver = "manus" /\ KnowsTask(x)
  /\ cancel' = [cancel EXCEPT ![x].at = "stopping"]
  /\ UNCHANGED <<driver, record, task, exec, stray>>

\* NoopRuntime confirms at once; the generic provider never does.
NoopCancels(x) ==
  /\ record[x] \in {"queued", "running"} /\ driver = "noop" /\ Finish(x, "cancelled")
  /\ UNCHANGED <<driver, task, exec, cancel, stray>>

CancelEnds(x) == cancel' = [cancel EXCEPT ![x] = NotCancelling]

CancelStops(x) ==
  /\ cancel[x].at = "stopping"
  /\ \/ /\ task' = [task EXCEPT ![x] = IF @ \in ActiveTask THEN "silent" ELSE @]
        /\ cancel' = [cancel EXCEPT ![x].at = "confirming"]
     \/ UNCHANGED task /\ CancelEnds(x)
     \/ task' = [task EXCEPT ![x] = IF @ \in ActiveTask THEN "silent" ELSE @] /\ CancelEnds(x)
     \/ UNCHANGED task /\ cancel' = [cancel EXCEPT ![x].at = "confirming"]   \* accepted, not done yet
  /\ UNCHANGED <<driver, record, exec, stray>>

\* Bug: an accepted request to stop is taken for the end of the task.
BugConfirmed(x) == TRUE

Confirmed(x) == task[x] \in StoppedTask

\* ProviderRuntime.cancel: the handler that executes the run, if it still
\* does, is cancelled and waited for.  One that is about to stop its task
\* swallows the cancellation and raises its own error.
CancelPolls(x) ==
  /\ cancel[x].at = "confirming"
  /\ \/ /\ Confirmed(x)
        /\ exec' = [exec EXCEPT ![x].at = IF @ = "polling" THEN "interrupted" ELSE @]
        /\ cancel' = [cancel EXCEPT ![x].at = "joining"]
     \/ /\ ~Confirmed(x) /\ cancel[x].polls + 1 < MaxCancelPolls
        /\ cancel' = [cancel EXCEPT ![x].polls = @ + 1] /\ UNCHANGED exec
     \/ CancelEnds(x) /\ UNCHANGED exec
  /\ UNCHANGED <<driver, record, task, stray>>

\* _finish_cancelled.
CancelFinishes(x) ==
  /\ cancel[x].at = "joining" /\ exec[x].at = "idle"
  /\ Finish(x, "cancelled") /\ CancelEnds(x)
  /\ UNCHANGED <<driver, task, exec, stray>>

-----------------------------------------------------------------------------
(* The provider and the process.                                           *)

TaskMoves(x) ==
  /\ task[x] \in ActiveTask
  /\ \E state \in StoppedTask \cup {"waiting"} : task' = [task EXCEPT ![x] = state]
  /\ UNCHANGED <<driver, record, exec, cancel, stray>>

\* A killed process stops no task; aclose cancels the calls under way, each
\* of which tries to.
RuntimeRestarts ==
  /\ record' = [x \in RunIds |-> IF record[x] = "absent" THEN "absent" ELSE "lost"]
  /\ exec' = [x \in RunIds |-> NotExecuting] /\ cancel' = [x \in RunIds |-> NotCancelling]
  /\ \E stopped \in SUBSET {x \in RunIds : exec[x].at = "polling"} :
       task' = [x \in RunIds |-> IF x \in stopped /\ task[x] \in ActiveTask THEN "silent" ELSE task[x]]
  /\ UNCHANGED <<driver, stray>>

AiRuntimeNext ==
  \/ \E x \in RunIds :
       \/ CreateRun(x)
       \/ Execute(x)
       \/ CompletionReturns(x)
       \/ RequestIsRetried(x)
       \/ TaskIsCreated(x)
       \/ TaskCreationFails(x)
       \/ Poll(x)
       \/ AnswerBreaks(x)
       \/ StopReturns(x)
       \/ CancelBegins(x)
       \/ NoopCancels(x)
       \/ CancelStops(x)
       \/ CancelPolls(x)
       \/ CancelFinishes(x)
       \/ TaskMoves(x)
  \/ RuntimeRestarts

AiRuntimeSpec == AiRuntimeInit /\ [][AiRuntimeNext]_runtimeVars

-----------------------------------------------------------------------------
(* A run that has ended leaves no task working, and charging, at the provider,
   but for three ways to lose it: the answer that named it was lost, the one
   request to stop it was, or an answer raised an exception that complete does
   not stop the task for.  Then the run is FAILED; a run reported as cancelled or
   succeeded never leaves one. *)
EndedLeavesNoTask ==
  \A x \in RunIds :
    record[x] \in Terminal /\ task[x] \in ActiveTask => x \in stray /\ record[x] = "failed"

(* What the API's models assume of the runtime: execute starts a queued run
   once, its end is final whatever arrives later, and only a restart loses it. *)
Remote ==
  INSTANCE AgentRuntime WITH Runs <- RunIds, MaxCreates <- 1,
                             remote <- [x \in RunIds \X {1} |-> record[x[1]]]

RemoteStep ==
  \/ \E x \in RunIds \X {1} :
       Remote!RemoteCreate(x) \/ Remote!RemoteExecute(x) \/ Remote!RemoteFinish(x) \/ Remote!RemoteCancel(x)
  \/ Remote!RemoteRestart

ImplementsRuntime == Remote!RuntimeInit /\ [][RemoteStep]_record
===============================================================================
