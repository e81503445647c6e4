---------------------------- MODULE RuntimeProofs -----------------------------
(***************************************************************************)
(* Theorems about AiRuntimeRuns for every set of runs and all its limits.  *)
(***************************************************************************)
EXTENDS AiRuntimeRuns, TLAPS

-----------------------------------------------------------------------------
(* The runs of the AI runtime.                                             *)

RecordStatus == {"absent", "queued", "running", "lost"} \cup Terminal
Places == {"idle", "creating", "calling", "refused", "polling", "stopping", "interrupted"}
Execution == [at : Places, request : [rateLimited : Nat, invisible : Nat], incomplete : Nat, silent : Nat]
CancelPlaces == {"idle", "stopping", "confirming", "joining"}
Cancellation == [at : CancelPlaces, polls : Nat]

AiRuntimeTypes ==
  /\ driver \in {"manus", "openai_compatible", "noop"}
  /\ record \in [RunIds -> RecordStatus]
  /\ task \in [RunIds -> {"none"} \cup ActiveTask \cup StoppedTask]
  /\ exec \in [RunIds -> Execution]
  /\ cancel \in [RunIds -> Cancellation]
  /\ stray \in SUBSET RunIds

\* A run is executed once and not after its end: before it starts, and while
\* its task is not known, there is no task, and while it runs a handler does.
ExecutedOnce(x) ==
  /\ record[x] \in {"absent", "queued"} => exec[x].at = "idle" /\ task[x] = "none"
  /\ exec[x].at \in {"creating", "calling", "refused"} => task[x] = "none"
  /\ record[x] = "running" => exec[x].at # "idle"
  /\ exec[x].at # "idle" /\ record[x] # "running" => driver = "noop"

\* Without a provider there is no task; who cancels knows one, and an
\* execution is interrupted only once the task is seen to have stopped.
CancelledSafely(x) ==
  /\ driver = "noop" => task[x] = "none"
  /\ exec[x].at \in {"creating", "polling", "stopping", "interrupted"} => driver = "manus"
  /\ cancel[x].at # "idle" \/ KnowsTask(x) => task[x] # "none"
  /\ exec[x].at = "interrupted" \/ cancel[x].at = "joining" => task[x] \in StoppedTask

AiRuntimeInv ==
  /\ AiRuntimeTypes
  /\ \A x \in RunIds : ExecutedOnce(x) /\ CancelledSafely(x)
  /\ EndedLeavesNoTask

-----------------------------------------------------------------------------

USE DEF runtimeVars

LEMMA AiRuntimeStarts == AiRuntimeInit => AiRuntimeInv
<1> SUFFICES ASSUME AiRuntimeInit PROVE AiRuntimeInv
  OBVIOUS
<1>1. AiRuntimeTypes
  BY DEF AiRuntimeInit, AiRuntimeTypes, RecordStatus, Places, Execution,
     Cancellation, CancelPlaces, NotExecuting, NotCancelling, NoRetries
<1>2. \A x \in RunIds : ExecutedOnce(x) /\ CancelledSafely(x)
  BY DEF AiRuntimeInit, ExecutedOnce, CancelledSafely, KnowsTask, NotExecuting, NotCancelling
<1>3. EndedLeavesNoTask
  BY DEF AiRuntimeInit, EndedLeavesNoTask, Terminal
<1> QED BY <1>1, <1>2, <1>3 DEF AiRuntimeInv

\* What a step does to one run: where it takes each part of it, while the
\* parts of the others stay.
Same(f, x) == \A y \in RunIds \ {x} : f'[y] = f[y]

RecordTo(x, status) == record' \in [RunIds -> RecordStatus] /\ record'[x] = status /\ Same(record, x)
TaskTo(x, state) ==
  /\ task' \in [RunIds -> {"none"} \cup ActiveTask \cup StoppedTask]
  /\ task'[x] = state /\ Same(task, x)
ExecTo(x, at) == exec' \in [RunIds -> Execution] /\ exec'[x].at = at /\ Same(exec, x)
CancelTo(x, at) == cancel' \in [RunIds -> Cancellation] /\ cancel'[x].at = at /\ Same(cancel, x)

\* The code's ways to change them.
LEMMA PartsMove ==
  ASSUME AiRuntimeTypes, NEW x \in RunIds
  PROVE
    /\ \A s \in Terminal : Finish(x, s) => RecordTo(x, IF AllowedTransition(record[x], s) THEN s ELSE record[x])
    /\ \A at \in Places : Stands(x, at) => ExecTo(x, at)
    /\ Leaves(x) => ExecTo(x, "idle")
    /\ Counts(x, "incomplete", exec[x].incomplete + 1) => ExecTo(x, exec[x].at)
    /\ Limited(x) \/ Invisible(x) => ExecTo(x, exec[x].at)
    /\ exec' = [exec EXCEPT ![x].incomplete = 0, ![x].request = NoRetries] => ExecTo(x, exec[x].at)
    /\ exec' = [exec EXCEPT ![x].silent = @ + 1, ![x].incomplete = 0, ![x].request = NoRetries] =>
         ExecTo(x, exec[x].at)
    /\ exec' = [exec EXCEPT ![x].at = IF @ = "polling" THEN "interrupted" ELSE @] =>
         ExecTo(x, IF exec[x].at = "polling" THEN "interrupted" ELSE exec[x].at)
    /\ cancel' = [cancel EXCEPT ![x].polls = @ + 1] => CancelTo(x, cancel[x].at)
    /\ CancelEnds(x) => CancelTo(x, "idle")
    /\ \A s \in RecordStatus : record' = [record EXCEPT ![x] = s] => RecordTo(x, s)
    /\ \A t \in ActiveTask \cup StoppedTask : task' = [task EXCEPT ![x] = t] => TaskTo(x, t)
    /\ \A at \in CancelPlaces : cancel' = [cancel EXCEPT ![x].at = at] => CancelTo(x, at)
    /\ record' = record => RecordTo(x, record[x])
    /\ task' = task => TaskTo(x, task[x])
    /\ exec' = exec => ExecTo(x, exec[x].at)
    /\ cancel' = cancel => CancelTo(x, cancel[x].at)
    /\ task' = [task EXCEPT ![x] = IF @ \in ActiveTask THEN "silent" ELSE @] =>
         TaskTo(x, IF task[x] \in ActiveTask THEN "silent" ELSE task[x])
<1> USE DEF AiRuntimeTypes, Same
<1>1. \A s \in Terminal : Finish(x, s) => RecordTo(x, IF AllowedTransition(record[x], s) THEN s ELSE record[x])
  BY DEF Finish, RecordTo, RecordStatus, Terminal
<1>2. \A at \in Places : Stands(x, at) => ExecTo(x, at)
  BY DEF Stands, ExecTo, Execution, NotExecuting, NoRetries
<1>3. Leaves(x) => ExecTo(x, "idle")
  BY DEF Leaves, ExecTo, Execution, NotExecuting, NoRetries, Places
<1>4. Counts(x, "incomplete", exec[x].incomplete + 1) => ExecTo(x, exec[x].at)
  <2> SUFFICES ASSUME Counts(x, "incomplete", exec[x].incomplete + 1) PROVE ExecTo(x, exec[x].at)
    OBVIOUS
  <2>1. exec[x] \in Execution /\ exec[x].incomplete + 1 \in Nat
    BY DEF Execution
  <2>2. [[exec[x] EXCEPT !["incomplete"] = exec[x].incomplete + 1] EXCEPT !.request = NoRetries] \in Execution
    BY <2>1 DEF Execution, NoRetries
  <2> QED BY <2>1, <2>2 DEF Counts, ExecTo, Execution, NoRetries
<1>5. Limited(x) \/ Invisible(x) => ExecTo(x, exec[x].at)
  <2>1. exec[x] \in Execution /\ exec[x].request.rateLimited + 1 \in Nat /\ exec[x].request.invisible + 1 \in Nat
    BY DEF Execution
  <2>2. /\ [exec[x] EXCEPT !.request.rateLimited = exec[x].request.rateLimited + 1] \in Execution
        /\ [exec[x] EXCEPT !.request.invisible = exec[x].request.invisible + 1] \in Execution
    BY <2>1 DEF Execution
  <2>3. Limited(x) => ExecTo(x, exec[x].at)
    BY <2>1, <2>2 DEF Limited, ExecTo, Execution
  <2>4. Invisible(x) => ExecTo(x, exec[x].at)
    BY <2>1, <2>2 DEF Invisible, ExecTo, Execution
  <2> QED BY <2>3, <2>4
<1>6. CancelEnds(x) => CancelTo(x, "idle")
  BY DEF CancelEnds, CancelTo, Cancellation, CancelPlaces, NotCancelling
<1>7. /\ record' = record => RecordTo(x, record[x])
      /\ task' = task => TaskTo(x, task[x])
      /\ exec' = exec => ExecTo(x, exec[x].at)
      /\ cancel' = cancel => CancelTo(x, cancel[x].at)
  BY DEF RecordTo, TaskTo, ExecTo, CancelTo
<1>8. task' = [task EXCEPT ![x] = IF @ \in ActiveTask THEN "silent" ELSE @] =>
         TaskTo(x, IF task[x] \in ActiveTask THEN "silent" ELSE task[x])
  BY DEF TaskTo, StoppedTask
<1>9. /\ \A s \in RecordStatus : record' = [record EXCEPT ![x] = s] => RecordTo(x, s)
      /\ \A t \in ActiveTask \cup StoppedTask : task' = [task EXCEPT ![x] = t] => TaskTo(x, t)
      /\ \A at \in CancelPlaces : cancel' = [cancel EXCEPT ![x].at = at] => CancelTo(x, at)
  BY DEF RecordTo, TaskTo, CancelTo, Cancellation
<1>10. exec' = [exec EXCEPT ![x].incomplete = 0, ![x].request = NoRetries] => ExecTo(x, exec[x].at)
  <2>1. exec[x] \in Execution
    OBVIOUS
  <2>2. [exec[x] EXCEPT !.incomplete = 0, !.request = NoRetries] \in Execution
    BY <2>1 DEF Execution, NoRetries
  <2> QED BY <2>1, <2>2 DEF ExecTo, Execution
<1>11. exec' = [exec EXCEPT ![x].silent = @ + 1, ![x].incomplete = 0, ![x].request = NoRetries] =>
         ExecTo(x, exec[x].at)
  <2>1. exec[x] \in Execution /\ exec[x].silent + 1 \in Nat
    BY DEF Execution
  <2>2. [exec[x] EXCEPT !.silent = @ + 1, !.incomplete = 0, !.request = NoRetries] \in Execution
    BY <2>1 DEF Execution, NoRetries
  <2> QED BY <2>1, <2>2 DEF ExecTo, Execution
<1>12. exec' = [exec EXCEPT ![x].at = IF @ = "polling" THEN "interrupted" ELSE @] =>
         ExecTo(x, IF exec[x].at = "polling" THEN "interrupted" ELSE exec[x].at)
  BY DEF ExecTo, Execution, Places
<1>13. cancel' = [cancel EXCEPT ![x].polls = @ + 1] => CancelTo(x, cancel[x].at)
  BY DEF CancelTo, Cancellation
<1> QED BY <1>1, <1>2, <1>3, <1>4, <1>5, <1>6, <1>7, <1>8, <1>9, <1>10, <1>11, <1>12, <1>13

\* What the invariant says of one run.
RunSafe(x) ==
  /\ ExecutedOnce(x) /\ CancelledSafely(x)
  /\ record[x] \in Terminal /\ task[x] \in ActiveTask => x \in stray /\ record[x] = "failed"

\* A step of one run that leaves it safe leaves the others so.
OneRun(x) ==
  /\ \E s \in RecordStatus : RecordTo(x, s)
  /\ \E t \in {"none"} \cup ActiveTask \cup StoppedTask : TaskTo(x, t)
  /\ \E at \in Places : ExecTo(x, at)
  /\ \E at \in CancelPlaces : CancelTo(x, at)
  /\ driver' = driver /\ stray' \in {stray, stray \cup {x}}

LEMMA OthersStaySafe ==
  ASSUME AiRuntimeInv, NEW x \in RunIds, OneRun(x), RunSafe(x)'
  PROVE  AiRuntimeInv'
<1>1. AiRuntimeTypes'
  BY DEF AiRuntimeInv, AiRuntimeTypes, OneRun, RecordTo, TaskTo, ExecTo, CancelTo
<1>2. ASSUME NEW y \in RunIds, y # x PROVE RunSafe(y)'
  <2>1. /\ record'[y] = record[y] /\ task'[y] = task[y] /\ exec'[y] = exec[y]
        /\ cancel'[y] = cancel[y] /\ driver' = driver /\ (y \in stray' <=> y \in stray)
    BY <1>2 DEF OneRun, RecordTo, TaskTo, ExecTo, CancelTo, Same
  <2> QED BY <2>1 DEF AiRuntimeInv, RunSafe, ExecutedOnce, CancelledSafely, KnowsTask, EndedLeavesNoTask
<1> QED BY <1>1, <1>2 DEF AiRuntimeInv, RunSafe, EndedLeavesNoTask

LEMMA RunStaysSafe ==
  ASSUME AiRuntimeInv, NEW x \in RunIds
  PROVE
    /\ CreateRun(x) => OneRun(x) /\ RunSafe(x)'
    /\ Execute(x) => OneRun(x) /\ RunSafe(x)'
    /\ CompletionReturns(x) => OneRun(x) /\ RunSafe(x)'
    /\ RequestIsRetried(x) => OneRun(x) /\ RunSafe(x)'
    /\ TaskIsCreated(x) => OneRun(x) /\ RunSafe(x)'
    /\ TaskCreationFails(x) => OneRun(x) /\ RunSafe(x)'
    /\ Poll(x) => OneRun(x) /\ RunSafe(x)'
    /\ AnswerBreaks(x) => OneRun(x) /\ RunSafe(x)'
    /\ StopReturns(x) => OneRun(x) /\ RunSafe(x)'
    /\ CancelBegins(x) => OneRun(x) /\ RunSafe(x)'
    /\ NoopCancels(x) => OneRun(x) /\ RunSafe(x)'
    /\ CancelStops(x) => OneRun(x) /\ RunSafe(x)'
    /\ CancelPolls(x) => OneRun(x) /\ RunSafe(x)'
    /\ CancelFinishes(x) => OneRun(x) /\ RunSafe(x)'
    /\ TaskMoves(x) => OneRun(x) /\ RunSafe(x)'
<1> AiRuntimeTypes /\ RunSafe(x)
  BY DEF AiRuntimeInv, RunSafe, EndedLeavesNoTask
<1> DEFINE States == {"none"} \cup ActiveTask \cup StoppedTask
<1> /\ record[x] \in RecordStatus /\ task[x] \in States
    /\ exec[x].at \in Places /\ cancel[x].at \in CancelPlaces
  BY DEF AiRuntimeTypes, Execution, Cancellation
<1> DEFINE To(s, t, at, c) == RecordTo(x, s) /\ TaskTo(x, t) /\ ExecTo(x, at) /\ CancelTo(x, c)
<1>0. ASSUME NEW s \in RecordStatus, NEW t \in States, NEW at \in Places, NEW c \in CancelPlaces,
             To(s, t, at, c), driver' = driver, stray' \in {stray, stray \cup {x}}
      PROVE  OneRun(x)
  BY <1>0 DEF OneRun
<1> DEFINE Ended(s) == IF AllowedTransition(record[x], s) THEN s ELSE record[x]
           silent == IF task[x] \in ActiveTask THEN "silent" ELSE task[x]
<1>1. CreateRun(x) => OneRun(x) /\ RunSafe(x)'
  <2> SUFFICES ASSUME CreateRun(x) PROVE OneRun(x) /\ RunSafe(x)'
    OBVIOUS
  <2>1. /\ record[x] = "absent"
        /\ To("queued", task[x], exec[x].at, cancel[x].at) /\ stray' = stray
        /\ driver' = driver
    BY PartsMove DEF CreateRun, Terminal, Places, CancelPlaces, StoppedTask, ActiveTask, RecordStatus
  <2>2. OneRun(x)
    BY <2>1, <1>0 DEF Terminal, Places, CancelPlaces, StoppedTask, ActiveTask, RecordStatus
  <2>3. RunSafe(x)'
    BY <2>1 DEF RunSafe, ExecutedOnce, CancelledSafely, KnowsTask, Terminal, Places, StoppedTask, ActiveTask,
       RecordTo, TaskTo, ExecTo, CancelTo, AllowedTransition
  <2> QED BY <2>2, <2>3
<1>2. Execute(x) => OneRun(x) /\ RunSafe(x)'
  <2> SUFFICES ASSUME Execute(x) PROVE OneRun(x) /\ RunSafe(x)'
    OBVIOUS
  <2>1. /\ record[x] = "queued"
        /\ \/ driver = "manus" /\ To("running", task[x], "creating", cancel[x].at)
           \/ To("running", task[x], "calling", cancel[x].at) /\ driver = "openai_compatible"
           \/ To("running", task[x], "refused", cancel[x].at)
        /\ stray' = stray
        /\ driver' = driver
    BY PartsMove DEF Execute, Terminal, Places, CancelPlaces, StoppedTask, ActiveTask, RecordStatus
  <2>2. OneRun(x)
    BY <2>1, <1>0 DEF Terminal, Places, CancelPlaces, StoppedTask, ActiveTask, RecordStatus
  <2>3. RunSafe(x)'
    BY <2>1 DEF RunSafe, ExecutedOnce, CancelledSafely, KnowsTask, Terminal, Places, StoppedTask, ActiveTask,
       RecordTo, TaskTo, ExecTo, CancelTo, AllowedTransition
  <2> QED BY <2>2, <2>3
<1>3. CompletionReturns(x) => OneRun(x) /\ RunSafe(x)'
  <2> SUFFICES ASSUME CompletionReturns(x) PROVE OneRun(x) /\ RunSafe(x)'
    OBVIOUS
  <2>1. /\ exec[x].at \in {"calling", "refused"}
        /\ \/ To(Ended("failed"), task[x], "idle", cancel[x].at)
           \/ To(Ended("succeeded"), task[x], "idle", cancel[x].at)
        /\ stray' = stray
        /\ driver' = driver
    BY PartsMove DEF CompletionReturns, Terminal, Places, CancelPlaces, StoppedTask, ActiveTask, RecordStatus
  <2>2. OneRun(x)
    BY <2>1, <1>0 DEF Terminal, Places, CancelPlaces, StoppedTask, ActiveTask, RecordStatus
  <2>3. RunSafe(x)'
    BY <2>1 DEF RunSafe, ExecutedOnce, CancelledSafely, KnowsTask, Terminal, Places, StoppedTask, ActiveTask,
       RecordTo, TaskTo, ExecTo, CancelTo, AllowedTransition
  <2> QED BY <2>2, <2>3
<1>4. RequestIsRetried(x) => OneRun(x) /\ RunSafe(x)'
  <2> SUFFICES ASSUME RequestIsRetried(x) PROVE OneRun(x) /\ RunSafe(x)'
    OBVIOUS
  <2>1. /\ exec[x].at \in {"creating", "polling"}
        /\ To(record[x], task[x], exec[x].at, cancel[x].at) /\ stray' = stray
        /\ driver' = driver
    BY PartsMove DEF RequestIsRetried, Terminal, Places, CancelPlaces, StoppedTask, ActiveTask, RecordStatus
  <2>2. OneRun(x)
    BY <2>1, <1>0 DEF Terminal, Places, CancelPlaces, StoppedTask, ActiveTask, RecordStatus
  <2>3. RunSafe(x)'
    BY <2>1 DEF RunSafe, ExecutedOnce, CancelledSafely, KnowsTask, Terminal, Places, StoppedTask, ActiveTask,
       RecordTo, TaskTo, ExecTo, CancelTo, AllowedTransition
  <2> QED BY <2>2, <2>3
<1>5. TaskIsCreated(x) => OneRun(x) /\ RunSafe(x)'
  <2> SUFFICES ASSUME TaskIsCreated(x) PROVE OneRun(x) /\ RunSafe(x)'
    OBVIOUS
  <2>1. /\ exec[x].at = "creating"
        /\ To(record[x], "running", "polling", cancel[x].at) /\ stray' = stray
        /\ driver' = driver
    BY PartsMove DEF TaskIsCreated, Terminal, Places, CancelPlaces, StoppedTask, ActiveTask, RecordStatus
  <2>2. OneRun(x)
    BY <2>1, <1>0 DEF Terminal, Places, CancelPlaces, StoppedTask, ActiveTask, RecordStatus
  <2>3. RunSafe(x)'
    BY <2>1 DEF RunSafe, ExecutedOnce, CancelledSafely, KnowsTask, Terminal, Places, StoppedTask, ActiveTask,
       RecordTo, TaskTo, ExecTo, CancelTo, AllowedTransition
  <2> QED BY <2>2, <2>3
<1>6. TaskCreationFails(x) => OneRun(x) /\ RunSafe(x)'
  <2> SUFFICES ASSUME TaskCreationFails(x) PROVE OneRun(x) /\ RunSafe(x)'
    OBVIOUS
  <2>1. /\ exec[x].at = "creating"
        /\ \/ To(Ended("failed"), task[x], "idle", cancel[x].at) /\ stray' = stray
           \/ To(Ended("failed"), "running", "idle", cancel[x].at) /\ stray' = stray \cup {x}
        /\ driver' = driver
    BY PartsMove DEF TaskCreationFails, Terminal, Places, CancelPlaces, StoppedTask, ActiveTask, RecordStatus
  <2>2. OneRun(x)
    BY <2>1, <1>0 DEF Terminal, Places, CancelPlaces, StoppedTask, ActiveTask, RecordStatus
  <2>3. RunSafe(x)'
    BY <2>1 DEF RunSafe, ExecutedOnce, CancelledSafely, KnowsTask, Terminal, Places, StoppedTask, ActiveTask,
       RecordTo, TaskTo, ExecTo, CancelTo, AllowedTransition
  <2> QED BY <2>2, <2>3
<1>7. Poll(x) => OneRun(x) /\ RunSafe(x)'
  <2> SUFFICES ASSUME Poll(x) PROVE OneRun(x) /\ RunSafe(x)'
    OBVIOUS
  <2>1. /\ exec[x].at = "polling"
        /\ stray' = stray
        /\ \/ To(record[x], task[x], exec[x].at, cancel[x].at)
           \/ task[x] = "answered" /\ To(Ended("succeeded"), task[x], "idle", cancel[x].at)
           \/ To(record[x], task[x], "stopping", cancel[x].at)
        /\ driver' = driver
    BY PartsMove DEF Poll, Terminal, Places, CancelPlaces, StoppedTask, ActiveTask, RecordStatus,
                     AfterError, Incomplete
  <2>2. OneRun(x)
    BY <2>1, <1>0 DEF Terminal, Places, CancelPlaces, StoppedTask, ActiveTask, RecordStatus
  <2>3. RunSafe(x)'
    BY <2>1 DEF RunSafe, ExecutedOnce, CancelledSafely, KnowsTask, Terminal, Places, StoppedTask, ActiveTask,
       RecordTo, TaskTo, ExecTo, CancelTo, AllowedTransition
  <2> QED BY <2>2, <2>3
<1>8. StopReturns(x) => OneRun(x) /\ RunSafe(x)'
  <2> SUFFICES ASSUME StopReturns(x) PROVE OneRun(x) /\ RunSafe(x)'
    OBVIOUS
  <2>1. /\ exec[x].at \in {"stopping", "interrupted"}
        /\ \/ exec[x].at = "stopping" /\ To(Ended("failed"), silent, "idle", cancel[x].at) /\ stray' = stray
           \/ exec[x].at = "interrupted" /\ To(Ended("cancelled"), silent, "idle", cancel[x].at) /\ stray' = stray
           \/ exec[x].at = "stopping" /\ To(Ended("failed"), task[x], "idle", cancel[x].at) /\ stray' = stray \cup {x}
           \/ exec[x].at = "interrupted" /\ To(Ended("cancelled"), task[x], "idle", cancel[x].at) /\ stray' = stray \cup {x}
        /\ driver' = driver
    BY PartsMove DEF StopReturns, Terminal, Places, CancelPlaces, StoppedTask, ActiveTask, RecordStatus
  <2>2. OneRun(x)
    BY <2>1, <1>0 DEF Terminal, Places, CancelPlaces, StoppedTask, ActiveTask, RecordStatus
  <2>3. record[x] = "running" /\ Ended("failed") = "failed" /\ Ended("cancelled") = "cancelled"
    BY <2>1 DEF RunSafe, ExecutedOnce, CancelledSafely, KnowsTask, AllowedTransition, Terminal
  <2>4. exec[x].at = "interrupted" => task[x] \in StoppedTask /\ silent = task[x]
    BY DEF RunSafe, CancelledSafely, KnowsTask, StoppedTask, ActiveTask
  <2>5. RunSafe(x)'
    <3> HIDE DEF Ended
    <3>1. CASE exec[x].at = "stopping"
      BY <2>1, <2>3, <3>1 DEF RunSafe, ExecutedOnce, CancelledSafely, KnowsTask, Terminal, Places,
                              StoppedTask, ActiveTask,
         RecordTo, TaskTo, ExecTo, CancelTo
    <3>2. CASE exec[x].at = "interrupted"
      <4> HIDE DEF silent
      <4> QED BY <2>1, <2>3, <2>4, <3>2 DEF RunSafe, ExecutedOnce, CancelledSafely, KnowsTask, Terminal,
                                            Places, StoppedTask, ActiveTask,
         RecordTo, TaskTo, ExecTo, CancelTo
    <3> QED BY <2>1, <3>1, <3>2
  <2> QED BY <2>2, <2>5
<1>9. CancelBegins(x) => OneRun(x) /\ RunSafe(x)'
  <2> SUFFICES ASSUME CancelBegins(x) PROVE OneRun(x) /\ RunSafe(x)'
    OBVIOUS
  <2>1. /\ exec[x].at \in {"polling", "stopping", "interrupted"}
        /\ To(record[x], task[x], exec[x].at, "stopping") /\ stray' = stray
        /\ driver' = driver
    BY PartsMove DEF CancelBegins, Terminal, Places, CancelPlaces, StoppedTask, ActiveTask, RecordStatus,
                     KnowsTask
  <2>2. OneRun(x)
    BY <2>1, <1>0 DEF Terminal, Places, CancelPlaces, StoppedTask, ActiveTask, RecordStatus
  <2>3. RunSafe(x)'
    BY <2>1 DEF RunSafe, ExecutedOnce, CancelledSafely, KnowsTask, Terminal, Places, StoppedTask, ActiveTask,
       RecordTo, TaskTo, ExecTo, CancelTo, AllowedTransition
  <2> QED BY <2>2, <2>3
<1>10. NoopCancels(x) => OneRun(x) /\ RunSafe(x)'
  <2> SUFFICES ASSUME NoopCancels(x) PROVE OneRun(x) /\ RunSafe(x)'
    OBVIOUS
  <2>1. /\ driver = "noop" /\ record[x] \in {"queued", "running"}
        /\ To(Ended("cancelled"), task[x], exec[x].at, cancel[x].at) /\ stray' = stray
        /\ driver' = driver
    BY PartsMove DEF NoopCancels, Terminal, Places, CancelPlaces, StoppedTask, ActiveTask, RecordStatus
  <2>2. OneRun(x)
    BY <2>1, <1>0 DEF Terminal, Places, CancelPlaces, StoppedTask, ActiveTask, RecordStatus
  <2>3. RunSafe(x)'
    BY <2>1 DEF RunSafe, ExecutedOnce, CancelledSafely, KnowsTask, Terminal, Places, StoppedTask, ActiveTask,
       RecordTo, TaskTo, ExecTo, CancelTo, AllowedTransition
  <2> QED BY <2>2, <2>3
<1>11. CancelStops(x) => OneRun(x) /\ RunSafe(x)'
  <2> SUFFICES ASSUME CancelStops(x) PROVE OneRun(x) /\ RunSafe(x)'
    OBVIOUS
  <2>1. /\ cancel[x].at = "stopping"
        /\ stray' = stray
        /\ \E t \in {task[x], silent}, c \in {"idle", "confirming"} :
             To(record[x], t, exec[x].at, c)
        /\ driver' = driver
    BY PartsMove DEF CancelStops, Terminal, Places, CancelPlaces, StoppedTask, ActiveTask, RecordStatus
  <2>2. OneRun(x)
    BY <2>1, <1>0 DEF Terminal, Places, CancelPlaces, StoppedTask, ActiveTask, RecordStatus
  <2>3. RunSafe(x)'
    BY <2>1 DEF RunSafe, ExecutedOnce, CancelledSafely, KnowsTask, Terminal, Places, StoppedTask, ActiveTask,
       RecordTo, TaskTo, ExecTo, CancelTo, AllowedTransition
  <2> QED BY <2>2, <2>3
<1>12. CancelPolls(x) => OneRun(x) /\ RunSafe(x)'
  <2> SUFFICES ASSUME CancelPolls(x) PROVE OneRun(x) /\ RunSafe(x)'
    OBVIOUS
  <2>1. /\ cancel[x].at = "confirming"
        /\ stray' = stray
        /\ \/ task[x] \in StoppedTask /\ exec[x].at = "polling" /\ To(record[x], task[x], "interrupted", "joining")
           \/ task[x] \in StoppedTask /\ To(record[x], task[x], exec[x].at, "joining")
           \/ To(record[x], task[x], exec[x].at, cancel[x].at)
           \/ To(record[x], task[x], exec[x].at, "idle")
        /\ driver' = driver
    BY PartsMove DEF CancelPolls, Terminal, Places, CancelPlaces, StoppedTask, ActiveTask, RecordStatus,
                     Confirmed
  <2>2. OneRun(x)
    BY <2>1, <1>0 DEF Terminal, Places, CancelPlaces, StoppedTask, ActiveTask, RecordStatus
  <2>3. RunSafe(x)'
    BY <2>1 DEF RunSafe, ExecutedOnce, CancelledSafely, KnowsTask, Terminal, Places, StoppedTask, ActiveTask,
       RecordTo, TaskTo, ExecTo, CancelTo, AllowedTransition
  <2> QED BY <2>2, <2>3
<1>13. CancelFinishes(x) => OneRun(x) /\ RunSafe(x)'
  <2> SUFFICES ASSUME CancelFinishes(x) PROVE OneRun(x) /\ RunSafe(x)'
    OBVIOUS
  <2>1. /\ cancel[x].at = "joining" /\ exec[x].at = "idle"
        /\ To(Ended("cancelled"), task[x], exec[x].at, "idle") /\ stray' = stray
        /\ driver' = driver
    BY PartsMove DEF CancelFinishes, Terminal, Places, CancelPlaces, StoppedTask, ActiveTask, RecordStatus
  <2>2. OneRun(x)
    BY <2>1, <1>0 DEF Terminal, Places, CancelPlaces, StoppedTask, ActiveTask, RecordStatus
  <2>3. RunSafe(x)'
    BY <2>1 DEF RunSafe, ExecutedOnce, CancelledSafely, KnowsTask, Terminal, Places, StoppedTask, ActiveTask,
       RecordTo, TaskTo, ExecTo, CancelTo, AllowedTransition
  <2> QED BY <2>2, <2>3
<1>14. TaskMoves(x) => OneRun(x) /\ RunSafe(x)'
  <2> SUFFICES ASSUME TaskMoves(x) PROVE OneRun(x) /\ RunSafe(x)'
    OBVIOUS
  <2>1. /\ task[x] \in ActiveTask
        /\ stray' = stray
        /\ \E t \in StoppedTask \cup {"waiting"} : To(record[x], t, exec[x].at, cancel[x].at)
        /\ driver' = driver
    BY PartsMove DEF TaskMoves, Terminal, Places, CancelPlaces, StoppedTask, ActiveTask, RecordStatus
  <2>2. OneRun(x)
    BY <2>1, <1>0 DEF Terminal, Places, CancelPlaces, StoppedTask, ActiveTask, RecordStatus
  <2>3. RunSafe(x)'
    BY <2>1 DEF RunSafe, ExecutedOnce, CancelledSafely, KnowsTask, Terminal, Places, StoppedTask, ActiveTask,
       RecordTo, TaskTo, ExecTo, CancelTo, AllowedTransition
  <2> QED BY <2>2, <2>3
<1>15. AnswerBreaks(x) => OneRun(x) /\ RunSafe(x)'
  <2> SUFFICES ASSUME AnswerBreaks(x) PROVE OneRun(x) /\ RunSafe(x)'
    OBVIOUS
  <2>1. /\ exec[x].at = "polling"
        /\ To(Ended("failed"), task[x], "idle", cancel[x].at) /\ stray' = stray \cup {x}
        /\ driver' = driver
    BY PartsMove DEF AnswerBreaks, Terminal, Places, CancelPlaces, StoppedTask, ActiveTask, RecordStatus
  <2>2. OneRun(x)
    BY <2>1, <1>0 DEF Terminal, Places, CancelPlaces, StoppedTask, ActiveTask, RecordStatus
  <2>3. RunSafe(x)'
    BY <2>1 DEF RunSafe, ExecutedOnce, CancelledSafely, KnowsTask, Terminal, Places, StoppedTask, ActiveTask,
       RecordTo, TaskTo, ExecTo, CancelTo, AllowedTransition
  <2> QED BY <2>2, <2>3
<1> QED BY <1>1, <1>2, <1>3, <1>4, <1>5, <1>6, <1>7, <1>8, <1>9, <1>10, <1>11, <1>12, <1>13, <1>14, <1>15

LEMMA RestartIsSafe == AiRuntimeInv /\ RuntimeRestarts => AiRuntimeInv'
<1> SUFFICES ASSUME AiRuntimeInv, RuntimeRestarts PROVE AiRuntimeInv'
  OBVIOUS
<1>1. AiRuntimeTypes'
  BY DEF AiRuntimeInv, AiRuntimeTypes, RuntimeRestarts, RecordStatus, Terminal, StoppedTask, Execution,
     Cancellation, CancelPlaces, Places, NotExecuting, NotCancelling, NoRetries
<1>2. ASSUME NEW x \in RunIds PROVE RunSafe(x)'
  <2>1. /\ record'[x] = (IF record[x] = "absent" THEN "absent" ELSE "lost") /\ driver' = driver
        /\ exec'[x].at = "idle" /\ cancel'[x].at = "idle"
        /\ task[x] = "none" => task'[x] = "none"
    BY DEF RuntimeRestarts, NotExecuting, NotCancelling, ActiveTask, AiRuntimeInv, AiRuntimeTypes
  <2> QED BY <2>1 DEF AiRuntimeInv, RunSafe, ExecutedOnce, CancelledSafely, KnowsTask, Terminal
<1> QED BY <1>1, <1>2 DEF AiRuntimeInv, RunSafe, EndedLeavesNoTask

LEMMA AiRuntimeKeeps == AiRuntimeInv /\ [AiRuntimeNext]_runtimeVars => AiRuntimeInv'
<1> SUFFICES ASSUME AiRuntimeInv, [AiRuntimeNext]_runtimeVars PROVE AiRuntimeInv'
  OBVIOUS
<1>1. CASE UNCHANGED runtimeVars
  BY <1>1 DEF AiRuntimeInv, AiRuntimeTypes, ExecutedOnce, CancelledSafely, KnowsTask, EndedLeavesNoTask
<1>2. CASE RuntimeRestarts
  BY <1>2, RestartIsSafe
<1>3. ASSUME NEW x \in RunIds,
             \/ CreateRun(x) \/ Execute(x) \/ CompletionReturns(x) \/ RequestIsRetried(x)
             \/ TaskIsCreated(x) \/ TaskCreationFails(x) \/ Poll(x) \/ AnswerBreaks(x) \/ StopReturns(x)
             \/ CancelBegins(x) \/ NoopCancels(x) \/ CancelStops(x) \/ CancelPolls(x)
             \/ CancelFinishes(x) \/ TaskMoves(x)
      PROVE  AiRuntimeInv'
  BY <1>3, RunStaysSafe, OthersStaySafe
<1> QED BY <1>1, <1>2, <1>3 DEF AiRuntimeNext

\* A run is executed at most once, and whoever cancels it knows the task it
\* stops (RunService, ProviderRuntime), for any numbers of runs and retries.
THEOREM AiRuntimeInvariant == AiRuntimeSpec => []AiRuntimeInv
<1> QED BY AiRuntimeStarts, AiRuntimeKeeps, PTL DEF AiRuntimeSpec

\* A run that has ended leaves no task working at the provider, unless it is
\* FAILED and the answer that named its task or the request to stop it was lost,
\* or an answer raised an exception complete has no stop for (manus_provider.py).
THEOREM NoTaskIsLeft == AiRuntimeSpec => []EndedLeavesNoTask
<1> QED BY AiRuntimeInvariant, PTL DEF AiRuntimeInv

-----------------------------------------------------------------------------
(* The refinement.                                                         *)

\* How a step moves the status of a run.
Moves(old, new) ==
  \/ new = old
  \/ old = "absent" /\ new = "queued"
  \/ old = "queued" /\ new \in {"running", "cancelled"}
  \/ old = "running" /\ new \in Terminal

LEMMA StatusMoves ==
  ASSUME AiRuntimeInv, NEW x \in RunIds,
         \/ CreateRun(x) \/ Execute(x) \/ CompletionReturns(x) \/ RequestIsRetried(x)
         \/ TaskIsCreated(x) \/ TaskCreationFails(x) \/ Poll(x) \/ AnswerBreaks(x) \/ StopReturns(x)
         \/ CancelBegins(x) \/ NoopCancels(x) \/ CancelStops(x) \/ CancelPolls(x)
         \/ CancelFinishes(x) \/ TaskMoves(x)
  PROVE  \E new \in RecordStatus : Moves(record[x], new) /\ record' = [record EXCEPT ![x] = new]
<1> record \in [RunIds -> RecordStatus] /\ record[x] \in RecordStatus
  BY DEF AiRuntimeInv, AiRuntimeTypes
<1>1. \A s \in Terminal : record[x] # "queued" \/ s = "cancelled" =>
        (Finish(x, s) => \E new \in RecordStatus : Moves(record[x], new) /\ record' = [record EXCEPT ![x] = new])
  BY DEF Finish, Moves, RecordStatus, AllowedTransition, Terminal
<1>2. record' = record => \E new \in RecordStatus : Moves(record[x], new) /\ record' = [record EXCEPT ![x] = new]
  BY DEF Moves
<1>3. exec[x].at # "idle" => record[x] # "queued"
  BY DEF AiRuntimeInv, ExecutedOnce
<1>4. CASE CreateRun(x) \/ Execute(x)
  BY <1>4 DEF CreateRun, Execute, Moves, RecordStatus
<1>5. CASE CompletionReturns(x) \/ TaskCreationFails(x) \/ AnswerBreaks(x) \/ StopReturns(x)
  BY <1>5, <1>1, <1>3 DEF CompletionReturns, TaskCreationFails, AnswerBreaks, StopReturns, Terminal
<1>6. CASE Poll(x)
  BY <1>6, <1>1, <1>2, <1>3 DEF Poll, AfterError, Incomplete, Terminal
<1>7. CASE NoopCancels(x) \/ CancelFinishes(x)
  BY <1>7, <1>1 DEF NoopCancels, CancelFinishes, Terminal
<1>8. CASE \/ RequestIsRetried(x) \/ TaskIsCreated(x) \/ CancelBegins(x) \/ CancelStops(x)
           \/ CancelPolls(x) \/ TaskMoves(x)
  BY <1>8, <1>2 DEF RequestIsRetried, TaskIsCreated, CancelBegins, CancelStops, CancelPolls, TaskMoves
<1> QED BY <1>4, <1>5, <1>6, <1>7, <1>8

Remotes == [x \in RunIds \X {1} |-> record[x[1]]]

LEMMA RemotesMove ==
  ASSUME AiRuntimeTypes, NEW x \in RunIds, NEW new \in RecordStatus, record' = [record EXCEPT ![x] = new]
  PROVE  Remotes' = [Remotes EXCEPT ![<<x, 1>>] = new] /\ Remotes[<<x, 1>>] = record[x]
BY DEF Remotes, AiRuntimeTypes

LEMMA StepIsRemote ==
  ASSUME AiRuntimeInv, NEW x \in RunIds, NEW new \in RecordStatus, Moves(record[x], new),
         record' = [record EXCEPT ![x] = new]
  PROVE  [RemoteStep]_record
<1> DEFINE e == <<x, 1>>
<1> AiRuntimeTypes /\ e \in RunIds \X {1} /\ 1 .. 1 = {1} /\ e \in RunIds \X (1 .. 1)
  BY DEF AiRuntimeInv
<1>1. Remotes' = [Remotes EXCEPT ![e] = new] /\ Remotes[e] = record[x]
  BY RemotesMove
<1>2. CASE new = record[x]
  BY <1>2 DEF AiRuntimeTypes
<1>3. CASE record[x] = "absent" /\ new = "queued"
  <2>1. \A k \in 1 .. 1 : ~(k < e[2])
    OBVIOUS
  <2>2. Remote!RemoteCreate(e)
    BY <1>1, <1>3, <2>1 DEF Remote!RemoteCreate, Remote!FreshExternal, Remotes
  <2> QED BY <2>2 DEF RemoteStep
<1>4. CASE record[x] = "queued" /\ new = "running"
  BY <1>1, <1>4 DEF RemoteStep, Remote!RemoteExecute, Remotes
<1>5. CASE record[x] = "running" /\ new \in {"succeeded", "failed"}
  BY <1>1, <1>5 DEF RemoteStep, Remote!RemoteFinish, Remotes
<1>6. CASE record[x] \in {"queued", "running"} /\ new = "cancelled"
  BY <1>1, <1>6 DEF RemoteStep, Remote!RemoteCancel, Remote!RemoteCancellable, Remotes
<1> QED BY <1>2, <1>3, <1>4, <1>5, <1>6 DEF Moves, Terminal

LEMMA RestartIsRemote == AiRuntimeInv /\ RuntimeRestarts => [RemoteStep]_record
<1> SUFFICES ASSUME AiRuntimeInv, RuntimeRestarts, record' # record PROVE RemoteStep
  OBVIOUS
<1> record \in [RunIds -> RecordStatus] /\ 1 .. 1 = {1}
  BY DEF AiRuntimeInv, AiRuntimeTypes
<1>1. PICK x \in RunIds : record[x] \notin {"absent", "lost"}
  BY DEF RuntimeRestarts
<1>2. <<x, 1>> \in RunIds \X {1} /\ Remotes[<<x, 1>>] = record[x]
  BY DEF Remotes
<1>3. Remotes' = [y \in RunIds \X {1} |-> IF Remotes[y] = "absent" THEN "absent" ELSE "lost"]
  BY DEF RuntimeRestarts, Remotes
<1>4. Remote!RemoteRestart
  BY <1>1, <1>2, <1>3 DEF Remote!RemoteRestart, Remote!Externals, Remotes
<1> QED BY <1>4 DEF RemoteStep

\* What the API's models assume of the runtime (AgentRuntime): execute starts
\* a queued run once, its end is final, only a restart loses it.
THEOREM AiRuntimeImplementsRuntime == AiRuntimeSpec => ImplementsRuntime
<1>1. AiRuntimeInit => Remote!RuntimeInit
  <2> 1 .. 1 = {1}
    OBVIOUS
  <2> QED BY DEF AiRuntimeInit, Remote!RuntimeInit, Remote!Externals
<1>2. AiRuntimeInv /\ [AiRuntimeNext]_runtimeVars => [RemoteStep]_record
  <2> SUFFICES ASSUME AiRuntimeInv, [AiRuntimeNext]_runtimeVars PROVE [RemoteStep]_record
    OBVIOUS
  <2>1. CASE UNCHANGED runtimeVars
    BY <2>1
  <2>2. CASE RuntimeRestarts
    BY <2>2, RestartIsRemote
  <2>3. ASSUME NEW x \in RunIds,
               \/ CreateRun(x) \/ Execute(x) \/ CompletionReturns(x) \/ RequestIsRetried(x)
               \/ TaskIsCreated(x) \/ TaskCreationFails(x) \/ Poll(x) \/ AnswerBreaks(x) \/ StopReturns(x)
               \/ CancelBegins(x) \/ NoopCancels(x) \/ CancelStops(x) \/ CancelPolls(x)
               \/ CancelFinishes(x) \/ TaskMoves(x)
        PROVE  [RemoteStep]_record
    BY <2>3, StatusMoves, StepIsRemote
  <2> QED BY <2>1, <2>2, <2>3 DEF AiRuntimeNext
<1> QED BY <1>1, <1>2, AiRuntimeInvariant, PTL DEF AiRuntimeSpec, ImplementsRuntime
===============================================================================
