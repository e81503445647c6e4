----------------------------- MODULE AgentRuntime -----------------------------
(***************************************************************************)
(* The remote AI Runtime as the API's worker and control service see it    *)
(* over HTTP: external runs with a status, created, executed, read and     *)
(* cancelled by calls whose answer may be lost.  The statuses and their    *)
(* transitions are those of run_service.py and domain/state.py; a restart  *)
(* of the process loses its in-memory store (memory_run_store.py), after   *)
(* which the external run answers 404.                                     *)
(***************************************************************************)
EXTENDS Naturals

CONSTANTS Runs, MaxCreates    \* bound: external runs per agent run

\* An external run id.  Each create makes a new one: there is no remote
\* idempotency key (run_service.py create draws a fresh uuid4).
Externals == Runs \X (1 .. MaxCreates)

VARIABLE remote               \* status of each external run

RemoteStatus == {"absent", "queued", "running", "succeeded", "failed", "cancelled", "lost"}

RemoteTerminal == {"succeeded", "failed", "cancelled"}

RuntimeTypeOK == remote \in [Externals -> RemoteStatus]

RuntimeInit == remote = [x \in Externals |-> "absent"]

Created(r) == {x \in Externals : x[1] = r /\ remote[x] # "absent"}

FreshExternal(x) ==
  /\ remote[x] = "absent"
  /\ \A k \in 1 .. MaxCreates : k < x[2] => remote[<<x[1], k>>] # "absent"

RemoteCreate(x) == FreshExternal(x) /\ remote' = [remote EXCEPT ![x] = "queued"]

\* execute starts a queued run; on any other status it returns the run as is.
RemoteExecute(x) ==
  remote' = IF remote[x] = "queued" THEN [remote EXCEPT ![x] = "running"] ELSE remote

\* The provider finishes: with an answer, with an error or an exceeded budget.
RemoteFinish(x) ==
  /\ remote[x] = "running"
  /\ \E s \in {"succeeded", "failed"} : remote' = [remote EXCEPT ![x] = s]

\* cancel confirmed by the provider; a run already cancelled is confirmed again.
RemoteCancellable(x) == remote[x] \in {"queued", "running", "cancelled"}

RemoteCancel(x) ==
  /\ RemoteCancellable(x)
  /\ remote' = [remote EXCEPT ![x] = "cancelled"]

\* The runtime process restarts and forgets every run it held.
RemoteRestart ==
  /\ \E x \in Externals : remote[x] \notin {"absent", "lost"}
  /\ remote' = [x \in Externals |-> IF remote[x] = "absent" THEN "absent" ELSE "lost"]

\* Work the provider may still be doing, and charging, for an external run.
Executing(x) == remote[x] = "running"
=============================================================================
