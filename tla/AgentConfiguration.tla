--------------------------- MODULE AgentConfiguration ---------------------------
(***************************************************************************)
(* The agents of the members: AgentAdminService, whose administrators work *)
(* on what their console showed them some time ago, the provisioner that   *)
(* a directory synchronization calls inside its own transaction, and the   *)
(* two places that read an agent for a run: when a message asks for one    *)
(* and just before it is dispatched.  All agents share one template; its   *)
(* versions only grow and are PUBLISHED from the start.                    *)
(*                                                                         *)
(* reach is who may ask an agent: status and visibility together.  The     *)
(* console sends all of an agent's fields with every request.              *)
(*                                                                         *)
(* Left out: names and summaries (written with reach), model and tool      *)
(* policies (copied), usage reports (they write nothing), the checks of a  *)
(* run's chain (AgentRunRelay).                                            *)
(***************************************************************************)
EXTENDS Naturals, FiniteSets

CONSTANTS Staff,        \* members who may own an agent
          Editors,      \* administrators' consoles
          LastNumber    \* bound: versions, and changes of the limits

ASSUME ConfigurationAssumption == LastNumber \in Nat \ {0} /\ "free" \notin Editors

VARIABLES lastVersion, text,   \* of the template's versions
          agents,              \* the agent of each member
          agentLock, limitsLock, limits,   \* limits: a stamp, updatedAt
          console,             \* what each console shows, and its request
          sync,                \* the plan of a synchronization
          newRun               \* a run, from the message to the runtime

agentVars == <<lastVersion, text, agents, agentLock, limitsLock, limits, console, sync, newRun>>

Texts == {"first", "second"}
NoAgent == [version |-> 0, managed |-> FALSE, reach |-> "nobody"]
NoConsole == [at |-> "idle", member |-> 0, seen |-> 0, text |-> "first", reach |-> "nobody", latest |-> 0]
NoPlan == [at |-> "idle", version |-> 0, owners |-> {}]
NoNewRun == [at |-> "none", member |-> 0, asOwner |-> FALSE, version |-> 0]

HasAgent(m) == agents[m].version > 0

\* A tenant starts without agents; the seed's has some of its own.
AgentsInit ==
  /\ \E seeded \in SUBSET Staff :
       /\ agents = [m \in Staff |-> IF m \in seeded THEN [version |-> 1, managed |-> FALSE, reach |-> "tenant"]
                                    ELSE NoAgent]
       /\ lastVersion = IF seeded = {} THEN 0 ELSE 1
  /\ text = [v \in 1 .. LastNumber |-> "first"]
  /\ agentLock = [m \in Staff |-> "free"] /\ limitsLock = "free" /\ limits = 1
  /\ console = [e \in Editors |-> NoConsole] /\ sync = NoPlan /\ newRun = NoNewRun

-----------------------------------------------------------------------------
(* AgentAdminService.                                                      *)

At(e, at) == console' = [console EXCEPT ![e].at = at]
Closes(e) == console' = [console EXCEPT ![e] = NoConsole]

\* list, usageSummary: what the request will be compared with.
Shows(e) ==
  /\ console[e].at = "idle"
  /\ \/ \E m \in Staff : HasAgent(m) /\ console' =
          [console EXCEPT ![e] = [NoConsole EXCEPT !.at = "agent", !.member = m, !.seen = agents[m].version]]
     \/ console' = [console EXCEPT ![e] = [NoConsole EXCEPT !.at = "limits", !.seen = limits]]
  /\ UNCHANGED <<lastVersion, text, agents, agentLock, limitsLock, limits, sync, newRun>>

\* Bug: requests for one agent are not kept apart.
BugAgentFree(m) == TRUE

AgentFree(m) == agentLock[m] = "free"

\* update: the agent's lock, the version the console showed, and only bases
\* that are ACTIVE.
UpdateBegins(e) ==
  /\ console[e].at = "agent" /\ AgentFree(console[e].member)
  /\ \/ /\ agents[console[e].member].version = console[e].seen
        /\ \E t \in Texts, reach \in {"nobody", "owner", "tenant"} :
             console' = [console EXCEPT ![e].at = IF t = text[console[e].seen] THEN "saving" ELSE "numbering",
                                        ![e].text = t, ![e].reach = reach]
        /\ agentLock' = [agentLock EXCEPT ![console[e].member] = e]
     \/ Closes(e) /\ UNCHANGED agentLock     \* it has changed, or a base is not ACTIVE
  /\ UNCHANGED <<lastVersion, text, agents, limitsLock, limits, sync, newRun>>

\* The latest version of the template, which other agents' updates share.
UpdateNumbers(e) ==
  /\ console[e].at = "numbering"
  /\ console' = [console EXCEPT ![e].at = "saving", ![e].latest = lastVersion + 1]
  /\ UNCHANGED <<lastVersion, text, agents, agentLock, limitsLock, limits, sync, newRun>>

Unlocks(e) == agentLock' = [agentLock EXCEPT ![console[e].member] = IF @ = e THEN "free" ELSE @]

\* The new version, if there is one, and the agent; a number that somebody
\* else has taken violates the unique index.
UpdateSaves(e) ==
  LET new == console[e].latest
      m == console[e].member
  IN /\ console[e].at = "saving" /\ Unlocks(e) /\ Closes(e)
     /\ \/ /\ new = 0
           /\ agents' = [agents EXCEPT ![m].version = console[e].seen, ![m].reach = console[e].reach]
           /\ UNCHANGED <<lastVersion, text>>
        \/ /\ new = lastVersion + 1 /\ new <= LastNumber
           /\ lastVersion' = new /\ text' = [text EXCEPT ![new] = console[e].text]
           /\ agents' = [agents EXCEPT ![m].version = new, ![m].reach = console[e].reach]
        \/ /\ new \in 1 .. lastVersion
           /\ UNCHANGED <<lastVersion, text, agents>>
     /\ UNCHANGED <<limitsLock, limits, sync, newRun>>

\* updateUsageLimits, under the lock that every claim of quota takes.
LimitsBegin(e) ==
  /\ console[e].at = "limits" /\ limitsLock = "free"
  /\ \/ limits = console[e].seen /\ At(e, "limiting") /\ limitsLock' = e
     \/ limits # console[e].seen /\ Closes(e) /\ UNCHANGED limitsLock
  /\ UNCHANGED <<lastVersion, text, agents, agentLock, limits, sync, newRun>>

LimitsSave(e) ==
  /\ console[e].at = "limiting" /\ Closes(e) /\ limitsLock' = "free"
  /\ limits = console[e].seen /\ limits < LastNumber /\ limits' = limits + 1
  /\ UNCHANGED <<lastVersion, text, agents, agentLock, sync, newRun>>

-----------------------------------------------------------------------------
(* DirectoryPersonalAgentProvisioner.                                      *)

FirstOrLatest == IF lastVersion = 0 THEN 1 ELSE lastVersion

\* prepare: the latest version, or a first one, and who has an agent.
Prepare ==
  /\ sync.at = "idle"
  /\ sync' = [at |-> "prepared", version |-> FirstOrLatest, owners |-> {m \in Staff : HasAgent(m)}]
  /\ UNCHANGED <<lastVersion, text, agents, agentLock, limitsLock, limits, console, newRun>>

\* reconcileMember for everybody, with the directory's commit.
Reconcile ==
  /\ sync.at = "prepared" /\ sync' = NoPlan /\ lastVersion' = FirstOrLatest
  /\ \E active \in SUBSET Staff :
       LET Reconciled(m) ==
             IF m \in sync.owners
             THEN IF agents[m].managed
                  THEN [agents[m] EXCEPT !.reach = IF m \in active THEN "tenant" ELSE "nobody"]
                  ELSE agents[m]
             ELSE IF m \in active THEN [version |-> sync.version, managed |-> TRUE, reach |-> "tenant"]
                  ELSE agents[m]
       IN agents' = [m \in Staff |-> Reconciled(m)]
  /\ UNCHANGED <<text, agentLock, limitsLock, limits, console, newRun>>

-----------------------------------------------------------------------------
(* The runs.                                                               *)

\* isAgentVisibleToUser, and ONLINE.
MayAsk(m, asOwner) == HasAgent(m) /\ agents[m].reach \in {"tenant"} \cup (IF asOwner THEN {"owner"} ELSE {})

\* enqueueInitialAgentRun: one agent, or the two of a relay, the first of which
\* answers; its version is kept with the run.
EnqueueInitialAgentRun ==
  /\ newRun.at = "none"
  /\ \E m, other \in Staff, asOwner \in BOOLEAN :
       /\ MayAsk(m, asOwner) /\ (other # m => MayAsk(other, FALSE))
       /\ newRun' = [at |-> "queued", member |-> m, asOwner |-> asOwner, version |-> agents[m].version]
  /\ UNCHANGED <<lastVersion, text, agents, agentLock, limitsLock, limits, console, sync>>

\* validateQueuedRun.
ValidateQueuedRun ==
  /\ newRun.at = "queued"
  /\ newRun' = IF MayAsk(newRun.member, newRun.asOwner) THEN [newRun EXCEPT !.at = "dispatched"] ELSE NoNewRun
  /\ UNCHANGED <<lastVersion, text, agents, agentLock, limitsLock, limits, console, sync>>

AgentsNext ==
  \/ \E e \in Editors :
       \/ Shows(e)
       \/ UpdateBegins(e)
       \/ UpdateNumbers(e)
       \/ UpdateSaves(e)
       \/ LimitsBegin(e)
       \/ LimitsSave(e)
  \/ Prepare
  \/ Reconcile
  \/ EnqueueInitialAgentRun
  \/ ValidateQueuedRun

AgentsSpec == AgentsInit /\ [][AgentsNext]_agentVars

-----------------------------------------------------------------------------
(* The version an agent runs, which is its prompt and its knowledge bases, is
   replaced only by an administrator whose console showed the version it replaces,
   and the tenant's limits by one who saw the limits: of two editors, none undoes
   the other's prompt unseen, and a synchronization undoes none.  Who may ask an
   agent is no part of this: the code lets the last write stand. *)
SavedBy(e, m) == console[e].at = "saving" /\ console'[e].at = "idle" /\ console[e].member = m

ConfigurationKept ==
  [][ /\ \A m \in Staff : agents'[m].version # agents[m].version /\ HasAgent(m) =>
           \E e \in Editors : SavedBy(e, m) /\ console[e].seen = agents[m].version
      /\ limits' # limits => \E e \in Editors : console[e].at = "limiting" /\ console[e].seen = limits ]_agentVars
===============================================================================
