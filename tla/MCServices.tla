------------------------------ MODULE MCServices ------------------------------
(***************************************************************************)
(* Instances of the components that do not share state with each other,    *)
(* one of them in each behaviour.  Where every fault at once is too much,  *)
(* a component has several stories:                                        *)
(*   - the accounts of a desktop: one account under every fault; two       *)
(*     accounts and one call; two accounts and two calls without faults;   *)
(*   - the organization: the members, their roles and the knowledge bases, *)
(*     with the units as they are; the units and the posts, with the local *)
(*     members as they are.                                                *)
(* Others are told of a part of what may happen:                           *)
(*   - the throttling: one attempt at a time has the right password,       *)
(*     before the last tick;                                               *)
(*   - a fetch from Feishu: its directory changes while the requests need  *)
(*     no retry and the token is valid, or the reverse;                    *)
(*   - a search: others commit while it is under way, in one of the bases; *)
(*   - the agents: two editors, or one and a run; the limits change while  *)
(*     the agents do not;                                                  *)
(*   - the chunks: documents of several shapes;                            *)
(*   - the conversations: one person contacts a colleague, an agent or a   *)
(*     pair, twice, the colleague contacts them once.                      *)
(***************************************************************************)
EXTENDS ImOutbox, Messaging, DesktopAccounts, RateLimits, OrgDirectory,
        FeishuSync, AiRuntimeRuns, FeishuClient, KnowledgeRetrieval,
        AgentConfiguration, Conversations, Chunking, TLC

CONSTANTS c1, c2, p1, p2, n1, a1, a2, l1, l2, r1, b1, b2

VARIABLE part

Throttled ==
  LET clearing == {c \in Clients : admission'[c].at \in {"verify", "clear", "cleared"}}
  IN clearing = {} \/ (Cardinality(clearing) = 1 /\ tick' < LastTick)

OneAccount ==
  /\ issued'[2] = NotYet /\ calls'[c2].kind \notin {"change", "switch"}
  /\ Cardinality(strays') + restarts' < 2
OneCall == calls'[c2] = calls[c2] /\ strays' = {} /\ restarts' = 0
TwoCalls ==
  /\ strays' = {} /\ severed' = {} /\ signedOut' = {} /\ restarts' = 0
  /\ \A s \in Devices : issued'[s] # Gone
  /\ \A c \in Calls : calls'[c].kind # "change"

Owners ==
  /\ UNCHANGED <<unitStatus, parent, deptAbsence>> /\ boundTo'[1] = NoUnit
  /\ \A m \in Locals : home'[m] < 2
  /\ \A t \in Admins : orders'[t].kind \notin {"create unit", "move unit", "archive unit"}
Tree ==
  /\ UNCHANGED scopeVars
  /\ \A m \in Locals : role'[m] = role[m] /\ memberStatus'[m] = memberStatus[m]
  /\ \A r \in Remotes : role'[r] # "ADMIN" /\ \A d \in Depts \cup {RootDept} : posts'[r][d].status # "SUSPENDED"
  /\ \A t \in Admins :
       /\ orders'[t].kind # "add member"
       /\ orders'[t].kind = "update member" =>
            orders'[t].role = "same" /\ orders'[t].status = "same" /\ orders'[t].unit \in {1, 2}

Fetched == changes' > 0 => token' # "expired" /\ fetch'.request.attempt = 0

Everybody == [t \in Teams |-> "none"]
BasesBegin ==
  /\ employedIn = {2} /\ activeTeams = Teams /\ above = [t \in Teams |-> t - 1]
  /\ published = [b \in Bases |-> [version |-> 1, ready |-> TRUE]]
  /\ scopeOf = [b \in Bases |-> IF b = b1 THEN [Everybody EXCEPT ![1] = "children"] ELSE Everybody]
  /\ baseStatus \in {[b \in Bases |-> IF b = b1 THEN status ELSE "ACTIVE"] : status \in {"DRAFT", "ACTIVE"}}
Searched ==
  /\ edits' # edits => reader.at \notin {"idle", "answered", "refused", "sent", "cited"}
  /\ baseStatus'[b2] = "ACTIVE" /\ scopeOf'[b2] = Everybody /\ published'[b2] = published[b2]
  /\ scopeOf'[b1] \in {[Everybody EXCEPT ![1] = reach] : reach \in {"children", "unit"}}
  /\ employedIn' \in {{2}, {}} /\ reader'.asked # {b2}

Edited ==
  /\ newRun'.at = "none" \/ (sync' = NoPlan /\ \E e \in Editors : console'[e] = NoConsole)
  /\ limits' = 1 \/ (newRun'.at = "none" /\ lastVersion' < 2 /\ sync' = NoPlan)
  /\ \A e \in Editors : console'[e].reach = "nobody"

Contacted ==
  /\ clicks'[2] < 2 /\ listQuery'[2] = NotListing /\ chosen'[2] = Nothing
  /\ \A r \in contacts' :
       IF r.who = 2 THEN r.target[1] = "human" ELSE r.target \notin {<<"agent", 4>>, <<"agent_pair", 4, 3, 2>>}
  /\ available' = People \cup Assistants
       \/ (available' = {1, 2, 4} /\ clicks'[2] = 0 /\ listQuery'[1] = NotListing /\ rows' = rows)
  /\ clicks'[1] = 2 => selected'[1] # None \/ listQuery'[1] = NotListing

Line(level, fence, classes) == [level |-> level, fence |-> fence, text |-> classes]
Fence(marker, length) == Line(0, [marker |-> marker, length |-> length], <<"letter">>)
Heading(level) == Line(level, NoFence, <<"letter">>)
Text(classes) == Line(0, NoFence, classes)
Words == Text(<<"letter", "letter", "space", "letter", "stop", "space">>)
Sentences == Text(<<"letter", "stop", "letter", "letter", "letter", "letter", "letter">>)
LinesOfAllKinds ==
  {Heading(1), Heading(2), Fence("backtick", 3), Fence("backtick", 4), Fence("tilde", 3),
   Text(<<"letter">>), Text(<< >>), Words, Sentences}

PagesOf(kinds, length, number) ==
  {[number |-> number, lines |-> lines] : lines \in UNION {[1 .. n -> kinds] : n \in 0 .. length}}
Documents ==
  LET backtick == {Fence("backtick", 3), Fence("backtick", 4)}
      oneLetter == Text(<<"letter">>)
  IN {<<p>> : p \in PagesOf({Heading(1), Heading(2), oneLetter} \cup backtick, 5, 1)
                     \cup PagesOf({Heading(2), oneLetter, Fence("backtick", 3), Fence("tilde", 3)}, 4, 1)
                     \cup PagesOf({oneLetter, Text(<< >>), Words, Sentences}, 3, 1)}
     \cup PagesOf({Heading(1), oneLetter, Fence("backtick", 3)}, 2, 1) \X
          UNION {PagesOf({Heading(2), oneLetter, Fence("backtick", 3)}, 2, n) : n \in {1, 2}}

Init ==
  /\ part \in {"outbox", "messages", "one account", "one call", "two calls", "throttling", "owners", "tree",
              "synchronization", "runtime", "fetch", "search", "agents", "conversations", "chunks"}
  /\ ImInit /\ (part # "outbox" => audience = 0)
  /\ MessagingInit /\ DesktopInit /\ RateInit /\ SyncInit
  /\ persistentStorage
  /\ OrgInit /\ role[l1] = "OWNER"
  /\ AiRuntimeInit /\ (part # "runtime" => driver = "noop")
  /\ homesAtFeishu = [u \in RemoteUsers |-> {"d2"}]
  /\ ClientInit /\ (part # "fetch" => parentAtFeishu = [d \in RemoteDepts |-> Root])
  /\ BasesBegin /\ RetrievalInit /\ (part # "search" => baseStatus[b1] = "ACTIVE")
  /\ AgentsInit /\ (part # "agents" => lastVersion = 0)
  /\ ConversationInit
  /\ IF part = "chunks" THEN pages \in Documents ELSE pages = <<[number |-> 1, lines |-> << >>]>> /\ sourceType = "TEXT"
  /\ ChunkingInit

Next ==
  /\ UNCHANGED part
  /\ \/ part = "outbox" /\ ImNext
     \/ part # "outbox" /\ UNCHANGED imVars
  /\ \/ part = "messages" /\ MessagingNext
     \/ part # "messages" /\ UNCHANGED messagingVars
  /\ \/ part = "one account" /\ DesktopStep /\ OneAccount
     \/ part = "one call" /\ DesktopStep /\ OneCall
     \/ part = "two calls" /\ DesktopStep /\ TwoCalls
     \/ part \notin {"one account", "one call", "two calls"} /\ UNCHANGED desktopVars
  /\ \/ part = "throttling" /\ RateNext /\ Throttled
     \/ part # "throttling" /\ UNCHANGED rateVars
  /\ \/ part = "owners" /\ OrgNext /\ Owners
     \/ part = "tree" /\ OrgNext /\ Tree
     \/ part \notin {"owners", "tree"} /\ UNCHANGED orgVars
  /\ \/ part = "synchronization" /\ SyncNext
     \/ part # "synchronization" /\ UNCHANGED syncVars
  /\ \/ part = "runtime" /\ AiRuntimeNext
     \/ part # "runtime" /\ UNCHANGED runtimeVars
  /\ \/ part = "fetch" /\ ClientNext /\ Fetched
     \/ part # "fetch" /\ UNCHANGED clientVars
  /\ \/ part = "search" /\ RetrievalNext /\ Searched
     \/ part # "search" /\ UNCHANGED retrievalVars
  /\ \/ part = "agents" /\ AgentsNext /\ Edited
     \/ part # "agents" /\ UNCHANGED agentVars
  /\ \/ part = "conversations" /\ ConversationNext /\ Contacted
     \/ part # "conversations" /\ UNCHANGED conversationVars
  /\ \/ part = "chunks" /\ ChunkingNext
     \/ part # "chunks" /\ UNCHANGED chunkingVars

ServicesSpec == Init /\ [][Next]_
  <<part, imVars, messagingVars, desktopVars, rateVars, orgVars, syncVars, runtimeVars, clientVars, retrievalVars,
    agentVars, conversationVars, chunkingVars>>

\* The replicas, the clients, the administrators and the consoles are the same
\* processes.
Symmetry == Permutations(Clients) \cup Permutations(Accounts)
==============================================================================
