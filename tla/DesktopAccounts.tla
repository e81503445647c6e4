--------------------------- MODULE DesktopAccounts ---------------------------
(***************************************************************************)
(* The accounts of one desktop: desktop-auth-manager.ts, account-store.ts  *)
(* and the handlers of main/index.ts, with the sessions of the API they    *)
(* refresh.  The process is single-threaded; its operations interleave     *)
(* where they await the API or the account file.  What follows an await    *)
(* without another one is part of the same step, because it runs before    *)
(* any other answer of the API or of the disk is looked at.                *)
(*                                                                         *)
(* The two tokens of a session are numbered together: a refresh replaces   *)
(* both, and the API takes a pair for valid while it is the current one.   *)
(***************************************************************************)
EXTENDS Integers, Sequences, FiniteSets

CONSTANTS Devices,       \* 1 .. n: the sessions logins may open, in this order
          MaxIssued,     \* bound: token pairs of a session
          Calls,         \* operations under way at once
          MaxCrashes     \* bound: times the application ends and starts

NotYet == 0
Gone == -1
Absent == 0
Nobody == 0

ASSUME DesktopAssumption ==
  /\ MaxIssued \in Nat \ {0} /\ MaxCrashes \in Nat /\ Devices = 1 .. Cardinality(Devices)
  /\ Nobody \notin Calls

VARIABLES issued,             \* API: the current pair of each session
          vault, activeId,    \* AccountStore.runtime, activeSessionId
          disk,               \* the account file
          persistentStorage,  \* the operating system can encrypt
          mutationQueue,      \* mutations waiting, the first one under way
          written,            \* the first one has written the file
          accessOf,           \* accessTokens
          generation,
          refreshing,         \* refreshes: one per session
          calls,              \* apiRequest, changePassword, switchAccount, logout
          strays,             \* refreshes given up that the API may still receive
          restarts,
          signedOut,          \* history: sessions the user signed out of
          severed,            \* history: sessions whose stored token was left behind
          interrupted         \* history: calls during which another account was active

storeVars == <<vault, activeId, disk, mutationQueue, written>>
desktopVars == <<issued, storeVars, persistentStorage, accessOf, generation, refreshing, calls,
                 strays, restarts, signedOut, severed, interrupted>>

NoRefresh == [at |-> "none", token |-> Absent]
NoCall == [at |-> "idle", kind |-> "none", session |-> Nobody, generation |-> 0, token |-> Absent, again |-> FALSE]
Empty == [tokens |-> [s \in Devices |-> Absent], active |-> Nobody]

DesktopInit ==
  /\ issued = [s \in Devices |-> NotYet]
  /\ vault = Empty.tokens /\ activeId = Nobody /\ disk = Empty
  /\ persistentStorage \in BOOLEAN
  /\ mutationQueue = <<>> /\ written = FALSE
  /\ accessOf = [s \in Devices |-> Absent] /\ generation = 0
  /\ refreshing = [s \in Devices |-> NoRefresh]
  /\ calls = [c \in Calls |-> NoCall]
  /\ strays = {} /\ restarts = 0 /\ signedOut = {} /\ severed = {} /\ interrupted = {}

-----------------------------------------------------------------------------
(* The account store: mutations one at a time, each writing the file before
   the accounts in memory change.                                           *)

Mutation(kind, s, token, owner) == [kind |-> kind, session |-> s, token |-> token, owner |-> owner]

Enqueue(m) == mutationQueue' = Append(mutationQueue, m)

\* The first account of the map, in the order of the logins.
FirstOf(tokens) ==
  LET kept == {s \in Devices : tokens[s] # Absent}
  IN IF kept = {} THEN Nobody ELSE CHOOSE s \in kept : \A t \in kept : s <= t

\* What a mutation makes of the accounts: put, updateCredentials, activate, remove.
Mutated(m) ==
  CASE m.kind = "put" -> [tokens |-> [vault EXCEPT ![m.session] = m.token], active |-> m.session]
    [] m.kind = "update" -> [tokens |-> [vault EXCEPT ![m.session] = m.token], active |-> activeId]
    [] m.kind = "activate" -> [tokens |-> vault, active |-> m.session]
    [] m.kind = "remove" ->
         LET next == [vault EXCEPT ![m.session] = Absent]
         IN [tokens |-> next, active |-> IF activeId = m.session THEN FirstOf(next) ELSE activeId]

\* An account must be there to be updated or activated.
Permitted(m) == m.kind \in {"update", "activate"} => vault[m.session] # Absent

\* persist: without encryption the file is removed.
PersistMutation ==
  /\ mutationQueue # <<>> /\ ~written /\ Permitted(Head(mutationQueue))
  /\ written' = TRUE
  /\ disk' = IF persistentStorage THEN Mutated(Head(mutationQueue)) ELSE Empty
  /\ UNCHANGED <<issued, vault, activeId, persistentStorage, mutationQueue, accessOf, generation,
                 refreshing, calls, strays, restarts, signedOut, severed, interrupted>>

-----------------------------------------------------------------------------
(* Calls.                                                                   *)

Busy(c) == calls[c].at # "idle"

\* requireExpectedSession
Expected(s) == activeId = s

\* Calls that need the renderer's account to be the active one.
Guarded(call) == call.kind \in {"request", "change"}

\* A call goes on with an access token, or ends if its account is not active.
WithToken(call, token) ==
  IF Guarded(call) /\ ~Expected(call.session) THEN NoCall
  ELSE [call EXCEPT !.at = "sent", !.token = token]

Switching(s, call) == call.at = "waiting" /\ call.session = s /\ call.kind = "switch"

\* The refresh of s has succeeded: calls waiting for it go on.
Resumed(s, token) ==
  [c \in Calls |-> IF calls[c].at # "waiting" \/ calls[c].session # s THEN calls[c]
                   ELSE IF calls[c].kind = "switch" THEN [calls[c] EXCEPT !.at = "storing"]
                   ELSE WithToken(calls[c], token)]

\* It has failed: they fail, except that logout signs out all the same.
Abandoned(s) ==
  [c \in Calls |-> IF calls[c].at # "waiting" \/ calls[c].session # s THEN calls[c]
                   ELSE IF calls[c].kind = "logout" THEN [calls[c] EXCEPT !.at = "denied", !.again = TRUE]
                   ELSE NoCall]

\* Bug: the entry of refreshes goes when the answer comes, before it is stored.
BugMayRefresh(s) == refreshing[s].at \in {"none", "answered", "storing"}

\* refresh joins the one under way.
MayRefresh(s) == refreshing[s].at = "none"

\* apiRequest, changePassword and logout ask for the access token, switchAccount
\* for a refresh: from the cache, or from a refresh they start or join.
Call(c, kind, s) ==
  /\ ~Busy(c) /\ vault[s] # Absent /\ kind \in {"request", "change", "switch", "logout"}
  /\ kind \in {"request", "change"} => Expected(s)
  /\ LET call == [NoCall EXCEPT !.kind = kind, !.session = s, !.generation = generation, !.at = "waiting"]
     IN IF kind # "switch" /\ accessOf[s] # Absent
        THEN calls' = [calls EXCEPT ![c] = WithToken(call, accessOf[s])] /\ UNCHANGED refreshing
        ELSE /\ calls' = [calls EXCEPT ![c] = call]
             /\ refreshing' = IF MayRefresh(s) THEN [refreshing EXCEPT ![s] = [at |-> "asked", token |-> vault[s]]]
                              ELSE refreshing
  /\ signedOut' = IF kind = "logout" THEN signedOut \cup {s} ELSE signedOut
  /\ interrupted' = interrupted \ {c}
  /\ UNCHANGED <<issued, storeVars, persistentStorage, accessOf, generation, strays, restarts, severed>>

\* The API answers a call; changePassword keeps the session it is made from.
Serve(c) ==
  /\ calls[c].at = "sent"
  /\ LET s == calls[c].session
         ok == issued[s] = calls[c].token
     IN /\ calls' = [calls EXCEPT ![c].at = IF ok THEN "ok" ELSE "denied"]
        /\ issued' = IF ok /\ calls[c].kind = "logout" THEN [issued EXCEPT ![s] = Gone] ELSE issued
  /\ UNCHANGED <<storeVars, persistentStorage, accessOf, generation, refreshing, strays, restarts,
                 signedOut, severed, interrupted>>

\* Bug: the reply is handed over whatever account is active.
BugSameAccount(call) == TRUE

\* The account is the one that asked, and no account change has come between.
SameAccount(call) == Expected(call.session) /\ generation = call.generation

\* apiRequest hands the reply to the renderer or refuses it as stale.
RequestReturns(c) ==
  /\ calls[c].at = "ok" /\ calls[c].kind = "request"
  /\ calls' = [calls EXCEPT ![c] = IF SameAccount(@) THEN [@ EXCEPT !.at = "delivered"] ELSE NoCall]
  /\ UNCHANGED <<issued, storeVars, persistentStorage, accessOf, generation, refreshing, strays,
                 restarts, signedOut, severed, interrupted>>

\* changePassword stores the account again, with the refresh token in memory.
ChangeReturns(c) ==
  /\ calls[c].at = "ok" /\ calls[c].kind = "change"
  /\ LET s == calls[c].session
     IN IF SameAccount(calls[c]) /\ vault[s] # Absent
        THEN /\ Enqueue(Mutation("update", s, vault[s], c))
             /\ calls' = [calls EXCEPT ![c].at = "stored"]
        ELSE calls' = [calls EXCEPT ![c] = NoCall] /\ UNCHANGED mutationQueue
  /\ UNCHANGED <<issued, vault, activeId, disk, written, persistentStorage, accessOf, generation,
                 refreshing, strays, restarts, signedOut, severed, interrupted>>

\* accessTokenAfterUnauthorized, once: a newer token if there is one, or a
\* refresh.  A second refusal is the answer.
Unauthorized(c) ==
  /\ calls[c].at = "denied" /\ Guarded(calls[c])
  /\ LET s == calls[c].session
         newer == accessOf[s] \notin {Absent, calls[c].token}
     IN \/ /\ calls[c].again \/ ~Expected(s) \/ (~newer /\ vault[s] = Absent)
           /\ calls' = [calls EXCEPT ![c] = NoCall]
           /\ UNCHANGED <<accessOf, refreshing>>
        \/ /\ ~calls[c].again /\ Expected(s) /\ newer
           /\ calls' = [calls EXCEPT ![c] = [@ EXCEPT !.at = "sent", !.token = accessOf[s], !.again = TRUE]]
           /\ UNCHANGED <<accessOf, refreshing>>
        \/ /\ ~calls[c].again /\ Expected(s) /\ ~newer /\ vault[s] # Absent
           /\ accessOf' = [accessOf EXCEPT ![s] = Absent]
           /\ calls' = [calls EXCEPT ![c] = [@ EXCEPT !.at = "waiting", !.again = TRUE]]
           /\ refreshing' = IF MayRefresh(s) THEN [refreshing EXCEPT ![s] = [at |-> "asked", token |-> vault[s]]]
                            ELSE refreshing
  /\ UNCHANGED <<issued, storeVars, persistentStorage, generation, strays, restarts, signedOut, severed, interrupted>>

\* logout removes the account whatever the API answered; switchAccount
\* activates it.
StoreCall(c) ==
  /\ LET s == calls[c].session
     IN \/ /\ calls[c].kind = "logout" /\ calls[c].at \in {"ok", "denied"}
           /\ Enqueue(Mutation("remove", s, Absent, c))
           /\ accessOf' = [accessOf EXCEPT ![s] = Absent]
        \/ /\ calls[c].kind = "switch" /\ calls[c].at = "storing"
           /\ Enqueue(Mutation("activate", s, Absent, c))
           /\ UNCHANGED accessOf
  /\ calls' = [calls EXCEPT ![c].at = "stored"]
  /\ UNCHANGED <<issued, vault, activeId, disk, written, persistentStorage, generation, refreshing,
                 strays, restarts, signedOut, severed, interrupted>>

\* The network or the request timeout ends a call; the renderer takes a reply.
CallEnds(c) ==
  /\ \/ calls[c].at \in {"sent", "ok"} /\ calls[c].kind # "logout" /\ calls' = [calls EXCEPT ![c] = NoCall]
     \/ calls[c].at = "sent" /\ calls[c].kind = "logout" /\ calls' = [calls EXCEPT ![c].at = "denied"]
     \/ calls[c].at = "delivered" /\ calls' = [calls EXCEPT ![c] = NoCall]
  /\ UNCHANGED <<issued, storeVars, persistentStorage, accessOf, generation, refreshing, strays,
                 restarts, signedOut, severed, interrupted>>

\* The cached token is within 30 seconds of its end.
AccessExpires(s) ==
  /\ accessOf[s] # Absent /\ accessOf' = [accessOf EXCEPT ![s] = Absent]
  /\ UNCHANGED <<issued, storeVars, persistentStorage, generation, refreshing, calls, strays,
                 restarts, signedOut, severed, interrupted>>

-----------------------------------------------------------------------------
(* Refreshing, and logging in.                                              *)

ServeRefresh(s) ==
  /\ refreshing[s].at = "asked"
  /\ IF issued[s] = refreshing[s].token
     THEN /\ issued[s] < MaxIssued
          /\ issued' = [issued EXCEPT ![s] = @ + 1]
          /\ refreshing' = [refreshing EXCEPT ![s] = [at |-> "answered", token |-> issued[s] + 1]]
     ELSE /\ refreshing' = [refreshing EXCEPT ![s].at = "denied"]
          /\ UNCHANGED issued
  /\ UNCHANGED <<storeVars, persistentStorage, accessOf, generation, calls, strays, restarts,
                 signedOut, severed, interrupted>>

\* The answer stores the new token, or a 401 or 403 removes the account.
RefreshReturns(s) ==
  /\ \/ /\ refreshing[s].at = "answered"
        /\ Enqueue(Mutation("update", s, refreshing[s].token, Nobody))
        /\ UNCHANGED accessOf
     \/ /\ refreshing[s].at = "denied"
        /\ Enqueue(Mutation("remove", s, Absent, Nobody))
        /\ accessOf' = [accessOf EXCEPT ![s] = Absent]
  /\ refreshing' = [refreshing EXCEPT ![s].at = "storing"]
  /\ UNCHANGED <<issued, vault, activeId, disk, written, persistentStorage, generation, calls,
                 strays, restarts, signedOut, severed, interrupted>>

\* No answer, or one that came too late.
RefreshFails(s) ==
  /\ refreshing[s].at \in {"asked", "answered", "denied"}
  /\ strays' = IF refreshing[s].at = "asked" THEN strays \cup {<<s, refreshing[s].token>>} ELSE strays
  /\ severed' = IF refreshing[s].at = "answered" THEN severed \cup {s} ELSE severed
  /\ refreshing' = [refreshing EXCEPT ![s] = NoRefresh]
  /\ calls' = Abandoned(s)
  /\ UNCHANGED <<issued, storeVars, persistentStorage, accessOf, generation, restarts, signedOut, interrupted>>

\* The API receives a refresh the desktop has given up.
StrayArrives(s, token) ==
  /\ <<s, token>> \in strays /\ strays' = strays \ {<<s, token>>}
  /\ IF issued[s] = token
     THEN /\ issued[s] < MaxIssued
          /\ issued' = [issued EXCEPT ![s] = @ + 1] /\ severed' = severed \cup {s}
     ELSE UNCHANGED <<issued, severed>>
  /\ UNCHANGED <<storeVars, persistentStorage, accessOf, generation, refreshing, calls, restarts,
                 signedOut, interrupted>>

\* login, registerTenant: a new session, stored and made active.
Login(s) ==
  /\ issued[s] = NotYet /\ \A t \in 1 .. s - 1 : issued[t] # NotYet
  /\ issued' = [issued EXCEPT ![s] = 1]
  /\ Enqueue(Mutation("put", s, 1, Nobody))
  /\ UNCHANGED <<vault, activeId, disk, written, persistentStorage, accessOf, generation, refreshing,
                 calls, strays, restarts, signedOut, severed, interrupted>>

\* The API ends a session: revoked, expired, or its member disabled.
SessionEnds(s) ==
  /\ issued[s] > NotYet /\ issued' = [issued EXCEPT ![s] = Gone]
  /\ UNCHANGED <<storeVars, persistentStorage, accessOf, generation, refreshing, calls, strays,
                 restarts, signedOut, severed, interrupted>>

-----------------------------------------------------------------------------
(* The end of a mutation, with what its caller does next.                    *)

ByRefresh(m) == m.owner = Nobody /\ m.kind \in {"update", "remove"}

\* A call's own mutation ends the call.
Finished(m) == IF m.owner = Nobody THEN calls ELSE [calls EXCEPT ![m.owner] = NoCall]

\* acceptBundle, switchAccount, logout, refresh's catch and changePassword go on.
CommitMutation ==
  /\ written
  /\ LET m == Head(mutationQueue)
         s == m.session
         next == Mutated(m)
     IN /\ vault' = next.tokens /\ activeId' = next.active
        /\ accessOf' = IF m.owner = Nobody /\ m.kind \in {"put", "update"} THEN [accessOf EXCEPT ![s] = m.token] ELSE accessOf
        /\ generation' = IF m.kind = "update" THEN generation ELSE generation + 1
        /\ refreshing' = IF ByRefresh(m) THEN [refreshing EXCEPT ![s] = NoRefresh] ELSE refreshing
        /\ calls' = IF ~ByRefresh(m) THEN Finished(m)
                    ELSE IF m.kind = "update" THEN Resumed(s, m.token) ELSE Abandoned(s)
        /\ severed' = IF m.kind = "update" /\ m.token < vault[s] THEN severed \cup {s} ELSE severed
        /\ interrupted' = IF next.active # activeId THEN interrupted \cup {c \in Calls : Busy(c) /\ calls[c].at # "delivered"}
                          ELSE interrupted
  /\ mutationQueue' = Tail(mutationQueue) /\ written' = FALSE
  /\ UNCHANGED <<issued, disk, persistentStorage, strays, restarts, signedOut>>

\* The account is no longer there, or the file cannot be written.
RejectMutation ==
  /\ mutationQueue # <<>> /\ ~written
  /\ LET m == Head(mutationQueue)
         s == m.session
     IN /\ refreshing' = IF ByRefresh(m) THEN [refreshing EXCEPT ![s] = NoRefresh] ELSE refreshing
        /\ calls' = IF ByRefresh(m) THEN Abandoned(s) ELSE Finished(m)
        /\ severed' = IF ByRefresh(m) /\ m.kind = "update" THEN severed \cup {s} ELSE severed
  /\ mutationQueue' = Tail(mutationQueue)
  /\ UNCHANGED <<issued, vault, activeId, disk, written, persistentStorage, accessOf, generation,
                 strays, restarts, signedOut, interrupted>>

\* The application ends and loads the file again.
Restart ==
  /\ restarts < MaxCrashes /\ restarts' = restarts + 1
  /\ vault' = disk.tokens
  /\ activeId' = IF disk.active # Nobody /\ disk.tokens[disk.active] # Absent THEN disk.active ELSE FirstOf(disk.tokens)
  /\ mutationQueue' = <<>> /\ written' = FALSE
  /\ accessOf' = [s \in Devices |-> Absent] /\ generation' = 0
  /\ strays' = strays \cup {<<s, refreshing[s].token>> : s \in {t \in Devices : refreshing[t].at = "asked"}}
  /\ refreshing' = [s \in Devices |-> NoRefresh] /\ calls' = [c \in Calls |-> NoCall]
  /\ severed' = severed \cup {s \in Devices : disk.tokens[s] # issued[s]}
  /\ UNCHANGED <<issued, disk, persistentStorage, signedOut, interrupted>>

DesktopStep ==
  \/ PersistMutation
  \/ CommitMutation
  \/ RejectMutation
  \/ \E c \in Calls :
       \/ \E kind \in {"request", "change", "switch", "logout"}, s \in Devices : Call(c, kind, s)
       \/ Serve(c)
       \/ RequestReturns(c)
       \/ ChangeReturns(c)
       \/ Unauthorized(c)
       \/ StoreCall(c)
       \/ CallEnds(c)
  \/ \E s \in Devices :
       \/ AccessExpires(s)
       \/ ServeRefresh(s)
       \/ RefreshReturns(s)
       \/ RefreshFails(s)
       \/ \E token \in 1 .. MaxIssued : StrayArrives(s, token)
       \/ Login(s)
       \/ SessionEnds(s)
  \/ Restart

DesktopSpec == DesktopInit /\ [][DesktopStep]_desktopVars

-----------------------------------------------------------------------------
(* The desktop forgets an account only if the user signs out of it, the API has
   ended its session, its stored token was left behind (an answer lost, a file
   not written, a crash, a password change that stored an older token), or the
   operating system cannot encrypt.  Calls that need a token at the same time
   never present the same refresh token twice. *)
AccountsStay ==
  [][\A s \in Devices : vault[s] # Absent /\ vault'[s] = Absent =>
       s \in signedOut \/ issued[s] = Gone \/ s \in severed \/ ~persistentStorage]_desktopVars

(* A reply reaches the renderer only if its account was the active one all the
   time since the request, also when the user switches away and back. *)
ReplyOfOneAccount == \A c \in Calls : calls[c].at = "delivered" => c \notin interrupted
=============================================================================
