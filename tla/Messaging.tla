------------------------------- MODULE Messaging -------------------------------
(***************************************************************************)
(* Sending and reading messages of one conversation with an agent: the     *)
(* desktop's composer, mutations and query cache (composer-state.ts,       *)
(* hooks.ts, MessagingWorkspace.tsx, run-action-gate.ts, api.ts,           *)
(* client.ts) and the API's idempotent write (prisma-conversation.         *)
(* repository.ts).  Requests may be lost, answered late, or still be       *)
(* travelling when the client has given them up and sends them again.      *)
(*                                                                         *)
(* Texts are numbered as they are typed, client message ids as they are    *)
(* drawn.  What React Query does with a mutation whose component has moved *)
(* on to another conversation is not modelled: there is one conversation,  *)
(* which the user leaves and opens again.                                  *)
(***************************************************************************)
EXTENDS Integers, Sequences, FiniteSets

CONSTANTS MaxTexts,      \* bound: texts typed
          MaxKeys,       \* bound: client message ids drawn
          MaxLeaves      \* bound: times the user leaves the conversation

ASSUME MessagingAssumption == MaxTexts \in Nat /\ MaxKeys \in Nat /\ MaxLeaves \in Nat

NoText == 0
NoRequest == [key |-> 0, text |-> NoText]
NoQuery == <<>>

VARIABLES draft,          \* composer.draft
          failedRequest,  \* composer.failedRequest
          pending,        \* the request of the mutation the composer watches
          mutations,      \* requests whose mutation is under way, watched or not
          wire,           \* requests the API may still receive
          replies,        \* requests whose success has reached the client
          cancelled,      \* requests whose success handler awaits cancelQueries
          typedTexts, drawnKeys, leaves,
          ledger,         \* the messages of the conversation, in order
          events,         \* their message.created.v1 outbox events
          run,            \* the latest agent run: "none", "active" or "failed"
          gate,           \* RunActionGate.activeToken is set
          retries,        \* retry requests under way
          query,          \* the messages query: none, asked, or with its snapshot
          view            \* the cached messages on the screen

composerVars == <<draft, failedRequest, pending, typedTexts, leaves>>
flightVars == <<mutations, wire, replies, cancelled, drawnKeys>>
serverVars == <<ledger, events, run>>
runActionVars == <<gate, retries>>
cacheVars == <<query, view>>
messagingVars == <<composerVars, flightVars, serverVars, runActionVars, cacheVars>>

Stored == {ledger[i].key : i \in 1 .. Len(ledger)}

MessagingInit ==
  /\ draft = NoText /\ failedRequest = NoRequest /\ pending = NoRequest
  /\ mutations = {} /\ wire = {} /\ replies = {} /\ cancelled = {}
  /\ typedTexts = 0 /\ drawnKeys = 0 /\ leaves = 0
  /\ ledger = <<>> /\ events = <<>> /\ run = "none"
  /\ gate = FALSE /\ retries = 0
  /\ query = NoQuery /\ view = {}

-----------------------------------------------------------------------------
(* The composer.                                                           *)

\* draftChanged: the text area is disabled while a send is pending.
ChangeDraft ==
  /\ pending = NoRequest /\ typedTexts < MaxTexts
  /\ typedTexts' = typedTexts + 1
  /\ draft' = typedTexts + 1
  /\ failedRequest' = NoRequest
  /\ UNCHANGED <<pending, leaves, flightVars, serverVars, runActionVars, cacheVars>>

\* runSend
Start(request) ==
  /\ failedRequest' = NoRequest
  /\ pending' = request
  /\ mutations' = mutations \cup {request}
  /\ wire' = wire \cup {request}

\* submitDraft: a new client message id.
SubmitDraft ==
  /\ draft # NoText /\ pending = NoRequest /\ drawnKeys < MaxKeys
  /\ drawnKeys' = drawnKeys + 1
  /\ Start([key |-> drawnKeys + 1, text |-> draft])
  /\ UNCHANGED <<draft, typedTexts, leaves, replies, cancelled, serverVars, runActionVars, cacheVars>>

\* The button that sends the failed request again under its id.
Resend ==
  /\ failedRequest # NoRequest /\ pending = NoRequest
  /\ failedRequest \notin mutations
  /\ Start(failedRequest)
  /\ UNCHANGED <<draft, typedTexts, leaves, replies, cancelled, drawnKeys, serverVars, runActionVars, cacheVars>>

\* Another conversation is opened, then this one again: the composer, its
\* mutation and the retry gate are reset; what is under way goes on unwatched.
LeaveConversation ==
  /\ leaves < MaxLeaves /\ leaves' = leaves + 1
  /\ draft' = NoText /\ failedRequest' = NoRequest /\ pending' = NoRequest
  /\ gate' = FALSE
  /\ UNCHANGED <<typedTexts, flightVars, serverVars, retries, cacheVars>>

-----------------------------------------------------------------------------
(* The API.                                                                *)

\* Bug: the message is inserted without looking for the id.
BugExisting(request) == FALSE

Existing(request) == request.key \in Stored

\* createUserMessage under the lock of its idempotency key: the stored message,
\* refused while a run is active, or message, event and run together.
ReceiveMessage(request) ==
  /\ request \in wire /\ wire' = wire \ {request}
  /\ \/ /\ Existing(request)
        /\ replies' = replies \cup {request}
        /\ UNCHANGED serverVars
     \/ /\ ~Existing(request) /\ run = "active"
        /\ UNCHANGED <<replies, serverVars>>
     \/ /\ ~Existing(request) /\ run # "active"
        /\ ledger' = Append(ledger, request)
        /\ events' = Append(events, request.key)
        /\ run' = "active"
        /\ replies' = replies \cup {request}
  /\ UNCHANGED <<mutations, cancelled, drawnKeys, composerVars, runActionVars, cacheVars>>

\* The agent's run ends, with an answer or without.
RunEnds ==
  /\ run = "active" /\ run' \in {"none", "failed"}
  /\ UNCHANGED <<ledger, events, composerVars, flightVars, runActionVars, cacheVars>>

-----------------------------------------------------------------------------
(* What comes back.                                                        *)

\* The request is refused, lost, timed out, or its answer is: the API may
\* receive it all the same.
SendFails(request) ==
  /\ request \in mutations \ cancelled
  /\ mutations' = mutations \ {request}
  /\ replies' = replies \ {request}
  /\ IF pending = request
     THEN pending' = NoRequest /\ failedRequest' = request
     ELSE UNCHANGED <<pending, failedRequest>>
  /\ UNCHANGED <<draft, typedTexts, leaves, wire, cancelled, drawnKeys, serverVars, runActionVars, cacheVars>>

\* Bug: the query under way is left to return.
BugCancelQuery == UNCHANGED query

CancelQuery == query' = NoQuery

\* onSuccess: the query under way is cancelled first ...
SendSucceeds(request) ==
  /\ request \in mutations \cap replies /\ request \notin cancelled
  /\ cancelled' = cancelled \cup {request}
  /\ CancelQuery
  /\ UNCHANGED <<mutations, wire, replies, drawnKeys, composerVars, serverVars, runActionVars, view>>

\* ... then the message joins the cached ones and the composer is told.
ShowSent(request) ==
  /\ request \in cancelled
  /\ mutations' = mutations \ {request} /\ replies' = replies \ {request} /\ cancelled' = cancelled \ {request}
  /\ view' = view \cup {request.key}
  /\ IF pending = request
     THEN /\ pending' = NoRequest /\ failedRequest' = NoRequest
          /\ draft' = IF draft = request.text THEN NoText ELSE draft
     ELSE UNCHANGED <<pending, failedRequest, draft>>
  /\ UNCHANGED <<typedTexts, leaves, wire, drawnKeys, serverVars, runActionVars, query>>

-----------------------------------------------------------------------------
(* Polling, and retrying a failed run.                                     *)

PollStarts ==
  /\ query = NoQuery /\ query' = <<"asked">>
  /\ UNCHANGED <<view, composerVars, flightVars, serverVars, runActionVars>>

\* listMessagesForUser
PollReads ==
  /\ query = <<"asked">> /\ query' = <<"read", Stored>>
  /\ UNCHANGED <<view, composerVars, flightVars, serverVars, runActionVars>>

\* The answer replaces the cache, or the query fails and the cache stays.
PollReturns ==
  /\ query # NoQuery /\ query' = NoQuery
  /\ IF Len(query) = 2 THEN view' \in {query[2], view} ELSE UNCHANGED view
  /\ UNCHANGED <<composerVars, flightVars, serverVars, runActionVars>>

\* retryFailedRun through the gate.
ClickRetry ==
  /\ run = "failed" /\ ~gate /\ retries < 2
  /\ gate' = TRUE /\ retries' = retries + 1
  /\ UNCHANGED <<composerVars, flightVars, serverVars, cacheVars>>

\* The API accepts it while the run is failed and no other is active.
RetrySettles ==
  /\ retries > 0 /\ retries' = retries - 1
  /\ run' \in IF run = "failed" THEN {"active", "failed"} ELSE {run}
  /\ gate' = FALSE
  /\ UNCHANGED <<ledger, events, composerVars, flightVars, cacheVars>>

MessagingNext ==
  \/ ChangeDraft
  \/ SubmitDraft
  \/ Resend
  \/ LeaveConversation
  \/ \E request \in wire : ReceiveMessage(request)
  \/ RunEnds
  \/ \E request \in mutations : SendFails(request)
  \/ \E request \in mutations : SendSucceeds(request)
  \/ \E request \in cancelled : ShowSent(request)
  \/ PollStarts
  \/ PollReads
  \/ PollReturns
  \/ ClickRetry
  \/ RetrySettles

MessagingSpec == MessagingInit /\ [][MessagingNext]_messagingVars

-----------------------------------------------------------------------------
(* A client message id is written once, with one event, and with the text the
   user sent under it, however often its request is repeated or arrives late. *)
SentOnce ==
  /\ \A i, j \in 1 .. Len(ledger) : ledger[i].key = ledger[j].key => i = j
  /\ Len(events) = Len(ledger)
  /\ failedRequest # NoRequest /\ failedRequest.key \in Stored =>
       \E i \in 1 .. Len(ledger) : ledger[i] = failedRequest

(* A message on the screen stays there: a poll that read before it was sent
   never takes it away again (docs/adr/0004 section 6). *)
ShownStays == [][view \subseteq view']_messagingVars
=============================================================================
