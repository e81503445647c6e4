----------------------------- MODULE Conversations -----------------------------
(***************************************************************************)
(* Opening a direct conversation with a colleague, an agent or two agents: *)
(* the contact operations and the list of conversations of each person's   *)
(* desktop (DirectoryWorkspace.tsx, hooks.ts) and the API's create         *)
(* (conversation.service.ts, createDirect in prisma-conversation.          *)
(* repository.ts).  Messaging models what happens in a conversation.       *)
(*                                                                         *)
(* Everybody looks at the messages, where the list chooses for whom has    *)
(* chosen nothing.  createDirect holds the lock of its key from its first  *)
(* statement to its end, so it is one step.  Which agents a person may     *)
(* contact is the same for everybody; names and times are left out.        *)
(* Nobody leaves a conversation: no code sets leftAt.                      *)
(***************************************************************************)
EXTENDS Integers, Sequences, FiniteSets

CONSTANTS People,      \* user ids, which have an order
          Assistants,  \* agent ids
          TurnLimits,  \* of agent pairs
          MaxClicks    \* bound: contact operations of one person

ASSUME ConversationAssumption ==
  /\ People \subseteq Nat /\ Assistants \subseteq Nat /\ People \cap Assistants = {}
  /\ TurnLimits \subseteq Nat /\ MaxClicks \in Nat

VARIABLES available,  \* ACTIVE users; agents that are online and published
          rows,       \* conversations: key, participants, relay
          clicks,     \* contact operations begun by each person
          underWay,   \* numbers of their mutations that have not settled
          contacts,   \* requests the API may still receive or has checked
          answers,    \* their answers, on the way
          listQuery,  \* the query of the list: none, asked, or with its answer
          list,       \* the conversations in its cache
          selected,   \* selectedConversationId
          chosen      \* history: what the person has chosen last, and with whom

apiVars == <<available, rows>>
desktopListVars == <<clicks, underWay, listQuery, list, selected, chosen>>
conversationVars == <<apiVars, desktopListVars, contacts, answers>>

None == 0
NotListing == <<>>
Nothing == [conversation |-> None, with |-> {}]

Targets(p) ==
  {<<"human", q>> : q \in People \ {p}}
    \cup {<<"agent", a>> : a \in Assistants}
    \cup {<<"agent_pair", ab[1], ab[2], n>> :
            ab \in {xy \in Assistants \X Assistants : xy[1] # xy[2]}, n \in TurnLimits}

Others(target) == IF target[1] = "agent_pair" THEN {target[2], target[3]} ELSE {target[2]}
Parties(p, target) == {p} \cup Others(target)
Relay(target) == IF target[1] = "agent_pair" THEN Tail(target) ELSE <<>>

\* Bug: the two users are not sorted.
BugDirectKey(p, target) ==
  IF target[1] = "human" THEN <<"human", p, target[2]>> ELSE <<target[1], p>> \o Tail(target)

DirectKey(p, target) ==
  IF target[1] = "human" /\ target[2] < p THEN <<"human", target[2], p>> ELSE <<target[1], p>> \o Tail(target)

ConversationInit ==
  /\ available = People \cup Assistants /\ rows = <<>>
  /\ clicks = [p \in People |-> 0] /\ underWay = [p \in People |-> {}]
  /\ contacts = {} /\ answers = {}
  /\ listQuery = [p \in People |-> NotListing] /\ list = [p \in People |-> {}]
  /\ selected = [p \in People |-> None] /\ chosen = [p \in People |-> Nothing]

Seen(p) == {c \in DOMAIN rows : p \in rows[c].parties}

-----------------------------------------------------------------------------
(* The desktop's contact operations.                                       *)

\* The button of another member works while an operation is pending.
Contact(p, target) ==
  /\ clicks[p] < MaxClicks
  /\ clicks' = [clicks EXCEPT ![p] = @ + 1]
  /\ underWay' = [underWay EXCEPT ![p] = @ \cup {clicks[p] + 1}]
  /\ contacts' = contacts \cup {[who |-> p, number |-> clicks[p] + 1, target |-> target, checked |-> FALSE]}
  /\ UNCHANGED <<apiVars, answers, listQuery, list, selected, chosen>>

\* Refused, lost or timed out; the API may receive the request all the same.
ContactFails(p, number) ==
  /\ number \in underWay[p]
  /\ \A answer \in answers : ~(answer.who = p /\ answer.number = number /\ answer.awaits)
  /\ underWay' = [underWay EXCEPT ![p] = @ \ {number}]
  /\ answers' = {answer \in answers : ~(answer.who = p /\ answer.number = number)}
  /\ UNCHANGED <<apiVars, contacts, clicks, listQuery, list, selected, chosen>>

\* onSuccess of the mutation: the list under way is cancelled ...
ContactSucceeds(answer) ==
  /\ answer \in answers /\ ~answer.awaits /\ answer.number \in underWay[answer.who]
  /\ answers' = (answers \ {answer}) \cup {[answer EXCEPT !.awaits = TRUE]}
  /\ listQuery' = [listQuery EXCEPT ![answer.who] = NotListing]
  /\ UNCHANGED <<apiVars, contacts, clicks, underWay, list, selected, chosen>>

\* ... then the conversation is put into it, and another list is asked for
\* instead of one under way.
\* Only the last operation has its own onSuccess called, which selects it; who
\* starts a collaboration of two agents awaits the answer and always selects it.
ShowOpened(answer) ==
  /\ answer \in answers /\ answer.awaits /\ answers' = answers \ {answer}
  /\ LET p == answer.who
     IN /\ underWay' = [underWay EXCEPT ![p] = @ \ {answer.number}]
        /\ list' = [list EXCEPT ![p] = @ \cup {answer.conversation}]
        /\ listQuery' = [listQuery EXCEPT ![p] = <<"asked">>]
        /\ IF answer.number = clicks[p] \/ rows[answer.conversation].relay # <<>>
           THEN /\ selected' = [selected EXCEPT ![p] = answer.conversation]
                /\ chosen' = [chosen EXCEPT ![p] = [conversation |-> answer.conversation, with |-> answer.with]]
           ELSE UNCHANGED <<selected, chosen>>
  /\ UNCHANGED <<apiVars, contacts, clicks>>

Select(p, c) ==
  /\ c \in list[p] /\ selected[p] # c
  /\ selected' = [selected EXCEPT ![p] = c]
  /\ chosen' = [chosen EXCEPT ![p] = [conversation |-> c, with |-> rows[c].parties]]
  /\ UNCHANGED <<apiVars, contacts, answers, clicks, underWay, listQuery, list>>

-----------------------------------------------------------------------------
(* The API.                                                                *)

\* getCurrentIdentity; findUserById, or listMemberAgents and isExecutableAgent.
CurrentIdentity(p) == p \in available
TargetAvailable(target) == Others(target) \subseteq available

\* create, before createDirect: nothing keeps what it has read.
CheckTarget(r) ==
  /\ r \in contacts /\ ~r.checked
  /\ contacts' = (contacts \ {r}) \cup
       (IF CurrentIdentity(r.who) /\ TargetAvailable(r.target) THEN {[r EXCEPT !.checked = TRUE]} ELSE {})
  /\ UNCHANGED <<apiVars, answers, desktopListVars>>

\* assertRelayConfiguration and the participants that are expected.
AsExpected(row, r) == row.parties = Parties(r.who, r.target) /\ row.relay = Relay(r.target)

Answer(r, c) ==
  answers' = answers \cup
    (IF r.number \in underWay[r.who]
     THEN {[who |-> r.who, number |-> r.number, conversation |-> c, with |-> Parties(r.who, r.target), awaits |-> FALSE]}
     ELSE {})

CreateDirect(r) ==
  /\ r \in contacts /\ r.checked /\ contacts' = contacts \ {r}
  /\ LET key == DirectKey(r.who, r.target)
         existing == {c \in DOMAIN rows : rows[c].key = key}
     IN \/ /\ \E c \in existing : IF AsExpected(rows[c], r) THEN Answer(r, c) ELSE UNCHANGED answers
           /\ UNCHANGED rows
        \/ /\ existing = {}
           /\ rows' = Append(rows, [key |-> key, parties |-> Parties(r.who, r.target), relay |-> Relay(r.target)])
           /\ Answer(r, Len(rows) + 1)
  /\ UNCHANGED <<available, desktopListVars>>

\* Members and agents as the other modules change them.
AvailabilityChanges(x) ==
  /\ available' = IF x \in available THEN available \ {x} ELSE available \cup {x}
  /\ UNCHANGED <<rows, desktopListVars, contacts, answers>>

-----------------------------------------------------------------------------
(* The list of conversations, polled, asked for on focus and after a       *)
(* conversation was opened.                                                *)

ListStarts(p) ==
  /\ listQuery[p] = NotListing /\ listQuery' = [listQuery EXCEPT ![p] = <<"asked">>]
  /\ UNCHANGED <<apiVars, contacts, answers, clicks, underWay, list, selected, chosen>>

ListForUser(p) ==
  /\ listQuery[p] = <<"asked">>
  /\ listQuery' = [listQuery EXCEPT ![p] = <<"read", Seen(p)>>]
  /\ UNCHANGED <<apiVars, contacts, answers, clicks, underWay, list, selected, chosen>>

\* The effect that follows takes the first one when the selected one is gone.
ListReturns(p) ==
  /\ Len(listQuery[p]) = 2
  /\ LET items == listQuery[p][2]
     IN /\ list' = [list EXCEPT ![p] = items]
        /\ IF selected[p] \in items THEN UNCHANGED selected
           ELSE \E c \in IF items = {} THEN {None} ELSE items : selected' = [selected EXCEPT ![p] = c]
  /\ listQuery' = [listQuery EXCEPT ![p] = NotListing]
  /\ UNCHANGED <<apiVars, contacts, answers, clicks, underWay, chosen>>

ListFails(p) ==
  /\ listQuery[p] # NotListing /\ listQuery' = [listQuery EXCEPT ![p] = NotListing]
  /\ UNCHANGED <<apiVars, contacts, answers, clicks, underWay, list, selected, chosen>>

ConversationNext ==
  \/ \E p \in People :
       \/ \E target \in Targets(p) : Contact(p, target)
       \/ \E number \in underWay[p] : ContactFails(p, number)
       \/ \E c \in list[p] : Select(p, c)
       \/ ListStarts(p)
       \/ ListForUser(p)
       \/ ListReturns(p)
       \/ ListFails(p)
  \/ \E answer \in answers : ContactSucceeds(answer) \/ ShowOpened(answer)
  \/ \E r \in contacts : CheckTarget(r) \/ CreateDirect(r)
  \/ \E x \in People \cup Assistants : AvailabilityChanges(x)

ConversationSpec == ConversationInit /\ [][ConversationNext]_conversationVars

-----------------------------------------------------------------------------
(* What a person writes goes where they mean it to go: the conversation they
   have opened or selected stays the selected one, whatever lists return in the
   meantime, is with those they have asked for, and is the only one between
   them, also when the other side opens one at the same time or a lost answer
   makes them ask again. *)
ChosenIsShown ==
  \A p \in People :
    chosen[p] # Nothing =>
      LET c == chosen[p].conversation
      IN /\ selected[p] = c /\ rows[c].parties = chosen[p].with
         /\ \A d \in DOMAIN rows : rows[d].parties = rows[c].parties /\ rows[d].relay = rows[c].relay => d = c
================================================================================
