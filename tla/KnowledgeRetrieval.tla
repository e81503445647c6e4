--------------------------- MODULE KnowledgeRetrieval ---------------------------
(***************************************************************************)
(* Who may read which knowledge (knowledge-access.policy.ts), and how an   *)
(* answer's sources are found: KnowledgeRetrievalService searches in one   *)
(* transaction, ranks over HTTP without one, and the run's repository      *)
(* checks again in another, just before the sources leave for the runtime; *)
(* KnowledgeCitationService shows the original of a source.                *)
(*                                                                         *)
(* Transactions are READ COMMITTED: each statement has a snapshot of its   *)
(* own, and is a step; Prisma loads an included relation with a statement  *)
(* of its own.  Administrators and ingestion commit between any two.       *)
(*                                                                         *)
(* Left out: terms, scores and their order.  A ranking returns any of the  *)
(* candidates.  A version has one chunk, <<base, version>>, a base one     *)
(* document.  What else stops a run is AgentRunRepository's.               *)
(***************************************************************************)
EXTENDS Naturals, FiniteSets, FiniteSetsExt, Functions

CONSTANTS Bases, Teams,    \* knowledge bases, organization units
          LastVersion,     \* bound: versions of a document
          ItemLimit,           \* of search: how many items it returns
          CitationLimit,       \* of an answer, 12 in the source
          MaxEdits         \* bound: transactions of others

NoTeam == 0

ASSUME RetrievalAssumption ==
  /\ NoTeam \notin Teams /\ IsFiniteSet(Teams)
  /\ LastVersion \in Nat \ {0} /\ ItemLimit \in Nat \ {0} /\ CitationLimit \in Nat \ {0}
  /\ MaxEdits \in Nat

VARIABLES memberActive,   \* status of the member who asks
          employedIn,     \* the member's ACTIVE employments
          activeTeams, above,   \* units and their parents
          baseStatus, scopeOf,  \* of each base; scopeOf[b][t]: "none", "unit" or "children"
          published,      \* published[b]: current version and whether the document is READY
          edits, reader,
          allowed, touched      \* history, since the present transaction began

libraryVars == <<memberActive, employedIn, activeTeams, above, baseStatus, scopeOf, published>>
retrievalVars == <<libraryVars, edits, reader, allowed, touched>>

Chunks == Bases \X (1 .. LastVersion)
NoReader == [kind |-> "none", at |-> "idle", phase |-> "none", user |-> FALSE, employments |-> {},
             units |-> [t \in {} |-> NoTeam], asked |-> {}, bases |-> {}, embedded |-> FALSE, items |-> {}]

-----------------------------------------------------------------------------
(* The access policy, over what a transaction has read.                    *)

\* The units that current is in the loop: it ends at the first one visited again.
IsOrgUnitAncestor(ancestor, descendant, parentById) ==
  LET Parent(t) == IF t \in DOMAIN parentById THEN parentById[t] ELSE NoTeam
      current[n \in 0 .. Cardinality(Teams) - 1] == Parent(IF n = 0 THEN descendant ELSE current[n - 1])
  IN \E n \in DOMAIN current : current[n] = ancestor

InScope(scope, memberTeams, parentById) ==
  \/ \A t \in Teams : scope[t] = "none"
  \/ \E t \in Teams, m \in memberTeams :
       \/ scope[t] # "none" /\ t = m
       \/ scope[t] = "children" /\ IsOrgUnitAncestor(t, m, parentById)

AccessibleKnowledgeBaseIds(userActive, memberTeams, parentById, bases, scopes) ==
  {b \in bases : userActive /\ memberTeams # {} /\ InScope(scopes[b], memberTeams, parentById)}

-----------------------------------------------------------------------------
(* What it should say of the present moment: somebody employed in a unit   *)
(* that is open, from which open units lead up to one of the base.         *)

LeadsUp(t, ancestor) ==
  \E n \in 0 .. Cardinality(Teams) : \E path \in [0 .. n -> Teams] :
    /\ path[0] = t /\ path[n] = ancestor
    /\ \A i \in 0 .. n - 1 : path[i] \in activeTeams /\ above[path[i]] = path[i + 1]

MayRead(b) ==
  /\ memberActive
  /\ \E t \in employedIn \cap activeTeams :
       \/ Range(scopeOf[b]) = {"none"}
       \/ \E scope \in Teams :
            \/ scopeOf[b][scope] # "none" /\ scope = t
            \/ scopeOf[b][scope] = "children" /\ LeadsUp(t, scope)

\* A run may use the current version of an ACTIVE base; the original of a
\* citation stays readable when its base or document is archived, or a later
\* version is current.
Current(c) == published[c[1]].ready /\ published[c[1]].version = c[2]
Usable == {c \in Chunks : MayRead(c[1]) /\ baseStatus[c[1]] = "ACTIVE" /\ Current(c)}
Citable == {c \in Chunks : MayRead(c[1]) /\ baseStatus[c[1]] # "DRAFT" /\ c[2] <= published[c[1]].version}

-----------------------------------------------------------------------------
RetrievalInit ==
  /\ memberActive = TRUE /\ employedIn \in SUBSET Teams
  /\ activeTeams \in SUBSET Teams /\ above \in [Teams -> Teams \cup {NoTeam}]
  /\ baseStatus \in [Bases -> {"DRAFT", "ACTIVE"}]
  /\ scopeOf \in [Bases -> [Teams -> {"none", "unit", "children"}]]
  /\ published \in [Bases -> [version : 0 .. LastVersion, ready : BOOLEAN]]
  /\ \A b \in Bases : published[b].ready <=> published[b].version > 0
  /\ edits = 0 /\ reader = NoReader /\ allowed = {} /\ touched = {}

\* Others commit.  touched names what differs from before.
Edit(component) ==
  /\ edits < MaxEdits /\ edits' = edits + 1 /\ UNCHANGED reader
  /\ touched' = touched \cup component /\ allowed' = allowed \cup (IF reader.phase = "citation" THEN Citable' ELSE Usable')

MemberChanges ==
  /\ \E status \in BOOLEAN, teams \in SUBSET activeTeams :
       memberActive' = status /\ employedIn' = teams
  /\ UNCHANGED <<activeTeams, above, baseStatus, scopeOf, published>>
  /\ Edit((IF memberActive' = memberActive THEN {} ELSE {"user"}) \cup
          (IF employedIn' = employedIn THEN {} ELSE {"employments"}))

\* Moving, opening and archiving a unit; the tree stays one.
TeamChanges(t) ==
  /\ \/ /\ t \in activeTeams
        /\ \E p \in activeTeams \cup {NoTeam} : p # t /\ ~LeadsUp(p, t) /\ above' = [above EXCEPT ![t] = p]
        /\ UNCHANGED activeTeams
     \/ /\ t \in activeTeams \ employedIn /\ \A c \in activeTeams : above[c] # t
        /\ \A b \in Bases : scopeOf[b][t] = "none"
        /\ activeTeams' = activeTeams \ {t} /\ UNCHANGED above
     \/ t \notin activeTeams /\ activeTeams' = activeTeams \cup {t} /\ UNCHANGED above
  /\ UNCHANGED <<memberActive, employedIn, baseStatus, scopeOf, published>>
  /\ Edit({"teams"})

\* KnowledgeAdminService.update: status and scopes in one transaction.
BaseChanges(b) ==
  /\ \E status \in {"DRAFT", "ACTIVE", "ARCHIVED"}, scope \in [activeTeams -> {"none", "unit", "children"}] :
       /\ status = "ACTIVE" /\ baseStatus[b] # "ACTIVE" => published[b].ready
       /\ baseStatus' = [baseStatus EXCEPT ![b] = status]
       /\ scopeOf' = [scopeOf EXCEPT ![b] = [t \in Teams |-> IF t \in activeTeams THEN scope[t] ELSE "none"]]
  /\ UNCHANGED <<memberActive, employedIn, activeTeams, above, published>>
  /\ Edit((IF baseStatus' = baseStatus THEN {} ELSE {"status"}) \cup (IF scopeOf' = scopeOf THEN {} ELSE {"scopes"}))

\* Publication, as KnowledgeDocuments models it, and archiveDocument.
DocumentChanges(b) ==
  /\ \/ /\ published[b].version < LastVersion /\ (published[b].version = 0 \/ published[b].ready)
        /\ published' = [published EXCEPT ![b] = [version |-> @.version + 1, ready |-> TRUE]]
     \/ published[b].ready /\ published' = [published EXCEPT ![b].ready = FALSE]
  /\ UNCHANGED <<memberActive, employedIn, activeTeams, above, baseStatus, scopeOf>>
  /\ Edit({"document"})

-----------------------------------------------------------------------------
(* The statements that the three transactions share.                       *)

Reads(value) ==
  /\ reader' = value
  /\ UNCHANGED <<libraryVars, edits, allowed, touched>>

\* A transaction that decides begins.
Decides(value, readable) ==
  /\ reader' = value /\ allowed' = readable /\ touched' = {}
  /\ UNCHANGED <<libraryVars, edits>>

ReadUser ==
  /\ reader.at = "user" /\ Reads([reader EXCEPT !.at = "employments", !.user = memberActive])
ReadEmployments ==
  /\ reader.at = "employments" /\ Reads([reader EXCEPT !.at = "units", !.employments = employedIn])
ReadUnits ==
  /\ reader.at = "units"
  /\ Reads([reader EXCEPT !.at = "bases", !.units = [t \in activeTeams |-> above[t]],
                          !.employments = @ \cap activeTeams])

\* Admins who test a base may read its draft; a citation that of any base
\* that has been open.
Statuses ==
  CASE reader.kind = "citation" -> {"ACTIVE", "ARCHIVED"}
    [] reader.kind = "test" -> {"ACTIVE", "DRAFT"}
    [] OTHER -> {"ACTIVE"}

ReadBases ==
  /\ reader.at = "bases"
  /\ Reads([reader EXCEPT !.at = "scopes", !.bases = {b \in reader.asked : baseStatus[b] \in Statuses}])

\* Without a base that is accessible nothing more is asked.
ReadScopes ==
  LET accessible == AccessibleKnowledgeBaseIds(reader.user, reader.employments, reader.units, reader.bases, scopeOf)
  IN /\ reader.at = "scopes"
     /\ Reads([reader EXCEPT !.bases = accessible,
          !.at = CASE reader.phase = "search" -> IF accessible = {} THEN "ranking" ELSE "lexical"
                   [] OTHER -> IF accessible = {} THEN "refused" ELSE "chunks"])

-----------------------------------------------------------------------------
(* search.                                                                 *)

\* search: with an embedding, or without when the model is off or fails.
Search(kind, bases) ==
  /\ reader.at = "idle"
  /\ \E embedded \in BOOLEAN :
       Reads([NoReader EXCEPT !.kind = kind, !.phase = "search", !.at = "user", !.asked = bases, !.embedded = embedded])

\* A run asks for its version's bases; an administrator tests one as a member.
SearchForRun == \E bases \in SUBSET Bases \ {{}} : Search("run", bases)
TestRetrieval == \E b \in Bases : Search("test", {b})

Matches == {c \in Chunks : c[1] \in reader.bases /\ baseStatus[c[1]] \in Statuses /\ Current(c)}

\* loadCandidates, its two queries; the second only with an embedding.
LexicalRows ==
  /\ reader.at = "lexical"
  /\ Reads([reader EXCEPT !.items = Matches, !.at = IF reader.embedded THEN "vector" ELSE "ranking"])

MergeCandidates(lexicalRows, vectorRows) == lexicalRows \cup vectorRows

\* Not every chunk has an embedding.
VectorRows ==
  /\ reader.at = "vector"
  /\ \E rows \in SUBSET Matches : Reads([reader EXCEPT !.items = MergeCandidates(@, rows), !.at = "ranking"])

\* What the ranking leaves of the candidates: scores too low, too many.
BuildResponse(candidates) == {items \in SUBSET candidates : Cardinality(items) <= ItemLimit}

Rank ==
  /\ reader.at = "ranking"
  /\ \E items \in BuildResponse(reader.items) :
       Reads([reader EXCEPT !.items = items, !.at = IF reader.kind = "run" THEN "found" ELSE "answered"])

-----------------------------------------------------------------------------
(* The last check, and the original of a citation.                         *)

\* Bug: the search has checked already.
BugRecheck == Decides([reader EXCEPT !.at = "sent"], Usable)

Recheck ==
  IF reader.items = {} THEN Decides([reader EXCEPT !.at = "sent"], Usable)
  ELSE Decides([reader EXCEPT !.phase = "recheck", !.at = "user"], Usable)

ChecksAgain == reader.at = "found" /\ Recheck

\* Every chunk must still be there: the number of rows is compared.
CountChunks ==
  /\ reader.at = "chunks" /\ reader.phase = "recheck"
  /\ Reads([reader EXCEPT !.at = IF \A c \in reader.items : c[1] \in reader.bases /\ Current(c) THEN "sent" ELSE "refused"])

\* An answer may name any chunk; of those that were sent to the runtime the
\* first ones become its citations.
ValidateGroundedOutput(named, sources) ==
  {citations \in SUBSET (named \cap sources) :
     Cardinality(citations) = Min({CitationLimit, Cardinality(named \cap sources)})}

AnswerCites ==
  /\ reader.at = "sent" /\ reader.kind = "run"
  /\ \E named \in SUBSET Chunks : \E citations \in ValidateGroundedOutput(named, reader.items) :
       Reads([reader EXCEPT !.at = "cited", !.items = citations])

\* getOriginal: one transaction, which decides itself.
GetOriginal ==
  /\ reader.at = "idle"
  /\ \E c \in Chunks : Decides([NoReader EXCEPT !.kind = "citation", !.phase = "citation", !.at = "user",
                                                !.asked = {c[1]}, !.items = {c}], Citable)

\* A version that has been published is READY ever after.
ShowOriginal ==
  /\ reader.at = "chunks" /\ reader.phase = "citation"
  /\ Reads([reader EXCEPT !.at = IF \A c \in reader.items : c[2] <= published[c[1]].version THEN "sent" ELSE "refused"])

RetrievalNext ==
  \/ MemberChanges
  \/ \E t \in Teams : TeamChanges(t)
  \/ \E b \in Bases : BaseChanges(b)
  \/ \E b \in Bases : DocumentChanges(b)
  \/ SearchForRun
  \/ TestRetrieval
  \/ ReadUser
  \/ ReadEmployments
  \/ ReadUnits
  \/ ReadBases
  \/ ReadScopes
  \/ LexicalRows
  \/ VectorRows
  \/ Rank
  \/ ChecksAgain
  \/ CountChunks
  \/ AnswerCites
  \/ GetOriginal
  \/ ShowOriginal

RetrievalSpec == RetrievalInit /\ [][RetrievalNext]_retrievalVars

-----------------------------------------------------------------------------
(* What leaves for the runtime, is cited or shown as a source, was open to the member
   at a moment since the last check began, however old the search's answer is;
   unless two things changed during that check, whose statements do not see the
   same moment. *)
SentWasAllowed ==
  reader.at \in {"sent", "cited"} /\ Cardinality(touched) <= 1 => reader.items \subseteq allowed
===============================================================================
