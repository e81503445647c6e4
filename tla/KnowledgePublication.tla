-------------------------- MODULE KnowledgePublication --------------------------
(***************************************************************************)
(* What a knowledge document promises its readers, without queues, leases  *)
(* or locks: a library of finished versions that only grows, whose texts   *)
(* never change, and a shown version that only moves forward.  A rollback  *)
(* is a new version with an old text.                                      *)
(***************************************************************************)
EXTENDS Naturals

CONSTANT Numbers   \* version numbers

Nothing == 0

VARIABLES finished,   \* numbers of the finished versions
          text,       \* their texts
          shown       \* the version readers see, or Nothing

publicationVars == <<finished, text, shown>>

PublicationInit ==
  /\ finished = {} /\ shown = Nothing
  /\ text = [v \in Numbers |-> Nothing]

\* A version is finished; it is shown unless a later one is.
Finish(v) ==
  /\ v \notin finished
  /\ finished' = finished \cup {v}
  /\ text' = [text EXCEPT ![v] = v]
  /\ shown' = IF shown < v THEN v ELSE shown

\* A new version shows the text of a finished one again.
Restore(v, old) ==
  /\ v \notin finished /\ old \in finished /\ old # shown /\ shown < v
  /\ finished' = finished \cup {v}
  /\ text' = [text EXCEPT ![v] = text[old]]
  /\ shown' = v

PublicationNext ==
  \/ \E v \in Numbers : Finish(v)
  \/ \E v, old \in Numbers : Restore(v, old)

PublicationSpec == PublicationInit /\ [][PublicationNext]_publicationVars
=============================================================================
