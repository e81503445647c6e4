------------------------------- MODULE Chunking -------------------------------
(***************************************************************************)
(* How the text of a document becomes chunks: knowledge-document.chunker.ts *)
(* cuts Markdown into sections and a section into pieces that overlap;     *)
(* chunkParsedKnowledgeDocument does so for each page of a PDF by itself.  *)
(*                                                                         *)
(* A line is what the patterns of the source tell apart; a character is    *)
(* its class, and keeps where it stands, so that two are never the same.   *)
(* A chunk is the set of its characters.  As in the source, start and end  *)
(* count the characters before them; characters[end] is the last one.      *)
(***************************************************************************)
EXTENDS Integers, Sequences, FiniteSets, FiniteSetsExt

CONSTANTS Lines,      \* lines: [level, fence, text]; level 0 and NoFence for text
          MaxLines, MaxPages,       \* bounds: of a page, of a document
          Maximum,    \* maximumCharacters
          Overlap     \* overlapCharacters

NoFence == [marker |-> "none", length |-> 0]

ASSUME ChunkingAssumption ==
  /\ MaxLines \in Nat /\ MaxPages \in Nat
  /\ Maximum \in Nat \ {0} /\ Overlap \in 0 .. Maximum - 1
  /\ Lines \subseteq [level : Nat, fence : [marker : STRING, length : Nat], text : Seq(STRING \ {"newline"})]
  /\ \A line \in Lines : line.level > 0 => line.fence = NoFence

VARIABLES sourceType,   \* of the document
          pages,        \* [number, lines] for each
          page,         \* how many have been cut
          sections,     \* of the present page
          section,      \* how many of these have been cut
          start, chunks

documentVars == <<sourceType, pages>>
chunkingVars == <<documentVars, page, sections, section, start, chunks>>

Class(characters, i) == IF i \in DOMAIN characters THEN characters[i].class ELSE "none"
Blank(character) == character.class \in {"newline", "space"}

-----------------------------------------------------------------------------
(* splitMarkdownSections.                                                  *)

\* Each line ends with a newline here; trimming takes the last one off.
LineOf(p, lines, n) ==
  LET length == Len(lines[n].text)
  IN [i \in 1 .. length + 1 |->
        [at |-> <<p, n, i>>, class |-> IF i > length THEN "newline" ELSE lines[n].text[i]]]

TextOf(p, lines, numbers) ==
  LET joined[k \in 0 .. Len(numbers)] == IF k = 0 THEN << >> ELSE joined[k - 1] \o LineOf(p, lines, numbers[k])
  IN joined[Len(numbers)]

IsBlankText(characters) == \A i \in DOMAIN characters : Blank(characters[i])

\* trimBlankLines of the characters after `from`, up to `to`: what stands
\* between the first and the last line with text.
TrimBlankLines(characters, from, to) ==
  LET first == Max({i \in from + 1 .. to : /\ i = from + 1 \/ Class(characters, i - 1) = "newline"
                                           /\ \A j \in from + 1 .. i - 1 : Blank(characters[j])})
      last == Min({i \in from + 1 .. to : /\ i = to \/ Class(characters, i + 1) = "newline"
                                          /\ \A j \in i + 1 .. to : Blank(characters[j])})
  IN first .. last

\* flushSection.
FlushSection(p, lines, cut) ==
  LET text == TextOf(p, lines, cut.body)
      kept == TrimBlankLines(text, 0, Len(text))
  IN [cut EXCEPT !.body = << >>,
        !.sections = IF IsBlankText(text) THEN @
                     ELSE Append(@, [headings |-> cut.headings, characters |-> SubSeq(text, Min(kept), Max(kept))])]

\* What the pops leave open for a heading of this level.
OuterHeadings(lines, headings, level) ==
  SubSeq(headings, 1, Max({0} \cup {i \in DOMAIN headings : lines[headings[i]].level < level}))

\* A fence ends with the same marker, as long.
InFence(lines, cut, n) ==
  LET fence == lines[n].fence
  IN [cut EXCEPT !.body = Append(@, n),
        !.fence = IF fence.marker = @.marker /\ fence.length >= @.length THEN NoFence ELSE @]

OutOfFence(p, lines, cut, n) ==
  IF lines[n].level = 0
  THEN [cut EXCEPT !.body = Append(@, n), !.fence = lines[n].fence]
  ELSE [FlushSection(p, lines, cut) EXCEPT
          !.headings = Append(OuterHeadings(lines, @, lines[n].level), n)]

NothingCut == [fence |-> NoFence, headings |-> << >>, body |-> << >>, sections |-> << >>]

\* The loop over the lines.
SplitMarkdownSections(p, lines) ==
  LET after[n \in 0 .. Len(lines)] ==
        IF n = 0 THEN NothingCut
        ELSE IF after[n - 1].fence # NoFence THEN InFence(lines, after[n - 1], n)
        ELSE OutOfFence(p, lines, after[n - 1], n)
  IN FlushSection(p, lines, after[Len(lines)]).sections

\* Plain text is one section without headings.
SectionsOf(p, lines) ==
  IF sourceType = "MARKDOWN" THEN SplitMarkdownSections(p, lines)
  ELSE FlushSection(p, lines, [NothingCut EXCEPT !.body = [n \in DOMAIN lines |-> n]]).sections

-----------------------------------------------------------------------------
(* splitSectionContent.                                                    *)

\* The predicates, in the order in which they are tried; 5 when none holds.
BoundaryRank(previous, neighbour) ==
  CASE previous = "newline" /\ neighbour = "newline" -> 1
    [] previous = "newline" /\ neighbour # "newline" -> 2
    [] previous = "stop" -> 3
    [] previous = "space" -> 4
    [] OTHER -> 5

\* The last of the best places in the last three tenths.
FindPreferredEnd(characters, from, idealEnd) ==
  LET ends == Max({from + 1, from + ((idealEnd - from) * 7) \div 10}) .. idealEnd
      Rank(end) == BoundaryRank(Class(characters, end), Class(characters, end - 1))
  IN CHOOSE end \in ends : \A e \in ends : Rank(end) < Rank(e) \/ (Rank(end) = Rank(e) /\ end >= e)

PieceEnd(characters, from) ==
  LET idealEnd == Min({from + Maximum, Len(characters)})
  IN IF idealEnd = Len(characters) THEN idealEnd ELSE FindPreferredEnd(characters, from, idealEnd)

SkipWhitespace(characters, candidate, end) ==
  LET solid == {i \in candidate .. end - 1 : ~Blank(characters[i + 1])}
  IN IF solid = {} THEN candidate ELSE Min(solid)

\* Bug: the advance is not limited to the characters of the overlap.
BugAlignOverlapStart(characters, desiredStart, end) ==
  IF Overlap = 0 THEN end ELSE Min({desiredStart + Max({4, Overlap \div 4}), Len(characters) - 1})

\* The first of the best places, a little after the desired one.
AlignOverlapStart(characters, desiredStart, end) ==
  LET starts == desiredStart .. Min({end - 1, desiredStart + Max({4, Overlap \div 4})})
      Rank(candidate) == BoundaryRank(Class(characters, candidate), Class(characters, candidate + 1))
      best == CHOOSE s \in starts : \A c \in starts : Rank(s) < Rank(c) \/ (Rank(s) = Rank(c) /\ s <= c)
  IN IF Overlap = 0 THEN end
     ELSE IF \A c \in starts : Rank(c) = 5 THEN desiredStart ELSE SkipWhitespace(characters, best, end)

NextStart(characters, from, end) ==
  LET aligned == AlignOverlapStart(characters, Max({from + 1, end - Overlap}), end)
  IN IF aligned > from THEN aligned ELSE Min({end, from + 1})

-----------------------------------------------------------------------------
ChunkingInit ==
  /\ sourceType \in {"TEXT", "MARKDOWN"}
  /\ pages \in Seq([number : 1 .. MaxPages, lines : Seq(Lines)])
  /\ Len(pages) \in 1 .. MaxPages /\ \A p \in DOMAIN pages : Len(pages[p].lines) <= MaxLines
  /\ sourceType = "TEXT" => Len(pages) = 1
  /\ page = 0 /\ sections = << >> /\ section = 0 /\ start = 0 /\ chunks = << >>

PageDone == section = Len(sections)
Failed == page > Len(pages)

\* The next page's sections.  Pages that are not numbered in their order fail
\* the whole document.
CutPage ==
  /\ PageDone /\ page < Len(pages)
  /\ IF pages[page + 1].number = page + 1
     THEN /\ page' = page + 1 /\ sections' = SectionsOf(page', pages[page'].lines)
          /\ section' = 0 /\ UNCHANGED chunks
     ELSE /\ page' = Len(pages) + 1 /\ chunks' = << >>
          /\ UNCHANGED <<sections, section>>
  /\ UNCHANGED <<documentVars, start>>

\* One round of splitSectionContent's loop.
CutPiece ==
  LET present == sections[section + 1]
      end == PieceEnd(present.characters, start)
      piece == {present.characters[i] : i \in TrimBlankLines(present.characters, start, end)}
  IN /\ ~Failed /\ ~PageDone
     /\ chunks' = IF \A i \in start + 1 .. end : Blank(present.characters[i]) THEN chunks
                  ELSE Append(chunks, [page |-> page, headings |-> present.headings, characters |-> piece])
     /\ IF end >= Len(present.characters)
        THEN section' = section + 1 /\ start' = 0
        ELSE start' = NextStart(present.characters, start, end) /\ UNCHANGED section
     /\ UNCHANGED <<documentVars, page, sections>>

ChunkingNext == CutPage \/ CutPiece

ChunkingSpec == ChunkingInit /\ [][ChunkingNext]_chunkingVars

-----------------------------------------------------------------------------
\* The characters of a section that are in no chunk of it, among the first n.
Covered(s, n) ==
  \A i \in 1 .. n :
    \/ Blank(s.characters[i])
    \/ \E k \in DOMAIN chunks : s.characters[i] \in chunks[k].characters /\ chunks[k].headings = s.headings

\* Nothing of a section is lost between two of its chunks, wherever the
\* boundaries fall and however far the next one's start moves.
SectionsCovered ==
  /\ \A s \in 1 .. section : ~Failed => Covered(sections[s], Len(sections[s].characters))
  /\ ~Failed /\ ~PageDone => Covered(sections[section + 1], start)

\* Where a line stands, said without the loop.
Fenced(lines) ==
  LET fence[n \in 0 .. Len(lines)] ==    \* the line that opened the fence after line n, or 0
        IF n = 0 THEN 0
        ELSE IF fence[n - 1] = 0 THEN IF lines[n].fence = NoFence THEN 0 ELSE n
        ELSE LET opened == lines[fence[n - 1]].fence IN
             IF lines[n].fence.marker = opened.marker /\ lines[n].fence.length >= opened.length
             THEN 0 ELSE fence[n - 1]
  IN {n \in DOMAIN lines : fence[n - 1] # 0}

IsHeading(lines, n) == sourceType = "MARKDOWN" /\ lines[n].level > 0 /\ n \notin Fenced(lines)

HeadingsOver(lines, n) ==
  {h \in 1 .. n - 1 : IsHeading(lines, h) /\
     \A g \in h + 1 .. n - 1 : IsHeading(lines, g) => lines[g].level > lines[h].level}

\* When a document has been cut, every character that is not blank or a heading
\* is in a chunk, of its page and under its headings; a chunk holds nothing else,
\* is not too large, and repeats no more of an earlier one than the overlap.
ChunksSound ==
  /\ SectionsCovered
  /\ page = Len(pages) /\ PageDone =>
       \A p \in DOMAIN pages : \A n \in DOMAIN pages[p].lines :
         LET lines == pages[p].lines
             of == {k \in DOMAIN chunks : \E c \in chunks[k].characters : c.at[1] = p /\ c.at[2] = n}
         IN /\ \A k \in of : /\ chunks[k].page = p /\ ~IsHeading(lines, n)
                             /\ {chunks[k].headings[i] : i \in DOMAIN chunks[k].headings} = HeadingsOver(lines, n)
            /\ IsHeading(lines, n) \/ \A i \in DOMAIN lines[n].text :
                 \/ lines[n].text[i] = "space"
                 \/ \E k \in of : [at |-> <<p, n, i>>, class |-> lines[n].text[i]] \in chunks[k].characters
  /\ \A k \in DOMAIN chunks :
       /\ Cardinality(chunks[k].characters) <= Maximum
       /\ \A j \in 1 .. k - 1 : Cardinality(chunks[k].characters \cap chunks[j].characters) <= Overlap
===============================================================================
