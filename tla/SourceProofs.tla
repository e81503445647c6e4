----------------------------- MODULE SourceProofs -----------------------------
(***************************************************************************)
(* Theorems about the sources of an answer: Chunking, for documents of any *)
(* pages and lines and chunks of any size, and KnowledgeRetrieval, for any *)
(* bases, units and versions, and any number of edits during a decision.   *)
(***************************************************************************)
EXTENDS Chunking, KnowledgeRetrieval, FiniteSetTheorems, WellFoundedInduction, TLAPS

\* A set of numbers up to k has a least one and a greatest one.
LEMMA LeastOf ==
  ASSUME NEW k \in Nat, NEW T \in SUBSET (0 .. k), T # {}
  PROVE  \E n \in T : \A m \in T : n <= m
<1> DEFINE F == {0 .. n : n \in T}
<1>1. IsWellFoundedOn(StrictSubsetOrdering(0 .. k), SUBSET (0 .. k))
  <2>1. IsFiniteSet(0 .. k)
    BY FS_Interval
  <2>2. FiniteSubsetsOf(0 .. k) = SUBSET (0 .. k)
    BY <2>1, FS_FiniteSubsetsOfFinite
  <2>3. IsWellFoundedOn(StrictSubsetOrdering(0 .. k), FiniteSubsetsOf(0 .. k))
    BY FS_StrictSubsetOrderingWellFounded
  <2> QED BY <2>2, <2>3
<1>2. F \subseteq SUBSET (0 .. k) /\ F # {}
  <2>1. \A n \in T : 0 .. n \subseteq 0 .. k
    OBVIOUS
  <2>2. PICK n \in T : TRUE
    OBVIOUS
  <2>3. 0 .. n \in F
    OBVIOUS
  <2> QED BY <2>1, <2>3
<1> HIDE DEF F
<1>3. PICK s \in F : \A u \in F : ~(<<u, s>> \in StrictSubsetOrdering(0 .. k))
  BY <1>1, <1>2, WFMin
<1>4. PICK n \in T : s = 0 .. n
  BY DEF F
<1>5. ASSUME NEW m \in T, m < n PROVE FALSE
  <2>1. 0 .. m \in F /\ 0 .. m \subseteq s /\ 0 .. m # s
    BY <1>4, <1>5 DEF F
  <2> QED BY <1>2, <1>3, <2>1 DEF StrictSubsetOrdering
<1>6. \A m \in T : n <= m
  BY <1>5
<1> QED BY <1>6

LEMMA GreatestOf ==
  ASSUME NEW k \in Nat, NEW T \in SUBSET (0 .. k), T # {}
  PROVE  \E n \in T : \A m \in T : m <= n
<1> DEFINE U == {k - n : n \in T}
<1>1. U \in SUBSET (0 .. k) /\ U # {}
  <2>1. \A n \in T : k - n \in 0 .. k
    OBVIOUS
  <2>2. PICK n \in T : TRUE
    OBVIOUS
  <2>3. k - n \in U
    OBVIOUS
  <2> QED BY <2>1, <2>3
<1>2. PICK u \in U : \A v \in U : u <= v
  BY <1>1, LeastOf
<1>3. PICK n \in T : u = k - n
  OBVIOUS
<1>4. \A m \in T : k - m \in U
  OBVIOUS
<1> HIDE DEF U
<1>5. \A m \in T : m <= n
  BY <1>2, <1>3, <1>4
<1> QED BY <1>5

LEMMA MaxOf ==
  ASSUME NEW k \in Nat, NEW T \in SUBSET (0 .. k), T # {}
  PROVE  Max(T) \in T /\ \A m \in T : m <= Max(T)
<1>1. PICK n \in T : \A m \in T : m <= n
  BY GreatestOf
<1>2. \E x \in T : \A y \in T : x >= y
  BY <1>1
<1> DEFINE top == CHOOSE x \in T : \A y \in T : x >= y
<1>3. top \in T /\ \A y \in T : top >= y
  BY <1>2
<1>4. Max(T) = top
  BY DEF Max
<1> HIDE DEF top
<1> QED BY <1>3, <1>4

LEMMA MinOf ==
  ASSUME NEW k \in Nat, NEW T \in SUBSET (0 .. k), T # {}
  PROVE  Min(T) \in T /\ \A m \in T : Min(T) <= m
<1>1. PICK n \in T : \A m \in T : n <= m
  BY LeastOf
<1> DEFINE least == CHOOSE x \in T : \A y \in T : x =< y
<1>3. least \in T /\ \A y \in T : least <= y
  BY <1>1
<1>4. Min(T) = least
  BY DEF Min
<1> HIDE DEF least
<1> QED BY <1>3, <1>4

\* A recursion over 0 .. n within W has a solution.
Recursion(f, n, W, base, step) ==
  f \in [0 .. n -> W] /\ f[0] = base /\ \A k \in 1 .. n : f[k] = step[k][f[k - 1]]

\* What makes a function out of a loop: each step is taken of what the one
\* before it left.
LEMMA RecursionSolved ==
  ASSUME NEW n \in Nat, NEW W, NEW base \in W, NEW step \in [1 .. n -> [W -> W]]
  PROVE  \E f : Recursion(f, n, W, base, step)
<1> DEFINE Solves(f, m) == f[0] = base /\ \A k \in 1 .. m : f[k] = step[k][f[k - 1]]
           Bad == {m \in 0 .. n : \A f \in [0 .. m -> W] : ~Solves(f, m)}
<1> SUFFICES ASSUME Bad # {} PROVE FALSE
  BY DEF Recursion
<1>0. Bad \in SUBSET (0 .. n)
  OBVIOUS
<1>1. PICK m \in Bad : \A i \in Bad : m <= i
  <2> HIDE DEF Bad
  <2> QED BY <1>0, LeastOf
<1>4. m \in 0 .. n /\ \A f \in [0 .. m -> W] : ~Solves(f, m)
  BY <1>1
<1>2. CASE m = 0
  <2> DEFINE f == [k \in 0 .. 0 |-> base]
  <2>1. f \in [0 .. m -> W] /\ Solves(f, m)
    BY <1>2
  <2> QED BY <1>4, <2>1
<1>3. CASE m # 0
  <2>1. m - 1 \in 0 .. n /\ m - 1 \notin Bad /\ m \in 1 .. n
    <3>1. m - 1 \in 0 .. n /\ m \in 1 .. n /\ ~(m <= m - 1)
      BY <1>4, <1>3
    <3> QED BY <1>1, <3>1
  <2>2. PICK g \in [0 .. m - 1 -> W] : Solves(g, m - 1)
    BY <2>1
  <2> DEFINE f == [k \in 0 .. m |-> IF k = m THEN step[m][g[m - 1]] ELSE g[k]]
  <2>3. f \in [0 .. m -> W]
    <3>1. step[m][g[m - 1]] \in W
      BY <2>1, <2>2
    <3> QED BY <2>1, <2>2, <3>1
  <2>4. Solves(f, m)
    <3>1. f[0] = base
      BY <1>3, <2>1, <2>2
    <3>2. ASSUME NEW k \in 1 .. m, k # m PROVE f[k] = step[k][f[k - 1]]
      <4>1. k \in 1 .. m - 1 /\ k \in 0 .. m /\ k - 1 \in 0 .. m /\ k - 1 # m
        BY <2>1, <3>2
      <4>2. f[k] = g[k] /\ f[k - 1] = g[k - 1]
        BY <3>2, <4>1
      <4> QED BY <2>2, <4>1, <4>2
    <3>3. f[m] = step[m][f[m - 1]]
      <4>1. m - 1 \in 0 .. m /\ m \in 0 .. m /\ m - 1 # m
        BY <2>1
      <4> QED BY <4>1
    <3> QED BY <3>1, <3>2, <3>3
  <2> QED BY <1>4, <2>3, <2>4
<1> QED BY <1>2, <1>3

-----------------------------------------------------------------------------
(* The text of a document, its lines and its sections.                     *)

\* The classes of characters, and what stands in the text of a section.
Classes == STRING \cup {"newline"}
Character == [at : Nat \X Nat \X Nat, class : Classes]
Section == [headings : Seq(Nat), characters : Seq(Character)]

\* The characters of lines b + 1 .. n, each once.
TextFits(p, lines, text, b, n) ==
  /\ text \in Seq(Character)
  /\ \A i \in DOMAIN text : text[i].at[1] = p /\ text[i].at[2] \in b + 1 .. n
  /\ \A i, j \in DOMAIN text : text[i] = text[j] => i = j
  /\ \A m \in b + 1 .. n : \A i \in DOMAIN lines[m].text :
       \E j \in DOMAIN text : text[j] = [at |-> <<p, m, i>>, class |-> lines[m].text[i]]

\* The characters of a line are its text, and one more.
LEMMA LineIs ==
  ASSUME NEW p \in Nat, NEW lines \in Seq(Lines), NEW n \in DOMAIN lines
  PROVE  /\ LineOf(p, lines, n) \in Seq(Character) /\ n \in Nat
         /\ lines[n].text \in Seq(STRING \ {"newline"})
         /\ \A i \in DOMAIN LineOf(p, lines, n) : LineOf(p, lines, n)[i].at = <<p, n, i>>
         /\ \A i \in DOMAIN lines[n].text : i \in DOMAIN LineOf(p, lines, n)
              /\ LineOf(p, lines, n)[i] = [at |-> <<p, n, i>>, class |-> lines[n].text[i]]
<1> DEFINE text == lines[n].text
           length == Len(text)
           line == LineOf(p, lines, n)
<1>1. n \in Nat /\ lines[n] \in Lines
  OBVIOUS
<1>2. text \in Seq(STRING \ {"newline"}) /\ length \in Nat /\ DOMAIN text = 1 .. length
  BY <1>1, ChunkingAssumption DEF ChunkingAssumption
<1>3. line = [i \in 1 .. length + 1 |-> [at |-> <<p, n, i>>, class |-> IF i > length THEN "newline" ELSE text[i]]]
  BY DEF LineOf
<1> HIDE DEF line, text, length
<1>4. \A i \in 1 .. length : text[i] \in STRING
  BY <1>2
<1>5. \A i \in 1 .. length + 1 : (IF i > length THEN "newline" ELSE text[i]) \in Classes
  <2>1. \A i \in 1 .. length + 1 : i > length \/ i \in 1 .. length
    BY <1>2
  <2> QED BY <1>4, <2>1 DEF Classes
<1>6. line \in [1 .. length + 1 -> Character]
  BY <1>1, <1>2, <1>3, <1>5 DEF Character
<1>7. line \in Seq(Character) /\ DOMAIN line = 1 .. length + 1
  BY <1>2, <1>6
<1>8. \A i \in 1 .. length : i \in 1 .. length + 1 /\ ~(i > length)
  BY <1>2
<1>9. \A i \in DOMAIN line : line[i].at = <<p, n, i>>
  BY <1>3
<1>10. \A i \in DOMAIN text : i \in DOMAIN line /\ line[i] = [at |-> <<p, n, i>>, class |-> text[i]]
  BY <1>2, <1>3, <1>8
<1> QED BY <1>1, <1>2, <1>7, <1>9, <1>10 DEF line, text, length

LEMMA LineAppends ==
  ASSUME NEW p \in Nat, NEW lines \in Seq(Lines), NEW b \in Nat, NEW n \in Nat, b <= n, n + 1 \in DOMAIN lines,
         NEW text, TextFits(p, lines, text, b, n)
  PROVE  TextFits(p, lines, text \o LineOf(p, lines, n + 1), b, n + 1)
<1> DEFINE line == LineOf(p, lines, n + 1)
           all == text \o line
           k == Len(text)
           l == Len(line)
<1>1. /\ line \in Seq(Character)
      /\ \A i \in DOMAIN line : line[i].at = <<p, n + 1, i>>
      /\ \A i \in DOMAIN lines[n + 1].text : i \in DOMAIN line
           /\ line[i] = [at |-> <<p, n + 1, i>>, class |-> lines[n + 1].text[i]]
  BY LineIs
<1> HIDE DEF line
<1>2. text \in Seq(Character) /\ k \in Nat /\ l \in Nat /\ DOMAIN text = 1 .. k /\ DOMAIN line = 1 .. l
  BY <1>1 DEF TextFits
<1>3. /\ all \in Seq(Character) /\ DOMAIN all = 1 .. k + l
      /\ \A i \in 1 .. k : i \in DOMAIN all /\ all[i] = text[i]
      /\ \A i \in 1 .. l : k + i \in DOMAIN all /\ all[k + i] = line[i]
  BY <1>1, <1>2
<1>4. \A i \in DOMAIN all : i \in 1 .. k \/ \E x \in 1 .. l : i = k + x
  <2> SUFFICES ASSUME NEW i \in 1 .. k + l, i \notin 1 .. k PROVE i - k \in 1 .. l /\ i = k + (i - k)
    BY <1>3
  <2> QED BY <1>2
<1> HIDE DEF all, k, l
<1>5. /\ \A i \in 1 .. k : all[i].at[1] = p /\ all[i].at[2] \in b + 1 .. n
      /\ \A i \in 1 .. l : all[k + i].at[1] = p /\ all[k + i].at[2] = n + 1 /\ all[k + i].at[3] = i
  <2>1. ASSUME NEW i \in 1 .. k PROVE all[i].at[1] = p /\ all[i].at[2] \in b + 1 .. n
    <3>1. i \in DOMAIN text /\ all[i] = text[i]
      BY <1>2, <1>3
    <3>2. text[i].at[1] = p /\ text[i].at[2] \in b + 1 .. n
      BY <3>1 DEF TextFits
    <3> QED BY <3>1, <3>2
  <2>2. ASSUME NEW i \in 1 .. l PROVE all[k + i].at[1] = p /\ all[k + i].at[2] = n + 1 /\ all[k + i].at[3] = i
    <3>1. all[k + i].at = <<p, n + 1, i>>
      BY <1>1, <1>2, <1>3
    <3> QED BY <3>1
  <2> QED BY <2>1, <2>2
<1>6. \A i \in DOMAIN all : all[i].at[1] = p /\ all[i].at[2] \in b + 1 .. n + 1
  <2>1. n + 1 \in b + 1 .. n + 1 /\ \A x \in b + 1 .. n : x \in b + 1 .. n + 1 /\ x # n + 1
    OBVIOUS
  <2> QED BY <1>4, <1>5, <2>1
<1>7. ASSUME NEW i \in DOMAIN all, NEW j \in DOMAIN all, all[i] = all[j] PROVE i = j
  <2>1. n + 1 \notin b + 1 .. n
    OBVIOUS
  <2>2. CASE i \in 1 .. k /\ j \in 1 .. k
    BY <1>2, <1>3, <1>7, <2>2 DEF TextFits
  <2>3. CASE (\E x \in 1 .. l : i = k + x) /\ (\E y \in 1 .. l : j = k + y)
    BY <1>5, <1>7, <2>3
  <2> QED BY <1>4, <1>5, <1>7, <2>1, <2>2, <2>3
<1>8. ASSUME NEW m \in b + 1 .. n + 1, NEW i \in DOMAIN lines[m].text
      PROVE  \E j \in DOMAIN all : all[j] = [at |-> <<p, m, i>>, class |-> lines[m].text[i]]
  <2>1. CASE m = n + 1
    BY <1>1, <1>2, <1>3, <2>1
  <2>2. CASE m # n + 1
    <3>1. m \in b + 1 .. n
      BY <2>2
    <3>2. PICK j \in DOMAIN text : text[j] = [at |-> <<p, m, i>>, class |-> lines[m].text[i]]
      BY <3>1 DEF TextFits
    <3> QED BY <1>2, <1>3, <3>2
  <2> QED BY <2>1, <2>2
<1>9. TextFits(p, lines, all, b, n + 1)
  BY <1>3, <1>6, <1>7, <1>8 DEF TextFits
<1> QED BY <1>9 DEF all, line

\* The text of an interval of lines has each of their characters once.
LEMMA TextOfLines ==
  ASSUME NEW p \in Nat, NEW lines \in Seq(Lines), NEW b \in Nat, NEW n \in Nat, b <= n, n <= Len(lines)
  PROVE  TextFits(p, lines, TextOf(p, lines, [i \in 1 .. n - b |-> b + i]), b, n)
<1> DEFINE body == [i \in 1 .. n - b |-> b + i]
           k == n - b
           W == Seq(Character)
           step == [i \in 1 .. k |-> [s \in W |-> s \o LineOf(p, lines, body[i])]]
           Solution(f) == f = [i \in 0 .. Len(body) |-> IF i = 0 THEN << >> ELSE f[i - 1] \o LineOf(p, lines, body[i])]
           joined == CHOOSE f : Solution(f)
<1>1. k \in Nat /\ Len(body) = k /\ \A i \in 1 .. k : body[i] = b + i /\ b + i \in DOMAIN lines
  <2>1. k \in Nat /\ body \in [1 .. k -> Nat]
    OBVIOUS
  <2>2. Len(body) = k
    <3> HIDE DEF body, k
    <3> QED BY <2>1
  <2>3. Len(lines) \in Nat /\ DOMAIN lines = 1 .. Len(lines)
    OBVIOUS
  <2> QED BY <2>1, <2>2, <2>3
<1> HIDE DEF body, k
<1>2. \E f : Recursion(f, k, W, << >>, step)
  <2>1. step \in [1 .. k -> [W -> W]]
    <3>1. ASSUME NEW i \in 1 .. k PROVE LineOf(p, lines, body[i]) \in W
      <4>1. b + i \in DOMAIN lines /\ body[i] = b + i
        BY <1>1
      <4>2. LineOf(p, lines, b + i) \in Seq(Character)
        BY <4>1, LineIs
      <4> QED BY <4>1, <4>2
    <3> QED BY <3>1
  <2>2. << >> \in W
    OBVIOUS
  <2> HIDE DEF step, W
  <2> QED BY <1>1, <2>1, <2>2, RecursionSolved
<1>3. PICK f : Recursion(f, k, W, << >>, step)
  BY <1>2
<1>4. Solution(f)
  <2>1. ASSUME NEW i \in 0 .. k PROVE f[i] = IF i = 0 THEN << >> ELSE f[i - 1] \o LineOf(p, lines, body[i])
    <3>1. CASE i = 0
      BY <1>3, <3>1 DEF Recursion
    <3>2. CASE i # 0
      <4>1. i \in 1 .. k /\ i - 1 \in 0 .. k
        BY <1>1, <3>2
      <4>2. f[i - 1] \in W /\ f[i] = step[i][f[i - 1]]
        BY <1>3, <4>1 DEF Recursion
      <4> HIDE DEF W
      <4> QED BY <3>2, <4>1, <4>2
    <3> QED BY <3>1, <3>2
  <2> QED BY <1>1, <1>3, <2>1 DEF Recursion
<1>5. Solution(joined)
  BY <1>4
<1>6. TextOf(p, lines, body) = joined[k]
  BY <1>1 DEF TextOf
<1> HIDE DEF joined
<1>7. joined[0] = << >> /\ \A i \in 1 .. k : joined[i] = joined[i - 1] \o LineOf(p, lines, b + i)
  <2>1. joined = [i \in 0 .. k |-> IF i = 0 THEN << >> ELSE joined[i - 1] \o LineOf(p, lines, body[i])]
    BY <1>1, <1>5
  <2>2. 0 \in 0 .. k /\ \A i \in 1 .. k : i \in 0 .. k /\ i # 0
    BY <1>1
  <2> QED BY <1>1, <2>1, <2>2
<1> DEFINE Fits(i) == TextFits(p, lines, joined[i], b, b + i)
           Bad == {i \in 0 .. k : ~Fits(i)}
<1>8. Bad = {}
  <2> SUFFICES ASSUME Bad # {} PROVE FALSE
    OBVIOUS
  <2>0. Bad \in SUBSET (0 .. k)
    OBVIOUS
  <2>1. PICK i \in Bad : \A j \in Bad : i <= j
    <3> HIDE DEF Bad
    <3> QED BY <1>1, <2>0, LeastOf
  <2>2. i # 0
    <3>1. Fits(0)
      <4>1. b + 1 .. b + 0 = {} /\ DOMAIN << >> = {} /\ << >> \in Seq(Character)
        OBVIOUS
      <4> QED BY <1>7, <4>1 DEF TextFits
    <3> QED BY <2>1, <3>1
  <2>3. i \in 1 .. k /\ i - 1 \in 0 .. k /\ Fits(i - 1)
    <3>1. i \in 1 .. k /\ i - 1 \in 0 .. k /\ ~(i <= i - 1)
      BY <1>1, <2>1, <2>2
    <3> QED BY <2>1, <3>1
  <2> DEFINE m == b + (i - 1)
  <2>4. m \in Nat /\ b <= m /\ m + 1 = b + i /\ m + 1 \in DOMAIN lines
    BY <1>1, <2>3
  <2>5. TextFits(p, lines, joined[i - 1], b, m) /\ joined[i] = joined[i - 1] \o LineOf(p, lines, m + 1)
    BY <1>7, <2>3, <2>4
  <2>6. Fits(i)
    <3> HIDE DEF m
    <3> QED BY <2>4, <2>5, LineAppends
  <2> QED BY <2>1, <2>6
<1>9. Fits(k) /\ b + k = n
  BY <1>1, <1>8 DEF k
<1> QED BY <1>6, <1>9 DEF body

\* What is left of the characters between two places without the blank lines
\* at the ends: an interval, and every visible character of these.
LEMMA TrimKeeps ==
  ASSUME NEW characters, NEW from \in Nat, NEW to \in Nat,
         NEW v \in from + 1 .. to, ~Blank(characters[v])
  PROVE  \E first, last \in from + 1 .. to :
           /\ TrimBlankLines(characters, from, to) = first .. last
           /\ \A i \in from + 1 .. to : Blank(characters[i]) \/ i \in first .. last
<1> DEFINE firsts == {i \in from + 1 .. to : /\ i = from + 1 \/ Class(characters, i - 1) = "newline"
                                             /\ \A j \in from + 1 .. i - 1 : Blank(characters[j])}
           lasts == {i \in from + 1 .. to : /\ i = to \/ Class(characters, i + 1) = "newline"
                                            /\ \A j \in i + 1 .. to : Blank(characters[j])}
           first == Max(firsts)
           last == Min(lasts)
<1>1. firsts \in SUBSET (0 .. to) /\ lasts \in SUBSET (0 .. to)
  OBVIOUS
<1>2. firsts # {}
  <2>1. from + 1 \in firsts
    OBVIOUS
  <2> QED BY <2>1
<1>3. lasts # {}
  <2>1. to \in lasts
    OBVIOUS
  <2> QED BY <2>1
<1>4. first \in firsts /\ last \in lasts
  <2> HIDE DEF firsts, lasts
  <2> QED BY <1>1, <1>2, <1>3, MaxOf, MinOf
<1>5. TrimBlankLines(characters, from, to) = first .. last
  BY DEF TrimBlankLines
<1> HIDE DEF first, last
<1>6. /\ first \in from + 1 .. to /\ \A j \in from + 1 .. first - 1 : Blank(characters[j])
      /\ last \in from + 1 .. to /\ \A j \in last + 1 .. to : Blank(characters[j])
  BY <1>4
<1> HIDE DEF firsts, lasts
<1>7. ASSUME NEW i \in from + 1 .. to, ~Blank(characters[i]) PROVE i \in first .. last
  <2>1. i \notin from + 1 .. first - 1 /\ i \notin last + 1 .. to
    BY <1>6, <1>7
  <2> QED BY <1>6, <2>1
<1> QED BY <1>5, <1>6, <1>7

-----------------------------------------------------------------------------
(* The sections that a flush adds.                                         *)

HeadingSet(headings) == {headings[i] : i \in DOMAIN headings}

\* The sections of the first b lines: each character once, under the headings
\* of its line, none of a heading, and every visible one of the others.
SectionsFit(p, lines, list, b) ==
  /\ list \in Seq(Section)
  /\ \A s \in DOMAIN list : list[s].characters # << >>
  /\ \A s \in DOMAIN list : \A i \in DOMAIN list[s].characters :
       LET n == list[s].characters[i].at[2]
       IN /\ list[s].characters[i].at[1] = p /\ n \in 1 .. b /\ ~IsHeading(lines, n)
          /\ HeadingSet(list[s].headings) = HeadingsOver(lines, n)
  /\ \A s, t \in DOMAIN list : \A i \in DOMAIN list[s].characters, j \in DOMAIN list[t].characters :
       list[s].characters[i] = list[t].characters[j] => s = t /\ i = j
  /\ \A n \in 1 .. b : IsHeading(lines, n) \/ \A i \in DOMAIN lines[n].text :
       \/ lines[n].text[i] = "space"
       \/ \E s \in DOMAIN list : \E j \in DOMAIN list[s].characters :
            list[s].characters[j] = [at |-> <<p, n, i>>, class |-> lines[n].text[i]]

\* What a flush makes of the sections.
Flushed(p, lines, headings, body, list) ==
  LET text == TextOf(p, lines, body)
      kept == TrimBlankLines(text, 0, Len(text))
  IN IF IsBlankText(text) THEN list
     ELSE Append(list, [headings |-> headings, characters |-> SubSeq(text, Min(kept), Max(kept))])

\* Part of a text with every visible character of it.
LEMMA KeptOfText ==
  ASSUME NEW text \in Seq(Character), ~IsBlankText(text)
  PROVE  LET kept == TrimBlankLines(text, 0, Len(text))
             part == SubSeq(text, Min(kept), Max(kept))
         IN \E f \in Nat :
              /\ part \in Seq(Character) /\ part # << >>
              /\ \A i \in DOMAIN part : f + i \in DOMAIN text /\ part[i] = text[f + i] /\ i \in Nat
              /\ \A i \in DOMAIN text : Blank(text[i]) \/ \E j \in DOMAIN part : part[j] = text[i]
<1> DEFINE k == Len(text)
           kept == TrimBlankLines(text, 0, k)
           part == SubSeq(text, Min(kept), Max(kept))
<1>1. k \in Nat /\ DOMAIN text = 1 .. k
  OBVIOUS
<1>2. PICK v \in 0 + 1 .. k : ~Blank(text[v])
  BY <1>1 DEF IsBlankText
<1>3. PICK first \in 0 + 1 .. k, last \in 0 + 1 .. k :
        kept = first .. last /\ \A i \in 0 + 1 .. k : Blank(text[i]) \/ i \in first .. last
  <2> HIDE DEF kept, k
  <2>1. 0 \in Nat /\ k \in Nat
    BY <1>1
  <2> QED BY <1>2, <2>1, TrimKeeps DEF kept
<1> HIDE DEF kept
<1>4. first <= last /\ first \in 1 .. k /\ last \in 1 .. k
  <2>1. v \in first .. last
    BY <1>2, <1>3
  <2> QED BY <1>1, <1>3, <2>1
<1>5. Min(kept) = first /\ Max(kept) = last
  <2>1. kept \in SUBSET (0 .. k) /\ first \in kept /\ last \in kept
    BY <1>1, <1>3, <1>4
  <2>2. Min(kept) \in kept /\ Max(kept) \in kept /\ Min(kept) <= first /\ last <= Max(kept)
    <3> HIDE DEF k
    <3> QED BY <1>1, <2>1, MinOf, MaxOf
  <2> DEFINE x == Min(kept)
             y == Max(kept)
  <2>3. x \in first .. last /\ y \in first .. last /\ x <= first /\ last <= y
    BY <1>3, <2>2
  <2> HIDE DEF x, y
  <2>4. x = first /\ y = last
    BY <1>1, <1>4, <2>3
  <2> QED BY <2>4 DEF x, y
<1> DEFINE f == first - 1
<1>6. part = SubSeq(text, first, last)
  BY <1>5
<1> HIDE DEF part
<1>7. /\ part \in Seq(Character) /\ Len(part) = last - f /\ f \in Nat
      /\ \A i \in 1 .. last - f : f + i \in 1 .. k /\ part[i] = text[f + i]
  BY <1>1, <1>4, <1>6
<1>8. DOMAIN part = 1 .. last - f /\ last - f \in Nat \ {0}
  BY <1>1, <1>4, <1>7
<1>9. part # << >>
  BY <1>7, <1>8
<1>10. ASSUME NEW i \in DOMAIN text, ~Blank(text[i]) PROVE \E j \in DOMAIN part : part[j] = text[i]
  <2>1. i \in first .. last
    BY <1>1, <1>3, <1>10
  <2>2. i - f \in DOMAIN part /\ f + (i - f) = i
    BY <1>1, <1>4, <1>8, <2>1
  <2> QED BY <1>7, <1>8, <2>2
<1>11. \A i \in DOMAIN part : f + i \in DOMAIN text /\ part[i] = text[f + i] /\ i \in Nat
  BY <1>1, <1>7, <1>8
<1>12. f \in Nat /\ part \in Seq(Character)
  BY <1>7
<1> HIDE DEF f
<1>13. \E g \in Nat :
         /\ part \in Seq(Character) /\ part # << >>
         /\ \A i \in DOMAIN part : g + i \in DOMAIN text /\ part[i] = text[g + i] /\ i \in Nat
         /\ \A i \in DOMAIN text : Blank(text[i]) \/ \E j \in DOMAIN part : part[j] = text[i]
  BY <1>9, <1>10, <1>11, <1>12
<1> QED BY <1>13 DEF part, kept, k

\* A flush of the lines that follow a list of sections, under one set of
\* headings, fits them to the list.
LEMMA FlushKeeps ==
  ASSUME NEW p \in Nat, NEW lines \in Seq(Lines), NEW b \in Nat, NEW n \in Nat, b <= n, n <= Len(lines),
         NEW list, SectionsFit(p, lines, list, b), NEW headings \in Seq(Nat),
         \A m \in b + 1 .. n : ~IsHeading(lines, m) /\ HeadingSet(headings) = HeadingsOver(lines, m)
  PROVE  SectionsFit(p, lines, Flushed(p, lines, headings, [i \in 1 .. n - b |-> b + i], list), n)
<1> DEFINE body == [i \in 1 .. n - b |-> b + i]
           text == TextOf(p, lines, body)
           kept == TrimBlankLines(text, 0, Len(text))
           part == SubSeq(text, Min(kept), Max(kept))
           next == Flushed(p, lines, headings, body, list)
<1>1. TextFits(p, lines, text, b, n)
  BY TextOfLines
<1>2. next = IF IsBlankText(text) THEN list ELSE Append(list, [headings |-> headings, characters |-> part])
  BY DEF Flushed
<1> HIDE DEF text, next
<1>3. \A m \in 1 .. n : m \in 1 .. b \/ m \in b + 1 .. n
  OBVIOUS
<1>4. 1 .. b \subseteq 1 .. n /\ b + 1 .. n \subseteq 1 .. n /\ \A m \in b + 1 .. n : m \notin 1 .. b
  OBVIOUS
<1>5. \A m \in 1 .. n : \A i \in DOMAIN lines[m].text : lines[m].text[i] # "newline"
  <2> SUFFICES ASSUME NEW m \in 1 .. n PROVE \A i \in DOMAIN lines[m].text : lines[m].text[i] # "newline"
    OBVIOUS
  <2>1. m \in DOMAIN lines
    OBVIOUS
  <2>2. lines[m].text \in Seq(STRING \ {"newline"})
    BY <2>1, LineIs
  <2> QED BY <2>2
<1>6. ASSUME NEW m \in b + 1 .. n, NEW i \in DOMAIN lines[m].text, lines[m].text[i] # "space"
      PROVE  \E j \in DOMAIN text : text[j] = [at |-> <<p, m, i>>, class |-> lines[m].text[i]] /\ ~Blank(text[j])
  <2>1. PICK j \in DOMAIN text : text[j] = [at |-> <<p, m, i>>, class |-> lines[m].text[i]]
    BY <1>1 DEF TextFits
  <2>2. text[j].class # "newline" /\ text[j].class # "space"
    BY <1>4, <1>5, <1>6, <2>1
  <2> QED BY <2>1, <2>2 DEF Blank
<1>7. CASE IsBlankText(text)
  <2>1. next = list
    BY <1>2, <1>7
  <2>2. \A m \in b + 1 .. n : \A i \in DOMAIN lines[m].text : lines[m].text[i] = "space"
    BY <1>6, <1>7 DEF IsBlankText
  <2>3. /\ list \in Seq(Section) /\ \A s \in DOMAIN list : list[s].characters # << >>
        /\ \A s, t \in DOMAIN list : \A i \in DOMAIN list[s].characters, j \in DOMAIN list[t].characters :
             list[s].characters[i] = list[t].characters[j] => s = t /\ i = j
    BY DEF SectionsFit
  <2>4. ASSUME NEW s \in DOMAIN list, NEW i \in DOMAIN list[s].characters
        PROVE  LET m == list[s].characters[i].at[2]
               IN /\ list[s].characters[i].at[1] = p /\ m \in 1 .. n /\ ~IsHeading(lines, m)
                  /\ HeadingSet(list[s].headings) = HeadingsOver(lines, m)
    BY <1>4 DEF SectionsFit
  <2>5. ASSUME NEW m \in 1 .. n, ~IsHeading(lines, m), NEW i \in DOMAIN lines[m].text, lines[m].text[i] # "space"
        PROVE  \E s \in DOMAIN list : \E j \in DOMAIN list[s].characters :
                 list[s].characters[j] = [at |-> <<p, m, i>>, class |-> lines[m].text[i]]
    <3>1. m \in 1 .. b
      BY <1>3, <2>2, <2>5
    <3> QED BY <2>5, <3>1 DEF SectionsFit
  <2>6. SectionsFit(p, lines, list, n)
    BY <2>3, <2>4, <2>5 DEF SectionsFit
  <2> QED BY <2>1, <2>6 DEF next
<1>8. CASE ~IsBlankText(text)
  <2> DEFINE new == [headings |-> headings, characters |-> part]
             k == Len(list)
  <2>1. next = Append(list, new)
    BY <1>2, <1>8
  <2>2. PICK f \in Nat :
          /\ part \in Seq(Character) /\ part # << >>
          /\ \A i \in DOMAIN part : f + i \in DOMAIN text /\ part[i] = text[f + i] /\ i \in Nat
          /\ \A i \in DOMAIN text : Blank(text[i]) \/ \E j \in DOMAIN part : part[j] = text[i]
    BY <1>1, <1>8, KeptOfText DEF TextFits
  <2> HIDE DEF part
  <2>3. new \in Section /\ new.headings = headings /\ new.characters = part
    BY <2>2 DEF Section
  <2> HIDE DEF new
  <2>4. /\ list \in Seq(Section) /\ k \in Nat /\ next \in Seq(Section) /\ DOMAIN list = 1 .. k /\ DOMAIN next = 1 .. k + 1
        /\ next[k + 1] = new /\ \A s \in 1 .. k : next[s] = list[s] /\ s # k + 1
    BY <2>1, <2>3 DEF SectionsFit
  <2>5. \A s \in DOMAIN next : s \in 1 .. k \/ s = k + 1
    BY <2>4
  <2> HIDE DEF k, next
  <2>6. \A s \in DOMAIN next : next[s].characters # << >>
    <3>1. \A s \in 1 .. k : next[s].characters # << >>
      BY <2>4 DEF SectionsFit
    <3>2. next[k + 1].characters # << >>
      BY <2>2, <2>3, <2>4
    <3> QED BY <2>5, <3>1, <3>2
  <2>7. ASSUME NEW i \in DOMAIN part PROVE part[i].at[1] = p /\ part[i].at[2] \in b + 1 .. n
    BY <1>1, <2>2 DEF TextFits
  <2>8. ASSUME NEW s \in DOMAIN next, NEW i \in DOMAIN next[s].characters
        PROVE  LET m == next[s].characters[i].at[2]
               IN /\ next[s].characters[i].at[1] = p /\ m \in 1 .. n /\ ~IsHeading(lines, m)
                  /\ HeadingSet(next[s].headings) = HeadingsOver(lines, m)
    <3>1. CASE s \in 1 .. k
      BY <1>4, <2>4, <3>1 DEF SectionsFit
    <3>2. CASE s = k + 1
      BY <1>4, <2>3, <2>4, <2>7, <3>2
    <3> QED BY <2>5, <3>1, <3>2
  <2>9. ASSUME NEW s \in DOMAIN next, NEW t \in DOMAIN next,
               NEW i \in DOMAIN next[s].characters, NEW j \in DOMAIN next[t].characters,
               next[s].characters[i] = next[t].characters[j]
        PROVE  s = t /\ i = j
    <3>1. \A x \in 1 .. k : \A y \in DOMAIN next[x].characters : next[x].characters[y].at[2] \in 1 .. b
      BY <2>4 DEF SectionsFit
    <3>2. \A y \in DOMAIN part : part[y].at[2] \notin 1 .. b
      BY <1>4, <2>7
    <3>3. CASE s \in 1 .. k /\ t \in 1 .. k
      BY <2>4, <2>9, <3>3 DEF SectionsFit
    <3>4. CASE s = k + 1 /\ t = k + 1
      <4>1. i \in DOMAIN part /\ j \in DOMAIN part /\ part[i] = part[j]
        BY <2>3, <2>4, <2>9, <3>4
      <4>2. f + i = f + j /\ i \in Nat /\ j \in Nat
        BY <1>1, <2>2, <4>1 DEF TextFits
      <4> QED BY <3>4, <4>2
    <3>5. CASE s \in 1 .. k /\ t = k + 1
      <4>1. next[t].characters = part /\ next[s].characters[i].at[2] \in 1 .. b
        BY <2>3, <2>4, <3>1, <3>5
      <4> QED BY <2>9, <3>2, <4>1
    <3>6. CASE s = k + 1 /\ t \in 1 .. k
      <4>1. next[s].characters = part /\ next[t].characters[j].at[2] \in 1 .. b
        BY <2>3, <2>4, <3>1, <3>6
      <4> QED BY <2>9, <3>2, <4>1
    <3> QED BY <2>5, <3>3, <3>4, <3>5, <3>6
  <2>10. ASSUME NEW m \in 1 .. n, ~IsHeading(lines, m), NEW i \in DOMAIN lines[m].text, lines[m].text[i] # "space"
         PROVE  \E s \in DOMAIN next : \E j \in DOMAIN next[s].characters :
                  next[s].characters[j] = [at |-> <<p, m, i>>, class |-> lines[m].text[i]]
    <3>1. CASE m \in 1 .. b
      <4>1. PICK s \in DOMAIN list : \E j \in DOMAIN list[s].characters :
                   list[s].characters[j] = [at |-> <<p, m, i>>, class |-> lines[m].text[i]]
        BY <2>10, <3>1 DEF SectionsFit
      <4>2. s \in DOMAIN next /\ next[s] = list[s]
        BY <2>4, <4>1
      <4> QED BY <4>1, <4>2
    <3>2. CASE m \in b + 1 .. n
      <4>1. PICK x \in DOMAIN text : text[x] = [at |-> <<p, m, i>>, class |-> lines[m].text[i]] /\ ~Blank(text[x])
        BY <1>6, <2>10, <3>2
      <4>2. PICK j \in DOMAIN part : part[j] = text[x]
        BY <2>2, <4>1
      <4>3. k + 1 \in DOMAIN next /\ next[k + 1].characters = part
        BY <2>3, <2>4
      <4> QED BY <4>1, <4>2, <4>3
    <3> QED BY <1>3, <3>1, <3>2
  <2>11. SectionsFit(p, lines, next, n)
    BY <2>4, <2>6, <2>8, <2>9, <2>10 DEF SectionsFit
  <2> QED BY <2>11 DEF next
<1> QED BY <1>7, <1>8

-----------------------------------------------------------------------------
(* Fences, and which headings are over a line.                             *)

\* For each line the one that opened the fence it is followed in, or 0.
Opens(lines, fence) ==
  /\ fence \in [0 .. Len(lines) -> 0 .. Len(lines)] /\ fence[0] = 0
  /\ \A n \in 1 .. Len(lines) :
       fence[n] = IF fence[n - 1] = 0 THEN IF lines[n].fence = NoFence THEN 0 ELSE n
                  ELSE LET opened == lines[fence[n - 1]].fence IN
                       IF lines[n].fence.marker = opened.marker /\ lines[n].fence.length >= opened.length
                       THEN 0 ELSE fence[n - 1]

\* Fenced is where a fence is open: the one recursion that fits the lines.
LEMMA FencedIs ==
  ASSUME NEW lines \in Seq(Lines)
  PROVE  \E fence : Opens(lines, fence) /\ Fenced(lines) = {n \in DOMAIN lines : fence[n - 1] # 0}
<1> DEFINE k == Len(lines)
           W == 0 .. k
           After(x, n) == IF x = 0 THEN IF lines[n].fence = NoFence THEN 0 ELSE n
                          ELSE LET opened == lines[x].fence IN
                               IF lines[n].fence.marker = opened.marker /\ lines[n].fence.length >= opened.length
                               THEN 0 ELSE x
           step == [n \in 1 .. k |-> [x \in W |-> After(x, n)]]
           Solution(f) == f = [n \in 0 .. k |->
             IF n = 0 THEN 0
             ELSE IF f[n - 1] = 0 THEN IF lines[n].fence = NoFence THEN 0 ELSE n
             ELSE LET opened == lines[f[n - 1]].fence IN
                  IF lines[n].fence.marker = opened.marker /\ lines[n].fence.length >= opened.length
                  THEN 0 ELSE f[n - 1]]
           fence == CHOOSE f : Solution(f)
<1>1. k \in Nat
  OBVIOUS
<1> HIDE DEF k
<1>2. \A n \in 1 .. k : \A x \in W : After(x, n) \in W
  BY <1>1
<1> HIDE DEF After
<1>3. step \in [1 .. k -> [W -> W]] /\ 0 \in W
  BY <1>1, <1>2
<1>4. PICK f : Recursion(f, k, W, 0, step)
  <2> HIDE DEF step, W
  <2> QED BY <1>1, <1>3, RecursionSolved
<1>5. Solution(f)
  <2>1. ASSUME NEW n \in 0 .. k PROVE f[n] = IF n = 0 THEN 0 ELSE After(f[n - 1], n)
    <3>1. CASE n = 0
      BY <1>4, <3>1 DEF Recursion
    <3>2. CASE n # 0
      <4>1. n \in 1 .. k /\ n - 1 \in 0 .. k
        BY <1>1, <3>2
      <4>2. f[n - 1] \in W /\ f[n] = step[n][f[n - 1]]
        BY <1>4, <4>1 DEF Recursion
      <4> HIDE DEF W
      <4> QED BY <3>2, <4>1, <4>2
    <3> QED BY <3>1, <3>2
  <2>2. f = [n \in 0 .. k |-> f[n]]
    BY <1>4 DEF Recursion
  <2>3. f = [n \in 0 .. k |-> IF n = 0 THEN 0 ELSE After(f[n - 1], n)]
    BY <2>1, <2>2
  <2> QED BY <2>3 DEF After
<1>6. Solution(fence)
  BY <1>5
<1>7. Fenced(lines) = {n \in DOMAIN lines : fence[n - 1] # 0}
  BY DEF Fenced, k
<1> HIDE DEF fence
<1>8. fence = [n \in 0 .. k |-> IF n = 0 THEN 0 ELSE After(fence[n - 1], n)]
  BY <1>6 DEF After
<1>9. DOMAIN fence = 0 .. k /\ fence[0] = 0 /\ \A n \in 1 .. k : fence[n] = After(fence[n - 1], n)
  <2>1. 0 \in 0 .. k /\ \A n \in 1 .. k : n \in 0 .. k /\ n # 0
    BY <1>1
  <2> QED BY <1>8, <2>1
<1>10. \A n \in 0 .. k : fence[n] \in W
  <2> DEFINE Bad == {n \in 0 .. k : fence[n] \notin W}
  <2> SUFFICES ASSUME Bad # {} PROVE FALSE
    OBVIOUS
  <2>0. Bad \in SUBSET (0 .. k)
    OBVIOUS
  <2>1. PICK n \in Bad : \A m \in Bad : n <= m
    <3> HIDE DEF Bad
    <3> QED BY <1>1, <2>0, LeastOf
  <2>2. n # 0
    BY <1>3, <1>9
  <2>3. n \in 1 .. k /\ n - 1 \in 0 .. k /\ n - 1 \notin Bad
    <3>1. n \in 1 .. k /\ n - 1 \in 0 .. k /\ ~(n <= n - 1)
      BY <1>1, <2>1, <2>2
    <3> QED BY <2>1, <3>1
  <2> HIDE DEF W
  <2> QED BY <1>2, <1>9, <2>3
<1>11. fence \in [0 .. k -> 0 .. k]
  BY <1>8, <1>9, <1>10
<1>12. Opens(lines, fence)
  BY <1>9, <1>11 DEF Opens, After, k
<1> QED BY <1>7, <1>12

\* The headings that are open after n lines.
OpenAfter(lines, n) ==
  {h \in 1 .. n : IsHeading(lines, h) /\ \A g \in h + 1 .. n : IsHeading(lines, g) => lines[g].level > lines[h].level}

\* The headings over a line are those that no later one has closed.
LEMMA OverIsOpen ==
  ASSUME NEW lines, NEW n \in Nat
  PROVE  HeadingsOver(lines, n + 1) = OpenAfter(lines, n)
<1>1. (n + 1) - 1 = n
  OBVIOUS
<1> QED BY <1>1 DEF HeadingsOver, OpenAfter

\* Lines without a heading leave open what is open.
LEMMA QuietLines ==
  ASSUME NEW lines \in Seq(Lines), NEW a \in Nat, NEW n \in Nat, a <= n, \A m \in a + 1 .. n : ~IsHeading(lines, m)
  PROVE  OpenAfter(lines, a) = OpenAfter(lines, n)
<1>1. \A m \in 1 .. n : m \in 1 .. a \/ m \in a + 1 .. n
  OBVIOUS
<1>2. \A m \in 1 .. a : m \in 1 .. n
  OBVIOUS
<1>3. \A h \in 1 .. a : \A g \in h + 1 .. n : g \in h + 1 .. a \/ g \in a + 1 .. n
  OBVIOUS
<1>4. \A h \in 1 .. a : \A g \in h + 1 .. a : g \in h + 1 .. n
  OBVIOUS
<1> QED BY <1>1, <1>2, <1>3, <1>4 DEF OpenAfter

\* The open headings go one below the other.
Nested(lines, headings) ==
  \A i, j \in DOMAIN headings : i < j => lines[headings[i]].level < lines[headings[j]].level

\* A heading leaves open the outer ones, and itself.
LEMMA NextHeading ==
  ASSUME NEW lines \in Seq(Lines), NEW n \in Nat, n + 1 \in DOMAIN lines, IsHeading(lines, n + 1),
         NEW headings \in Seq(Nat), Nested(lines, headings), HeadingSet(headings) = OpenAfter(lines, n)
  PROVE  LET next == Append(OuterHeadings(lines, headings, lines[n + 1].level), n + 1)
         IN next \in Seq(Nat) /\ Nested(lines, next) /\ HeadingSet(next) = OpenAfter(lines, n + 1)
<1> DEFINE level == lines[n + 1].level
           k == Len(headings)
           lower == {i \in DOMAIN headings : lines[headings[i]].level < level}
           top == Max({0} \cup lower)
           outer == OuterHeadings(lines, headings, level)
           next == Append(outer, n + 1)
<1>1. k \in Nat /\ DOMAIN headings = 1 .. k
  OBVIOUS
<1>2. \A m \in DOMAIN lines : lines[m].level \in Nat
  <2>1. \A m \in DOMAIN lines : lines[m] \in Lines
    OBVIOUS
  <2> QED BY <2>1, ChunkingAssumption DEF ChunkingAssumption
<1>3. \A i \in 1 .. k : headings[i] \in 1 .. n /\ headings[i] \in DOMAIN lines
  <2>1. \A i \in 1 .. k : headings[i] \in 1 .. n
    BY <1>1 DEF HeadingSet, OpenAfter
  <2> QED BY <2>1
<1>4. top \in 0 .. k /\ (top = 0 \/ top \in lower) /\ \A i \in lower : i <= top
  <2>1. {0} \cup lower \in SUBSET (0 .. k) /\ {0} \cup lower # {}
    BY <1>1
  <2> HIDE DEF lower, k
  <2> QED BY <1>1, <2>1, MaxOf
<1>5. outer = SubSeq(headings, 1, top)
  BY DEF OuterHeadings
<1> HIDE DEF outer, top
<1>6. /\ outer \in Seq(Nat) /\ Len(outer) = top /\ DOMAIN outer = 1 .. top
      /\ \A i \in 1 .. top : i \in 1 .. k /\ outer[i] = headings[i]
  BY <1>1, <1>4, <1>5
<1>7. /\ next \in Seq(Nat) /\ DOMAIN next = 1 .. top + 1 /\ next[top + 1] = n + 1
      /\ \A i \in 1 .. top : next[i] = headings[i]
  BY <1>4, <1>6
<1> HIDE DEF next
<1>8. \A i \in 1 .. k : lines[headings[i]].level < level <=> i <= top
  <2> SUFFICES ASSUME NEW i \in 1 .. k PROVE lines[headings[i]].level < level <=> i <= top
    OBVIOUS
  <2>1. lines[headings[i]].level < level => i <= top
    BY <1>1, <1>4
  <2>2. ASSUME i <= top PROVE lines[headings[i]].level < level
    <3>1. top \in lower /\ top \in 1 .. k
      BY <1>1, <1>4, <2>2
    <3>2. CASE i = top
      BY <3>1, <3>2
    <3>3. CASE i < top
      <4>1. lines[headings[i]].level < lines[headings[top]].level
        BY <1>1, <3>1, <3>3 DEF Nested
      <4>2. lines[headings[top]].level < level /\ lines[headings[i]].level \in Nat /\ lines[headings[top]].level \in Nat /\ level \in Nat
        BY <1>2, <1>3, <3>1
      <4> DEFINE x == lines[headings[i]].level
                 y == lines[headings[top]].level
      <4>3. x < y /\ y < level /\ x \in Nat /\ y \in Nat /\ level \in Nat
        BY <4>1, <4>2
      <4> HIDE DEF x, y, level
      <4>4. x < level
        BY <4>3
      <4> QED BY <4>4 DEF x, level
    <3>4. i = top \/ i < top
      BY <1>1, <1>4, <2>2
    <3> HIDE DEF level
    <3> QED BY <3>2, <3>3, <3>4
  <2> QED BY <2>1, <2>2
<1>9. Nested(lines, next)
  <2> SUFFICES ASSUME NEW i \in 1 .. top + 1, NEW j \in 1 .. top + 1, i < j
               PROVE  lines[next[i]].level < lines[next[j]].level
    BY <1>7 DEF Nested
  <2>1. i \in 1 .. top /\ i \in 1 .. k /\ i <= top
    BY <1>4
  <2>2. CASE j = top + 1
    BY <1>7, <1>8, <2>1, <2>2
  <2>3. CASE j # top + 1
    <3>1. j \in 1 .. top /\ j \in 1 .. k
      BY <1>1, <1>4, <2>3
    <3> QED BY <1>1, <1>7, <2>1, <3>1 DEF Nested
  <2> QED BY <2>2, <2>3
<1>10. \A h : h \in HeadingSet(next) <=> h = n + 1 \/ \E i \in 1 .. top : h = headings[i]
  <2>1. \A i \in 1 .. top + 1 : i \in 1 .. top \/ i = top + 1
    BY <1>4
  <2>2. top + 1 \in 1 .. top + 1 /\ \A i \in 1 .. top : i \in 1 .. top + 1
    BY <1>4
  <2> QED BY <1>7, <2>1, <2>2 DEF HeadingSet
<1>11. \A h : (\E i \in 1 .. top : h = headings[i]) <=> h \in OpenAfter(lines, n) /\ lines[h].level < level
  <2>1. \A h : h \in OpenAfter(lines, n) <=> \E i \in 1 .. k : h = headings[i]
    BY <1>1 DEF HeadingSet
  <2>2. \A i \in 1 .. k : i <= top <=> i \in 1 .. top
    BY <1>4
  <2> QED BY <1>6, <1>8, <2>1, <2>2
<1>12. \A h : h \in OpenAfter(lines, n + 1) <=> h = n + 1 \/ (h \in OpenAfter(lines, n) /\ lines[h].level < level)
  <2>1. \A h \in 1 .. n + 1 : h = n + 1 \/ h \in 1 .. n
    OBVIOUS
  <2>2. n + 1 \in 1 .. n + 1 /\ n + 1 \notin 1 .. n /\ \A h \in 1 .. n : h \in 1 .. n + 1
    OBVIOUS
  <2>3. \A h \in 1 .. n : /\ n + 1 \in h + 1 .. n + 1
                          /\ \A g \in h + 1 .. n : g \in h + 1 .. n + 1
                          /\ \A g \in h + 1 .. n + 1 : g = n + 1 \/ g \in h + 1 .. n
    OBVIOUS
  <2>4. \A g \in (n + 1) + 1 .. n + 1 : FALSE
    OBVIOUS
  <2>5. \A h \in 1 .. n : lines[h].level \in Nat /\ level \in Nat
    BY <1>2
  <2>6. \A h \in 1 .. n : level > lines[h].level <=> lines[h].level < level
    <3> HIDE DEF level
    <3> QED BY <2>5
  <2>7. n + 1 \in OpenAfter(lines, n + 1)
    BY <2>2, <2>4 DEF OpenAfter
  <2>8. ASSUME NEW h \in 1 .. n
        PROVE  h \in OpenAfter(lines, n + 1) <=> h \in OpenAfter(lines, n) /\ lines[h].level < level
    BY <2>2, <2>3, <2>6 DEF OpenAfter
  <2>9. \A h : h \in OpenAfter(lines, n + 1) => h = n + 1 \/ h \in 1 .. n
    BY <2>1 DEF OpenAfter
  <2>10. \A h : h \in OpenAfter(lines, n) => h \in 1 .. n
    BY DEF OpenAfter
  <2> QED BY <2>7, <2>8, <2>9, <2>10
<1>13. HeadingSet(next) = OpenAfter(lines, n + 1)
  BY <1>10, <1>11, <1>12
<1> QED BY <1>7, <1>9, <1>13 DEF next, outer

Fences == {NoFence} \cup {line.fence : line \in Lines}
CutState == [fence : Fences, headings : Seq(Nat), body : Seq(Nat), sections : Seq(Section)]

\* What the loop has made of the first n lines.
CutFits(p, lines, fence, cut, n) ==
  /\ cut \in CutState
  /\ cut.fence = IF fence[n] = 0 THEN NoFence ELSE lines[fence[n]].fence
  /\ fence[n] # 0 => fence[n] \in DOMAIN lines /\ lines[fence[n]].fence # NoFence
  /\ Nested(lines, cut.headings) /\ HeadingSet(cut.headings) = OpenAfter(lines, n)
  /\ \E b \in 0 .. n :
       /\ cut.body = [i \in 1 .. n - b |-> b + i] /\ SectionsFit(p, lines, cut.sections, b)
       /\ \A m \in b + 1 .. n : ~IsHeading(lines, m)

LEMMA FlushIs ==
  ASSUME NEW p, NEW lines, NEW cut \in CutState
  PROVE  FlushSection(p, lines, cut) =
           [cut EXCEPT !.body = << >>, !.sections = Flushed(p, lines, cut.headings, cut.body, cut.sections)]
BY DEF FlushSection, Flushed, CutState

\* The sections after a flush are those of all the lines so far.
LEMMA FlushFits ==
  ASSUME NEW p \in Nat, NEW lines \in Seq(Lines), NEW n \in Nat, n <= Len(lines),
         NEW fence, NEW cut, CutFits(p, lines, fence, cut, n)
  PROVE  SectionsFit(p, lines, Flushed(p, lines, cut.headings, cut.body, cut.sections), n)
<1>1. PICK b \in 0 .. n :
        /\ cut.body = [i \in 1 .. n - b |-> b + i] /\ SectionsFit(p, lines, cut.sections, b)
        /\ \A m \in b + 1 .. n : ~IsHeading(lines, m)
  BY DEF CutFits
<1>2. ASSUME NEW m \in b + 1 .. n PROVE HeadingSet(cut.headings) = HeadingsOver(lines, m)
  <2> DEFINE a == m - 1
  <2>1. a \in Nat /\ a + 1 = m /\ a <= n /\ \A x \in a + 1 .. n : x \in b + 1 .. n
    OBVIOUS
  <2> HIDE DEF a
  <2>2. OpenAfter(lines, a) = OpenAfter(lines, n)
    BY <1>1, <2>1, QuietLines
  <2>3. HeadingsOver(lines, a + 1) = OpenAfter(lines, a)
    BY <2>1, OverIsOpen
  <2> QED BY <2>1, <2>2, <2>3 DEF CutFits
<1>3. cut.headings \in Seq(Nat) /\ b \in Nat /\ b <= n
  BY DEF CutFits, CutState
<1> QED BY <1>1, <1>2, <1>3, FlushKeeps

AfterLine(p, lines, cut, n) ==
  IF cut.fence # NoFence THEN InFence(lines, cut, n) ELSE OutOfFence(p, lines, cut, n)

LEMMA BodyGrows ==
  ASSUME NEW b \in Nat, NEW n \in Nat, b <= n
  PROVE  Append([i \in 1 .. n - b |-> b + i], n + 1) = [i \in 1 .. (n + 1) - b |-> b + i]
<1> DEFINE k == n - b
           body == [i \in 1 .. k |-> b + i]
           next == Append(body, n + 1)
           wanted == [i \in 1 .. k + 1 |-> b + i]
<1>1. k \in Nat /\ b + (k + 1) = n + 1 /\ (n + 1) - b = k + 1
  OBVIOUS
<1> HIDE DEF k
<1>2. body \in Seq(Nat) /\ Len(body) = k /\ \A i \in 1 .. k : body[i] = b + i
  <2>1. body \in [1 .. k -> Nat]
    OBVIOUS
  <2>2. \A i \in 1 .. k : body[i] = b + i
    OBVIOUS
  <2> HIDE DEF body
  <2> QED BY <1>1, <2>1, <2>2
<1> HIDE DEF body
<1>3. next \in Seq(Nat) /\ DOMAIN next = 1 .. k + 1 /\ next[k + 1] = n + 1 /\ \A i \in 1 .. k : next[i] = body[i]
  BY <1>1, <1>2
<1> HIDE DEF next
<1>4. ASSUME NEW i \in 1 .. k + 1 PROVE next[i] = wanted[i]
  <2>1. CASE i = k + 1
    BY <1>1, <1>3, <2>1
  <2>2. CASE i # k + 1
    <3>1. i \in 1 .. k
      BY <1>1, <2>2
    <3> QED BY <1>2, <1>3, <3>1
  <2> QED BY <2>1, <2>2
<1>5. next = [i \in 1 .. k + 1 |-> next[i]]
  BY <1>3
<1>6. next = wanted
  BY <1>4, <1>5
<1> QED BY <1>1, <1>6 DEF next, body, k

\* A line that is not a heading joins the body.
LEMMA BodyFits ==
  ASSUME NEW p \in Nat, NEW lines \in Seq(Lines), NEW n \in Nat, n + 1 \in DOMAIN lines,
         NEW fence, NEW cut, CutFits(p, lines, fence, cut, n), ~IsHeading(lines, n + 1),
         NEW f \in Fences, f = IF fence[n + 1] = 0 THEN NoFence ELSE lines[fence[n + 1]].fence,
         fence[n + 1] # 0 => fence[n + 1] \in DOMAIN lines /\ lines[fence[n + 1]].fence # NoFence
  PROVE  CutFits(p, lines, fence, [cut EXCEPT !.body = Append(@, n + 1), !.fence = f], n + 1)
<1> DEFINE next == [cut EXCEPT !.body = Append(@, n + 1), !.fence = f]
<1>1. PICK b \in 0 .. n :
        /\ cut.body = [i \in 1 .. n - b |-> b + i] /\ SectionsFit(p, lines, cut.sections, b)
        /\ \A m \in b + 1 .. n : ~IsHeading(lines, m)
  BY DEF CutFits
<1>2. cut \in CutState
  BY DEF CutFits
<1>3. cut.body \in Seq(Nat) /\ Append(cut.body, n + 1) \in Seq(Nat)
  BY <1>2 DEF CutState
<1>4. /\ next \in CutState /\ next.fence = f /\ next.headings = cut.headings /\ next.sections = cut.sections
      /\ next.body = Append(cut.body, n + 1)
  BY <1>2, <1>3 DEF CutState
<1>5. b \in 0 .. n + 1 /\ next.body = [i \in 1 .. (n + 1) - b |-> b + i]
  BY <1>1, <1>4, BodyGrows
<1>6. \A m \in b + 1 .. n + 1 : ~IsHeading(lines, m)
  <2>1. \A m \in b + 1 .. n + 1 : m = n + 1 \/ m \in b + 1 .. n
    OBVIOUS
  <2> QED BY <1>1, <2>1
<1>7. OpenAfter(lines, n + 1) = OpenAfter(lines, n)
  <2>1. \A m \in n + 1 .. n + 1 : ~IsHeading(lines, m)
    OBVIOUS
  <2>2. n + 1 \in Nat /\ n <= n + 1
    OBVIOUS
  <2> QED BY <2>1, <2>2, QuietLines
<1> HIDE DEF next
<1>8. CutFits(p, lines, fence, next, n + 1)
  BY <1>1, <1>4, <1>5, <1>6, <1>7 DEF CutFits
<1> QED BY <1>8 DEF next

\* One round of the loop over the lines, in a fence and out of one.
LEMMA LineFits ==
  ASSUME sourceType = "MARKDOWN",
         NEW p \in Nat, NEW lines \in Seq(Lines), NEW n \in Nat, n + 1 \in DOMAIN lines,
         NEW fence, Opens(lines, fence), Fenced(lines) = {m \in DOMAIN lines : fence[m - 1] # 0},
         NEW cut, CutFits(p, lines, fence, cut, n)
  PROVE  CutFits(p, lines, fence, AfterLine(p, lines, cut, n + 1), n + 1)
<1> DEFINE line == lines[n + 1]
           next == AfterLine(p, lines, cut, n + 1)
<1>1. /\ n \in 0 .. Len(lines) /\ n + 1 \in 1 .. Len(lines) /\ (n + 1) - 1 = n
      /\ Len(lines) \in Nat /\ DOMAIN lines = 1 .. Len(lines)
  OBVIOUS
<1>2. line \in Lines /\ line.level \in Nat /\ line.fence \in Fences /\ (line.level > 0 => line.fence = NoFence)
  <2>1. line \in Lines
    OBVIOUS
  <2> QED BY <2>1, ChunkingAssumption DEF ChunkingAssumption, Fences
<1>3. cut \in CutState /\ cut.fence \in Fences
  BY DEF CutFits, CutState
<1>4. n + 1 \in Fenced(lines) <=> fence[n] # 0
  BY <1>1
<1>5. fence[n + 1] = IF fence[n] = 0 THEN IF line.fence = NoFence THEN 0 ELSE n + 1
                     ELSE LET opened == lines[fence[n]].fence IN
                          IF line.fence.marker = opened.marker /\ line.fence.length >= opened.length
                          THEN 0 ELSE fence[n]
  BY <1>1 DEF Opens
<1>6. cut.fence # NoFence <=> fence[n] # 0
  BY DEF CutFits
<1> HIDE DEF line
<1>7. CASE fence[n] # 0
  <2> DEFINE f == IF line.fence.marker = cut.fence.marker /\ line.fence.length >= cut.fence.length THEN NoFence ELSE cut.fence
  <2>1. ~IsHeading(lines, n + 1)
    BY <1>4, <1>7 DEF IsHeading
  <2>2. next = [cut EXCEPT !.body = Append(@, n + 1), !.fence = f]
    BY <1>3, <1>6, <1>7 DEF AfterLine, InFence, CutState, line
  <2>3. cut.fence = lines[fence[n]].fence /\ fence[n] \in DOMAIN lines /\ lines[fence[n]].fence # NoFence
    BY <1>7 DEF CutFits
  <2>4. f \in Fences
    BY <1>3 DEF Fences
  <2>5. f = (IF fence[n + 1] = 0 THEN NoFence ELSE lines[fence[n + 1]].fence)
    BY <1>5, <1>7, <2>3
  <2>6. fence[n + 1] # 0 => fence[n + 1] \in DOMAIN lines /\ lines[fence[n + 1]].fence # NoFence
    BY <1>5, <1>7, <2>3
  <2> HIDE DEF f
  <2>7. CutFits(p, lines, fence, [cut EXCEPT !.body = Append(@, n + 1), !.fence = f], n + 1)
    BY <2>1, <2>4, <2>5, <2>6, BodyFits
  <2> QED BY <2>2, <2>7
<1>8. CASE fence[n] = 0 /\ line.level = 0
  <2>1. ~IsHeading(lines, n + 1)
    BY <1>8 DEF IsHeading, line
  <2>2. next = [cut EXCEPT !.body = Append(@, n + 1), !.fence = line.fence]
    BY <1>6, <1>8 DEF AfterLine, OutOfFence, line
  <2>3. /\ line.fence = IF fence[n + 1] = 0 THEN NoFence ELSE lines[fence[n + 1]].fence
        /\ fence[n + 1] # 0 => fence[n + 1] \in DOMAIN lines /\ lines[fence[n + 1]].fence # NoFence
    BY <1>1, <1>5, <1>8 DEF line
  <2> DEFINE f == line.fence
  <2>4. f \in Fences /\ f = (IF fence[n + 1] = 0 THEN NoFence ELSE lines[fence[n + 1]].fence)
    BY <1>2, <2>3
  <2> HIDE DEF f
  <2>5. CutFits(p, lines, fence, [cut EXCEPT !.body = Append(@, n + 1), !.fence = f], n + 1)
    BY <2>1, <2>3, <2>4, BodyFits
  <2> QED BY <2>2, <2>5 DEF f
<1>9. CASE fence[n] = 0 /\ line.level # 0
  <2>1. IsHeading(lines, n + 1) /\ line.fence = NoFence
    <3>1. line.level > 0
      BY <1>2, <1>9
    <3> QED BY <1>2, <1>4, <1>9, <3>1 DEF IsHeading, line
  <2>2. fence[n + 1] = 0 /\ cut.fence = NoFence
    BY <1>5, <1>6, <1>9, <2>1
  <2> DEFINE flushed == FlushSection(p, lines, cut)
             list == Flushed(p, lines, cut.headings, cut.body, cut.sections)
             headings == Append(OuterHeadings(lines, cut.headings, line.level), n + 1)
  <2>3. next = [flushed EXCEPT !.headings = Append(OuterHeadings(lines, @, line.level), n + 1)]
    BY <1>6, <1>9 DEF AfterLine, OutOfFence, line
  <2>4. flushed = [cut EXCEPT !.body = << >>, !.sections = list]
    BY <1>3, FlushIs
  <2>5. SectionsFit(p, lines, list, n)
    <3>1. n <= Len(lines)
      BY <1>1
    <3> QED BY <3>1, FlushFits
  <2> HIDE DEF list
  <2>6. SectionsFit(p, lines, list, n + 1)
    <3>1. \A m \in 1 .. n + 1 : m = n + 1 \/ m \in 1 .. n
      OBVIOUS
    <3>2. \A m \in 1 .. n : m \in 1 .. n + 1
      OBVIOUS
    <3>3. ASSUME NEW s \in DOMAIN list, NEW i \in DOMAIN list[s].characters
          PROVE  LET m == list[s].characters[i].at[2]
                 IN /\ list[s].characters[i].at[1] = p /\ m \in 1 .. n + 1 /\ ~IsHeading(lines, m)
                    /\ HeadingSet(list[s].headings) = HeadingsOver(lines, m)
      BY <2>5, <3>2 DEF SectionsFit
    <3>4. \A m \in 1 .. n + 1 : IsHeading(lines, m) \/ \A i \in DOMAIN lines[m].text :
            \/ lines[m].text[i] = "space"
            \/ \E s \in DOMAIN list : \E j \in DOMAIN list[s].characters :
                 list[s].characters[j] = [at |-> <<p, m, i>>, class |-> lines[m].text[i]]
      BY <2>1, <2>5, <3>1 DEF SectionsFit
    <3>5. /\ list \in Seq(Section) /\ \A s \in DOMAIN list : list[s].characters # << >>
          /\ \A s, t \in DOMAIN list : \A i \in DOMAIN list[s].characters, j \in DOMAIN list[t].characters :
               list[s].characters[i] = list[t].characters[j] => s = t /\ i = j
      BY <2>5 DEF SectionsFit
    <3> QED BY <3>3, <3>4, <3>5 DEF SectionsFit
  <2>7. headings \in Seq(Nat) /\ Nested(lines, headings) /\ HeadingSet(headings) = OpenAfter(lines, n + 1)
    <3>1. cut.headings \in Seq(Nat) /\ Nested(lines, cut.headings) /\ HeadingSet(cut.headings) = OpenAfter(lines, n)
      BY <1>3 DEF CutFits, CutState
    <3> QED BY <2>1, <3>1, NextHeading DEF line
  <2>8. list \in Seq(Section) /\ << >> \in Seq(Nat)
    BY <2>5 DEF SectionsFit
  <2>9. flushed \in CutState /\ flushed.headings = cut.headings /\ flushed.fence = cut.fence /\ flushed.body = << >> /\ flushed.sections = list
    BY <1>3, <2>4, <2>8 DEF CutState
  <2> HIDE DEF flushed
  <2>10. next = [flushed EXCEPT !.headings = headings]
    BY <2>3, <2>9 DEF CutState
  <2> HIDE DEF headings, next
  <2>11. /\ next \in CutState /\ next.headings = headings /\ next.fence = cut.fence /\ next.body = << >> /\ next.sections = list
    BY <2>7, <2>9, <2>10 DEF CutState
  <2>12. << >> = [i \in 1 .. (n + 1) - (n + 1) |-> (n + 1) + i] /\ n + 1 \in 0 .. n + 1 /\ \A m \in (n + 1) + 1 .. n + 1 : FALSE
    OBVIOUS
  <2>13. CutFits(p, lines, fence, next, n + 1)
    BY <2>2, <2>6, <2>7, <2>11, <2>12 DEF CutFits
  <2> QED BY <2>13 DEF next
<1> QED BY <1>7, <1>8, <1>9

\* After the last line, and its flush, the sections fit the whole page.
LEMMA SplitFits ==
  ASSUME sourceType = "MARKDOWN", NEW p \in Nat, NEW lines \in Seq(Lines)
  PROVE  SectionsFit(p, lines, SplitMarkdownSections(p, lines), Len(lines))
<1> DEFINE k == Len(lines)
           Solves(f, m) == f = [n \in 0 .. m |-> IF n = 0 THEN NothingCut ELSE AfterLine(p, lines, f[n - 1], n)]
           after == CHOOSE f : Solves(f, k)
<1>1. k \in Nat /\ DOMAIN lines = 1 .. k
  OBVIOUS
<1>2. PICK fence : Opens(lines, fence) /\ Fenced(lines) = {n \in DOMAIN lines : fence[n - 1] # 0}
  BY FencedIs
<1>3. SplitMarkdownSections(p, lines) = FlushSection(p, lines, after[k]).sections
  BY DEF SplitMarkdownSections, AfterLine
<1> HIDE DEF k
<1>4. \E f : Solves(f, k)
  <2> DEFINE Bad == {m \in 0 .. k : ~\E f : Solves(f, m)}
  <2> SUFFICES ASSUME Bad # {} PROVE FALSE
    BY <1>1
  <2>0. Bad \in SUBSET (0 .. k)
    OBVIOUS
  <2>1. PICK m \in Bad : \A i \in Bad : m <= i
    <3> HIDE DEF Bad
    <3> QED BY <1>1, <2>0, LeastOf
  <2>2. m \in 0 .. k /\ ~\E f : Solves(f, m)
    BY <2>1
  <2>3. CASE m = 0
    <3> DEFINE f == [n \in 0 .. 0 |-> NothingCut]
    <3>1. f = [n \in 0 .. 0 |-> IF n = 0 THEN NothingCut ELSE AfterLine(p, lines, f[n - 1], n)]
      OBVIOUS
    <3> QED BY <2>2, <2>3, <3>1
  <2>4. CASE m # 0
    <3>1. m - 1 \in 0 .. k /\ m \in 1 .. k /\ ~(m <= m - 1)
      BY <1>1, <2>2, <2>4
    <3>2. PICK g : Solves(g, m - 1)
      BY <2>1, <3>1
    <3> DEFINE f == [n \in 0 .. m |-> IF n = m THEN AfterLine(p, lines, g[m - 1], m) ELSE g[n]]
               h == [n \in 0 .. m |-> IF n = 0 THEN NothingCut ELSE AfterLine(p, lines, f[n - 1], n)]
    <3>3. \A n \in 0 .. m - 1 : g[n] = IF n = 0 THEN NothingCut ELSE AfterLine(p, lines, g[n - 1], n)
      BY <3>2
    <3>4. ASSUME NEW n \in 0 .. m PROVE f[n] = h[n]
      <4>1. CASE n = m
        <5>1. m - 1 \in 0 .. m /\ m - 1 # m /\ n # 0
          BY <3>1, <4>1
        <5>2. f[m - 1] = g[m - 1]
          BY <5>1
        <5> QED BY <2>4, <4>1, <5>1, <5>2
      <4>2. CASE n # m
        <5>1. n \in 0 .. m - 1 /\ (n # 0 => n - 1 \in 0 .. m /\ n - 1 # m)
          BY <3>1, <4>2
        <5>2. n # 0 => f[n - 1] = g[n - 1]
          BY <5>1
        <5>3. f[n] = g[n]
          BY <4>2
        <5> HIDE DEF f
        <5> QED BY <3>3, <5>1, <5>2, <5>3
      <4> QED BY <4>1, <4>2
    <3>5. f = h
      BY <3>4
    <3>6. Solves(f, m)
      BY <3>5
    <3> QED BY <2>2, <3>6
  <2> QED BY <2>3, <2>4
<1>5. Solves(after, k)
  BY <1>4
<1> HIDE DEF after
<1>6. after[0] = NothingCut /\ \A n \in 1 .. k : after[n] = AfterLine(p, lines, after[n - 1], n)
  <2>1. 0 \in 0 .. k /\ \A n \in 1 .. k : n \in 0 .. k /\ n # 0
    BY <1>1
  <2> QED BY <1>5, <2>1
<1> DEFINE Fits(n) == CutFits(p, lines, fence, after[n], n)
           Wrong == {n \in 0 .. k : ~Fits(n)}
<1>7. Wrong = {}
  <2> SUFFICES ASSUME Wrong # {} PROVE FALSE
    OBVIOUS
  <2>0. Wrong \in SUBSET (0 .. k)
    OBVIOUS
  <2>1. PICK n \in Wrong : \A m \in Wrong : n <= m
    <3> HIDE DEF Wrong
    <3> QED BY <1>1, <2>0, LeastOf
  <2>2. n # 0
    <3>1. NothingCut \in CutState /\ fence[0] = 0
      BY <1>2 DEF NothingCut, CutState, Fences, Opens
    <3>2. OpenAfter(lines, 0) = {} /\ HeadingSet(<< >>) = {} /\ Nested(lines, << >>)
      BY DEF OpenAfter, HeadingSet, Nested
    <3>3. << >> = [i \in 1 .. 0 - 0 |-> 0 + i] /\ 0 \in 0 .. 0 /\ \A m \in 0 + 1 .. 0 : FALSE
      OBVIOUS
    <3>4. SectionsFit(p, lines, << >>, 0)
      BY DEF SectionsFit
    <3>5. CutFits(p, lines, fence, NothingCut, 0)
      BY <3>1, <3>2, <3>3, <3>4 DEF CutFits, NothingCut
    <3> QED BY <1>6, <2>1, <3>5
  <2>3. n \in 1 .. k /\ n - 1 \in 0 .. k /\ Fits(n - 1)
    <3>1. n \in 1 .. k /\ n - 1 \in 0 .. k /\ ~(n <= n - 1)
      BY <1>1, <2>1, <2>2
    <3> QED BY <2>1, <3>1
  <2> DEFINE m == n - 1
  <2>4. m \in Nat /\ m + 1 = n /\ m + 1 \in DOMAIN lines
    BY <1>1, <2>3
  <2>5. CutFits(p, lines, fence, after[m], m) /\ after[m + 1] = AfterLine(p, lines, after[m], m + 1)
    BY <1>6, <2>3, <2>4
  <2> HIDE DEF m
  <2>6. CutFits(p, lines, fence, after[m + 1], m + 1)
    BY <1>2, <2>4, <2>5, LineFits
  <2> QED BY <2>1, <2>4, <2>6
<1>8. CutFits(p, lines, fence, after[k], k)
  BY <1>1, <1>7
<1>9. SectionsFit(p, lines, Flushed(p, lines, after[k].headings, after[k].body, after[k].sections), k)
  <2>1. k \in Nat /\ k <= Len(lines)
    BY <1>1 DEF k
  <2> QED BY <1>8, <2>1, FlushFits
<1>10. after[k] \in CutState
  BY <1>8 DEF CutFits
<1>11. FlushSection(p, lines, after[k]).sections = Flushed(p, lines, after[k].headings, after[k].body, after[k].sections)
  <2> DEFINE cut == after[k]
             list == Flushed(p, lines, cut.headings, cut.body, cut.sections)
  <2>1. FlushSection(p, lines, cut) = [cut EXCEPT !.body = << >>, !.sections = list]
    BY <1>10, FlushIs
  <2> HIDE DEF list
  <2>2. FlushSection(p, lines, cut).sections = list
    BY <1>10, <2>1 DEF CutState
  <2> QED BY <2>2 DEF list
<1> QED BY <1>3, <1>9, <1>11 DEF k

\* So they do for plain text, which is one section.
LEMMA SectionsOfFit ==
  ASSUME sourceType \in {"TEXT", "MARKDOWN"}, NEW p \in Nat, NEW lines \in Seq(Lines)
  PROVE  SectionsFit(p, lines, SectionsOf(p, lines), Len(lines))
<1>1. CASE sourceType = "MARKDOWN"
  BY <1>1, SplitFits DEF SectionsOf
<1>2. CASE sourceType = "TEXT"
  <2> DEFINE k == Len(lines)
             body == [n \in DOMAIN lines |-> n]
             whole == [i \in 1 .. k - 0 |-> 0 + i]
             cut == [NothingCut EXCEPT !.body = body]
             list == Flushed(p, lines, << >>, body, << >>)
  <2>1. k \in Nat /\ DOMAIN lines = 1 .. k /\ 0 \in Nat /\ 0 <= k
    OBVIOUS
  <2>2. body = whole
    <3> HIDE DEF k
    <3> QED BY <2>1
  <2>3. \A m \in 0 + 1 .. k : ~IsHeading(lines, m) /\ HeadingSet(<< >>) = HeadingsOver(lines, m)
    BY <1>2 DEF IsHeading, HeadingsOver, HeadingSet
  <2>4. SectionsFit(p, lines, << >>, 0) /\ << >> \in Seq(Nat)
    BY DEF SectionsFit
  <2>5. SectionsFit(p, lines, Flushed(p, lines, << >>, whole, << >>), k)
    <3>1. k <= Len(lines)
      BY <2>1
    <3> HIDE DEF k
    <3> QED BY <2>1, <2>3, <2>4, <3>1, FlushKeeps
  <2>6. body \in Seq(Nat)
    <3>1. body \in [1 .. k -> Nat]
      BY <2>1
    <3> HIDE DEF k, body
    <3> QED BY <2>1, <3>1
  <2> HIDE DEF body
  <2>7. cut \in CutState /\ cut.headings = << >> /\ cut.body = body /\ cut.sections = << >>
    <3>1. NothingCut \in CutState /\ NothingCut.headings = << >> /\ NothingCut.sections = << >>
      BY DEF NothingCut, CutState, Fences
    <3> QED BY <2>6, <3>1 DEF CutState
  <2> HIDE DEF cut
  <2>11. FlushSection(p, lines, cut) =
           [cut EXCEPT !.body = << >>, !.sections = Flushed(p, lines, cut.headings, cut.body, cut.sections)]
    BY <2>7, FlushIs
  <2>12. list = Flushed(p, lines, cut.headings, cut.body, cut.sections)
    BY <2>7
  <2> HIDE DEF list
  <2>8. FlushSection(p, lines, cut) = [cut EXCEPT !.body = << >>, !.sections = list]
    BY <2>11, <2>12
  <2>9. FlushSection(p, lines, cut).sections = list
    BY <2>7, <2>8 DEF CutState
  <2>10. SectionsOf(p, lines) = FlushSection(p, lines, cut).sections
    BY <1>2 DEF SectionsOf, cut, body
  <2> QED BY <2>2, <2>5, <2>9, <2>10 DEF list
<1> QED BY <1>1, <1>2

-----------------------------------------------------------------------------
(* Where a piece ends and the next one starts.                             *)

\* A piece is not empty and no longer than the maximum.
LEMMA PieceEndIs ==
  ASSUME NEW characters \in Seq(Character), NEW from \in Nat, from < Len(characters)
  PROVE  LET end == PieceEnd(characters, from)
         IN end \in from + 1 .. Len(characters) /\ end <= from + Maximum
<1> DEFINE k == Len(characters)
           ideal == Min({from + Maximum, k})
           end == PieceEnd(characters, from)
<1>1. k \in Nat /\ Maximum \in Nat \ {0}
  BY ChunkingAssumption DEF ChunkingAssumption
<1>2. ideal \in {from + Maximum, k} /\ ideal <= from + Maximum /\ ideal <= k
  <2> DEFINE S == {from + Maximum, k}
  <2>1. S \in SUBSET (0 .. from + Maximum + k) /\ S # {} /\ from + Maximum + k \in Nat
    BY <1>1
  <2> HIDE DEF S
  <2>2. Min(S) \in S /\ \A m \in S : Min(S) <= m
    BY <2>1, MinOf
  <2> QED BY <2>2 DEF S
<1> HIDE DEF ideal, k
<1>3. ideal \in from + 1 .. k
  BY <1>1, <1>2 DEF k
<1>4. end = IF ideal = k THEN ideal ELSE FindPreferredEnd(characters, from, ideal)
  BY DEF PieceEnd, ideal, k
<1>5. FindPreferredEnd(characters, from, ideal) \in from + 1 .. ideal
  <2> DEFINE least == Max({from + 1, from + ((ideal - from) * 7) \div 10})
             ends == least .. ideal
             Worth(e) == BoundaryRank(Class(characters, e), Class(characters, e - 1))
             best == CHOOSE e \in ends : \A x \in ends : Worth(e) < Worth(x) \/ (Worth(e) = Worth(x) /\ e >= x)
  <2>1. least \in from + 1 .. ideal
    <3> DEFINE other == from + ((ideal - from) * 7) \div 10
    <3>1. other \in 0 .. ideal
      BY <1>3
    <3> HIDE DEF other
    <3> DEFINE S == {from + 1, other}
    <3>2. S \in SUBSET (0 .. ideal) /\ S # {} /\ ideal \in Nat
      BY <1>1, <1>3, <3>1
    <3> HIDE DEF S
    <3>3. Max(S) \in S /\ \A m \in S : m <= Max(S)
      BY <3>2, MaxOf
    <3>4. Max(S) \in 0 .. ideal /\ from + 1 <= Max(S)
      BY <3>2, <3>3 DEF S
    <3> QED BY <1>1, <1>3, <3>4 DEF S, other
  <2> HIDE DEF least
  <2>2. \A e \in ends : Worth(e) \in 1 .. 5
    BY DEF BoundaryRank
  <2> HIDE DEF Worth
  <2>3. \E e \in ends : \A x \in ends : Worth(e) < Worth(x) \/ (Worth(e) = Worth(x) /\ e >= x)
    <3> DEFINE ranks == {Worth(e) : e \in ends}
    <3>1. ranks \in SUBSET (0 .. 5) /\ ranks # {} /\ ends \in SUBSET (0 .. ideal) /\ ideal \in Nat
      BY <1>1, <1>3, <2>1, <2>2
    <3> HIDE DEF ends
    <3>2. PICK r \in ranks : \A q \in ranks : r <= q
      <4>1. 5 \in Nat
        OBVIOUS
      <4> HIDE DEF ranks
      <4> QED BY <3>1, <4>1, LeastOf
    <3> DEFINE T == {e \in ends : Worth(e) = r}
    <3>3. T \in SUBSET (0 .. ideal) /\ T # {}
      BY <3>1, <3>2
    <3>4. PICK e \in T : \A x \in T : x <= e
      <4> HIDE DEF T
      <4> QED BY <3>1, <3>3, GreatestOf
    <3>5. ASSUME NEW x \in ends PROVE Worth(e) < Worth(x) \/ (Worth(e) = Worth(x) /\ e >= x)
      <4>1. Worth(e) = r /\ Worth(x) \in ranks /\ r \in 0 .. 5 /\ Worth(x) \in 0 .. 5 /\ r <= Worth(x)
        BY <3>1, <3>2
      <4>2. Worth(x) = r => x <= e
        BY <3>4
      <4>3. x \in 0 .. ideal /\ e \in 0 .. ideal
        BY <3>1
      <4> HIDE DEF T, ranks
      <4> QED BY <4>1, <4>2, <4>3
    <3> QED BY <3>5
  <2>4. best \in ends
    BY <2>3
  <2>5. FindPreferredEnd(characters, from, ideal) = best
    BY DEF FindPreferredEnd, Worth, ends, least
  <2> HIDE DEF best
  <2> QED BY <1>1, <1>3, <2>1, <2>4, <2>5
<1> QED BY <1>1, <1>2, <1>3, <1>4, <1>5 DEF k

\* The next piece starts after the last one did and not after its end, and
\* goes back no further than the overlap.
LEMMA NextStartIs ==
  ASSUME NEW characters \in Seq(Character), NEW from \in Nat, NEW end \in Nat, from < end
  PROVE  LET next == NextStart(characters, from, end)
         IN next \in from + 1 .. end /\ end <= next + Overlap
<1> DEFINE desired == Max({from + 1, end - Overlap})
           aligned == AlignOverlapStart(characters, desired, end)
<1>1. Overlap \in Nat
  BY ChunkingAssumption DEF ChunkingAssumption
<1>2. desired \in from + 1 .. end /\ end <= desired + Overlap
  <2> DEFINE S == {from + 1, end - Overlap}
  <2>1. \E x \in S : \A y \in S : x >= y
    BY <1>1
  <2> DEFINE top == CHOOSE x \in S : \A y \in S : x >= y
  <2>2. top \in S /\ \A y \in S : top >= y
    BY <2>1
  <2>3. desired = top
    BY DEF Max
  <2> HIDE DEF top, desired
  <2> QED BY <1>1, <2>2, <2>3
<1> HIDE DEF desired
<1>3. aligned \in desired .. end
  <2> DEFINE latest == Min({end - 1, desired + Max({4, Overlap \div 4})})
             starts == desired .. latest
             Worth(c) == BoundaryRank(Class(characters, c), Class(characters, c + 1))
             best == CHOOSE s \in starts : \A c \in starts : Worth(s) < Worth(c) \/ (Worth(s) = Worth(c) /\ s <= c)
  <2>1. aligned = IF Overlap = 0 THEN end
                  ELSE IF \A c \in starts : Worth(c) = 5 THEN desired ELSE SkipWhitespace(characters, best, end)
    BY DEF AlignOverlapStart
  <2>2. latest \in Int /\ latest <= end - 1
    <3> DEFINE far == desired + Max({4, Overlap \div 4})
    <3>1. far \in Int
      <4> DEFINE S == {4, Overlap \div 4}
      <4>1. \E x \in S : \A y \in S : x >= y
        BY <1>1
      <4> DEFINE top == CHOOSE x \in S : \A y \in S : x >= y
      <4>2. top \in S
        BY <4>1
      <4>3. far = desired + top
        BY DEF Max
      <4> HIDE DEF top, far
      <4> QED BY <1>1, <1>2, <4>2, <4>3
    <3> HIDE DEF far
    <3> DEFINE S == {end - 1, far}
    <3>2. \E x \in S : \A y \in S : x =< y
      BY <3>1
    <3> DEFINE least == CHOOSE x \in S : \A y \in S : x =< y
    <3>3. least \in S /\ \A y \in S : least =< y
      BY <3>2
    <3>4. latest = least
      BY DEF Min, far
    <3> HIDE DEF least, latest
    <3> QED BY <3>1, <3>3, <3>4
  <2> HIDE DEF latest
  <2>3. \A c \in starts : Worth(c) \in 1 .. 5
    BY DEF BoundaryRank
  <2> HIDE DEF Worth
  <2>4. ASSUME starts # {} PROVE best \in starts
    <3> DEFINE ranks == {Worth(c) : c \in starts}
    <3>1. ranks \in SUBSET (0 .. 5) /\ ranks # {} /\ starts \in SUBSET (0 .. end) /\ end \in Nat
      BY <1>2, <2>2, <2>3, <2>4
    <3> HIDE DEF starts
    <3>2. PICK r \in ranks : \A q \in ranks : r <= q
      <4>1. 5 \in Nat
        OBVIOUS
      <4> HIDE DEF ranks
      <4> QED BY <3>1, <4>1, LeastOf
    <3> DEFINE T == {c \in starts : Worth(c) = r}
    <3>3. T \in SUBSET (0 .. end) /\ T # {}
      BY <3>1, <3>2
    <3>4. PICK s \in T : \A x \in T : s <= x
      <4> HIDE DEF T
      <4> QED BY <3>1, <3>3, LeastOf
    <3>5. ASSUME NEW c \in starts PROVE Worth(s) < Worth(c) \/ (Worth(s) = Worth(c) /\ s <= c)
      <4>1. Worth(s) = r /\ Worth(c) \in ranks /\ r \in 0 .. 5 /\ Worth(c) \in 0 .. 5 /\ r <= Worth(c)
        BY <3>1, <3>2
      <4>2. Worth(c) = r => s <= c
        BY <3>4
      <4> HIDE DEF T, ranks
      <4> QED BY <4>1, <4>2
    <3> QED BY <3>5
  <2> HIDE DEF best
  <2>5. ASSUME NEW c \in starts PROVE SkipWhitespace(characters, c, end) \in c .. end
    <3> DEFINE solid == {i \in c .. end - 1 : ~Blank(characters[i + 1])}
    <3>1. c \in Nat /\ c <= end
      BY <1>2, <2>2
    <3>2. SkipWhitespace(characters, c, end) = IF solid = {} THEN c ELSE Min(solid)
      BY DEF SkipWhitespace
    <3>3. solid \in SUBSET (0 .. end)
      BY <3>1
    <3>4. ASSUME solid # {} PROVE Min(solid) \in c .. end
      <4>1. \A i \in solid : i \in c .. end
        BY <3>1
      <4> HIDE DEF solid
      <4>2. Min(solid) \in solid
        BY <3>3, <3>4, MinOf
      <4> QED BY <4>1, <4>2
    <3> HIDE DEF solid
    <3> QED BY <3>1, <3>2, <3>4
  <2>6. CASE Overlap = 0 \/ \A c \in starts : Worth(c) = 5
    BY <1>2, <2>1, <2>6
  <2>7. CASE ~(Overlap = 0 \/ \A c \in starts : Worth(c) = 5)
    <3>1. best \in starts
      BY <2>4, <2>7
    <3>2. aligned = SkipWhitespace(characters, best, end) /\ aligned \in best .. end
      BY <2>1, <2>5, <2>7, <3>1
    <3> QED BY <1>2, <2>2, <3>1, <3>2
  <2> QED BY <2>6, <2>7
<1>4. NextStart(characters, from, end) = IF aligned > from THEN aligned ELSE Min({end, from + 1})
  BY DEF NextStart, desired
<1> HIDE DEF aligned
<1>5. aligned > from
  BY <1>2, <1>3
<1> QED BY <1>1, <1>2, <1>3, <1>4, <1>5

-----------------------------------------------------------------------------
(* The invariant of the cutting.                                           *)

Chunk == [page : Nat, headings : Seq(Nat), characters : SUBSET Character]
Page == [number : Nat, lines : Seq(Lines)]

ChunkTypes ==
  /\ sourceType \in {"TEXT", "MARKDOWN"} /\ pages \in Seq(Page)
  /\ page \in Nat /\ sections \in Seq(Section) /\ section \in 0 .. Len(sections) /\ start \in Nat
  /\ chunks \in Seq(Chunk)

\* Where the cutting stands.
Cutting ==
  /\ page = 0 => sections = << >>
  /\ page \in DOMAIN pages => SectionsFit(page, pages[page].lines, sections, Len(pages[page].lines))
  /\ PageDone => start = 0
  /\ ~PageDone => page \in DOMAIN pages /\ start < Len(sections[section + 1].characters)
  /\ Failed => chunks = << >>

\* A character may be in a chunk of this page under these headings.
Belongs(c, p, headings) ==
  /\ p \in DOMAIN pages /\ p = c.at[1] /\ c.at[2] \in DOMAIN pages[p].lines
  /\ ~IsHeading(pages[p].lines, c.at[2]) /\ HeadingSet(headings) = HeadingsOver(pages[p].lines, c.at[2])

ChunksBelong ==
  \A k \in DOMAIN chunks : \A c \in chunks[k].characters :
    chunks[k].page <= page /\ Belongs(c, chunks[k].page, chunks[k].headings)

\* What is in a chunk has been cut, but for the overlap.
CutBehind ==
  \A k \in DOMAIN chunks : \A s \in section + 1 .. Len(sections) : \A i \in DOMAIN sections[s].characters :
    ~Failed /\ sections[s].characters[i] \in chunks[k].characters => s = section + 1 /\ i <= start + Overlap

PageCovered(p) ==
  \A n \in DOMAIN pages[p].lines : IsHeading(pages[p].lines, n) \/
    \A i \in DOMAIN pages[p].lines[n].text :
      \/ pages[p].lines[n].text[i] = "space"
      \/ \E k \in DOMAIN chunks : [at |-> <<p, n, i>>, class |-> pages[p].lines[n].text[i]] \in chunks[k].characters

PagesCovered == ~Failed => \A p \in 1 .. page - 1 : PageCovered(p)

ChunksFit ==
  \A k \in DOMAIN chunks :
       /\ IsFiniteSet(chunks[k].characters) /\ Cardinality(chunks[k].characters) <= Maximum
       /\ \A j \in 1 .. k - 1 : Cardinality(chunks[k].characters \cap chunks[j].characters) <= Overlap

ChunkInv == ChunkTypes /\ Cutting /\ ChunksBelong /\ CutBehind /\ SectionsCovered /\ PagesCovered /\ ChunksFit

\* Characters of an interval are no more than it is long.
LEMMA ImageSize ==
  ASSUME NEW f, NEW a \in Nat, NEW b \in Nat, a <= b,
         NEW T, T \subseteq {f[i] : i \in a + 1 .. b}
  PROVE  IsFiniteSet(T) /\ Cardinality(T) <= b - a
<1> DEFINE S == a + 1 .. b
           image == {f[i] : i \in S}
           g == [i \in S |-> f[i]]
<1>1. IsFiniteSet(S) /\ Cardinality(S) = b - a
  <2>1. a + 1 \in Int /\ b \in Int
    OBVIOUS
  <2>2. IsFiniteSet(S) /\ Cardinality(S) = IF a + 1 > b THEN 0 ELSE b - (a + 1) + 1
    BY <2>1, FS_Interval
  <2> HIDE DEF S
  <2> QED BY <2>2
<1> HIDE DEF S
<1>2. g \in Surjection(S, image)
  BY DEF Surjection
<1>3. IsFiniteSet(image) /\ Cardinality(image) <= Cardinality(S)
  <2> HIDE DEF g, image
  <2> QED BY <1>1, <1>2, FS_Surjection
<1>4. T \in SUBSET image
  BY DEF S
<1> HIDE DEF image
<1>5. IsFiniteSet(T) /\ Cardinality(T) <= Cardinality(image)
  BY <1>3, <1>4, FS_Subset
<1>6. Cardinality(T) \in Nat /\ Cardinality(image) \in Nat
  BY <1>3, <1>5, FS_CardinalityType
<1> QED BY <1>1, <1>3, <1>5, <1>6

\* What CutPiece adds: some of the characters up to the end, and every
\* visible one of these.
PieceOf(characters, from, end, piece) ==
  /\ piece \subseteq {characters[i] : i \in from + 1 .. end}
  /\ \A i \in from + 1 .. end : Blank(characters[i]) \/ characters[i] \in piece

LEMMA PieceIs ==
  ASSUME NEW characters, NEW from \in Nat, NEW end \in Nat,
         NEW v \in from + 1 .. end, ~Blank(characters[v])
  PROVE  PieceOf(characters, from, end, {characters[i] : i \in TrimBlankLines(characters, from, end)})
<1>1. PICK first, last \in from + 1 .. end :
           /\ TrimBlankLines(characters, from, end) = first .. last
           /\ \A i \in from + 1 .. end : Blank(characters[i]) \/ i \in first .. last
  BY TrimKeeps
<1>2. first .. last \subseteq from + 1 .. end
  OBVIOUS
<1> QED BY <1>1, <1>2 DEF PieceOf

\* A chunk is added to the others.
ChunkAdded(headings, piece) ==
  chunks' = Append(chunks, [page |-> page, headings |-> headings, characters |-> piece])

\* The document does not change while it is cut.
LEMMA SameDocument ==
  ASSUME UNCHANGED documentVars
  PROVE  /\ \A lines, n : IsHeading(lines, n)' = IsHeading(lines, n)
         /\ \A lines, n : HeadingsOver(lines, n)' = HeadingsOver(lines, n)
         /\ \A p, lines, list, b : SectionsFit(p, lines, list, b)' = SectionsFit(p, lines, list, b)
<1>1. sourceType' = sourceType
  BY DEF documentVars
<1>2. \A lines, n : IsHeading(lines, n)' = IsHeading(lines, n)
  BY <1>1 DEF IsHeading
<1>3. \A lines, n : HeadingsOver(lines, n)' = HeadingsOver(lines, n)
  BY <1>1 DEF HeadingsOver, IsHeading
<1>4. \A p, lines, list, b : SectionsFit(p, lines, list, b)' = SectionsFit(p, lines, list, b)
  BY <1>1 DEF SectionsFit, HeadingsOver, IsHeading
<1> QED BY <1>2, <1>3, <1>4

LEMMA SameSections ==
  ASSUME UNCHANGED documentVars, UNCHANGED <<page, sections>>
  PROVE  SectionsFit(page, pages[page].lines, sections, Len(pages[page].lines))'
           = SectionsFit(page, pages[page].lines, sections, Len(pages[page].lines))
BY DEF documentVars, SectionsFit, HeadingsOver, IsHeading

LEMMA SameBelonging ==
  ASSUME UNCHANGED documentVars
  PROVE  \A c, p, headings : Belongs(c, p, headings)' = Belongs(c, p, headings)
BY DEF documentVars, Belongs, HeadingsOver, IsHeading

\* CutPiece, of these characters up to `end`.
Cut(characters, headings, end, piece) ==
  /\ section + 1 \in DOMAIN sections /\ sections[section + 1] \in Section /\ page \in DOMAIN pages
  /\ characters = sections[section + 1].characters /\ headings = sections[section + 1].headings
  /\ end \in start + 1 .. Len(characters) /\ end <= start + Maximum
  /\ \/ chunks' = chunks /\ \A i \in start + 1 .. end : Blank(characters[i])
     \/ ChunkAdded(headings, piece) /\ PieceOf(characters, start, end, piece)
  /\ \/ end = Len(characters) /\ section' = section + 1 /\ start' = 0
     \/ section' = section /\ start' \in start + 1 .. end /\ end <= start' + Overlap /\ end < Len(characters)
  /\ UNCHANGED documentVars /\ UNCHANGED <<page, sections>>

\* Two facts about numbers.
LEMMA OneMore ==
  ASSUME NEW n \in Nat, NEW m \in 0 .. n, m # n
  PROVE  m + 1 \in 1 .. n
OBVIOUS

\* A round of splitSectionContent cuts a piece that is not empty, and goes on
\* within it or in the next section.
LEMMA PieceIsCut ==
  ASSUME ChunkInv, CutPiece
  PROVE  \E characters, headings, end, piece : Cut(characters, headings, end, piece)
<1> DEFINE present == sections[section + 1]
           end == PieceEnd(present.characters, start)
           piece == {present.characters[i] : i \in TrimBlankLines(present.characters, start, end)}
<1>1. /\ ~PageDone /\ page \in DOMAIN pages /\ start < Len(present.characters) /\ start \in Nat
      /\ section \in 0 .. Len(sections) /\ sections \in Seq(Section)
  BY DEF CutPiece, ChunkInv, ChunkTypes, Cutting
<1>2. section + 1 \in DOMAIN sections
  <2>1. Len(sections) \in Nat /\ DOMAIN sections = 1 .. Len(sections)
    BY <1>1
  <2>2. section # Len(sections)
    BY <1>1 DEF PageDone
  <2>3. section + 1 \in 1 .. Len(sections)
    BY <1>1, <2>1, <2>2, OneMore
  <2> QED BY <2>1, <2>3
<1>3. present \in Section
  BY <1>1, <1>2
<1>4. present.characters \in Seq(Character) /\ Len(present.characters) \in Nat
  BY <1>3 DEF Section
<1>5. end \in start + 1 .. Len(present.characters) /\ end <= start + Maximum
  <2> HIDE DEF present
  <2> QED BY <1>1, <1>4, PieceEndIs
<1>6. end \in Nat /\ start < end
  BY <1>1, <1>5
<1>7. /\ chunks' = IF \A i \in start + 1 .. end : Blank(present.characters[i]) THEN chunks
                   ELSE Append(chunks, [page |-> page, headings |-> present.headings, characters |-> piece])
      /\ IF end >= Len(present.characters)
         THEN section' = section + 1 /\ start' = 0
         ELSE start' = NextStart(present.characters, start, end) /\ UNCHANGED section
      /\ UNCHANGED documentVars /\ UNCHANGED <<page, sections>>
  BY DEF CutPiece
<1>8. NextStart(present.characters, start, end) \in start + 1 .. end
      /\ end <= NextStart(present.characters, start, end) + Overlap
  <2> HIDE DEF present, end
  <2> QED BY <1>1, <1>4, <1>6, NextStartIs
<1> HIDE DEF end
<1>9. \/ chunks' = chunks /\ \A i \in start + 1 .. end : Blank(present.characters[i])
      \/ ChunkAdded(present.headings, piece) /\ PieceOf(present.characters, start, end, piece)
  <2>1. CASE \A i \in start + 1 .. end : Blank(present.characters[i])
    BY <1>7, <2>1
  <2>2. CASE ~\A i \in start + 1 .. end : Blank(present.characters[i])
    <3>1. PICK v \in start + 1 .. end : ~Blank(present.characters[v])
      BY <2>2
    <3>2. PieceOf(present.characters, start, end, piece)
      <4> HIDE DEF present
      <4> QED BY <1>1, <1>6, <3>1, PieceIs
    <3>3. ChunkAdded(present.headings, piece)
      BY <1>7, <2>2 DEF ChunkAdded
    <3> QED BY <3>2, <3>3
  <2> QED BY <2>1, <2>2
<1>10. \/ end = Len(present.characters) /\ section' = section + 1 /\ start' = 0
       \/ /\ section' = section /\ start' \in start + 1 .. end /\ end <= start' + Overlap
          /\ end < Len(present.characters)
  <2>1. CASE end >= Len(present.characters)
    BY <1>4, <1>5, <1>7, <2>1
  <2>2. CASE ~(end >= Len(present.characters))
    <3>1. end < Len(present.characters)
      BY <1>4, <1>6, <2>2
    <3> QED BY <1>7, <1>8, <2>2, <3>1
  <2> QED BY <2>1, <2>2
<1> HIDE DEF piece
<1>11. Cut(present.characters, present.headings, end, piece)
  BY <1>1, <1>2, <1>3, <1>5, <1>7, <1>9, <1>10 DEF Cut
<1> QED BY <1>11

\* Every chunk stays as it is; a new one comes last.
LEMMA ChunksAfter ==
  ASSUME ChunkTypes, NEW characters, NEW headings, NEW end, NEW piece, Cut(characters, headings, end, piece)
  PROVE  /\ chunks' \in Seq(Chunk) /\ \A k \in DOMAIN chunks : k \in DOMAIN chunks' /\ chunks'[k] = chunks[k]
         /\ \A k \in DOMAIN chunks' : \/ k \in DOMAIN chunks
              \/ /\ ChunkAdded(headings, piece) /\ PieceOf(characters, start, end, piece)
                 /\ chunks'[k] = [page |-> page, headings |-> headings, characters |-> piece]
                 /\ k = Len(chunks) + 1
<1> DEFINE chunk == [page |-> page, headings |-> headings, characters |-> piece]
<1>1. chunks \in Seq(Chunk) /\ page \in Nat /\ start \in Nat
  BY DEF ChunkTypes
<1>2. CASE chunks' = chunks
  BY <1>1, <1>2
<1>3. CASE ChunkAdded(headings, piece) /\ PieceOf(characters, start, end, piece)
  <2>1. headings \in Seq(Nat) /\ characters \in Seq(Character)
    BY DEF Cut, Section
  <2>2. piece \subseteq Character
    <3>1. \A i \in start + 1 .. end : i \in DOMAIN characters
      BY <1>1, <2>1 DEF Cut
    <3>2. piece \subseteq {characters[i] : i \in start + 1 .. end}
      BY <1>3 DEF PieceOf
    <3> QED BY <2>1, <3>1, <3>2
  <2>3. chunk \in Chunk
    BY <1>1, <2>1, <2>2 DEF Chunk
  <2>4. chunks' = Append(chunks, chunk)
    BY <1>3 DEF ChunkAdded
  <2> HIDE DEF chunk
  <2>5. /\ chunks' \in Seq(Chunk) /\ DOMAIN chunks = 1 .. Len(chunks) /\ Len(chunks) \in Nat
        /\ DOMAIN chunks' = 1 .. Len(chunks) + 1 /\ chunks'[Len(chunks) + 1] = chunk
        /\ \A k \in 1 .. Len(chunks) : chunks'[k] = chunks[k]
    BY <1>1, <2>3, <2>4
  <2>6. \A k \in DOMAIN chunks' : k \in DOMAIN chunks \/ k = Len(chunks) + 1
    BY <2>5
  <2>7. \A k \in DOMAIN chunks : k \in DOMAIN chunks'
    BY <2>5
  <2> QED BY <1>3, <2>5, <2>6, <2>7 DEF chunk
<1> QED BY <1>2, <1>3 DEF Cut

\* How far the cutting stands after a piece.
LEMMA CutKeepsCutting ==
  ASSUME ChunkInv, NEW characters, NEW headings, NEW end, NEW piece, Cut(characters, headings, end, piece)
  PROVE  ChunkTypes' /\ Cutting'
<1>1. /\ sections \in Seq(Section) /\ section \in 0 .. Len(sections) /\ start \in Nat /\ page \in Nat
      /\ Len(sections) \in Nat /\ DOMAIN sections = 1 .. Len(sections)
  BY DEF ChunkInv, ChunkTypes
<1>2. section + 1 \in DOMAIN sections /\ characters = sections[section + 1].characters /\ page \in DOMAIN pages
      /\ characters \in Seq(Character)
  BY DEF Cut, Section
<1>3. UNCHANGED documentVars /\ page' = page /\ sections' = sections /\ sourceType' = sourceType /\ pages' = pages
  BY DEF Cut, documentVars
<1>4. Len(characters) \in Nat /\ end \in start + 1 .. Len(characters)
  BY <1>2 DEF Cut
<1>5. section' \in 0 .. Len(sections) /\ start' \in Nat
  BY <1>1, <1>2, <1>4 DEF Cut
<1>6. ChunkTypes'
  <2>1. ChunkTypes /\ chunks' \in Seq(Chunk)
    BY ChunksAfter DEF ChunkInv
  <2> QED BY <1>3, <1>5, <2>1 DEF ChunkTypes
<1>7. SectionsFit(page, pages[page].lines, sections, Len(pages[page].lines))
  BY <1>2 DEF ChunkInv, Cutting
<1>8. SectionsFit(page, pages[page].lines, sections, Len(pages[page].lines))'
  BY <1>3, <1>7, SameSections DEF Cut
<1>9. pages \in Seq(Page) /\ Len(pages) \in Nat /\ DOMAIN pages = 1 .. Len(pages)
  BY DEF ChunkInv, ChunkTypes
<1>10. ~Failed' /\ page' # 0
  BY <1>1, <1>2, <1>3, <1>9 DEF Failed
<1>11. PageDone' => start' = 0
  <2>1. CASE section' = section + 1 /\ start' = 0
    BY <2>1
  <2>2. CASE section' = section
    BY <1>1, <1>2, <1>3, <2>2 DEF PageDone
  <2> QED BY <2>1, <2>2 DEF Cut
<1>12. ~PageDone' => start' < Len(sections[section' + 1].characters)
  <2>1. CASE section' = section + 1 /\ start' = 0
    <3>1. ASSUME ~PageDone' PROVE section + 2 \in DOMAIN sections
      <4>1. section + 1 # Len(sections)
        <5>1. section' # Len(sections')
          BY <3>1 DEF PageDone
        <5> QED BY <1>3, <2>1, <5>1
      <4>2. section + 1 \in 0 .. Len(sections)
        <5>1. section + 1 \in 1 .. Len(sections)
          BY <1>1, <1>2
        <5> QED BY <5>1
      <4>3. (section + 1) + 1 \in 1 .. Len(sections)
        BY <1>1, <4>1, <4>2, OneMore
      <4>4. (section + 1) + 1 = section + 2
        BY <1>1
      <4> QED BY <1>1, <4>3, <4>4
    <3>2. ASSUME section + 2 \in DOMAIN sections PROVE 0 < Len(sections[section + 2].characters)
      <4> DEFINE other == sections[section + 2].characters
      <4>1. sections[section + 2] \in Section
        BY <1>1, <3>2
      <4>2. other \in Seq(Character) /\ other # << >>
        BY <1>7, <3>2, <4>1 DEF SectionsFit, Section
      <4> HIDE DEF other
      <4>3. 0 < Len(other)
        BY <4>2
      <4> QED BY <4>3 DEF other
    <3>3. section' + 1 = section + 2
      BY <1>1, <2>1
    <3> QED BY <2>1, <3>1, <3>2, <3>3
  <2>2. CASE section' = section /\ start' \in start + 1 .. end /\ end < Len(characters)
    <3>1. start' < Len(characters)
      BY <1>1, <1>4, <2>2
    <3> QED BY <1>2, <2>2, <3>1
  <2> QED BY <2>1, <2>2 DEF Cut
<1>13. Cutting'
  BY <1>2, <1>3, <1>8, <1>10, <1>11, <1>12 DEF Cutting
<1> QED BY <1>6, <1>13

\* What is known of the piece that is cut.
LEMMA CutIs ==
  ASSUME ChunkInv, NEW characters, NEW headings, NEW end, NEW piece, Cut(characters, headings, end, piece)
  PROVE  /\ sections \in Seq(Section) /\ section \in Nat /\ start \in Nat /\ page \in Nat /\ ~Failed
         /\ section + 1 \in DOMAIN sections /\ DOMAIN sections = 1 .. Len(sections) /\ Len(sections) \in Nat
         /\ characters \in Seq(Character) /\ Len(characters) \in Nat
         /\ DOMAIN characters = 1 .. Len(characters) /\ end \in start + 1 .. Len(characters)
         /\ page \in DOMAIN pages /\ SectionsFit(page, pages[page].lines, sections, Len(pages[page].lines))
         /\ Failed' = Failed
<1>1. /\ sections \in Seq(Section) /\ section \in 0 .. Len(sections) /\ start \in Nat /\ page \in Nat
      /\ Len(sections) \in Nat /\ DOMAIN sections = 1 .. Len(sections)
      /\ pages \in Seq(Page) /\ Len(pages) \in Nat /\ DOMAIN pages = 1 .. Len(pages)
  BY DEF ChunkInv, ChunkTypes
<1>2. section + 1 \in DOMAIN sections /\ characters \in Seq(Character) /\ page \in DOMAIN pages
  BY DEF Cut, Section
<1>3. SectionsFit(page, pages[page].lines, sections, Len(pages[page].lines))
  BY <1>2 DEF ChunkInv, Cutting
<1>4. Len(characters) \in Nat /\ DOMAIN characters = 1 .. Len(characters) /\ end \in start + 1 .. Len(characters)
  BY <1>2 DEF Cut
<1>5. ~Failed /\ Failed' = Failed
  BY <1>1, <1>2 DEF Failed, Cut, documentVars
<1> QED BY <1>1, <1>2, <1>3, <1>4, <1>5

\* What a piece holds is of its page and under its headings.
LEMMA CutKeepsBelonging ==
  ASSUME ChunkInv, NEW characters, NEW headings, NEW end, NEW piece, Cut(characters, headings, end, piece)
  PROVE  ChunksBelong'
<1>1. UNCHANGED documentVars /\ page' = page
  BY DEF Cut
<1>2. ASSUME NEW k \in DOMAIN chunks', NEW c \in chunks'[k].characters
      PROVE  chunks'[k].page <= page /\ Belongs(c, chunks'[k].page, chunks'[k].headings)
  <2>1. CASE k \in DOMAIN chunks
    <3>1. chunks'[k] = chunks[k]
      BY <2>1, ChunksAfter DEF ChunkInv
    <3> QED BY <1>2, <2>1, <3>1 DEF ChunkInv, ChunksBelong
  <2>2. CASE /\ PieceOf(characters, start, end, piece)
             /\ chunks'[k] = [page |-> page, headings |-> headings, characters |-> piece]
    <3>1. PICK i \in start + 1 .. end : c = characters[i]
      BY <1>2, <2>2 DEF PieceOf
    <3>2. i \in DOMAIN characters
      BY CutIs
    <3>3. /\ characters = sections[section + 1].characters /\ headings = sections[section + 1].headings
          /\ section + 1 \in DOMAIN sections
      BY DEF Cut
    <3>4. /\ c.at[1] = page /\ c.at[2] \in 1 .. Len(pages[page].lines)
          /\ ~IsHeading(pages[page].lines, c.at[2])
          /\ HeadingSet(headings) = HeadingsOver(pages[page].lines, c.at[2])
      BY <3>1, <3>2, <3>3, CutIs DEF SectionsFit
    <3>5. page \in DOMAIN pages /\ page \in Nat /\ pages[page].lines \in Seq(Lines)
      <4>1. page \in DOMAIN pages /\ page \in Nat
        BY CutIs
      <4>2. pages \in Seq(Page)
        BY DEF ChunkInv, ChunkTypes
      <4>3. pages[page] \in Page
        BY <4>1, <4>2
      <4> QED BY <4>1, <4>3 DEF Page
    <3>6. DOMAIN pages[page].lines = 1 .. Len(pages[page].lines)
      BY <3>5
    <3>7. Belongs(c, page, headings)
      BY <3>4, <3>5, <3>6 DEF Belongs
    <3> QED BY <2>2, <3>5, <3>7
  <2> QED BY <2>1, <2>2, ChunksAfter DEF ChunkInv
<1>3. \A k \in DOMAIN chunks' : \A c \in chunks'[k].characters :
        chunks'[k].page <= page' /\ Belongs(c, chunks'[k].page, chunks'[k].headings)
  BY <1>1, <1>2
<1>4. \A c, p, hs : Belongs(c, p, hs)' = Belongs(c, p, hs)
  BY <1>1, SameBelonging
<1> QED BY <1>3, <1>4 DEF ChunksBelong

LEMMA Further ==
  ASSUME NEW from \in Nat, NEW to \in Nat, NEW over \in Nat, NEW n \in from + 1 .. to
  PROVE  /\ n \in Nat
         /\ \A i \in Nat : i <= from + over => i <= n + over
         /\ to <= n + over => \A i \in from + 1 .. to : i <= n + over
OBVIOUS

\* The next piece starts no further back than the overlap, so that what lies
\* ahead of it is in no chunk.
LEMMA CutKeepsBehind ==
  ASSUME ChunkInv, NEW characters, NEW headings, NEW end, NEW piece, Cut(characters, headings, end, piece)
  PROVE  CutBehind'
<1>1. /\ section \in Nat /\ start \in Nat /\ Len(sections) \in Nat /\ DOMAIN sections = 1 .. Len(sections)
      /\ ~Failed /\ end \in start + 1 .. Len(characters) /\ Len(characters) \in Nat
      /\ DOMAIN characters = 1 .. Len(characters) /\ Overlap \in Nat
  BY CutIs, ChunkingAssumption DEF ChunkingAssumption
<1>2. sections' = sections /\ characters = sections[section + 1].characters /\ section + 1 \in DOMAIN sections
  BY DEF Cut
<1>3. SectionsFit(page, pages[page].lines, sections, Len(pages[page].lines))
  BY CutIs
<1>4. \A s, t \in DOMAIN sections : \A i \in DOMAIN sections[s].characters, j \in DOMAIN sections[t].characters :
        sections[s].characters[i] = sections[t].characters[j] => s = t /\ i = j
  BY <1>3 DEF SectionsFit
<1>6. start \in Nat /\ end \in Nat /\ Overlap \in Nat
  BY <1>1
<1>5. ASSUME NEW k \in DOMAIN chunks', NEW s \in section' + 1 .. Len(sections),
             NEW i \in DOMAIN sections[s].characters, sections[s].characters[i] \in chunks'[k].characters
      PROVE  s = section' + 1 /\ i <= start' + Overlap
  <2>1. s \in section + 1 .. Len(sections) /\ s \in DOMAIN sections
    BY <1>1, <1>2 DEF Cut
  <2>2. CASE k \in DOMAIN chunks
    <3>1. chunks'[k] = chunks[k]
      BY <2>2, ChunksAfter DEF ChunkInv
    <3>2. s = section + 1 /\ i <= start + Overlap
      BY <1>1, <1>5, <2>1, <2>2, <3>1 DEF ChunkInv, CutBehind
    <3>3. CASE section' = section + 1
      BY <1>1, <1>5, <3>2, <3>3
    <3>4. CASE section' = section /\ start' \in start + 1 .. end
      <4>1. i \in 1 .. Len(characters)
        BY <1>1, <1>2, <1>5, <3>2
      <4>2. i \in Nat
        BY <4>1
      <4>3. i <= start' + Overlap
        BY <1>6, <3>2, <3>4, <4>2, Further
      <4> QED BY <3>2, <3>4, <4>3
    <3> QED BY <3>3, <3>4 DEF Cut
  <2>3. CASE PieceOf(characters, start, end, piece) /\ chunks'[k].characters = piece
    <3>1. PICK j \in start + 1 .. end : sections[s].characters[i] = characters[j]
      BY <1>5, <2>3 DEF PieceOf
    <3>2. j \in DOMAIN characters
      BY <1>1
    <3>3. s = section + 1 /\ i = j
      BY <1>2, <1>4, <1>5, <2>1, <3>1, <3>2
    <3>4. CASE section' = section + 1
      BY <1>1, <1>5, <3>3, <3>4
    <3>5. CASE section' = section /\ start' \in start + 1 .. end /\ end <= start' + Overlap
      <4>1. j <= start' + Overlap
        BY <1>6, <3>5, Further
      <4> QED BY <3>3, <3>5, <4>1
    <3> QED BY <3>4, <3>5 DEF Cut
  <2>4. k \in DOMAIN chunks \/ (PieceOf(characters, start, end, piece) /\ chunks'[k].characters = piece)
    <3>1. \/ k \in DOMAIN chunks
          \/ /\ PieceOf(characters, start, end, piece)
             /\ chunks'[k] = [page |-> page, headings |-> headings, characters |-> piece]
      BY ChunksAfter DEF ChunkInv
    <3> QED BY <3>1
  <2> QED BY <2>2, <2>3, <2>4
<1> QED BY <1>2, <1>5 DEF CutBehind

\* A character that is in a chunk stays in one of the same headings.
LEMMA CutKeepsCovered ==
  ASSUME ChunkInv, NEW characters, NEW headings, NEW end, NEW piece, Cut(characters, headings, end, piece)
  PROVE  SectionsCovered' /\ PagesCovered'
<1>1. /\ section \in Nat /\ start \in Nat /\ Len(sections) \in Nat /\ DOMAIN sections = 1 .. Len(sections)
      /\ ~Failed /\ end \in start + 1 .. Len(characters) /\ Len(characters) \in Nat
      /\ DOMAIN characters = 1 .. Len(characters) /\ Failed' = Failed
  BY CutIs
<1>2. /\ sections' = sections /\ characters = sections[section + 1].characters /\ page' = page /\ pages' = pages
      /\ headings = sections[section + 1].headings /\ sourceType' = sourceType /\ UNCHANGED documentVars
  BY DEF Cut, documentVars
<1>3. \A k \in DOMAIN chunks : k \in DOMAIN chunks' /\ chunks'[k] = chunks[k]
  BY ChunksAfter DEF ChunkInv
<1>4. ~PageDone
  <2>1. section + 1 \in 1 .. Len(sections)
    BY CutIs
  <2>2. section # Len(sections)
    <3> DEFINE n == Len(sections)
    <3> HIDE DEF n
    <3>1. section + 1 \in 1 .. n /\ section \in Nat /\ n \in Nat
      BY <1>1, <2>1 DEF n
    <3>2. section # n
      BY <3>1
    <3> QED BY <3>2 DEF n
  <2> QED BY <2>2 DEF PageDone
<1>5. ASSUME NEW i \in start + 1 .. end
      PROVE  \/ Blank(characters[i])
             \/ \E k \in DOMAIN chunks' : characters[i] \in chunks'[k].characters /\ chunks'[k].headings = headings
  <2>1. CASE \A j \in start + 1 .. end : Blank(characters[j])
    BY <2>1
  <2>2. CASE ChunkAdded(headings, piece) /\ PieceOf(characters, start, end, piece)
    <3> DEFINE chunk == [page |-> page, headings |-> headings, characters |-> piece]
    <3>1. chunks \in Seq(Chunk) /\ chunks' = Append(chunks, chunk)
      BY <2>2 DEF ChunkInv, ChunkTypes, ChunkAdded
    <3> HIDE DEF chunk
    <3>2. Len(chunks) + 1 \in DOMAIN chunks' /\ chunks'[Len(chunks) + 1] = chunk
      BY <3>1
    <3>3. chunk.headings = headings /\ chunk.characters = piece
      BY DEF chunk
    <3>4. Blank(characters[i]) \/ characters[i] \in piece
      BY <2>2 DEF PieceOf
    <3> QED BY <3>2, <3>3, <3>4
  <2> QED BY <2>1, <2>2 DEF Cut
<1> DEFINE In(s, i) ==
             \E k \in DOMAIN chunks' : s.characters[i] \in chunks'[k].characters /\ chunks'[k].headings = s.headings
           After(s, n) == \A i \in 1 .. n : Blank(s.characters[i]) \/ In(s, i)
           here == sections[section + 1]
<1>6. ASSUME NEW s, NEW n, Covered(s, n) PROVE After(s, n)
  BY <1>3, <1>6 DEF Covered
<1>7. ASSUME NEW n \in 0 .. end PROVE After(here, n)
  <2>1. Covered(here, start)
    BY <1>1, <1>4 DEF ChunkInv, SectionsCovered
  <2>2. After(here, start)
    <3> HIDE DEF After
    <3> QED BY <1>6, <2>1
  <2>3. ASSUME NEW i \in start + 1 .. end PROVE Blank(here.characters[i]) \/ In(here, i)
    BY <1>2, <1>5
  <2>4. \A i \in 1 .. n : i \in 1 .. start \/ i \in start + 1 .. end
    BY <1>1
  <2> HIDE DEF In, here
  <2> QED BY <2>2, <2>3, <2>4
<1>8. ASSUME NEW s \in 1 .. section PROVE After(sections[s], Len(sections[s].characters))
  <2>1. Covered(sections[s], Len(sections[s].characters))
    BY <1>1 DEF ChunkInv, SectionsCovered
  <2> HIDE DEF After
  <2> QED BY <1>6, <2>1
<1> HIDE DEF In, here
<1>9. /\ \A s \in 1 .. section' : After(sections[s], Len(sections[s].characters))
      /\ After(sections[section' + 1], start')
  <2>1. CASE section' = section + 1 /\ start' = 0 /\ end = Len(characters)
    <3>1. After(here, Len(here.characters))
      <4> HIDE DEF After
      <4>1. end \in 0 .. end
        BY <1>1
      <4>2. Len(here.characters) = end
        BY <1>2, <2>1 DEF here
      <4> QED BY <1>7, <4>1, <4>2
    <3>2. After(sections[section' + 1], start')
      BY <2>1
    <3>3. \A s \in 1 .. section + 1 : s \in 1 .. section \/ s = section + 1
      BY <1>1
    <3> HIDE DEF After
    <3> QED BY <1>8, <2>1, <3>1, <3>2, <3>3 DEF here
  <2>2. CASE section' = section /\ start' \in start + 1 .. end
    <3>1. start' \in 0 .. end
      BY <1>1, <2>2
    <3> HIDE DEF After
    <3> QED BY <1>7, <1>8, <2>2, <3>1 DEF here
  <2> QED BY <2>1, <2>2 DEF Cut
<1>10. SectionsCovered'
  BY <1>2, <1>9 DEF SectionsCovered, Covered, In
<1>11. ASSUME NEW p \in 1 .. page - 1 PROVE PageCovered(p)'
  <2>1. PageCovered(p)
    BY <1>1, <1>11 DEF ChunkInv, PagesCovered
  <2>2. \A lines, n : IsHeading(lines, n)' = IsHeading(lines, n)
    BY <1>2, SameDocument
  <2> QED BY <1>2, <1>3, <2>1 DEF PageCovered, IsHeading
<1>12. PagesCovered'
  BY <1>2, <1>11 DEF PagesCovered
<1> QED BY <1>10, <1>12

\* A piece is no larger than the maximum, and repeats of an earlier chunk no
\* more than what stands in the overlap.
LEMMA CutKeepsSizes ==
  ASSUME ChunkInv, NEW characters, NEW headings, NEW end, NEW piece, Cut(characters, headings, end, piece)
  PROVE  ChunksFit'
<1>1. start \in Nat /\ end \in Nat /\ Overlap \in Nat /\ Maximum \in Nat /\ start <= end
  BY CutIs, ChunkingAssumption DEF ChunkingAssumption
<1>2. Len(chunks) \in Nat /\ DOMAIN chunks = 1 .. Len(chunks)
  BY DEF ChunkInv, ChunkTypes
<1> DEFINE Fits(S) == IsFiniteSet(S) /\ Cardinality(S) <= Maximum
           Apart(S, T) == Cardinality(S \cap T) <= Overlap
<1>3. ASSUME NEW k \in DOMAIN chunks'
      PROVE  /\ Fits(chunks'[k].characters)
             /\ \A j \in 1 .. k - 1 : Apart(chunks'[k].characters, chunks'[j].characters)
  <2>1. CASE k \in DOMAIN chunks
    <3>1. chunks'[k] = chunks[k] /\ \A j \in 1 .. k - 1 : j \in DOMAIN chunks
      BY <1>2, <2>1, ChunksAfter DEF ChunkInv
    <3>2. \A j \in 1 .. k - 1 : chunks'[j] = chunks[j]
      BY <3>1, ChunksAfter DEF ChunkInv
    <3> QED BY <2>1, <3>1, <3>2 DEF ChunkInv, ChunksFit
  <2>2. CASE /\ PieceOf(characters, start, end, piece) /\ k = Len(chunks) + 1
             /\ chunks'[k] = [page |-> page, headings |-> headings, characters |-> piece]
    <3>1. piece \subseteq {characters[i] : i \in start + 1 .. end}
      BY <2>2 DEF PieceOf
    <3>2. IsFiniteSet(piece) /\ Cardinality(piece) <= end - start
      <4> HIDE DEF Fits, Apart
      <4> QED BY <1>1, <3>1, ImageSize
    <3>3. end - start <= Maximum
      <4>1. end <= start + Maximum
        BY DEF Cut
      <4> QED BY <1>1, <4>1
    <3>4. Fits(piece)
      <4>1. Cardinality(piece) \in Nat
        BY <3>2, FS_CardinalityType
      <4> QED BY <1>1, <3>2, <3>3, <4>1
    <3>5. ASSUME NEW j \in DOMAIN chunks PROVE Apart(piece, chunks[j].characters)
      <4> DEFINE common == piece \cap chunks[j].characters
      <4>1. ASSUME NEW c \in common PROVE c \in {characters[i] : i \in start + 1 .. start + Overlap}
        <5>1. PICK i \in start + 1 .. end : c = characters[i]
          BY <3>1, <4>1
        <5>2. /\ section + 1 \in section + 1 .. Len(sections) /\ i \in DOMAIN characters /\ ~Failed
              /\ characters = sections[section + 1].characters
          <6>1. ~Failed /\ section \in Nat /\ section + 1 \in 1 .. Len(sections)
            BY CutIs
          <6>2. i \in DOMAIN characters
            BY CutIs
          <6>3. section + 1 \in section + 1 .. Len(sections)
            BY <6>1
          <6> QED BY <6>1, <6>2, <6>3 DEF Cut
        <5>3. i <= start + Overlap
          BY <3>5, <4>1, <5>1, <5>2 DEF ChunkInv, CutBehind
        <5>4. i \in start + 1 .. start + Overlap
          <6> HIDE DEF common
          <6> QED BY <1>1, <5>3
        <5> QED BY <5>1, <5>4
      <4>2. common \subseteq {characters[i] : i \in start + 1 .. start + Overlap}
        BY <4>1
      <4> HIDE DEF common
      <4>3. start + Overlap \in Nat /\ start <= start + Overlap /\ (start + Overlap) - start = Overlap
        BY <1>1
      <4>4. Cardinality(common) <= Overlap
        BY <1>1, <4>2, <4>3, ImageSize
      <4> QED BY <4>4 DEF common
    <3>6. \A j \in 1 .. k - 1 : j \in DOMAIN chunks
      BY <1>2, <2>2
    <3>7. \A j \in 1 .. k - 1 : chunks'[j] = chunks[j]
      BY <3>6, ChunksAfter DEF ChunkInv
    <3> HIDE DEF Fits, Apart
    <3> QED BY <2>2, <3>4, <3>5, <3>6, <3>7
  <2> QED BY <2>1, <2>2, ChunksAfter DEF ChunkInv
<1> QED BY <1>3 DEF ChunksFit

LEMMA PieceKeeps ==
  ASSUME ChunkInv, CutPiece
  PROVE  ChunkInv'
<1>1. PICK characters, headings, end, piece : Cut(characters, headings, end, piece)
  BY PieceIsCut
<1> QED BY <1>1, CutKeepsCutting, CutKeepsBelonging, CutKeepsBehind, CutKeepsCovered, CutKeepsSizes DEF ChunkInv

\* Once all of a page has been cut, nothing of it is missing.
LEMMA DonePageCovered ==
  ASSUME ChunkInv, PageDone, page \in DOMAIN pages
  PROVE  PageCovered(page)
<1> DEFINE lines == pages[page].lines
<1>1. /\ sections \in Seq(Section) /\ Len(sections) \in Nat /\ DOMAIN sections = 1 .. Len(sections)
      /\ pages \in Seq(Page) /\ Len(pages) \in Nat /\ DOMAIN pages = 1 .. Len(pages) /\ page \in Nat
  BY DEF ChunkInv, ChunkTypes
<1>2. lines \in Seq(Lines)
  <2>1. pages[page] \in Page
    BY <1>1
  <2> QED BY <2>1 DEF Page
<1>3. ~Failed
  BY <1>1 DEF Failed
<1>4. \A s \in DOMAIN sections : Covered(sections[s], Len(sections[s].characters))
  BY <1>1, <1>3 DEF ChunkInv, SectionsCovered, PageDone
<1>5. SectionsFit(page, lines, sections, Len(lines))
  BY DEF ChunkInv, Cutting
<1>6. ASSUME NEW n \in DOMAIN lines, ~IsHeading(lines, n), NEW i \in DOMAIN lines[n].text, lines[n].text[i] # "space"
      PROVE  \E k \in DOMAIN chunks : [at |-> <<page, n, i>>, class |-> lines[n].text[i]] \in chunks[k].characters
  <2> DEFINE character == [at |-> <<page, n, i>>, class |-> lines[n].text[i]]
  <2>1. PICK s \in DOMAIN sections : \E j \in DOMAIN sections[s].characters : sections[s].characters[j] = character
    <3>1. n \in 1 .. Len(lines)
      BY <1>2, <1>6
    <3> HIDE DEF character
    <3>2. \E s \in DOMAIN sections : \E j \in DOMAIN sections[s].characters : sections[s].characters[j] = character
      BY <1>5, <1>6, <3>1 DEF SectionsFit, character
    <3> QED BY <3>2
  <2>2. PICK j \in DOMAIN sections[s].characters : sections[s].characters[j] = character
    BY <2>1
  <2>3. lines[n].text[i] \in STRING \ {"newline"}
    <3>1. lines[n].text \in Seq(STRING \ {"newline"})
      BY <1>2, <1>6, LineIs, <1>1
    <3> QED BY <1>6, <3>1
  <2>4. ~Blank(character)
    BY <1>6, <2>3 DEF Blank
  <2>5. j \in 1 .. Len(sections[s].characters)
    <3>1. sections[s].characters \in Seq(Character)
      <4>1. sections[s] \in Section
        BY <1>1
      <4> QED BY <4>1 DEF Section
    <3> QED BY <3>1
  <2> HIDE DEF character
  <2>6. PICK k \in DOMAIN chunks : character \in chunks[k].characters
    BY <1>4, <2>2, <2>4, <2>5 DEF Covered
  <2> QED BY <2>6 DEF character
<1> QED BY <1>6 DEF PageCovered

\* The next page: none of its characters is in a chunk yet, and of the page
\* behind nothing is missing.
LEMMA PageKeeps ==
  ASSUME ChunkInv, CutPage
  PROVE  ChunkInv'
<1>1. /\ sections \in Seq(Section) /\ Len(sections) \in Nat /\ DOMAIN sections = 1 .. Len(sections)
      /\ pages \in Seq(Page) /\ Len(pages) \in Nat /\ DOMAIN pages = 1 .. Len(pages) /\ page \in Nat
      /\ sourceType \in {"TEXT", "MARKDOWN"} /\ chunks \in Seq(Chunk)
  BY DEF ChunkInv, ChunkTypes
<1>2. sourceType' = sourceType /\ pages' = pages /\ UNCHANGED documentVars
  BY DEF CutPage, documentVars
<1>3. PageDone /\ page < Len(pages) /\ start' = start /\ start = 0 /\ section = Len(sections)
  BY DEF CutPage, ChunkInv, Cutting, PageDone
<1>4. page + 1 \in DOMAIN pages
  BY <1>1, <1>3
<1>5. CASE /\ page' = page + 1 /\ sections' = SectionsOf(page', pages[page'].lines)
           /\ section' = 0 /\ UNCHANGED chunks
  <2> DEFINE lines == pages[page + 1].lines
  <2>1. lines \in Seq(Lines)
    <3>1. pages[page + 1] \in Page
      BY <1>1, <1>4
    <3> QED BY <3>1 DEF Page
  <2>2. SectionsFit(page + 1, lines, sections', Len(lines))
    <3>1. page + 1 \in Nat /\ sections' = SectionsOf(page + 1, lines)
      BY <1>1, <1>5
    <3> HIDE DEF lines
    <3> QED BY <1>1, <2>1, <3>1, SectionsOfFit
  <2>3. SectionsFit(page, pages[page].lines, sections, Len(pages[page].lines))'
    <3>1. page' = page + 1 /\ pages'[page'].lines = lines
      BY <1>2, <1>5
    <3>2. \A n : HeadingsOver(pages[page].lines, n)' = HeadingsOver(lines, n)
      BY <1>2, <3>1 DEF HeadingsOver, IsHeading
    <3>3. \A n : IsHeading(pages[page].lines, n)' = IsHeading(lines, n)
      BY <1>2, <3>1 DEF IsHeading
    <3> HIDE DEF lines
    <3> QED BY <2>2, <3>1, <3>2, <3>3 DEF SectionsFit
  <2>4. sections' \in Seq(Section) /\ Len(sections') \in Nat /\ DOMAIN sections' = 1 .. Len(sections')
    BY <2>2 DEF SectionsFit
  <2>5. ~Failed /\ ~Failed' /\ page' # 0 /\ page' \in DOMAIN pages'
    BY <1>1, <1>2, <1>3, <1>4, <1>5 DEF Failed
  <2>6. ChunkTypes'
    <3>1. section' \in 0 .. Len(sections') /\ page' \in Nat
      BY <1>1, <1>5, <2>4
    <3> QED BY <1>1, <1>2, <1>3, <1>5, <2>4, <3>1 DEF ChunkTypes
  <2>7. ~PageDone' => start' < Len(sections'[section' + 1].characters)
    <3>1. ASSUME ~PageDone' PROVE 1 \in DOMAIN sections'
      <4>1. 0 # Len(sections')
        BY <1>5, <3>1 DEF PageDone
      <4> QED BY <2>4, <4>1
    <3>2. ASSUME 1 \in DOMAIN sections' PROVE 0 < Len(sections'[1].characters)
      <4> DEFINE first == sections'[1].characters
      <4>1. sections'[1] \in Section
        BY <2>4, <3>2
      <4>2. first \in Seq(Character) /\ first # << >>
        BY <2>2, <3>2, <4>1 DEF SectionsFit, Section
      <4> HIDE DEF first
      <4>3. 0 < Len(first)
        BY <4>2
      <4> QED BY <4>3 DEF first
    <3> QED BY <1>3, <1>5, <3>1, <3>2
  <2>8. Cutting'
    BY <1>3, <2>3, <2>5, <2>7 DEF Cutting
  <2>9. ChunksBelong'
    <3>1. \A c, p, hs : Belongs(c, p, hs)' = Belongs(c, p, hs)
      BY <1>2, SameBelonging
    <3>2. ASSUME NEW k \in DOMAIN chunks, NEW c \in chunks[k].characters
          PROVE  chunks[k].page <= page + 1 /\ Belongs(c, chunks[k].page, chunks[k].headings)
      <4>1. chunks[k] \in Chunk /\ chunks[k].page \in Nat
        <5>1. chunks[k] \in Chunk
          BY <1>1
        <5> QED BY <5>1 DEF Chunk
      <4>2. chunks[k].page <= page /\ Belongs(c, chunks[k].page, chunks[k].headings)
        BY DEF ChunkInv, ChunksBelong
      <4> QED BY <1>1, <4>1, <4>2
    <3> QED BY <1>5, <3>1, <3>2 DEF ChunksBelong
  <2>10. CutBehind'
    <3>1. ASSUME NEW k \in DOMAIN chunks, NEW s \in DOMAIN sections', NEW i \in DOMAIN sections'[s].characters,
                 sections'[s].characters[i] \in chunks[k].characters
          PROVE  FALSE
      <4> DEFINE c == sections'[s].characters[i]
      <4>1. c.at[1] = page + 1
        BY <2>2, <3>1 DEF SectionsFit
      <4>2. chunks[k].page <= page /\ chunks[k].page = c.at[1]
        <5> HIDE DEF c
        <5> QED BY <3>1 DEF ChunkInv, ChunksBelong, Belongs, c
      <4> HIDE DEF c
      <4>3. page + 1 <= page
        BY <4>1, <4>2
      <4> QED BY <1>1, <4>3
    <3>2. \A s \in section' + 1 .. Len(sections') : s \in DOMAIN sections'
      BY <1>5, <2>4
    <3> QED BY <1>5, <3>1, <3>2 DEF CutBehind
  <2>11. SectionsCovered'
    BY <1>3, <1>5 DEF SectionsCovered, Covered
  <2>12. PagesCovered'
    <3>1. ASSUME NEW p \in 1 .. page PROVE PageCovered(p)
      <4>1. CASE p = page
        <5>1. page \in DOMAIN pages
          BY <1>1, <1>3, <4>1
        <5> QED BY <1>3, <4>1, <5>1, DonePageCovered
      <4>2. CASE p \in 1 .. page - 1
        BY <2>5, <4>2 DEF ChunkInv, PagesCovered
      <4> QED BY <1>1, <4>1, <4>2
    <3>2. ASSUME NEW p \in 1 .. page PROVE PageCovered(p)'
      BY <1>2, <1>5, <3>1 DEF PageCovered, IsHeading
    <3>3. page' - 1 = page
      BY <1>1, <1>5
    <3> QED BY <3>2, <3>3 DEF PagesCovered
  <2>13. ChunksFit'
    BY <1>5 DEF ChunkInv, ChunksFit
  <2> QED BY <2>6, <2>8, <2>9, <2>10, <2>11, <2>12, <2>13 DEF ChunkInv
<1>6. CASE page' = Len(pages) + 1 /\ chunks' = << >> /\ UNCHANGED <<sections, section>>
  <2>1. Failed' /\ PageDone' /\ page' \notin DOMAIN pages' /\ page' # 0 /\ page' \in Nat
    BY <1>1, <1>2, <1>3, <1>6 DEF Failed, PageDone
  <2>2. ChunkTypes'
    <3>1. section \in 0 .. Len(sections) /\ start \in Nat
      BY DEF ChunkInv, ChunkTypes
    <3>2. << >> \in Seq(Chunk)
      OBVIOUS
    <3> QED BY <1>1, <1>2, <1>3, <1>6, <2>1, <3>1, <3>2 DEF ChunkTypes
  <2>3. Cutting'
    BY <1>3, <1>6, <2>1 DEF Cutting
  <2>4. ChunksBelong' /\ CutBehind' /\ ChunksFit'
    BY <1>6 DEF ChunksBelong, CutBehind, ChunksFit
  <2>5. SectionsCovered' /\ PagesCovered'
    BY <2>1 DEF SectionsCovered, PagesCovered
  <2> QED BY <2>2, <2>3, <2>4, <2>5 DEF ChunkInv
<1> QED BY <1>5, <1>6 DEF CutPage

LEMMA ChunkingStarts ==
  ASSUME ChunkingInit
  PROVE  ChunkInv
<1>1. page = 0 /\ sections = << >> /\ section = 0 /\ start = 0 /\ chunks = << >>
  BY DEF ChunkingInit
<1>2. pages \in Seq(Page) /\ sourceType \in {"TEXT", "MARKDOWN"}
  <2>1. pages \in Seq([number : 1 .. MaxPages, lines : Seq(Lines)])
    BY DEF ChunkingInit
  <2>2. [number : 1 .. MaxPages, lines : Seq(Lines)] \subseteq Page
    BY ChunkingAssumption DEF ChunkingAssumption, Page
  <2> DEFINE Small == [number : 1 .. MaxPages, lines : Seq(Lines)]
  <2> HIDE DEF Small
  <2>3. pages \in Seq(Page)
    <3>1. pages \in Seq(Small) /\ Small \subseteq Page
      BY <2>1, <2>2 DEF Small
    <3>2. pages \in [1 .. Len(pages) -> Small] /\ Len(pages) \in Nat
      BY <3>1
    <3>3. pages \in [1 .. Len(pages) -> Page]
      BY <3>1, <3>2
    <3> QED BY <3>2, <3>3
  <2> QED BY <2>3 DEF ChunkingInit
<1>3. ChunkTypes /\ PageDone /\ DOMAIN pages = 1 .. Len(pages) /\ Len(pages) \in Nat
  BY <1>1, <1>2 DEF ChunkTypes, PageDone
<1>4. Cutting
  BY <1>1, <1>3 DEF Cutting
<1>5. ChunksBelong /\ CutBehind /\ ChunksFit
  BY <1>1 DEF ChunksBelong, CutBehind, ChunksFit
<1>6. SectionsCovered /\ PagesCovered
  BY <1>1, <1>3 DEF SectionsCovered, PagesCovered, Covered
<1> QED BY <1>3, <1>4, <1>5, <1>6 DEF ChunkInv

LEMMA ChunkingStutters ==
  ASSUME ChunkInv, UNCHANGED chunkingVars
  PROVE  ChunkInv'
<1>1. /\ UNCHANGED documentVars /\ sourceType' = sourceType /\ pages' = pages /\ page' = page /\ sections' = sections
      /\ section' = section /\ start' = start /\ chunks' = chunks
  BY DEF chunkingVars, documentVars
<1>2. ChunkTypes' /\ CutBehind' /\ ChunksFit'
  BY <1>1 DEF ChunkInv, ChunkTypes, CutBehind, ChunksFit, Failed
<1>3. Cutting'
  <2>1. SectionsFit(page, pages[page].lines, sections, Len(pages[page].lines))'
          = SectionsFit(page, pages[page].lines, sections, Len(pages[page].lines))
    BY <1>1, SameSections
  <2> QED BY <1>1, <2>1 DEF ChunkInv, Cutting, PageDone, Failed
<1>4. ChunksBelong'
  <2>1. \A c, p, hs : Belongs(c, p, hs)' = Belongs(c, p, hs)
    BY <1>1, SameBelonging
  <2> QED BY <1>1, <2>1 DEF ChunkInv, ChunksBelong
<1>5. SectionsCovered' /\ PagesCovered'
  BY <1>1 DEF ChunkInv, SectionsCovered, Covered, PagesCovered, PageCovered, IsHeading, Failed, PageDone
<1> QED BY <1>2, <1>3, <1>4, <1>5 DEF ChunkInv

\* When the last page is done, this is what was promised.
LEMMA ChunkInvIsSound ==
  ASSUME ChunkInv
  PROVE  ChunksSound
<1>1. ASSUME page = Len(pages), PageDone, NEW p \in DOMAIN pages, NEW n \in DOMAIN pages[p].lines
      PROVE  LET lines == pages[p].lines
                 of == {k \in DOMAIN chunks : \E c \in chunks[k].characters : c.at[1] = p /\ c.at[2] = n}
             IN /\ \A k \in of : /\ chunks[k].page = p /\ ~IsHeading(lines, n)
                                 /\ {chunks[k].headings[i] : i \in DOMAIN chunks[k].headings} = HeadingsOver(lines, n)
                /\ IsHeading(lines, n) \/ \A i \in DOMAIN lines[n].text :
                     \/ lines[n].text[i] = "space"
                     \/ \E k \in of : [at |-> <<p, n, i>>, class |-> lines[n].text[i]] \in chunks[k].characters
  <2> DEFINE lines == pages[p].lines
             of == {k \in DOMAIN chunks : \E c \in chunks[k].characters : c.at[1] = p /\ c.at[2] = n}
  <2>1. ASSUME NEW k \in of
        PROVE  /\ chunks[k].page = p /\ ~IsHeading(lines, n)
               /\ HeadingSet(chunks[k].headings) = HeadingsOver(lines, n)
    <3>1. PICK c \in chunks[k].characters : c.at[1] = p /\ c.at[2] = n
      OBVIOUS
    <3>2. Belongs(c, chunks[k].page, chunks[k].headings)
      BY <3>1 DEF ChunkInv, ChunksBelong
    <3> QED BY <3>1, <3>2 DEF Belongs
  <2>2. PageCovered(p)
    <3>1. /\ pages \in Seq(Page) /\ Len(pages) \in Nat /\ DOMAIN pages = 1 .. Len(pages) /\ page \in Nat
      BY DEF ChunkInv, ChunkTypes
    <3>2. CASE p = page
      BY <1>1, <3>2, DonePageCovered
    <3>3. CASE p # page
      <4>1. ~Failed
        BY <1>1, <3>1 DEF Failed
      <4>2. p \in 1 .. page - 1
        BY <1>1, <3>1, <3>3
      <4> QED BY <4>1, <4>2 DEF ChunkInv, PagesCovered
    <3> QED BY <3>2, <3>3
  <2>3. ASSUME ~IsHeading(lines, n), NEW i \in DOMAIN lines[n].text, lines[n].text[i] # "space"
        PROVE  \E k \in of : [at |-> <<p, n, i>>, class |-> lines[n].text[i]] \in chunks[k].characters
    <3> DEFINE character == [at |-> <<p, n, i>>, class |-> lines[n].text[i]]
    <3>1. PICK k \in DOMAIN chunks : character \in chunks[k].characters
      BY <1>1, <2>2, <2>3 DEF PageCovered
    <3>2. character.at[1] = p /\ character.at[2] = n
      OBVIOUS
    <3> HIDE DEF character
    <3>3. k \in of
      BY <3>1, <3>2
    <3> QED BY <3>1, <3>3 DEF character
  <2> HIDE DEF of
  <2> QED BY <2>1, <2>3 DEF of, HeadingSet
<1>2. \A k \in DOMAIN chunks :
        /\ Cardinality(chunks[k].characters) <= Maximum
        /\ \A j \in 1 .. k - 1 : Cardinality(chunks[k].characters \cap chunks[j].characters) <= Overlap
  BY DEF ChunkInv, ChunksFit
<1>3. SectionsCovered
  BY DEF ChunkInv
<1> QED BY <1>1, <1>2, <1>3 DEF ChunksSound

\* What the cutting of a document keeps true after every piece and every page
\* of chunkParsedKnowledgeDocument: the sections of a page hold each character
\* of it once and under the headings over its line, what a chunk holds has been
\* cut but for the overlap, and of the pages behind nothing is missing.
THEOREM ChunkingInvariant == ChunkingSpec => []ChunkInv
<1>1. ASSUME ChunkInv, [ChunkingNext]_chunkingVars PROVE ChunkInv'
  BY <1>1, PageKeeps, PieceKeeps, ChunkingStutters DEF ChunkingNext
<1> QED BY <1>1, ChunkingStarts, PTL DEF ChunkingSpec

\* No document loses text in its chunks, wherever splitSectionContent finds its
\* boundaries: once it has been cut, every visible character of every page is
\* in a chunk of that page and of the headings above it; no chunk is larger than
\* maximumCharacters, and none repeats more of another than overlapCharacters.
THEOREM ChunksAreSound == ChunkingSpec => []ChunksSound
<1>1. ChunkInv => ChunksSound
  BY ChunkInvIsSound
<1> QED BY <1>1, ChunkingInvariant, PTL

-----------------------------------------------------------------------------
(* The recursion of the loop that climbs the units.                        *)

ParentIn(up, t) == IF t \in DOMAIN up THEN up[t] ELSE NoTeam
Climbs(f, up, t, n) == f = [i \in 0 .. n |-> ParentIn(up, IF i = 0 THEN t ELSE f[i - 1])]

LEMMA ClimbExists ==
  ASSUME NEW up, NEW t, NEW n \in Nat
  PROVE  \E f : Climbs(f, up, t, n)
<1> DEFINE Bad == {k \in 0 .. n : \A f : ~Climbs(f, up, t, k)}
<1> SUFFICES ASSUME Bad # {} PROVE FALSE
  OBVIOUS
<1>1. PICK k \in Bad : \A m \in Bad : k <= m
  BY LeastOf
<1>2. CASE k = 0
  <2> DEFINE f == [i \in 0 .. 0 |-> ParentIn(up, t)]
  <2>1. Climbs(f, up, t, k)
    BY <1>2 DEF Climbs
  <2> QED BY <2>1
<1>3. CASE k # 0
  <2>1. k - 1 \in 0 .. n /\ k - 1 \notin Bad /\ k \in Nat
    BY <1>1, <1>3
  <2>2. PICK g : Climbs(g, up, t, k - 1)
    BY <2>1
  <2> DEFINE f == [i \in 0 .. k |-> IF i = k THEN ParentIn(up, g[k - 1]) ELSE g[i]]
             h == [i \in 0 .. k |-> ParentIn(up, IF i = 0 THEN t ELSE f[i - 1])]
  <2>3. \A i \in 0 .. k - 1 : g[i] = ParentIn(up, IF i = 0 THEN t ELSE g[i - 1])
    BY <2>2 DEF Climbs
  <2>4. \A i \in 0 .. k : f[i] = h[i]
    <3> SUFFICES ASSUME NEW i \in 0 .. k PROVE f[i] = h[i]
      OBVIOUS
    <3>1. CASE i = k
      BY <1>3, <2>1, <3>1
    <3>2. CASE i # k /\ i # 0
      BY <2>1, <2>3, <3>2
    <3>3. CASE i # k /\ i = 0
      BY <2>1, <2>3, <3>3
    <3> QED BY <3>1, <3>2, <3>3
  <2>5. f = h
    BY <2>4
  <2>6. Climbs(f, up, t, k)
    BY <2>5 DEF Climbs
  <2> QED BY <2>6
<1> QED BY <1>2, <1>3

LEMMA AncestorClimbs ==
  ASSUME NEW a, NEW t \in Teams, NEW up, IsOrgUnitAncestor(a, t, up)
  PROVE  \E n \in 0 .. Cardinality(Teams) - 1 : \E f : Climbs(f, up, t, Cardinality(Teams) - 1) /\ f[n] = a
<1>1. Cardinality(Teams) - 1 \in Nat
  <2>1. Cardinality(Teams) \in Nat /\ Cardinality(Teams) # 0
    BY RetrievalAssumption, FS_CardinalityType, FS_EmptySet
  <2> QED BY <2>1
<1> DEFINE k == Cardinality(Teams) - 1
           current == CHOOSE f : Climbs(f, up, t, k)
<1>2. Climbs(current, up, t, k)
  BY <1>1, ClimbExists
<1>3. \E n \in DOMAIN current : current[n] = a
  BY DEF IsOrgUnitAncestor, Climbs, ParentIn
<1> HIDE DEF current
<1>4. DOMAIN current = 0 .. k
  BY <1>2 DEF Climbs
<1> QED BY <1>2, <1>3, <1>4

\* Whatever unit the loop comes to, open units lead up to it.
LEMMA AncestorsLeadUp ==
  ASSUME activeTeams \in SUBSET Teams, above \in [Teams -> Teams \cup {NoTeam}],
         NEW a \in Teams, NEW t \in activeTeams,
         IsOrgUnitAncestor(a, t, [u \in activeTeams |-> above[u]])
  PROVE  LeadsUp(t, a)
<1> DEFINE up == [u \in activeTeams |-> above[u]]
           k == Cardinality(Teams) - 1
<1>0. PICK n \in 0 .. k : \E f : Climbs(f, up, t, k) /\ f[n] = a
  BY AncestorClimbs
<1>1. PICK f : Climbs(f, up, t, k) /\ f[n] = a
  BY <1>0
<1>2. Cardinality(Teams) \in Nat /\ n \in Nat /\ k \in Nat /\ n <= k
  BY RetrievalAssumption, FS_CardinalityType
<1>3. \A i \in 0 .. k : f[i] = ParentIn(up, IF i = 0 THEN t ELSE f[i - 1])
  BY <1>1 DEF Climbs
<1> DEFINE Shut == {i \in 0 .. n : i < n /\ f[i] \notin activeTeams}
<1>4. Shut = {}
  <2> SUFFICES ASSUME Shut # {} PROVE FALSE
    OBVIOUS
  <2>1. PICK i \in Shut : \A j \in Shut : j <= i
    BY <1>2, GreatestOf
  <2>2. i + 1 \in 0 .. k /\ i + 1 <= n /\ i \in Nat
    BY <1>2
  <2>3. f[i + 1] = ParentIn(up, f[i])
    BY <1>3, <2>2
  <2>4. f[i + 1] = NoTeam
    BY <2>3 DEF ParentIn
  <2>5. NoTeam \notin activeTeams
    BY RetrievalAssumption
  <2>6. CASE i + 1 = n
    BY <1>1, <2>4, <2>6, RetrievalAssumption
  <2>7. CASE i + 1 # n
    <3>1. i + 1 \in Shut
      BY <2>2, <2>4, <2>5, <2>7
    <3> QED BY <2>1, <2>2, <3>1
  <2> QED BY <2>6, <2>7
<1> DEFINE path == [i \in 0 .. n + 1 |-> IF i = 0 THEN t ELSE f[i - 1]]
<1>5. \A i \in 0 .. n : i < n => f[i] \in activeTeams
  BY <1>4
<1> HIDE DEF Shut
<1>6. \A i \in 0 .. n : f[i] \in Teams
  BY <1>1, <1>2, <1>5
<1>7. path \in [0 .. n + 1 -> Teams]
  <2>1. \A i \in 0 .. n + 1 : i # 0 => i - 1 \in 0 .. n
    BY <1>2
  <2> QED BY <1>6, <2>1
<1>8. path[0] = t /\ path[n + 1] = a
  BY <1>1, <1>2
<1>9. ASSUME NEW i \in 0 .. n PROVE path[i] \in activeTeams /\ above[path[i]] = path[i + 1]
  <2>1. path[i + 1] = f[i] /\ f[i] = ParentIn(up, path[i])
    BY <1>2, <1>3
  <2>2. path[i] \in activeTeams
    <3>1. CASE i = 0
      BY <1>2, <3>1
    <3>2. CASE i # 0
      <4>1. i - 1 \in 0 .. n /\ i - 1 < n /\ path[i] = f[i - 1]
        BY <1>2, <3>2
      <4> QED BY <1>5, <4>1
    <3> QED BY <3>1, <3>2
  <2> HIDE DEF path
  <2> QED BY <2>1, <2>2 DEF ParentIn
<1>10. n + 1 \in 0 .. Cardinality(Teams) /\ (n + 1) - 1 = n
  BY <1>2
<1> HIDE DEF path, up, k
<1> QED BY <1>7, <1>8, <1>9, <1>10 DEF LeadsUp

-----------------------------------------------------------------------------
(* What a deciding transaction knows: what it has read and, of the rest,   *)
(* the present.                                                            *)

LibraryTypes ==
  /\ memberActive \in BOOLEAN /\ employedIn \in SUBSET Teams
  /\ activeTeams \in SUBSET Teams /\ above \in [Teams -> Teams \cup {NoTeam}]
  /\ baseStatus \in [Bases -> {"DRAFT", "ACTIVE", "ARCHIVED"}]
  /\ scopeOf \in [Bases -> [Teams -> {"none", "unit", "children"}]]
  /\ published \in [Bases -> [version : Nat, ready : BOOLEAN]]

ReaderPlaces == {"idle", "user", "employments", "units", "bases", "scopes", "lexical", "vector", "ranking",
                 "found", "answered", "chunks", "sent", "refused", "cited"}
UnitMaps == UNION {[A -> Teams \cup {NoTeam}] : A \in SUBSET Teams}
Readers == [kind : {"none", "run", "test", "citation"}, at : ReaderPlaces,
            phase : {"none", "search", "recheck", "citation"}, user : BOOLEAN,
            employments : SUBSET Teams, units : UnitMaps, asked : SUBSET Bases, bases : SUBSET Bases,
            embedded : BOOLEAN, items : SUBSET Chunks]
Components == {"user", "employments", "teams", "status", "scopes", "document"}

RetrievalTypes == LibraryTypes /\ reader \in Readers /\ touched \in SUBSET Components /\ edits \in Nat

Calm == \A x, y \in touched : x = y
Deciding == reader.phase \in {"recheck", "citation"}
Readable == IF reader.phase = "citation" THEN Citable ELSE Usable
OpenUnits == [t \in activeTeams |-> above[t]]
AskedNow == {b \in reader.asked : baseStatus[b] \in Statuses}

\* The bases that are found accessible if nothing changes any more, and the
\* chunks that are still there then.
Granted ==
  CASE reader.at = "user" -> AccessibleKnowledgeBaseIds(memberActive, employedIn \cap activeTeams, OpenUnits, AskedNow, scopeOf)
    [] reader.at = "employments" ->
         AccessibleKnowledgeBaseIds(reader.user, employedIn \cap activeTeams, OpenUnits, AskedNow, scopeOf)
    [] reader.at = "units" ->
         AccessibleKnowledgeBaseIds(reader.user, reader.employments \cap activeTeams, OpenUnits, AskedNow, scopeOf)
    [] reader.at = "bases" -> AccessibleKnowledgeBaseIds(reader.user, reader.employments, reader.units, AskedNow, scopeOf)
    [] reader.at = "scopes" -> AccessibleKnowledgeBaseIds(reader.user, reader.employments, reader.units, reader.bases, scopeOf)
    [] OTHER -> reader.bases
StillThere(c) == IF reader.phase = "citation" THEN c[2] <= published[c[1]].version ELSE Current(c)
Outcome == {c \in reader.items : c[1] \in Granted /\ StillThere(c)}

DecidingPlaces == {"user", "employments", "units", "bases", "scopes", "chunks"}
Unread(at) ==
  CASE at = "user" -> Components
    [] at = "employments" -> Components \ {"user"}
    [] at = "units" -> {"teams", "status", "scopes", "document"}
    [] at = "bases" -> {"status", "scopes", "document"}
    [] at = "scopes" -> {"scopes", "document"}
    [] OTHER -> {"document"}

\* What has been read is true still unless it is touched.
ReadHolds ==
  /\ reader.at \notin {"user", "chunks"} /\ "user" \notin touched => reader.user = memberActive
  /\ reader.at = "units" /\ "employments" \notin touched => reader.employments = employedIn
  /\ reader.at \in {"bases", "scopes"} /\ "employments" \notin touched /\ "teams" \notin touched =>
       reader.employments = employedIn \cap activeTeams
  /\ reader.at \in {"bases", "scopes"} /\ "teams" \notin touched => reader.units = OpenUnits
  /\ reader.at = "scopes" /\ "status" \notin touched => reader.bases = AskedNow
  /\ reader.at = "chunks" /\ touched \subseteq {"document"} =>
       \A b \in reader.bases : MayRead(b) /\ baseStatus[b] \in Statuses

KindKnown ==
  /\ reader.phase = "recheck" \/ reader.at = "found" => reader.kind = "run"
  /\ reader.phase = "citation" => reader.kind = "citation"
\* A citation asks for the base of its chunk.
AskedKnown ==
  reader.phase = "citation" /\ reader.at \in DecidingPlaces =>
    /\ \A c \in reader.items : reader.asked = {c[1]}
    /\ reader.at \in {"scopes", "chunks"} => reader.bases \subseteq reader.asked
    /\ reader.at = "chunks" => reader.bases # {}
DecisionHolds == Deciding /\ reader.at \in DecidingPlaces => ReadHolds /\ (Calm => Outcome \subseteq allowed)

RetrievalInv ==
  /\ RetrievalTypes /\ KindKnown /\ AskedKnown
  /\ Deciding => Readable \subseteq allowed
  /\ DecisionHolds
  /\ reader.at \in {"sent", "cited"} /\ Calm => reader.items \subseteq allowed

USE DEF libraryVars, retrievalVars

\* At most one component is touched.
LEMMA AtMostOne == touched \subseteq Components /\ Cardinality(touched) <= 1 => Calm
<1> SUFFICES ASSUME touched \subseteq Components, NEW x \in touched, NEW y \in touched, x # y
             PROVE  ~(Cardinality(touched) <= 1)
  BY DEF Calm
<1>1. IsFiniteSet({x}) /\ Cardinality({x}) = 1
  BY FS_Singleton
<1>2. IsFiniteSet({x} \cup {y}) /\ Cardinality({x} \cup {y}) = 2
  <2>1. y \notin {x}
    OBVIOUS
  <2>2. IsFiniteSet({x} \cup {y}) /\ Cardinality({x} \cup {y}) = IF y \in {x} THEN Cardinality({x}) ELSE Cardinality({x}) + 1
    BY <1>1, FS_AddElement
  <2> QED BY <1>1, <2>1, <2>2
<1>3. IsFiniteSet(Components)
  <2>1. IsFiniteSet({"user"} \cup {"employments"})
    BY FS_Singleton, FS_AddElement
  <2>2. IsFiniteSet({"user"} \cup {"employments"} \cup {"teams"})
    BY <2>1, FS_AddElement
  <2>3. IsFiniteSet({"user"} \cup {"employments"} \cup {"teams"} \cup {"status"})
    BY <2>2, FS_AddElement
  <2>4. IsFiniteSet({"user"} \cup {"employments"} \cup {"teams"} \cup {"status"} \cup {"scopes"})
    BY <2>3, FS_AddElement
  <2>5. IsFiniteSet({"user"} \cup {"employments"} \cup {"teams"} \cup {"status"} \cup {"scopes"} \cup {"document"})
    BY <2>4, FS_AddElement
  <2>6. Components = {"user"} \cup {"employments"} \cup {"teams"} \cup {"status"} \cup {"scopes"} \cup {"document"}
    BY DEF Components
  <2> QED BY <2>5, <2>6
<1>4. IsFiniteSet(touched) /\ Cardinality(touched) \in Nat
  BY <1>3, FS_Subset, FS_CardinalityType
<1>5. {x} \cup {y} \subseteq touched
  OBVIOUS
<1>6. Cardinality({x} \cup {y}) <= Cardinality(touched)
  BY <1>4, <1>5, FS_Subset
<1> QED BY <1>2, <1>4, <1>6

\* The policy over the present says what may be read now.
LEMMA PolicyNow ==
  LibraryTypes =>
    \A B \in SUBSET Bases :
      \A b \in AccessibleKnowledgeBaseIds(memberActive, employedIn \cap activeTeams, OpenUnits, B, scopeOf) : b \in B /\ MayRead(b)
<1> SUFFICES ASSUME LibraryTypes, NEW B \in SUBSET Bases,
                    NEW b \in AccessibleKnowledgeBaseIds(memberActive, employedIn \cap activeTeams, OpenUnits, B, scopeOf)
             PROVE  b \in B /\ MayRead(b)
  OBVIOUS
<1>1. b \in B /\ memberActive /\ employedIn \cap activeTeams # {} /\ InScope(scopeOf[b], employedIn \cap activeTeams, OpenUnits)
  BY DEF AccessibleKnowledgeBaseIds
<1>2. scopeOf[b] \in [Teams -> {"none", "unit", "children"}] /\ employedIn \in SUBSET Teams
  BY <1>1 DEF LibraryTypes
<1>3. CASE \A t \in Teams : scopeOf[b][t] = "none"
  <2>1. Range(scopeOf[b]) = {"none"}
    BY <1>1, <1>2, <1>3 DEF Range
  <2> QED BY <1>1, <2>1 DEF MayRead
<1>4. CASE \E t \in Teams, m \in employedIn \cap activeTeams :
             \/ scopeOf[b][t] # "none" /\ t = m
             \/ scopeOf[b][t] = "children" /\ IsOrgUnitAncestor(t, m, OpenUnits)
  <2>1. PICK t \in Teams, m \in employedIn \cap activeTeams :
             \/ scopeOf[b][t] # "none" /\ t = m
             \/ scopeOf[b][t] = "children" /\ IsOrgUnitAncestor(t, m, OpenUnits)
    BY <1>4
  <2>2. IsOrgUnitAncestor(t, m, OpenUnits) => LeadsUp(m, t)
    BY AncestorsLeadUp DEF OpenUnits, LibraryTypes
  <2> QED BY <1>1, <2>1, <2>2 DEF MayRead
<1> QED BY <1>1, <1>3, <1>4 DEF InScope

\* What is read of a decision that nothing read has changed is open now.
LEMMA NowGranted ==
  RetrievalTypes /\ KindKnown /\ Deciding /\ reader.at \in DecidingPlaces /\ ReadHolds
    /\ touched \subseteq Unread(reader.at) => Outcome \subseteq Readable
<1> SUFFICES ASSUME RetrievalTypes, KindKnown, Deciding, reader.at \in DecidingPlaces, ReadHolds,
                    touched \subseteq Unread(reader.at), NEW c \in Outcome
             PROVE  c \in Readable
  OBVIOUS
<1>1. c \in Chunks /\ c[1] \in Granted /\ StillThere(c) /\ c[1] \in Bases
  BY DEF Outcome, RetrievalTypes, Readers, Chunks
<1>2. AskedNow \in SUBSET Bases /\ LibraryTypes
  BY DEF AskedNow, RetrievalTypes, Readers
<1>3. MayRead(c[1]) /\ baseStatus[c[1]] \in Statuses
  <2>1. CASE reader.at = "chunks"
    BY <1>1, <2>1 DEF Granted, ReadHolds, Unread
  <2>2. CASE reader.at # "chunks"
    <3>1. Granted = AccessibleKnowledgeBaseIds(memberActive, employedIn \cap activeTeams, OpenUnits, AskedNow, scopeOf)
      <4>1. CASE reader.at = "user"
        BY <4>1 DEF Granted
      <4>2. CASE reader.at = "employments"
        BY <4>2 DEF Granted, ReadHolds, Unread, Components
      <4>3. CASE reader.at = "units"
        BY <4>3 DEF Granted, ReadHolds, Unread
      <4>4. CASE reader.at = "bases"
        BY <4>4 DEF Granted, ReadHolds, Unread
      <4>5. CASE reader.at = "scopes"
        BY <4>5 DEF Granted, ReadHolds, Unread
      <4> QED BY <2>2, <4>1, <4>2, <4>3, <4>4, <4>5 DEF DecidingPlaces
    <3>2. c[1] \in AskedNow /\ MayRead(c[1])
      BY <1>1, <1>2, <3>1, PolicyNow
    <3> QED BY <3>2 DEF AskedNow
  <2> QED BY <2>1, <2>2
<1>4. CASE reader.phase = "citation"
  <2>0. c[2] <= published[c[1]].version
    BY <1>1, <1>4 DEF StillThere
  <2>1. Statuses = {"ACTIVE", "ARCHIVED"}
    BY <1>4 DEF Statuses, KindKnown
  <2>2. c \in Citable
    BY <1>1, <1>3, <2>0, <2>1 DEF Citable
  <2> QED BY <1>4, <2>2 DEF Readable
<1>5. CASE reader.phase = "recheck"
  <2>0. Current(c)
    BY <1>1, <1>5 DEF StillThere
  <2>1. Statuses = {"ACTIVE"}
    BY <1>5 DEF Statuses, KindKnown
  <2>2. c \in Usable
    BY <1>1, <1>3, <2>0, <2>1 DEF Usable
  <2> QED BY <1>5, <2>2 DEF Readable
<1> QED BY <1>4, <1>5 DEF Deciding

LEMMA NowGrantedNext ==
  (RetrievalTypes /\ KindKnown /\ Deciding /\ reader.at \in DecidingPlaces /\ ReadHolds
    /\ touched \subseteq Unread(reader.at) => Outcome \subseteq Readable)'
BY NowGranted, PTL

-----------------------------------------------------------------------------
(* Others commit: what is not read yet changes with the present; what is   *)
(* read stays as it is.                                                    *)

PartSame(x) ==
  CASE x = "user" -> memberActive' = memberActive
    [] x = "employments" -> employedIn' = employedIn
    [] x = "teams" -> activeTeams' = activeTeams /\ above' = above
    [] x = "status" -> baseStatus' = baseStatus
    [] x = "scopes" -> scopeOf' = scopeOf
    [] OTHER -> published' = published

LEMMA OthersCommit ==
  ASSUME RetrievalInv, LibraryTypes', edits' \in Nat, reader' = reader, touched \subseteq touched', touched' \subseteq Components,
         allowed' = allowed \cup (IF reader.phase = "citation" THEN Citable' ELSE Usable'),
         \A x \in Components \ touched' : PartSame(x)
  PROVE  RetrievalInv'
<1> USE DEF RetrievalInv
<1>1. RetrievalTypes' /\ KindKnown' /\ AskedKnown'
  BY DEF RetrievalTypes, KindKnown, AskedKnown
<1>2. Deciding' => Readable' \subseteq allowed'
  BY DEF Readable
<1>3. Calm' => Calm
  BY DEF Calm
<1>4. (reader.at \in {"sent", "cited"} /\ Calm => reader.items \subseteq allowed)'
  BY <1>3
<1>5. Statuses' = Statuses
  BY DEF Statuses
<1>6. /\ "user" \notin touched' => memberActive' = memberActive
      /\ "employments" \notin touched' => employedIn' = employedIn
      /\ "teams" \notin touched' => activeTeams' = activeTeams /\ above' = above
      /\ "status" \notin touched' => baseStatus' = baseStatus
      /\ "scopes" \notin touched' => scopeOf' = scopeOf
      /\ "document" \notin touched' => published' = published
  BY DEF Components, PartSame
<1>7. ASSUME Deciding, reader.at \in DecidingPlaces PROVE ReadHolds'
  <2>1. ReadHolds
    BY <1>7 DEF DecisionHolds
  <2>2. "teams" \notin touched' => OpenUnits' = OpenUnits
    BY <1>6 DEF OpenUnits
  <2>3. "status" \notin touched' => AskedNow' = AskedNow
    BY <1>5, <1>6 DEF AskedNow
  <2>4. ASSUME touched' \subseteq {"document"}, NEW b PROVE MayRead(b)' = MayRead(b)
    <3>1. memberActive' = memberActive /\ employedIn' = employedIn /\ activeTeams' = activeTeams /\ above' = above
          /\ scopeOf' = scopeOf
      BY <1>6, <2>4
    <3>2. \A t, a : LeadsUp(t, a)' = LeadsUp(t, a)
      BY <3>1 DEF LeadsUp
    <3> QED BY <3>1, <3>2 DEF MayRead
  <2>5. (reader.at = "chunks" /\ touched \subseteq {"document"} =>
           \A b \in reader.bases : MayRead(b) /\ baseStatus[b] \in Statuses)'
    <3> SUFFICES ASSUME reader.at = "chunks", touched' \subseteq {"document"}, NEW b \in reader.bases
                 PROVE  MayRead(b)' /\ baseStatus'[b] \in Statuses'
      OBVIOUS
    <3>1. MayRead(b) /\ baseStatus[b] \in Statuses
      BY <2>1 DEF ReadHolds
    <3> QED BY <1>5, <1>6, <2>4, <3>1
  <2> HIDE DEF RetrievalInv
  <2> QED BY <1>6, <2>1, <2>2, <2>3, <2>5 DEF ReadHolds
<1>8. ASSUME Deciding, reader.at \in DecidingPlaces, Calm' PROVE Outcome' \subseteq allowed'
  <2>1. CASE touched' \subseteq Unread(reader.at)
    <3>1. Outcome' \subseteq Readable'
      BY <1>1, <1>7, <1>8, <2>1, NowGrantedNext DEF Deciding
    <3> QED BY <1>2, <1>8, <3>1 DEF Deciding
  <2>2. CASE ~(touched' \subseteq Unread(reader.at))
    <3>1. \A x \in Unread(reader.at) : x \notin touched'
      BY <1>8, <2>2 DEF Calm
    <3>2. OpenUnits' = OpenUnits \/ "teams" \in touched'
      BY <1>6 DEF OpenUnits
    <3>3. AskedNow' = AskedNow \/ "status" \in touched'
      BY <1>5, <1>6 DEF AskedNow
    <3>4. Granted' = Granted
      <4> HIDE DEF RetrievalInv
      <4>1. CASE reader.at = "user"
        BY <1>6, <3>1, <3>2, <3>3, <4>1 DEF Granted, Unread, Components
      <4>2. CASE reader.at = "employments"
        BY <1>6, <3>1, <3>2, <3>3, <4>2 DEF Granted, Unread, Components
      <4>3. CASE reader.at = "units"
        BY <1>6, <3>1, <3>2, <3>3, <4>3 DEF Granted, Unread
      <4>4. CASE reader.at = "bases"
        BY <1>6, <3>1, <3>2, <3>3, <4>4 DEF Granted, Unread
      <4>5. CASE reader.at = "scopes"
        BY <1>6, <3>1, <3>2, <3>3, <4>5 DEF Granted, Unread
      <4>6. CASE reader.at = "chunks"
        BY <4>6 DEF Granted
      <4> QED BY <1>8, <4>1, <4>2, <4>3, <4>4, <4>5, <4>6 DEF DecidingPlaces
    <3>5. published' = published
      BY <1>6, <1>8, <3>1 DEF Unread, Components, DecidingPlaces
    <3>6. \A c : StillThere(c)' = StillThere(c)
      BY <3>5 DEF StillThere, Current
    <3>7. Outcome' = Outcome
      BY <3>4, <3>6 DEF Outcome
    <3> QED BY <1>3, <1>8, <3>7 DEF DecisionHolds
  <2> QED BY <2>1, <2>2
<1>9. DecisionHolds'
  BY <1>7, <1>8 DEF DecisionHolds, Deciding
<1> QED BY <1>1, <1>2, <1>4, <1>9

\* Each of the four kinds of edits touches what it changes.
LEMMA EditsTouch ==
  ASSUME RetrievalInv,
         MemberChanges \/ (\E t \in Teams : TeamChanges(t)) \/ (\E b \in Bases : BaseChanges(b) \/ DocumentChanges(b))
  PROVE  RetrievalInv'
<1> USE DEF RetrievalInv, RetrievalTypes, LibraryTypes
<1>1. ASSUME NEW part \in SUBSET Components, Edit(part), LibraryTypes', \A x \in Components \ part : PartSame(x)
      PROVE  RetrievalInv'
  BY <1>1, OthersCommit DEF Edit
<1>2. CASE MemberChanges
  <2> DEFINE part == (IF memberActive' = memberActive THEN {} ELSE {"user"}) \cup
                     (IF employedIn' = employedIn THEN {} ELSE {"employments"})
  <2>1. LibraryTypes' /\ Edit(part)
    BY <1>2 DEF MemberChanges
  <2>2. UNCHANGED <<activeTeams, above, baseStatus, scopeOf, published>>
    BY <1>2 DEF MemberChanges
  <2>3. \A x \in Components \ part : PartSame(x)
    BY <2>2 DEF PartSame, Components
  <2>4. part \in SUBSET Components
    BY DEF Components
  <2> HIDE DEF part
  <2> QED BY <1>1, <2>1, <2>3, <2>4
<1>3. ASSUME NEW t \in Teams, TeamChanges(t) PROVE RetrievalInv'
  <2>1. UNCHANGED <<memberActive, employedIn, baseStatus, scopeOf, published>> /\ Edit({"teams"})
    BY <1>3 DEF TeamChanges
  <2>2. activeTeams' \in SUBSET Teams /\ above' \in [Teams -> Teams \cup {NoTeam}]
    BY <1>3 DEF TeamChanges
  <2>3. LibraryTypes'
    BY <2>1, <2>2
  <2>4. \A x \in Components \ {"teams"} : PartSame(x)
    BY <2>1 DEF PartSame, Components
  <2> QED BY <1>1, <2>1, <2>3, <2>4 DEF Components
<1>4. ASSUME NEW b \in Bases, BaseChanges(b) PROVE RetrievalInv'
  <2> DEFINE part == (IF baseStatus' = baseStatus THEN {} ELSE {"status"}) \cup (IF scopeOf' = scopeOf THEN {} ELSE {"scopes"})
  <2>1. UNCHANGED <<memberActive, employedIn, activeTeams, above, published>> /\ Edit(part)
    BY <1>4 DEF BaseChanges
  <2>2. PICK status \in {"DRAFT", "ACTIVE", "ARCHIVED"}, scope \in [activeTeams -> {"none", "unit", "children"}] :
          /\ status = "ACTIVE" /\ baseStatus[b] # "ACTIVE" => published[b].ready
          /\ baseStatus' = [baseStatus EXCEPT ![b] = status]
          /\ scopeOf' = [scopeOf EXCEPT ![b] = [t \in Teams |-> IF t \in activeTeams THEN scope[t] ELSE "none"]]
    BY <1>4, Zenon DEF BaseChanges
  <2>3. LibraryTypes'
    <3>1. [t \in Teams |-> IF t \in activeTeams THEN scope[t] ELSE "none"] \in [Teams -> {"none", "unit", "children"}]
      OBVIOUS
    <3> QED BY <2>1, <2>2, <3>1
  <2>4. \A x \in Components \ part : PartSame(x)
    BY <2>1 DEF PartSame, Components
  <2>5. part \in SUBSET Components
    BY DEF Components
  <2> HIDE DEF part
  <2> QED BY <1>1, <2>1, <2>3, <2>4, <2>5
<1>5. ASSUME NEW b \in Bases, DocumentChanges(b) PROVE RetrievalInv'
  <2>1. UNCHANGED <<memberActive, employedIn, activeTeams, above, baseStatus, scopeOf>> /\ Edit({"document"})
    BY <1>5 DEF DocumentChanges
  <2>2. published' \in [Bases -> [version : Nat, ready : BOOLEAN]]
    <3> DEFINE next == [version |-> published[b].version + 1, ready |-> TRUE]
               gone == [published[b] EXCEPT !.ready = FALSE]
    <3>1. published' = [published EXCEPT ![b] = next] \/ published' = [published EXCEPT ![b] = gone]
      BY <1>5 DEF DocumentChanges
    <3>2. PICK row \in [version : Nat, ready : BOOLEAN] : row = published[b]
      OBVIOUS
    <3>3. next \in [version : Nat, ready : BOOLEAN] /\ gone \in [version : Nat, ready : BOOLEAN]
      <4> HIDE DEF RetrievalInv
      <4>1. next = [version |-> row.version + 1, ready |-> TRUE] /\ gone = [row EXCEPT !.ready = FALSE]
        BY <3>2
      <4>2. PICK v \in Nat : v = row.version + 1
        OBVIOUS
      <4> HIDE DEF next, gone
      <4>3. next \in [version : Nat, ready : BOOLEAN]
        BY <4>1, <4>2
      <4>4. gone \in [version : Nat, ready : BOOLEAN]
        BY <4>1
      <4> QED BY <4>3, <4>4
    <3> HIDE DEF next, gone
    <3> QED BY <3>1, <3>3
  <2>3. LibraryTypes'
    BY <2>1, <2>2
  <2>4. \A x \in Components \ {"document"} : PartSame(x)
    BY <2>1 DEF PartSame, Components
  <2> QED BY <1>1, <2>1, <2>3, <2>4 DEF Components
<1> QED BY <1>2, <1>3, <1>4, <1>5

-----------------------------------------------------------------------------
(* The statements of the reader.                                           *)

LEMMA ReadingKeeps ==
  ASSUME RetrievalInv, reader' \in Readers, KindKnown', AskedKnown', reader'.phase = reader.phase,
         UNCHANGED <<libraryVars, edits, allowed, touched>>,
         Deciding /\ reader'.at \in DecidingPlaces => ReadHolds' /\ (Calm => Outcome' \subseteq allowed),
         reader'.at \in {"sent", "cited"} /\ Calm => reader'.items \subseteq allowed
  PROVE  RetrievalInv'
<1>1. RetrievalTypes'
  BY DEF RetrievalInv, RetrievalTypes, LibraryTypes
<1>2. Calm' = Calm /\ Readable' = Readable /\ Deciding' = Deciding
  BY DEF Calm, Readable, Deciding, Usable, Citable, MayRead, LeadsUp, Current
<1>3. DecisionHolds'
  BY <1>2 DEF DecisionHolds
<1> QED BY <1>1, <1>2, <1>3 DEF RetrievalInv

\* One statement of a deciding transaction: it reads what is so now.
LEMMA ReadsOn ==
  ASSUME RetrievalInv, ReadUser \/ ReadEmployments \/ ReadUnits \/ ReadBases
  PROVE  RetrievalInv'
<1>1. reader \in Readers /\ RetrievalTypes /\ KindKnown /\ LibraryTypes
  BY DEF RetrievalInv, RetrievalTypes
<1>2. UNCHANGED <<libraryVars, edits, allowed, touched>>
  BY DEF ReadUser, ReadEmployments, ReadUnits, ReadBases, Reads
<1>4. OpenUnits \in UnitMaps
  BY <1>1 DEF OpenUnits, UnitMaps, LibraryTypes
<1>5. \/ reader.at = "user" /\ reader' = [reader EXCEPT !.at = "employments", !.user = memberActive]
      \/ reader.at = "employments" /\ reader' = [reader EXCEPT !.at = "units", !.employments = employedIn]
      \/ reader.at = "units" /\ reader' = [reader EXCEPT !.at = "bases", !.units = OpenUnits,
                                                           !.employments = @ \cap activeTeams]
      \/ reader.at = "bases" /\ reader' = [reader EXCEPT !.at = "scopes", !.bases = AskedNow]
  BY DEF ReadUser, ReadEmployments, ReadUnits, ReadBases, Reads, OpenUnits, AskedNow
<1>6. PICK r : r = reader'
  OBVIOUS
<1>7. /\ r \in Readers /\ r.phase = reader.phase /\ r.kind = reader.kind /\ r.asked = reader.asked
      /\ r.items = reader.items
      /\ \/ reader.at = "user" /\ r.at = "employments" /\ r.user = memberActive
         \/ reader.at = "employments" /\ r.at = "units" /\ r.employments = employedIn /\ r.user = reader.user
         \/ /\ reader.at = "units" /\ r.at = "bases" /\ r.units = OpenUnits
            /\ r.employments = reader.employments \cap activeTeams /\ r.user = reader.user
         \/ /\ reader.at = "bases" /\ r.at = "scopes" /\ r.bases = AskedNow
            /\ r.units = reader.units /\ r.employments = reader.employments /\ r.user = reader.user
  <2>1. AskedNow \in SUBSET Bases
    BY <1>1 DEF AskedNow, Readers
  <2>2. CASE reader.at = "user" /\ r = [reader EXCEPT !.at = "employments", !.user = memberActive]
    <3>1. PICK m \in BOOLEAN : m = memberActive
      BY <1>1 DEF LibraryTypes
    <3>2. r \in Readers
      BY <1>1, <2>2, <3>1 DEF Readers, ReaderPlaces
    <3> QED BY <1>1, <2>2, <3>2 DEF Readers
  <2>3. CASE reader.at = "employments" /\ r = [reader EXCEPT !.at = "units", !.employments = employedIn]
    <3>1. r \in Readers
      BY <1>1, <2>3 DEF Readers, ReaderPlaces, LibraryTypes
    <3> QED BY <1>1, <2>3, <3>1 DEF Readers
  <2>4. CASE /\ reader.at = "units"
             /\ r = [reader EXCEPT !.at = "bases", !.units = OpenUnits, !.employments = @ \cap activeTeams]
    <3>1. r \in Readers
      BY <1>1, <1>4, <2>4 DEF Readers, ReaderPlaces
    <3> QED BY <1>1, <2>4, <3>1 DEF Readers
  <2>5. CASE reader.at = "bases" /\ r = [reader EXCEPT !.at = "scopes", !.bases = AskedNow]
    <3>1. r \in Readers
      BY <1>1, <2>1, <2>5 DEF Readers, ReaderPlaces
    <3> QED BY <1>1, <2>5, <3>1 DEF Readers
  <2> HIDE DEF Readers
  <2> QED BY <1>5, <1>6, <2>2, <2>3, <2>4, <2>5
<1>8. KindKnown' /\ Statuses' = Statuses /\ reader'.at \notin {"sent", "cited"}
  BY <1>1, <1>6, <1>7 DEF KindKnown, Statuses
<1>a. AskedKnown'
  BY <1>6, <1>7 DEF RetrievalInv, AskedKnown, DecidingPlaces, AskedNow
<1>9. AskedNow' = AskedNow /\ OpenUnits' = OpenUnits
  BY <1>2, <1>6, <1>7, <1>8 DEF AskedNow, OpenUnits
<1>10. ASSUME Deciding PROVE ReadHolds' /\ (Calm => Outcome' \subseteq allowed)
  <2>1. ReadHolds /\ (Calm => Outcome \subseteq allowed)
    BY <1>7, <1>10 DEF RetrievalInv, DecisionHolds, DecidingPlaces
  <2>2. \A c : StillThere(c)' = StillThere(c)
    BY <1>2, <1>6, <1>7 DEF StillThere, Current
  <2>3. CASE reader.at = "user"
    <3>1. Granted' = Granted
      BY <1>2, <1>6, <1>7, <1>9, <2>3 DEF Granted
    <3>2. ReadHolds'
      BY <1>2, <1>6, <1>7, <2>3 DEF ReadHolds
    <3> QED BY <1>6, <1>7, <2>1, <2>2, <3>1, <3>2 DEF Outcome
  <2>4. CASE reader.at = "employments"
    <3>1. Granted' = Granted
      BY <1>2, <1>6, <1>7, <1>9, <2>4 DEF Granted
    <3>2. ReadHolds'
      BY <1>2, <1>6, <1>7, <2>1, <2>4 DEF ReadHolds
    <3> QED BY <1>6, <1>7, <2>1, <2>2, <3>1, <3>2 DEF Outcome
  <2>5. CASE reader.at = "units"
    <3>1. Granted' = Granted
      BY <1>2, <1>6, <1>7, <1>9, <2>5 DEF Granted
    <3>2. ReadHolds'
      BY <1>2, <1>6, <1>7, <1>9, <2>1, <2>5 DEF ReadHolds
    <3> QED BY <1>6, <1>7, <2>1, <2>2, <3>1, <3>2 DEF Outcome
  <2>6. CASE reader.at = "bases"
    <3>1. Granted' = Granted
      BY <1>2, <1>6, <1>7, <1>9, <2>6 DEF Granted
    <3>2. ReadHolds'
      BY <1>2, <1>6, <1>7, <1>9, <2>1, <2>6 DEF ReadHolds
    <3> QED BY <1>6, <1>7, <2>1, <2>2, <3>1, <3>2 DEF Outcome
  <2> QED BY <1>7, <2>3, <2>4, <2>5, <2>6
<1> QED BY <1>2, <1>6, <1>7, <1>8, <1>a, <1>10, ReadingKeeps

\* The last statement of the policy: what it leaves is what was granted.
LEMMA ScopesAreRead ==
  ASSUME RetrievalInv, ReadScopes
  PROVE  RetrievalInv'
<1> DEFINE R == AccessibleKnowledgeBaseIds(reader.user, reader.employments, reader.units, reader.bases, scopeOf)
           at == CASE reader.phase = "search" -> IF R = {} THEN "ranking" ELSE "lexical"
                   [] OTHER -> IF R = {} THEN "refused" ELSE "chunks"
<1>1. reader \in Readers /\ RetrievalTypes /\ KindKnown /\ LibraryTypes
  BY DEF RetrievalInv, RetrievalTypes
<1>2. /\ reader.at = "scopes" /\ reader' = [reader EXCEPT !.bases = R, !.at = at]
      /\ UNCHANGED <<libraryVars, edits, allowed, touched>>
  BY DEF ReadScopes, Reads
<1>3. R \in SUBSET Bases /\ R \subseteq reader.bases /\ at \in {"ranking", "lexical", "refused", "chunks"}
  BY <1>1 DEF Readers, AccessibleKnowledgeBaseIds
<1>4. PICK S, place : S = R /\ place = at
  OBVIOUS
<1> HIDE DEF at
<1>5. /\ reader' \in Readers /\ reader'.bases = S /\ reader'.at = place /\ reader'.phase = reader.phase
      /\ reader'.kind = reader.kind /\ reader'.items = reader.items /\ reader'.asked = reader.asked
  <2> HIDE DEF R
  <2> QED BY <1>1, <1>2, <1>3, <1>4 DEF Readers, ReaderPlaces
<1>6. KindKnown' /\ Statuses' = Statuses
  BY <1>1, <1>3, <1>4, <1>5 DEF KindKnown, Statuses
<1>a. AskedKnown'
  <2>1. place = "chunks" => S # {}
    BY <1>4 DEF at
  <2> QED BY <1>2, <1>3, <1>4, <1>5, <2>1 DEF RetrievalInv, AskedKnown, DecidingPlaces
<1>7. ASSUME Deciding, place \in DecidingPlaces PROVE ReadHolds' /\ (Calm => Outcome' \subseteq allowed)
  <2>1. place = "chunks"
    BY <1>3, <1>4, <1>7 DEF DecidingPlaces
  <2>2. ReadHolds /\ (Calm => Outcome \subseteq allowed)
    BY <1>2, <1>7 DEF RetrievalInv, DecisionHolds, DecidingPlaces
  <2>3. Granted' = S /\ Granted = S
    BY <1>2, <1>4, <1>5, <2>1 DEF Granted
  <2>4. \A c : StillThere(c)' = StillThere(c)
    BY <1>2, <1>5 DEF StillThere, Current
  <2>5. Outcome' = Outcome
    BY <1>5, <2>3, <2>4 DEF Outcome
  <2>6. ASSUME touched \subseteq {"document"}, NEW b \in S PROVE MayRead(b) /\ baseStatus[b] \in Statuses
    <3>1. S = AccessibleKnowledgeBaseIds(memberActive, employedIn \cap activeTeams, OpenUnits, AskedNow, scopeOf)
      BY <1>2, <1>4, <2>2, <2>6 DEF ReadHolds
    <3>2. AskedNow \in SUBSET Bases
      BY <1>1 DEF AskedNow, Readers
    <3> QED BY <1>1, <2>6, <3>1, <3>2, PolicyNow DEF AskedNow
  <2>7. \A b : MayRead(b)' = MayRead(b)
    <3>1. \A t, a : LeadsUp(t, a)' = LeadsUp(t, a)
      BY <1>2 DEF LeadsUp
    <3> QED BY <1>2, <3>1 DEF MayRead
  <2>8. ReadHolds'
    BY <1>2, <1>5, <1>6, <2>1, <2>6, <2>7 DEF ReadHolds
  <2> QED BY <2>2, <2>5, <2>8
<1> QED BY <1>2, <1>3, <1>4, <1>5, <1>6, <1>7, <1>a, ReadingKeeps

\* What leaves is the outcome of the decision.
LEMMA SourcesLeave ==
  ASSUME RetrievalInv, CountChunks \/ ShowOriginal
  PROVE  RetrievalInv'
<1>1. reader \in Readers /\ RetrievalTypes /\ KindKnown /\ LibraryTypes
  BY DEF RetrievalInv, RetrievalTypes
<1>2. PICK place \in {"sent", "refused"} : reader' = [reader EXCEPT !.at = place]
  BY DEF CountChunks, ShowOriginal, Reads
<1>3. /\ reader' \in Readers /\ reader'.at = place /\ reader'.phase = reader.phase /\ reader'.kind = reader.kind
      /\ reader'.items = reader.items
  BY <1>1, <1>2 DEF Readers, ReaderPlaces
<1>4. UNCHANGED <<libraryVars, edits, allowed, touched>> /\ reader.at = "chunks" /\ Deciding
  BY DEF CountChunks, ShowOriginal, Reads, Deciding
<1>5. KindKnown' /\ AskedKnown' /\ reader'.at \notin DecidingPlaces
  BY <1>1, <1>3 DEF KindKnown, AskedKnown, DecidingPlaces
<1>6. ASSUME place = "sent", Calm PROVE reader.items \subseteq allowed
  <2>1. Outcome \subseteq allowed
    BY <1>4, <1>6 DEF RetrievalInv, DecisionHolds, DecidingPlaces
  <2>2. CASE CountChunks
    <3>1. \A c \in reader.items : c[1] \in reader.bases /\ Current(c)
      BY <1>1, <1>3, <1>6, <2>2 DEF CountChunks, Reads, Readers
    <3>2. reader.phase # "citation"
      BY <2>2 DEF CountChunks
    <3> QED BY <1>4, <2>1, <3>1, <3>2 DEF Outcome, Granted, StillThere
  <2>3. CASE ShowOriginal
    <3>1. \A c \in reader.items : c[2] <= published[c[1]].version
      BY <1>1, <1>3, <1>6, <2>3 DEF ShowOriginal, Reads, Readers
    <3>2. \A c \in reader.items : c[1] \in reader.bases
      BY <1>4, <2>3 DEF ShowOriginal, RetrievalInv, AskedKnown, DecidingPlaces
    <3> QED BY <1>4, <2>1, <2>3, <3>1, <3>2 DEF Outcome, Granted, StillThere, ShowOriginal
  <2> QED BY <2>2, <2>3
<1> QED BY <1>3, <1>4, <1>5, <1>6, ReadingKeeps

\* A decision begins: nothing is touched yet.
LEMMA DecisionBegins ==
  ASSUME RetrievalInv, NEW r \in Readers, reader' = r, r.at = "user", touched' = {},
         r.phase \in {"recheck", "citation"}, r.phase = "recheck" => r.kind = "run",
         r.phase = "citation" => r.kind = "citation" /\ \A c \in r.items : r.asked = {c[1]},
         allowed' = IF r.phase = "citation" THEN Citable ELSE Usable, UNCHANGED <<libraryVars, edits>>
  PROVE  RetrievalInv'
<1>1. RetrievalTypes' /\ KindKnown' /\ AskedKnown'
  BY DEF RetrievalInv, RetrievalTypes, LibraryTypes, KindKnown, AskedKnown
<1>2. Readable' = allowed'
  BY DEF Readable, Usable, Citable, MayRead, LeadsUp, Current
<1>3. ReadHolds'
  BY DEF ReadHolds
<1>4. Deciding' /\ (reader.at \in DecidingPlaces)' /\ (touched \subseteq Unread(reader.at))'
  BY DEF Deciding, DecidingPlaces
<1>5. Outcome' \subseteq Readable'
  BY <1>1, <1>3, <1>4, NowGrantedNext
<1>6. DecisionHolds'
  BY <1>2, <1>3, <1>5 DEF DecisionHolds
<1> QED BY <1>1, <1>2, <1>6 DEF RetrievalInv

LEMMA NoReaderParts ==
  /\ NoReader \in Readers /\ NoReader.phase = "none" /\ NoReader.at = "idle"
<1>1. PICK u : u = [t \in {} |-> NoTeam]
  OBVIOUS
<1>2. u \in [{} -> Teams \cup {NoTeam}]
  BY <1>1
<1>3. u \in UnitMaps
  BY <1>2 DEF UnitMaps
<1>4. NoReader = [kind |-> "none", at |-> "idle", phase |-> "none", user |-> FALSE, employments |-> {},
                  units |-> u, asked |-> {}, bases |-> {}, embedded |-> FALSE, items |-> {}]
  BY <1>1 DEF NoReader
<1> QED BY <1>3, <1>4 DEF Readers, ReaderPlaces

LEMMA ChecksOrShows ==
  ASSUME RetrievalInv, ChecksAgain \/ GetOriginal
  PROVE  RetrievalInv'
<1>1. reader \in Readers /\ RetrievalTypes /\ KindKnown /\ LibraryTypes
  BY DEF RetrievalInv, RetrievalTypes
<1>2. CASE ChecksAgain /\ reader.items = {}
  <2> DEFINE r == [reader EXCEPT !.at = "sent"]
  <2>1. reader.at = "found" /\ reader' = r /\ allowed' = Usable /\ touched' = {} /\ UNCHANGED <<libraryVars, edits>>
    BY <1>2 DEF ChecksAgain, Recheck, Decides
  <2>2. r \in Readers /\ r.at = "sent" /\ r.items = {} /\ r.phase = reader.phase /\ r.kind = reader.kind
    BY <1>1, <1>2 DEF Readers, ReaderPlaces
  <2> HIDE DEF r
  <2>3. reader.phase # "citation"
    BY <1>1, <2>1 DEF KindKnown
  <2>4. Readable' = Usable
    BY <2>1, <2>2, <2>3 DEF Readable, Usable, MayRead, LeadsUp, Current
  <2>5. RetrievalTypes' /\ KindKnown' /\ AskedKnown' /\ DecisionHolds'
    BY <1>1, <2>1, <2>2 DEF RetrievalTypes, LibraryTypes, KindKnown, AskedKnown, DecisionHolds, DecidingPlaces
  <2> QED BY <2>1, <2>2, <2>4, <2>5 DEF RetrievalInv
<1>3. CASE ChecksAgain /\ reader.items # {}
  <2> DEFINE r == [reader EXCEPT !.phase = "recheck", !.at = "user"]
  <2>1. reader.at = "found" /\ reader' = r /\ allowed' = Usable /\ touched' = {} /\ UNCHANGED <<libraryVars, edits>>
    BY <1>3 DEF ChecksAgain, Recheck, Decides
  <2>2. r \in Readers /\ r.at = "user" /\ r.phase = "recheck" /\ r.kind = "run"
    BY <1>1, <2>1 DEF Readers, ReaderPlaces, KindKnown
  <2> HIDE DEF r
  <2> QED BY <2>1, <2>2, DecisionBegins
<1>4. CASE GetOriginal
  <2>1. PICK c \in Chunks : Decides([NoReader EXCEPT !.kind = "citation", !.phase = "citation", !.at = "user",
                                                !.asked = {c[1]}, !.items = {c}], Citable)
    BY <1>4 DEF GetOriginal
  <2> DEFINE r == [NoReader EXCEPT !.kind = "citation", !.phase = "citation", !.at = "user",
                                   !.asked = {c[1]}, !.items = {c}]
  <2>2. reader' = r /\ allowed' = Citable /\ touched' = {} /\ UNCHANGED <<libraryVars, edits>>
    BY <2>1 DEF Decides
  <2>3. c[1] \in Bases
    BY DEF Chunks
  <2>4. r \in Readers /\ r.at = "user" /\ r.phase = "citation" /\ r.kind = "citation" /\ r.asked = {c[1]} /\ r.items = {c}
    BY <2>3, NoReaderParts DEF Readers, ReaderPlaces
  <2> HIDE DEF r
  <2> QED BY <2>2, <2>4, DecisionBegins
<1> QED BY <1>2, <1>3, <1>4

\* The search itself, and the citations of an answer.
LEMMA SearchesAndCites ==
  ASSUME RetrievalInv, SearchForRun \/ TestRetrieval \/ LexicalRows \/ VectorRows \/ Rank \/ AnswerCites
  PROVE  RetrievalInv'
<1>1. reader \in Readers /\ RetrievalTypes /\ KindKnown /\ LibraryTypes
  BY DEF RetrievalInv, RetrievalTypes
<1>2. UNCHANGED <<libraryVars, edits, allowed, touched>>
  BY DEF SearchForRun, TestRetrieval, Search, LexicalRows, VectorRows, Rank, AnswerCites, Reads
<1>3. CASE SearchForRun \/ TestRetrieval
  <2>1. PICK kind \in {"run", "test"}, asked \in SUBSET Bases, embedded \in BOOLEAN :
          reader' = [NoReader EXCEPT !.kind = kind, !.phase = "search", !.at = "user", !.asked = asked, !.embedded = embedded]
    BY <1>3 DEF SearchForRun, TestRetrieval, Search, Reads
  <2>2. reader' \in Readers /\ reader'.at = "user" /\ reader'.phase = "search"
    BY <2>1, NoReaderParts DEF Readers, ReaderPlaces
  <2>3. RetrievalTypes' /\ KindKnown' /\ AskedKnown' /\ DecisionHolds' /\ ~Deciding'
    BY <1>1, <1>2, <2>2 DEF RetrievalTypes, LibraryTypes, KindKnown, AskedKnown, DecisionHolds, Deciding
  <2> QED BY <2>2, <2>3 DEF RetrievalInv
<1>4. CASE LexicalRows \/ VectorRows \/ Rank \/ AnswerCites
  <2>1. PICK items \in SUBSET Chunks, place \in {"vector", "ranking", "found", "answered", "cited"} :
          /\ reader' = [reader EXCEPT !.items = items, !.at = place]
          /\ place = "found" => reader.kind = "run"
          /\ place = "cited" => reader.at = "sent" /\ items \subseteq reader.items
    <3>1. CASE LexicalRows
      BY <3>1 DEF LexicalRows, Reads, Matches
    <3>2. CASE VectorRows
      <4>1. PICK rows \in SUBSET Matches : reader' = [reader EXCEPT !.items = MergeCandidates(@, rows), !.at = "ranking"]
        BY <3>2 DEF VectorRows, Reads
      <4>2. MergeCandidates(reader.items, rows) \subseteq Chunks
        BY <1>1 DEF MergeCandidates, Matches, Readers
      <4> QED BY <4>1, <4>2
    <3>3. CASE Rank
      <4>1. PICK items \in BuildResponse(reader.items) :
              reader' = [reader EXCEPT !.items = items, !.at = IF reader.kind = "run" THEN "found" ELSE "answered"]
        BY <3>3 DEF Rank, Reads
      <4>2. items \subseteq Chunks
        BY <1>1 DEF BuildResponse, Readers
      <4> QED BY <4>1, <4>2
    <3>4. CASE AnswerCites
      <4>0. PICK named \in SUBSET Chunks : \E citations \in ValidateGroundedOutput(named, reader.items) :
              reader' = [reader EXCEPT !.at = "cited", !.items = citations]
        BY <3>4 DEF AnswerCites, Reads
      <4>1. PICK citations \in ValidateGroundedOutput(named, reader.items) :
              reader' = [reader EXCEPT !.at = "cited", !.items = citations]
        BY <4>0
      <4>2. citations \subseteq Chunks /\ citations \subseteq reader.items /\ reader.at = "sent"
        BY <3>4 DEF ValidateGroundedOutput, AnswerCites
      <4> QED BY <4>1, <4>2
    <3> QED BY <1>4, <3>1, <3>2, <3>3, <3>4
  <2>2. /\ reader' \in Readers /\ reader'.at = place /\ reader'.items = items
        /\ reader'.phase = reader.phase /\ reader'.kind = reader.kind
    BY <1>1, <2>1 DEF Readers, ReaderPlaces
  <2>3. KindKnown' /\ AskedKnown' /\ reader'.at \notin DecidingPlaces
    BY <1>1, <2>1, <2>2 DEF KindKnown, AskedKnown, DecidingPlaces
  <2>4. reader'.at \in {"sent", "cited"} /\ Calm => reader'.items \subseteq allowed
    BY <2>1, <2>2 DEF RetrievalInv
  <2> QED BY <1>2, <2>2, <2>3, <2>4, ReadingKeeps
<1> QED BY <1>3, <1>4

-----------------------------------------------------------------------------
(* Every step of a reader, and every edit of others, preserves the inductive
   invariant. *)
THEOREM RetrievalInvariant == RetrievalSpec => []RetrievalInv
<1>1. RetrievalInit => RetrievalInv
  <2> SUFFICES ASSUME RetrievalInit PROVE RetrievalInv
    OBVIOUS
  <2>1. LibraryTypes
    BY DEF RetrievalInit, LibraryTypes
  <2>2. RetrievalTypes
    BY <2>1, NoReaderParts DEF RetrievalInit, RetrievalTypes
  <2>3. reader.phase = "none" /\ reader.at = "idle"
    BY NoReaderParts DEF RetrievalInit
  <2> QED BY <2>2, <2>3 DEF RetrievalInv, KindKnown, AskedKnown, DecisionHolds, Deciding
<1>2. ASSUME RetrievalInv, [RetrievalNext]_retrievalVars PROVE RetrievalInv'
  <2>1. CASE UNCHANGED retrievalVars
    <3>1. reader' = reader /\ UNCHANGED <<libraryVars, edits, allowed, touched>>
      BY <2>1
    <3>2. (\A t, a : LeadsUp(t, a)' = LeadsUp(t, a)) /\ Statuses' = Statuses /\ (\A c : Current(c)' = Current(c))
      BY <3>1 DEF LeadsUp, Statuses, Current
    <3>3. \A b : MayRead(b)' = MayRead(b)
      BY <3>1, <3>2 DEF MayRead
    <3>4. Granted' = Granted /\ OpenUnits' = OpenUnits /\ AskedNow' = AskedNow
      BY <3>1, <3>2 DEF Granted, OpenUnits, AskedNow
    <3>5. ReadHolds' = ReadHolds
      BY <3>1, <3>2, <3>3, <3>4 DEF ReadHolds
    <3>6. Outcome' = Outcome
      BY <3>1, <3>2, <3>4 DEF Outcome, StillThere
    <3>7. reader \in Readers /\ KindKnown' /\ AskedKnown'
      BY <1>2, <3>1 DEF RetrievalInv, RetrievalTypes, KindKnown, AskedKnown
    <3> QED BY <1>2, <3>1, <3>5, <3>6, <3>7, ReadingKeeps DEF RetrievalInv, DecisionHolds
  <2>2. CASE RetrievalNext
    BY <1>2, <2>2, EditsTouch, ReadsOn, ScopesAreRead, SourcesLeave, ChecksOrShows, SearchesAndCites DEF RetrievalNext
  <2> QED BY <1>2, <2>1, <2>2
<1> QED BY <1>1, <1>2, PTL DEF RetrievalSpec

(* What leaves for the runtime, is cited or shown was open to the member at a
   moment of the check, unless two things changed during it. *)
THEOREM SourcesWereAllowed == RetrievalSpec => []SentWasAllowed
<1>1. RetrievalInv => SentWasAllowed
  BY AtMostOne DEF RetrievalInv, RetrievalTypes, SentWasAllowed
<1> QED BY <1>1, RetrievalInvariant, PTL
===============================================================================
