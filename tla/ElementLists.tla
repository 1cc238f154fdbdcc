----------------------------- MODULE ElementLists -----------------------------
(* What ElementTree and AnnotatedSnapshot list: element_tree.py walks an application's elements while
   they come and go, under four bounds.  ElementTree replies with those of them that can have a ref;
   for AnnotatedSnapshot marks.py numbers all of them, together with the words OCR read where no
   element is.

   An element is its path from the root: <<2, 1>> is the first child of the second child. *)
EXTENDS Integers, Sequences, FiniteSets, SequencesExt

CONSTANTS
  Elements,            \* the elements below the root: paths, with every path above each
  Children(_),         \* what children() gives of an element: those below it, in their order
  Interactive(_),      \* listed(): operable or focusable, and on the screen
  BoxOf(_), NameOf(_), \* its rectangle <<left, top, right, bottom>>; its name and class
  Limits, Depths, Visits,  \* the walk's bounds: elements listed, levels, elements visited
  MAX_MARKS,           \* how many marks a picture gets
  Readings             \* what OCR may give: sequences of words [text, box]

Boxes == Int \X Int \X Int \X Int
\* A word's text names the word: two places that read the same are two texts here.
IsReading(read) ==
  /\ read \in Seq(ToSet(read))
  /\ \A w \in ToSet(read) : w = [text |-> <<w.text[1]>>, box |-> w.box] /\ w.box \in Boxes
  /\ \A v, w \in ToSet(read) : v.text = w.text => v = w

ASSUME ListAssumption ==
  /\ \A n \in Elements : n \in Seq(Nat) /\ n # <<>>
  /\ \A n \in Elements \cup {<<>>} :
       /\ Children(n) \in Seq(Elements)
       /\ \A i \in DOMAIN Children(n) : Front(Children(n)[i]) = n
       /\ \A i, j \in DOMAIN Children(n) : i < j => Last(Children(n)[i]) < Last(Children(n)[j])
  /\ \A n \in Elements : \A k \in 1..Len(n) : SubSeq(n, 1, k) \in ToSet(Children(SubSeq(n, 1, k - 1)))
  /\ Limits \subseteq Nat /\ Depths \subseteq Nat \ {0} /\ Visits \subseteq Nat /\ MAX_MARKS \in Nat
  /\ \A n \in Elements : BoxOf(n) \in Boxes
  /\ \A read \in Readings : IsReading(read)

VARIABLES
  bounds,    \* the limit, depth and visits of this walk
  stack,     \* walk's stack of iterators: the elements each one still gives
  found,     \* what is listed so far
  visited,
  clipped,
  cut,       \* why the list is incomplete, "" when nothing says so
  vanished,  \* history: the elements that could not be read when the walk came to them
  walking,   \* "yes", "no", then "listed" (ElementTree) or "marked"; "failed": nothing was read
  refless,   \* the elements found that can have no ref
  words,     \* what OCR read
  marks      \* merge's reply

listVars == <<bounds, stack, found, visited, clipped, cut, vanished, walking, refless, words, marks>>

-----------------------------------------------------------------------------
(* The walk. *)
Advance == [stack EXCEPT ![Len(stack)] = Tail(@)]
NextElement == Head(stack[Len(stack)])
AtElement == walking = "yes" /\ stack # <<>> /\ stack[Len(stack)] # <<>>
StopWalk(why) == cut' = why /\ walking' = "no" /\ UNCHANGED <<stack, found, visited, clipped, vanished>>

EndBranch ==
  /\ walking = "yes" /\ stack # <<>> /\ stack[Len(stack)] = <<>>
  /\ stack' = Front(stack)
  /\ UNCHANGED <<found, visited, clipped, cut, vanished, walking>>

TooMany == AtElement /\ visited >= bounds.visits /\ StopWalk("visits")
OutOfTime == AtElement /\ visited < bounds.visits /\ StopWalk("time")
CanVisit == AtElement /\ visited < bounds.visits

\* read gives None: the element is gone, or its provider did not answer.
Vanished ==
  /\ CanVisit
  /\ visited' = visited + 1 /\ stack' = Advance
  /\ vanished' = vanished \cup {NextElement}
  /\ UNCHANGED <<found, clipped, cut, walking>>

\* Mutant: one element more than the limit is listed.
LimitReachedLate == CanVisit /\ Interactive(NextElement) /\ Len(found) > bounds.limit
LimitReached == CanVisit /\ Interactive(NextElement) /\ Len(found) >= bounds.limit
\* The reading counts the visit before it meets the limit.
TooLong ==
  /\ LimitReached
  /\ cut' = "limit" /\ walking' = "no" /\ visited' = visited + 1
  /\ UNCHANGED <<stack, found, clipped, vanished>>

\* Mutant: children below the last level are left out without a word.
DescendSilently(n, below) ==
  IF Len(stack) < bounds.depth
  THEN stack' = Append(Advance, below) /\ UNCHANGED clipped
  ELSE stack' = Advance /\ UNCHANGED clipped
\* The children of an element at the last level are only asked for, to tell that they are left out;
\* a branch that fails under the walk has none.
Descend(n, below) ==
  IF Len(stack) < bounds.depth
  THEN stack' = Append(Advance, below) /\ UNCHANGED clipped
  ELSE stack' = Advance /\ clipped' = (clipped \/ below # <<>>)
Visit ==
  /\ CanVisit /\ ~LimitReached
  /\ visited' = visited + 1
  /\ found' = IF Interactive(NextElement) THEN Append(found, NextElement) ELSE found
  /\ \/ Descend(NextElement, Children(NextElement)) /\ UNCHANGED vanished
     \/ Descend(NextElement, <<>>) /\ vanished' = vanished \cup ToSet(Children(NextElement))
  /\ UNCHANGED <<cut, walking>>

EndWalk ==
  /\ walking = "yes" /\ stack = <<>>
  /\ walking' = "no" /\ cut' = IF clipped THEN "depth" ELSE ""
  /\ UNCHANGED <<stack, found, visited, clipped, vanished>>

\* _published: an element without an entry - no RuntimeId, or gone since - is left out of the reply.
Publish ==
  /\ walking = "no" /\ walking' = "listed"
  /\ refless' \in SUBSET ToSet(found)
  /\ UNCHANGED <<stack, found, visited, clipped, cut, vanished, marks>>
InReply == ToSet(found) \ refless

\* The reading fails as a whole: ElementTree is an error, AnnotatedSnapshot gets ([], "").
NotRead ==
  /\ walking = "yes" /\ walking' = "failed" /\ found' = <<>>
  /\ UNCHANGED <<stack, visited, clipped, cut, vanished, refless, marks>>

-----------------------------------------------------------------------------
(* The marks. *)
Surface == 100      \* an element this many times a word is what it is drawn on
RowHeight == 16
Greater(a, b) == IF a > b THEN a ELSE b
Lesser(a, b) == IF a > b THEN b ELSE a
Area(b) == Greater(0, b[3] - b[1]) * Greater(0, b[4] - b[2])
Overlap(a, b) == Area(<<Greater(a[1], b[1]), Greater(a[2], b[2]), Lesser(a[3], b[3]), Lesser(a[4], b[4])>>)
Covered(word, boxes) ==
  \E box \in boxes : 2 * Overlap(word.box, box) > Area(word.box) /\ Area(box) <= Surface * Area(word.box)

Tall(box) == box[4] - box[2]
Continues(line, word) ==
  LET height == Lesser(Tall(line.box), Tall(word.box))
      middles == (line.box[2] + line.box[4]) - (word.box[2] + word.box[4])
      gap == word.box[1] - line.box[3]
  IN Greater(middles, -middles) <= height /\ -height <= gap /\ 10 * gap <= 8 * height
Extended(line, word) ==
  [text |-> line.text \o word.text,
   box |-> <<Lesser(line.box[1], word.box[1]), Lesser(line.box[2], word.box[2]),
             Greater(line.box[3], word.box[3]), Greater(line.box[4], word.box[4])>>]

\* Left to right, each word joins the first line it continues.
Less(p, q) == \E i \in DOMAIN p : p[i] < q[i] /\ \A j \in 1..(i - 1) : p[j] = q[j]
\* sorted(): what has the least key is next (SetToSortSeq has no place for items whose keys tie).
InOrder(items, key) ==
  LET First(those) == CHOOSE x \in those : \A y \in those : ~Less(key[y], key[x])
      rest[i \in 0..Cardinality(items)] == IF i = 0 THEN items ELSE rest[i - 1] \ {First(rest[i - 1])}
  IN [i \in 1..Cardinality(items) |-> First(rest[i - 1])]
JoinWord(lines, word) ==
  LET before == {i \in DOMAIN lines : Continues(lines[i], word)}
  IN IF before = {} THEN Append(lines, word)
     ELSE LET i == CHOOSE i \in before : \A j \in before : i <= j
          IN [lines EXCEPT ![i] = Extended(@, word)]
JoinWords(free) ==
  LET ordered == InOrder(free, [w \in free |-> <<w.box[1], w.box[2]>>])
      lines[i \in 0..Len(ordered)] == IF i = 0 THEN <<>> ELSE JoinWord(lines[i - 1], ordered[i])
  IN lines[Len(ordered)]

\* By rows: a row is the tops within RowHeight of its first; in a row, left to right.
Exact(m) == <<m.box[2], m.box[1], m.box[3], m.box[4]>>
ReadingOrder(items) ==
  LET down == InOrder(items, [m \in items |-> Exact(m)])
      rows[i \in 0..Len(down)] ==
        IF i = 0 THEN [row |-> 0, top |-> 0]
        ELSE IF i = 1 \/ down[i].box[2] - rows[i - 1].top > RowHeight
             THEN [row |-> rows[i - 1].row + 1, top |-> down[i].box[2]]
             ELSE rows[i - 1]
      Row(m) == rows[CHOOSE i \in DOMAIN down : down[i] = m].row
  IN InOrder(items, [m \in items |-> <<Row(m), m.box[1]>> \o Exact(m)])

ElementMark(n) == [source |-> "element", text |-> <<NameOf(n)>>, box |-> BoxOf(n)]
WordMark(line) == [source |-> "ocr", text |-> line.text, box |-> line.box]
\* A control and its inner part may repeat each other: the first one of each look is kept.
Unique(listed) ==
  LET kept[i \in 0..Len(listed)] ==
        IF i = 0 THEN <<>>
        ELSE IF ElementMark(listed[i]) \in ToSet(kept[i - 1]) THEN kept[i - 1]
        ELSE Append(kept[i - 1], ElementMark(listed[i]))
  IN kept[Len(listed)]
FirstOf(seq, k) == SubSeq(seq, 1, Lesser(k, Len(seq)))

FreeWords(listed, read) ==
  {w \in ToSet(read) : Area(w.box) > 0 /\ ~Covered(w, {BoxOf(n) : n \in ToSet(listed)})}
\* Elements come first: when the limit is reached the words are what goes.
Merge(listed, read) ==
  LET unique == Unique(listed)
      lines == ReadingOrder(ToSet(JoinWords(FreeWords(listed, read))))
      elements == FirstOf(unique, MAX_MARKS)
      text == FirstOf(lines, MAX_MARKS - Len(elements))
  IN [marks |-> ReadingOrder(ToSet(elements) \cup {WordMark(line) : line \in ToSet(text)}),
      dropped |-> Len(unique) + Len(lines) - Len(elements) - Len(text)]

\* Each mark that can have a ref gets one; the others have none.
Mark ==
  /\ walking \in {"no", "failed"}
  /\ walking' = "marked" /\ marks' = Merge(found, words)
  /\ UNCHANGED <<stack, found, visited, clipped, cut, vanished, refless>>

-----------------------------------------------------------------------------
NoMarks == [marks |-> <<>>, dropped |-> 0]
ListIdle(b, read, state) ==
  /\ bounds = b /\ words = read /\ walking = state
  /\ stack = <<Children(<<>>)>> /\ found = <<>> /\ visited = 0 /\ clipped = FALSE
  /\ cut = "" /\ vanished = {} /\ refless = {} /\ marks = NoMarks
ListInit ==
  \E limit \in Limits, depth \in Depths, visits \in Visits, read \in Readings :
    ListIdle([limit |-> limit, depth |-> depth, visits |-> visits], read, "yes")

WalkStep ==
  EndBranch \/ TooMany \/ OutOfTime \/ Vanished \/ TooLong \/ Visit \/ EndWalk
ListNext ==
  /\ (WalkStep /\ UNCHANGED <<refless, marks>>) \/ Publish \/ NotRead \/ Mark
  /\ UNCHANGED <<bounds, words>>
ListSpec == ListInit /\ [][ListNext]_listVars

-----------------------------------------------------------------------------
(* The types of the walk. *)
ListTypeOK ==
  /\ Len(stack) <= bounds.depth /\ Len(found) <= bounds.limit /\ visited <= bounds.visits
  /\ clipped \in BOOLEAN /\ vanished \subseteq Elements /\ refless \subseteq Elements
  /\ walking \in {"yes", "no", "listed", "failed", "marked", "parked"}
  /\ cut \in {"", "visits", "time", "limit", "depth"}

Gone(n) == \E k \in 1..Len(n) : SubSeq(n, 1, k) \in vanished
There == {n \in Elements : Interactive(n) /\ ~Gone(n)}
Earlier(m, n) == \/ \E i \in DOMAIN m \cap DOMAIN n : m[i] < n[i] /\ SubSeq(m, 1, i - 1) = SubSeq(n, 1, i - 1)
                 \/ Len(m) < Len(n) /\ SubSeq(n, 1, Len(m)) = m

\* What the walk found is in the order of the tree, without a gap above the last level; when no reason
\* is given it is every element that could be read, and only what can have no ref is missing in the reply.
WalkTellsAll ==
  walking \in {"no", "listed"} =>
    /\ \A i, j \in DOMAIN found : i < j => Earlier(found[i], found[j])
    /\ \A i \in DOMAIN found, n \in There :
         Earlier(n, found[i]) /\ Len(n) <= bounds.depth => n \in ToSet(found)
    /\ cut = "" => InReply = There \ refless

\* No word is in two marks, and every word no control covers is in one unless marks were dropped; words are
\* dropped before elements, and only at the limit, and the numbers run down the screen.
WordsOf(m) == ToSet(m.text)
MarksTellAll ==
  walking = "marked" =>
    LET given == marks.marks
        seen == {i \in DOMAIN given : given[i].source = "ocr"}
        told == {w \in FreeWords(found, words) : \E i \in seen : ToSet(w.text) \subseteq WordsOf(given[i])}
    IN /\ Len(given) <= MAX_MARKS
       /\ \A i, j \in seen : i # j => WordsOf(given[i]) \cap WordsOf(given[j]) = {}
       /\ marks.dropped = 0 => told = FreeWords(found, words)
       /\ seen # {} => \A n \in ToSet(found) : ElementMark(n) \in ToSet(given)
       /\ \A i, j \in DOMAIN given : i < j => given[i].box[2] <= given[j].box[2] + RowHeight
       /\ Len(given) = MAX_MARKS \/ marks.dropped = 0

(* What the walk finds is not lost without a word: a walk that gives no reason found every element that
   could be read, ElementTree's reply lacks those of them only that can have no ref, and of the marks
   of what was found and read nothing is missing that is not counted. *)
NothingLostUntold == WalkTellsAll /\ MarksTellAll

(* "the reply says when the list is incomplete" (ElementTree, tools/desktop.py): a reply that gives no
   reason lists every element that could be read. *)
TreeSaysIncomplete == walking = "listed" /\ cut = "" => InReply = There
===============================================================================
