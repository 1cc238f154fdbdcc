-------------------------- MODULE MachinePartsProofs --------------------------
(***************************************************************************)
(* What takes a definition by recursion to prove of the machine server,    *)
(* and what its parts are together.  The plans of the input tools: the     *)
(* events of a wheel and the strokes of a text, for any amount and text.   *)
(* The marks of a picture: lines of words, rows and reading order, for any *)
(* elements and whatever an OCR reads.  The types of every part.  And the  *)
(* composition: all the safety properties of the machine server's runs, of *)
(* every instance of its parts.                                            *)
(*                                                                         *)
(* A recursive function is what any function is that begins as it does and *)
(* goes on as it does (Recursion, Defined); what holds at 0 and of each    *)
(* number after the one before holds of all (UpTo).                        *)
(***************************************************************************)
EXTENDS MCMachineParts, MachineProofs, TaskManagerProofs, FiniteSetTheorems, TLAPS

-----------------------------------------------------------------------------
(* Functions by recursion. *)

\* What holds of 0, and of a number when it holds of the one before it, holds up to any bound.
LEMMA UpTo ==
  ASSUME NEW N \in Nat, NEW P, 0 \in P, \A n \in 1..N : n - 1 \in P => n \in P
  PROVE  \A n \in 0..N : n \in P
<1> DEFINE Bad == {n \in 0..N : n \notin P}
<1>1. SUFFICES ASSUME Bad # {} PROVE FALSE
    OBVIOUS
<1>2. PICK n \in Bad : \A m \in Bad : n <= m
  <2>1. Bad \subseteq Nat
      OBVIOUS
  <2> HIDE DEF Bad
  <2> QED
      BY <1>1, <2>1, LeastNat
<1>3. n \in 1..N /\ n - 1 \in 0..N /\ n - 1 \notin Bad
    BY <1>2
<1> QED
    BY <1>2, <1>3

\* A function over 0..N may be defined from its value before.
Leads(N, S, F) == \A x \in S, n \in 1..N : F[<<x, n>>] \in S
Follows(N, a, F, g) == g[0] = a /\ \A n \in 1..N : g[n] = F[<<g[n - 1], n>>]
LEMMA Recursion ==
  ASSUME NEW N \in Nat, NEW S, NEW a \in S, NEW F, Leads(N, S, F)
  PROVE  \E g \in [0..N -> S] : Follows(N, a, F, g)
<1> USE DEF Leads, Follows
<1> DEFINE Part(n, g) == g \in [0..n -> S] /\ g[0] = a /\ \A k \in 1..n : g[k] = F[<<g[k - 1], k>>]
           P == {n \in 0..N : \E g : Part(n, g)}
<1>1. 0 \in P
  <2>1. Part(0, [k \in 0..0 |-> a])
      OBVIOUS
  <2>2. 0 \in 0..N
      OBVIOUS
  <2> HIDE DEF Part
  <2> QED
      BY <2>1, <2>2
<1>2. ASSUME NEW n \in 1..N, n - 1 \in P PROVE n \in P
  <2>1. PICK g : Part(n - 1, g)
      BY <1>2
  <2> DEFINE h == [k \in 0..n |-> IF k = n THEN F[<<g[n - 1], n>>] ELSE g[k]]
  <2>2. g[n - 1] \in S
      BY <2>1
  <2>3. h \in [0..n -> S] /\ h[0] = a
      BY <2>1, <2>2
  <2>4. ASSUME NEW k \in 1..n PROVE h[k] = F[<<h[k - 1], k>>]
    <3>1. h[k - 1] = g[k - 1] /\ h[k] = (IF k = n THEN F[<<g[n - 1], n>>] ELSE g[k])
        BY <2>1
    <3>2. k # n => g[k] = F[<<g[k - 1], k>>]
        BY <2>1
    <3> QED
        BY <3>1, <3>2
  <2>5. Part(n, h)
      BY <2>3, <2>4
  <2>6. n \in 0..N
      OBVIOUS
  <2> HIDE DEF Part, h
  <2> QED
      BY <2>5, <2>6
<1>3. N \in P
  <2> HIDE DEF P
  <2> QED
      BY <1>1, <1>2, UpTo
<1> QED
    BY <1>3

\* What such a definition gives is of its kind all the way.
LEMMA Defined ==
  ASSUME NEW N \in Nat, NEW S, NEW f, f[0] \in S, \A n \in 1..N : f[n - 1] \in S => f[n] \in S
  PROVE  \A n \in 0..N : f[n] \in S
<1> DEFINE P == {n \in 0..N : f[n] \in S}
<1>1. 0 \in P
    OBVIOUS
<1>2. \A n \in 1..N : n - 1 \in P => n \in P
    OBVIOUS
<1> HIDE DEF P
<1>3. \A n \in 0..N : n \in P
    BY <1>1, <1>2, UpTo
<1> QED
    BY <1>3 DEF P

-----------------------------------------------------------------------------
(* The strokes of a text. *)

\* What a stroke gives an application, and the values a plan and its effect are made of.
Strokes == [source : Seq(Characters), key : {"none", "enter", "tab"}]
Inputs == Characters \cup {"enter"}
Gives(s) == IF s.key = "none" THEN s.source ELSE <<s.key>>

LEMMA GivesInputs == ASSUME NEW s \in Strokes PROVE Gives(s) \in Seq(Inputs)
<1>1. s.source \in Seq(Characters) /\ s.key \in {"none", "enter", "tab"}
    BY DEF Strokes
<1>2. Characters \subseteq Inputs /\ {"enter", "tab"} \subseteq Inputs
    BY DEF Inputs, Characters
<1>3. s.source \in Seq(Inputs)
    BY <1>1, <1>2
<1>4. s.key # "none" => <<s.key>> \in Seq(Inputs)
    BY <1>1, <1>2
<1> QED
    BY <1>3, <1>4 DEF Gives

LEMMA ConcatIn == ASSUME NEW S, NEW s \in Seq(S), NEW t \in Seq(S) PROVE s \o t \in Seq(S)
OBVIOUS

\* Stroke by stroke.
LEMMA PressedSteps ==
  ASSUME NEW strokes, NEW n \in Nat, \A k \in 1..n : strokes[k] \in Strokes
  PROVE  \E got \in [0..n -> Seq(Inputs)] :
           /\ got[0] = <<>> /\ Pressed(strokes, n) = got[n]
           /\ \A k \in 1..n : got[k] = got[k - 1] \o Gives(strokes[k])
<1> DEFINE T == Seq(Inputs)
           F == [p \in T \X (1..n) |-> p[1] \o Gives(strokes[p[2]])]
           Val(g) == [k \in 0..n |-> IF k = 0 THEN <<>>
                                     ELSE g[k - 1] \o (IF strokes[k].key = "none" THEN strokes[k].source ELSE <<strokes[k].key>>)]
           f == CHOOSE g : g = Val(g)
<1>1. \A x \in T, k \in 1..n : x \o Gives(strokes[k]) \in T
    BY GivesInputs, ConcatIn
<1>2. <<>> \in T
    OBVIOUS
<1>3. Pressed(strokes, n) = f[n]
    BY DEF Pressed
<1> HIDE DEF T
<1>4. \A x \in T, k \in 1..n : F[<<x, k>>] = x \o Gives(strokes[k])
    BY <1>1
<1>14. Leads(n, T, F)
    BY <1>1, <1>4 DEF Leads
<1> HIDE DEF F
<1>5. PICK g \in [0..n -> T] : g[0] = <<>> /\ \A k \in 1..n : g[k] = F[<<g[k - 1], k>>]
    BY <1>2, <1>14, Recursion DEF Follows
<1>6. \A k \in 1..n : g[k - 1] \in T /\ g[k] = g[k - 1] \o Gives(strokes[k])
  <2> TAKE k \in 1..n
  <2>1. k - 1 \in 0..n
      OBVIOUS
  <2>2. g[k - 1] \in T
      BY <1>5, <2>1
  <2>3. g[k] = F[<<g[k - 1], k>>]
      BY <1>5
  <2> QED
      BY <1>4, <2>2, <2>3
<1>7. \A k \in 1..n : k # 0 /\ k \in 0..n
    OBVIOUS
<1>8. g = Val(g)
  <2>1. \A k \in 0..n : g[k] = Val(g)[k]
    <3>1. g[0] = Val(g)[0]
        BY <1>5
    <3>2. ASSUME NEW k \in 1..n PROVE g[k] = Val(g)[k]
        BY <1>6, <1>7 DEF Gives
    <3>3. \A k \in 0..n : k = 0 \/ k \in 1..n
        OBVIOUS
    <3> HIDE DEF Val
    <3> QED
        BY <3>1, <3>2, <3>3
  <2> QED
      BY <1>5, <2>1
<1>9. f = Val(f)
  <2> HIDE DEF Val
  <2> QED
      BY <1>8
<1> HIDE DEF f
<1>10. f[0] = <<>>
    BY <1>9
<1>11. \A k \in 1..n : f[k] = f[k - 1] \o Gives(strokes[k])
  <2> TAKE k \in 1..n
  <2>1. f[k] = Val(f)[k]
      BY <1>9
  <2> QED
      BY <2>1, <1>7 DEF Gives
<1>12. \A k \in 0..n : f[k] \in T
  <2>1. \A k \in 1..n : f[k - 1] \in T => f[k] \in T
      BY <1>1, <1>11
  <2> QED
      BY <1>2, <1>10, <2>1, Defined
<1>13. f \in [0..n -> T]
    BY <1>9, <1>12
<1> QED
    BY <1>3, <1>10, <1>11, <1>13 DEF T

LEMMA PressedOne ==
  ASSUME NEW strokes, NEW n \in Nat, \A k \in 1..n : strokes[k] \in Strokes
  PROVE  /\ Pressed(strokes, 0) = <<>> /\ Pressed(strokes, n) \in Seq(Inputs)
         /\ n > 0 => Pressed(strokes, n) = Pressed(strokes, n - 1) \o Gives(strokes[n])
<1>1. PICK all \in [0..n -> Seq(Inputs)] :
        /\ all[0] = <<>> /\ Pressed(strokes, n) = all[n]
        /\ \A k \in 1..n : all[k] = all[k - 1] \o Gives(strokes[k])
    BY PressedSteps
<1>2. Pressed(strokes, 0) = <<>>
  <2>1. 0 \in Nat /\ \A k \in 1..0 : strokes[k] \in Strokes
      OBVIOUS
  <2>2. PICK none \in [0..0 -> Seq(Inputs)] : none[0] = <<>> /\ Pressed(strokes, 0) = none[0]
      BY <2>1, PressedSteps
  <2> QED
      BY <2>2
<1>3. ASSUME n > 0 PROVE Pressed(strokes, n) = Pressed(strokes, n - 1) \o Gives(strokes[n])
  <2>1. n - 1 \in Nat /\ \A k \in 1..(n - 1) : strokes[k] \in Strokes
      BY <1>3
  <2>2. PICK less \in [0..(n - 1) -> Seq(Inputs)] :
          /\ less[0] = <<>> /\ Pressed(strokes, n - 1) = less[n - 1]
          /\ \A k \in 1..(n - 1) : less[k] = less[k - 1] \o Gives(strokes[k])
      BY <2>1, PressedSteps
  <2> DEFINE P == {k \in 0..(n - 1) : less[k] = all[k]}
  <2>3. 0 \in P
      BY <1>1, <2>1, <2>2
  <2>4. ASSUME NEW k \in 1..(n - 1), k - 1 \in P PROVE k \in P
    <3>1. less[k - 1] = all[k - 1] /\ k \in 1..n /\ k \in 0..(n - 1)
        BY <2>4
    <3>2. less[k] = all[k]
        BY <1>1, <2>2, <3>1
    <3> QED
        BY <3>1, <3>2
  <2> HIDE DEF P
  <2>5. \A k \in 0..(n - 1) : k \in P
      BY <2>1, <2>3, <2>4, UpTo
  <2>6. less[n - 1] = all[n - 1]
      BY <2>1, <2>5 DEF P
  <2>7. n \in 1..n
      BY <1>3
  <2> QED
      BY <1>1, <2>2, <2>6, <2>7
<1>4. Pressed(strokes, n) \in Seq(Inputs)
    BY <1>1
<1> QED
    BY <1>2, <1>3, <1>4

LEMMA PressedSame ==
  ASSUME NEW strokes, NEW others, NEW n \in Nat, \A k \in 1..n : strokes[k] \in Strokes /\ others[k] = strokes[k]
  PROVE  Pressed(others, n) = Pressed(strokes, n)
<1> DEFINE P == {k \in 0..n : Pressed(others, k) = Pressed(strokes, k)}
<1>1. 0 \in P
    BY PressedOne
<1>2. ASSUME NEW k \in 1..n, k - 1 \in P PROVE k \in P
  <2>1. k \in Nat /\ k > 0 /\ (\A j \in 1..k : strokes[j] \in Strokes /\ others[j] \in Strokes) /\ others[k] = strokes[k]
      OBVIOUS
  <2>2. Pressed(others, k) = Pressed(others, k - 1) \o Gives(others[k])
      BY <2>1, PressedOne
  <2>3. Pressed(strokes, k) = Pressed(strokes, k - 1) \o Gives(strokes[k])
      BY <2>1, PressedOne
  <2> QED
      BY <1>2, <2>1, <2>2, <2>3
<1> HIDE DEF P
<1>3. \A k \in 0..n : k \in P
    BY <1>1, <1>2, UpTo
<1> QED
    BY <1>3 DEF P
\* Character by character.
LEMMA AddKeeps ==
  ASSUME NEW strokes \in Seq(Strokes), NEW c \in Characters, NEW units
  PROVE  AddChar(strokes, c, units) \in Seq(Strokes)
<1> DEFINE last == IF strokes = <<>> THEN Stroke(<<>>, "tab") ELSE Last(strokes)
           joins == \/ c = "lf" /\ last.source = <<"cr">>
                    \/ KeyOf(c) = "none" /\ last.key = "none" /\ Units(last.source) + Units(<<c>>) <= units
<1>1. last \in Strokes
  <2>1. Stroke(<<>>, "tab") \in Strokes
      BY DEF Stroke, Strokes
  <2>2. ASSUME strokes # <<>> PROVE Last(strokes) \in Strokes
    <3> DEFINE S == Strokes
    <3> HIDE DEF S
    <3>1. strokes \in Seq(S)
        BY DEF S
    <3>2. strokes[Len(strokes)] \in S
        BY <2>2, <3>1
    <3> QED
        BY <3>2 DEF S, Last
  <2> QED
      BY <2>1, <2>2
<1>2. Append(last.source, c) \in Seq(Characters)
    BY <1>1 DEF Strokes
<1>3. Stroke(Append(last.source, c), last.key) \in Strokes
  <2>1. last.key \in {"none", "enter", "tab"}
      BY <1>1 DEF Strokes
  <2> HIDE DEF last
  <2> QED
      BY <1>2, <2>1 DEF Strokes, Stroke
<1>4. Stroke(<<c>>, KeyOf(c)) \in Strokes
  <2>1. <<c>> \in Seq(Characters)
      OBVIOUS
  <2> QED
      BY <2>1 DEF Strokes, Stroke, KeyOf
<1>5. strokes # <<>> => Front(strokes) \in Seq(Strokes)
  <2> DEFINE S == Strokes
  <2> HIDE DEF S
  <2>1. strokes \in Seq(S)
      BY DEF S
  <2>2. strokes # <<>> => SubSeq(strokes, 1, Len(strokes) - 1) \in Seq(S)
      BY <2>1
  <2> QED
      BY <2>2 DEF S, Front
<1>6. joins => strokes # <<>>
    BY DEF Stroke
<1>7. AddChar(strokes, c, units) =
        IF joins THEN Append(Front(strokes), Stroke(Append(last.source, c), last.key))
        ELSE Append(strokes, Stroke(<<c>>, KeyOf(c)))
    BY DEF AddChar
<1> DEFINE S == Strokes
<1> HIDE DEF S, joins, last
<1>8. ASSUME NEW s \in Seq(S), NEW e \in S PROVE Append(s, e) \in Seq(S)
    OBVIOUS
<1> QED
    BY <1>3, <1>4, <1>5, <1>6, <1>7, <1>8 DEF S

LEMMA PlanSteps ==
  ASSUME NEW text \in Seq(Characters), NEW units
  PROVE  \E strokes \in [0..Len(text) -> Seq(Strokes)] :
           /\ strokes[0] = <<>> /\ Plan(text, units) = strokes[Len(text)]
           /\ \A n \in 1..Len(text) : strokes[n] = AddChar(strokes[n - 1], text[n], units)
<1> DEFINE N == Len(text)
           T == Seq(Strokes)
           F == [p \in T \X (1..N) |-> AddChar(p[1], text[p[2]], units)]
           Val(g) == [n \in 0..N |-> IF n = 0 THEN <<>> ELSE AddChar(g[n - 1], text[n], units)]
           f == CHOOSE g : g = Val(g)
<1>1. N \in Nat /\ \A n \in 1..N : text[n] \in Characters
    OBVIOUS
<1>2. Plan(text, units) = f[N]
    BY DEF Plan
<1>3. <<>> \in T
    OBVIOUS
<1> HIDE DEF N
<1>4. \A x \in T, n \in 1..N : AddChar(x, text[n], units) \in T
    BY <1>1, AddKeeps
<1> HIDE DEF T
<1>5. \A x \in T, n \in 1..N : F[<<x, n>>] = AddChar(x, text[n], units)
    BY <1>4
<1>6. Leads(N, T, F)
    BY <1>4, <1>5 DEF Leads
<1> HIDE DEF F
<1>7. PICK g \in [0..N -> T] : g[0] = <<>> /\ \A n \in 1..N : g[n] = F[<<g[n - 1], n>>]
    BY <1>1, <1>3, <1>6, Recursion DEF Follows
<1>8. \A n \in 1..N : n # 0 /\ n \in 0..N /\ n - 1 \in 0..N
    BY <1>1
<1>9. g = Val(g)
  <2>1. g[0] = Val(g)[0]
      BY <1>1, <1>7
  <2>2. ASSUME NEW n \in 1..N PROVE g[n] = Val(g)[n]
    <3>1. g[n - 1] \in T /\ g[n] = F[<<g[n - 1], n>>]
        BY <1>7, <1>8
    <3>2. g[n] = AddChar(g[n - 1], text[n], units)
        BY <1>5, <3>1
    <3> QED
        BY <3>2, <1>8
  <2>3. \A n \in 0..N : n = 0 \/ n \in 1..N
      BY <1>1
  <2>4. DOMAIN g = 0..N /\ DOMAIN Val(g) = 0..N
      BY <1>7
  <2>5. \A n \in 0..N : g[n] = Val(g)[n]
    <3> HIDE DEF Val
    <3> QED
        BY <2>1, <2>2, <2>3
  <2> QED
      BY <1>7, <2>5
<1>10. f = Val(f)
  <2> HIDE DEF Val
  <2> QED
      BY <1>9
<1> HIDE DEF f
<1>11. f[0] = <<>>
    BY <1>1, <1>10
<1>12. \A n \in 1..N : f[n] = AddChar(f[n - 1], text[n], units)
  <2> TAKE n \in 1..N
  <2>1. f[n] = Val(f)[n]
      BY <1>10
  <2> QED
      BY <2>1, <1>8
<1>13. \A n \in 0..N : f[n] \in T
  <2>1. \A n \in 1..N : f[n - 1] \in T => f[n] \in T
      BY <1>4, <1>12
  <2> QED
      BY <1>1, <1>3, <1>11, <2>1, Defined
<1>14. f \in [0..N -> T]
    BY <1>10, <1>13
<1> QED
    BY <1>2, <1>11, <1>12, <1>14 DEF T, N

KeyAt(c) == IF KeyOf(c) = "none" THEN c ELSE KeyOf(c)
NextKeys(keys, text, n) ==
  IF n > 1 /\ text[n] = "lf" /\ text[n - 1] = "cr" THEN keys ELSE Append(keys, KeyAt(text[n]))
LEMMA KeysSteps ==
  ASSUME NEW text \in Seq(Characters)
  PROVE  \E keys \in [0..Len(text) -> Seq(Inputs)] :
           /\ keys[0] = <<>> /\ Keys(text) = keys[Len(text)]
           /\ \A n \in 1..Len(text) : keys[n] = NextKeys(keys[n - 1], text, n)
<1> DEFINE N == Len(text)
           T == Seq(Inputs)
           F == [p \in T \X (1..N) |-> NextKeys(p[1], text, p[2])]
           Val(g) == [n \in 0..N |-> IF n = 0 THEN <<>>
                              ELSE IF n > 1 /\ text[n] = "lf" /\ text[n - 1] = "cr" THEN g[n - 1]
                              ELSE Append(g[n - 1], KeyAt(text[n]))]
           f == CHOOSE g : g = Val(g)
<1>1. N \in Nat /\ \A n \in 1..N : text[n] \in Characters
    OBVIOUS
<1>2. Keys(text) = f[N]
    BY DEF Keys, KeyAt
<1>3. <<>> \in T
    OBVIOUS
<1> HIDE DEF N
<1>4. \A x \in T, n \in 1..N : NextKeys(x, text, n) \in T
  <2>1. \A n \in 1..N : KeyAt(text[n]) \in Inputs
      BY <1>1 DEF KeyAt, KeyOf, Inputs, Characters
  <2>2. ASSUME NEW x \in Seq(Inputs), NEW c \in Inputs PROVE Append(x, c) \in Seq(Inputs)
      OBVIOUS
  <2> QED
      BY <2>1, <2>2 DEF NextKeys
<1> HIDE DEF T
<1>5. \A x \in T, n \in 1..N : F[<<x, n>>] = NextKeys(x, text, n)
    BY <1>4
<1>6. Leads(N, T, F)
    BY <1>4, <1>5 DEF Leads
<1> HIDE DEF F
<1>7. PICK g \in [0..N -> T] : g[0] = <<>> /\ \A n \in 1..N : g[n] = F[<<g[n - 1], n>>]
    BY <1>1, <1>3, <1>6, Recursion DEF Follows
<1>8. \A n \in 1..N : n # 0 /\ n \in 0..N /\ n - 1 \in 0..N
    BY <1>1
<1>9. g = Val(g)
  <2>1. g[0] = Val(g)[0]
      BY <1>1, <1>7
  <2>2. ASSUME NEW n \in 1..N PROVE g[n] = Val(g)[n]
    <3>1. g[n - 1] \in T /\ g[n] = F[<<g[n - 1], n>>]
        BY <1>7, <1>8
    <3>2. g[n] = NextKeys(g[n - 1], text, n)
        BY <1>5, <3>1
    <3> QED
        BY <3>2, <1>8 DEF NextKeys
  <2>3. \A n \in 0..N : n = 0 \/ n \in 1..N
      BY <1>1
  <2>4. DOMAIN g = 0..N /\ DOMAIN Val(g) = 0..N
      BY <1>7
  <2>5. \A n \in 0..N : g[n] = Val(g)[n]
    <3> HIDE DEF Val
    <3> QED
        BY <2>1, <2>2, <2>3
  <2> QED
      BY <1>7, <2>5
<1>10. f = Val(f)
  <2> HIDE DEF Val
  <2> QED
      BY <1>9
<1> HIDE DEF f
<1>11. f[0] = <<>>
    BY <1>1, <1>10
<1>12. \A n \in 1..N : f[n] = NextKeys(f[n - 1], text, n)
  <2> TAKE n \in 1..N
  <2>1. f[n] = Val(f)[n]
      BY <1>10
  <2> QED
      BY <2>1, <1>8 DEF NextKeys
<1>13. \A n \in 0..N : f[n] \in T
  <2>1. \A n \in 1..N : f[n - 1] \in T => f[n] \in T
      BY <1>4, <1>12
  <2> QED
      BY <1>1, <1>3, <1>11, <2>1, Defined
<1>14. f \in [0..N -> T]
    BY <1>10, <1>13
<1> QED
    BY <1>2, <1>11, <1>12, <1>14 DEF T, N

All(strokes) == Pressed(strokes, Len(strokes))

LEMMA LastAppended == ASSUME NEW S, NEW s \in Seq(S), NEW e \in S PROVE Append(s, e) # <<>> /\ Last(Append(s, e)) = e
BY DEF Last

LEMMA AppendOne ==
  ASSUME NEW strokes \in Seq(Strokes), NEW e \in Strokes
  PROVE  /\ Append(strokes, e) \in Seq(Strokes) /\ Append(strokes, e) # <<>> /\ Last(Append(strokes, e)) = e
         /\ All(strokes) \in Seq(Inputs) /\ All(Append(strokes, e)) = All(strokes) \o Gives(e)
<1> DEFINE S == Strokes
           longer == Append(strokes, e)
<1> HIDE DEF S
<1>1. PICK n \in Nat : Len(strokes) = n
    BY DEF S
<1>2. strokes \in Seq(S) /\ e \in S
    BY DEF S
<1>3. /\ longer \in Seq(S) /\ Len(longer) = n + 1 /\ longer[n + 1] = e
      /\ \A k \in 1..n : strokes[k] \in S /\ longer[k] = strokes[k]
    BY <1>1, <1>2
<1>4. longer # <<>> /\ Last(longer) = e
    BY <1>1, <1>2, LastAppended
<1> HIDE DEF longer
<1>5. n + 1 \in Nat /\ n + 1 > 0 /\ (n + 1) - 1 = n /\ \A k \in 1..(n + 1) : longer[k] \in S
  <2>1. \A k \in 1..(n + 1) : k \in 1..n \/ k = n + 1
      BY <1>1
  <2>2. \A k \in 1..(n + 1) : longer[k] \in S
      BY <1>2, <1>3, <2>1
  <2> QED
      BY <1>1, <2>2
<1>6. Pressed(longer, n + 1) = Pressed(longer, n) \o Gives(longer[n + 1])
    BY <1>5, PressedOne DEF S
<1>7. Pressed(longer, n) = Pressed(strokes, n) /\ Pressed(strokes, n) \in Seq(Inputs)
    BY <1>1, <1>3, PressedSame, PressedOne DEF S
<1> QED
    BY <1>1, <1>3, <1>4, <1>6, <1>7 DEF All, S, longer

LEMMA FrontOne ==
  ASSUME NEW strokes \in Seq(Strokes), strokes # <<>>
  PROVE  /\ Front(strokes) \in Seq(Strokes) /\ Last(strokes) \in Strokes
         /\ All(strokes) = All(Front(strokes)) \o Gives(Last(strokes))
<1> DEFINE S == Strokes
<1> HIDE DEF S
<1>1. PICK n \in Nat : Len(strokes) = n + 1
    BY DEF S
<1>2. strokes \in Seq(S)
    BY DEF S
<1>3. /\ Front(strokes) = SubSeq(strokes, 1, n) /\ Last(strokes) = strokes[n + 1]
    BY <1>1 DEF Front, Last
<1>4. /\ Front(strokes) \in Seq(S) /\ Len(Front(strokes)) = n /\ Last(strokes) \in S
      /\ \A k \in 1..n : Front(strokes)[k] = strokes[k]
    BY <1>1, <1>2, <1>3
<1>5. n + 1 \in Nat /\ n + 1 > 0 /\ (n + 1) - 1 = n /\ \A k \in 1..(n + 1) : strokes[k] \in S
    BY <1>1, <1>2
<1>6. Pressed(strokes, n + 1) = Pressed(strokes, n) \o Gives(strokes[n + 1])
    BY <1>5, PressedOne DEF S
<1>7. \A k \in 1..n : strokes[k] \in S /\ Front(strokes)[k] = strokes[k]
    BY <1>4, <1>5
<1>8. Pressed(Front(strokes), n) = Pressed(strokes, n)
    BY <1>7, PressedSame DEF S
<1> QED
    BY <1>1, <1>3, <1>4, <1>6, <1>8 DEF All, S

\* The last stroke of a plan so far ends with the character c; a lone "cr" is not joined to anything before.
EndsWith(strokes, c) ==
  /\ strokes # <<>> /\ Last(strokes).key = KeyOf(c)
  /\ Last(strokes).source # <<>> /\ Last(Last(strokes).source) = c
  /\ c = "cr" => Last(strokes).source = <<"cr">>

LEMMA ConcatAppend ==
  ASSUME NEW S, NEW s \in Seq(S), NEW t \in Seq(S), NEW e \in S PROVE s \o Append(t, e) = Append(s \o t, e)
<1>1. PICK m \in Nat : Len(s) = m
    OBVIOUS
<1>2. PICK n \in Nat : Len(t) = n
    OBVIOUS
<1> QED
    BY <1>1, <1>2

LEMMA AddGives ==
  ASSUME NEW strokes \in Seq(Strokes), NEW c \in Characters, NEW units, NEW before,
         strokes # <<>> => before \in Characters /\ EndsWith(strokes, before)
  PROVE  /\ EndsWith(AddChar(strokes, c, units), c)
         /\ All(AddChar(strokes, c, units)) =
              IF strokes # <<>> /\ c = "lf" /\ before = "cr" THEN All(strokes) ELSE Append(All(strokes), KeyAt(c))
<1> DEFINE last == IF strokes = <<>> THEN Stroke(<<>>, "tab") ELSE Last(strokes)
           lineEnd == c = "lf" /\ last.source = <<"cr">>
           run == KeyOf(c) = "none" /\ last.key = "none" /\ Units(last.source) + Units(<<c>>) <= units
           added == AddChar(strokes, c, units)
<1>1. added = IF lineEnd \/ run THEN Append(Front(strokes), Stroke(Append(last.source, c), last.key))
              ELSE Append(strokes, Stroke(<<c>>, KeyOf(c)))
    BY DEF AddChar
<1>2. lineEnd \/ run => strokes # <<>>
    BY DEF Stroke
<1>3. lineEnd <=> strokes # <<>> /\ c = "lf" /\ before = "cr"
  <2>1. Last(<<"cr">>) = "cr"
      BY DEF Last
  <2>2. CASE strokes = <<>>
      BY <2>2, <1>2
  <2>3. CASE strokes # <<>>
      BY <2>1, <2>3 DEF EndsWith
  <2> QED
      BY <2>2, <2>3
<1>4. CASE lineEnd \/ run
  <2>1. strokes # <<>> /\ last = Last(strokes)
      BY <1>2, <1>4
  <2>2. Front(strokes) \in Seq(Strokes) /\ last \in Strokes /\ All(strokes) = All(Front(strokes)) \o Gives(last)
      BY <2>1, FrontOne
  <2>3. last.source \in Seq(Characters) /\ last.key \in {"none", "enter", "tab"}
      BY <2>2 DEF Strokes
  <2>4. last.key = KeyOf(before)
      BY <2>1 DEF EndsWith
  <2>5. last.key = KeyOf(c) /\ (lineEnd => last.key = "enter") /\ (run => last.key = "none") /\ c # "cr"
      BY <1>3, <1>4, <2>4 DEF KeyOf
  <2> HIDE DEF last, lineEnd, run
  <2> DEFINE e == Stroke(Append(last.source, c), last.key)
  <2>6. /\ Append(last.source, c) \in Seq(Characters) /\ Append(last.source, c) # <<>>
        /\ Last(Append(last.source, c)) = c
      BY <2>3, LastAppended
  <2>7. e \in Strokes /\ e.source = Append(last.source, c) /\ e.key = last.key
      BY <2>3, <2>6 DEF Strokes, Stroke
  <2> HIDE DEF e
  <2>8. added = Append(Front(strokes), e)
      BY <1>1, <1>4 DEF e
  <2> HIDE DEF added
  <2>9. /\ added # <<>> /\ Last(added) = e /\ All(Front(strokes)) \in Seq(Inputs)
        /\ All(added) = All(Front(strokes)) \o Gives(e)
      BY <2>2, <2>7, <2>8, AppendOne
  <2>10. EndsWith(added, c)
      BY <2>5, <2>6, <2>7, <2>9 DEF EndsWith
  <2>11. CASE lineEnd
    <3>1. Gives(e) = Gives(last)
        BY <2>5, <2>7, <2>11 DEF Gives
    <3> QED
        BY <1>3, <2>2, <2>9, <2>10, <2>11, <3>1 DEF added
  <2>12. CASE ~lineEnd
    <3>1. run
        BY <1>4, <2>12
    <3>2. Gives(e) = Append(last.source, c) /\ Gives(last) = last.source /\ KeyAt(c) = c
        BY <2>5, <2>7, <3>1 DEF Gives, KeyAt
    <3>3. last.source \in Seq(Inputs) /\ c \in Inputs
      <4>1. Characters \subseteq Inputs
          BY DEF Inputs
      <4> QED
          BY <2>3, <4>1
    <3>4. All(Front(strokes)) \o Append(last.source, c) = Append(All(Front(strokes)) \o last.source, c)
        BY <2>9, <3>3, ConcatAppend
    <3> QED
        BY <1>3, <2>2, <2>9, <2>10, <2>12, <3>2, <3>4 DEF added
  <2> QED
      BY <2>11, <2>12
<1>5. CASE ~(lineEnd \/ run)
  <2> DEFINE e == Stroke(<<c>>, KeyOf(c))
  <2>1. <<c>> \in Seq(Characters) /\ <<c>> # <<>> /\ Last(<<c>>) = c
      BY DEF Last
  <2>2. KeyOf(c) \in {"none", "enter", "tab"}
      BY DEF KeyOf
  <2>3. e \in Strokes /\ e.source = <<c>> /\ e.key = KeyOf(c)
      BY <2>1, <2>2 DEF Strokes, Stroke
  <2>4. Gives(e) = <<KeyAt(c)>>
      BY <2>3 DEF Gives, KeyAt
  <2>5. KeyAt(c) \in Inputs
      BY DEF KeyAt, KeyOf, Inputs, Characters
  <2> HIDE DEF e, lineEnd, run, last
  <2>6. added = Append(strokes, e)
      BY <1>1, <1>5 DEF e
  <2> HIDE DEF added
  <2>7. added # <<>> /\ Last(added) = e /\ All(strokes) \in Seq(Inputs) /\ All(added) = All(strokes) \o Gives(e)
      BY <2>3, <2>6, AppendOne
  <2>8. EndsWith(added, c)
      BY <2>1, <2>3, <2>7 DEF EndsWith
  <2>9. All(strokes) \o <<KeyAt(c)>> = Append(All(strokes), KeyAt(c))
    <3> DEFINE x == All(strokes)
               y == KeyAt(c)
    <3>1. x \in Seq(Inputs) /\ y \in Inputs
        BY <2>5, <2>7
    <3> HIDE DEF x, y
    <3>2. x \o <<y>> = Append(x, y)
        BY <3>1
    <3> QED
        BY <3>2 DEF x, y
  <2> QED
      BY <1>3, <1>5, <2>4, <2>7, <2>8, <2>9 DEF added
<1> QED
    BY <1>4, <1>5

\* Whatever runs the characters are grouped into, the strokes give what the text asks for.
LEMMA PlanWhole ==
  ASSUME NEW text \in Seq(Characters), NEW units
  PROVE  All(Plan(text, units)) = Keys(text)
<1>0. PICK N \in Nat : Len(text) = N /\ \A n \in 1..N : text[n] \in Characters
  <2>1. Len(text) \in Nat /\ \A n \in 1..Len(text) : text[n] \in Characters
      OBVIOUS
  <2> QED
      BY <2>1
<1>1. PICK strokes \in [0..N -> Seq(Strokes)] :
        /\ strokes[0] = <<>> /\ Plan(text, units) = strokes[N]
        /\ \A n \in 1..N : strokes[n] = AddChar(strokes[n - 1], text[n], units)
    BY <1>0, PlanSteps
<1>2. PICK keys \in [0..N -> Seq(Inputs)] :
        /\ keys[0] = <<>> /\ Keys(text) = keys[N]
        /\ \A n \in 1..N : keys[n] = NextKeys(keys[n - 1], text, n)
    BY <1>0, KeysSteps
<1> DEFINE P == {n \in 0..N : All(strokes[n]) = keys[n] /\ (n > 0 => EndsWith(strokes[n], text[n]))}
<1>3. 0 \in P
  <2>1. All(<<>>) = <<>>
    <3>1. 0 \in Nat /\ \A k \in 1..0 : <<>>[k] \in Strokes
        OBVIOUS
    <3>2. Pressed(<<>>, 0) = <<>> /\ Len(<<>>) = 0
        BY <3>1, PressedOne
    <3> QED
        BY <3>2 DEF All
  <2> QED
      BY <1>1, <1>2, <2>1
<1>4. ASSUME NEW n \in 1..N, n - 1 \in P PROVE n \in P
  <2>1. /\ strokes[n - 1] \in Seq(Strokes) /\ text[n] \in Characters /\ n \in 0..N /\ n > 0
        /\ All(strokes[n - 1]) = keys[n - 1]
        /\ n > 1 => text[n - 1] \in Characters /\ EndsWith(strokes[n - 1], text[n - 1])
    <3>1. n - 1 \in 0..N /\ n \in 0..N /\ n > 0 /\ (n > 1 => n - 1 > 0 /\ n - 1 \in 1..N)
        OBVIOUS
    <3> QED
        BY <1>0, <1>1, <1>4, <3>1
  <2>2. strokes[n - 1] # <<>> <=> n > 1
    <3>1. CASE n = 1
        BY <1>1, <3>1
    <3>2. CASE n > 1
        BY <2>1, <3>2 DEF EndsWith
    <3> QED
        BY <3>1, <3>2
  <2>3. /\ EndsWith(AddChar(strokes[n - 1], text[n], units), text[n])
        /\ All(AddChar(strokes[n - 1], text[n], units)) =
              IF strokes[n - 1] # <<>> /\ text[n] = "lf" /\ text[n - 1] = "cr" THEN All(strokes[n - 1])
              ELSE Append(All(strokes[n - 1]), KeyAt(text[n]))
      BY <2>1, <2>2, AddGives
  <2>4. All(strokes[n]) = keys[n]
      BY <1>1, <1>2, <2>1, <2>2, <2>3 DEF NextKeys
  <2>5. EndsWith(strokes[n], text[n])
      BY <1>1, <2>3
  <2> QED
      BY <2>1, <2>4, <2>5
<1> HIDE DEF P
<1>5. \A n \in 0..N : n \in P
    BY <1>3, <1>4, UpTo
<1>6. All(strokes[N]) = keys[N]
    BY <1>5 DEF P
<1> QED
    BY <1>1, <1>2, <1>6

-----------------------------------------------------------------------------
(* The events of a wheel. *)

\* The sum over a plan's events is any sum that grows by each of them.
LEMMA TurnedSum ==
  ASSUME NEW n \in Nat, NEW events, Len(events) = n, NEW S \in [0..n -> Int], S[0] = 0,
         \A i \in 1..n : S[i] = S[i - 1] + Turned(events[i])[2]
  PROVE  TurnedBy(events) = S[n]
<1> DEFINE Val(g) == [i \in 0..n |-> IF i = 0 THEN 0 ELSE g[i - 1] + Turned(events[i])[2]]
           f == CHOOSE g : g = Val(g)
<1>1. TurnedBy(events) = f[n]
    BY DEF TurnedBy
<1>2. \A i \in 1..n : i # 0 /\ i \in 0..n /\ i - 1 \in 0..n
    OBVIOUS
<1>3. S = Val(S)
  <2>1. \A i \in 0..n : i = 0 \/ i \in 1..n
      OBVIOUS
  <2>2. \A i \in 0..n : S[i] = Val(S)[i]
      BY <1>2, <2>1
  <2> QED
      BY <2>2
<1>4. f = Val(f)
  <2> HIDE DEF Val
  <2> QED
      BY <1>3
<1> HIDE DEF f
<1>5. f[0] = 0 /\ \A i \in 1..n : f[i] = f[i - 1] + Turned(events[i])[2]
    BY <1>2, <1>4
<1> DEFINE P == {i \in 0..n : f[i] = S[i]}
<1>6. 0 \in P
    BY <1>5
<1>7. ASSUME NEW i \in 1..n, i - 1 \in P PROVE i \in P
    BY <1>2, <1>5, <1>7
<1> HIDE DEF P
<1>8. \A i \in 0..n : i \in P
    BY <1>6, <1>7, UpTo
<1> QED
    BY <1>1, <1>8 DEF P

Directions == {"up", "down", "left", "right"}
WheelOf(w) == w.clicks \in 1..MAX_CLICKS /\ w.direction \in Directions

\* Carried(events, w): each event is of the wheel's direction, and they carry all of it.
Carried(events, w) ==
  /\ \A i \in DOMAIN events : /\ Turned(events[i])[1] = w.direction
                              /\ os = "macos" => Turned(events[i])[2] <= MAX_LINES
                              /\ os = "windows" => Abs(events[i][2]) < 2^15
  /\ TurnedBy(events) = w.clicks

LEMMA OneEvent ==
  ASSUME NEW e, Turned(e)[2] \in Int
  PROVE  TurnedBy(<<e>>) = Turned(e)[2]
<1> DEFINE events == <<e>>
           S == [i \in 0..1 |-> IF i = 0 THEN 0 ELSE Turned(e)[2]]
<1>1. Len(events) = 1 /\ S \in [0..1 -> Int] /\ S[0] = 0 /\ S[1] = Turned(e)[2]
    OBVIOUS
<1>2. \A i \in 1..1 : S[i] = S[i - 1] + Turned(events[i])[2]
  <2>1. S[1] = S[0] + Turned(events[1])[2]
      BY <1>1
  <2>2. \A i \in 1..1 : i = 1 /\ i - 1 = 0
      OBVIOUS
  <2> QED
      BY <2>1, <2>2
<1> HIDE DEF S, events
<1>3. TurnedBy(events) = S[1]
    BY <1>1, <1>2, TurnedSum
<1> QED
    BY <1>1, <1>3 DEF events

LEMMA X11Whole == ASSUME NEW w, WheelOf(w), os = "x11" PROVE Carried(WheelX11(w), w)
<1> DEFINE b == CASE w.direction = "up" -> "4" [] w.direction = "down" -> "5"
                  [] w.direction = "left" -> "6" [] w.direction = "right" -> "7"
           e == <<b, w.clicks>>
<1>1. w.clicks \in Int /\ w.direction \in Directions
    BY DriverAssumption DEF WheelOf
<1>2. Turned(e) = <<w.direction, w.clicks>>
    BY <1>1 DEF Directions, Turned
<1>3. WheelX11(w) = <<e>>
    BY DEF WheelX11
<1> HIDE DEF e
<1>4. TurnedBy(<<e>>) = w.clicks
    BY <1>1, <1>2, OneEvent
<1> QED
    BY <1>2, <1>3, <1>4 DEF Carried

LEMMA SignedClicks ==
  ASSUME NEW w, WheelOf(w)
  PROVE  /\ w.clicks \in Nat /\ w.clicks > 0 /\ 120 * w.clicks < 32768 /\ Signed(w) \in Int
         /\ Abs(Signed(w)) = w.clicks /\ (Signed(w) < 0 <=> w.direction \in {"down", "left"})
         /\ Signed(w) = (IF w.direction \in {"up", "right"} THEN 1 ELSE -1) * w.clicks
<1>1. w.clicks \in 1..MAX_CLICKS /\ MAX_CLICKS \in Nat /\ w.direction \in Directions
    BY DriverAssumption DEF WheelOf
<1>2. 120 * MAX_CLICKS < 32768
  <2>1. 2^15 = 32768
      OBVIOUS
  <2> QED
      BY <2>1, DriverAssumption
<1>3. Signed(w) = IF w.direction \in {"up", "right"} THEN w.clicks ELSE -w.clicks
    BY DEF Signed
<1> QED
    BY <1>1, <1>2, <1>3 DEF Abs, Directions

LEMMA WindowsWhole == ASSUME NEW w, WheelOf(w), os = "windows" PROVE Carried(WheelWindows(w), w)
<1> DEFINE e == <<IF Horizontal(w) THEN "hwheel" ELSE "wheel", 120 * Signed(w)>>
<1>1. w.direction \in Directions
    BY DEF WheelOf
<1>2. Abs(120 * Signed(w)) = 120 * w.clicks /\ (120 * w.clicks) \div 120 = w.clicks
    BY SignedClicks DEF Abs
<1>3. 120 * Signed(w) > 0 <=> w.direction \in {"up", "right"}
    BY <1>1, SignedClicks DEF Directions
<1>4. Turned(e) = <<w.direction, w.clicks>>
    BY <1>1, <1>2, <1>3 DEF Turned, Horizontal, Directions
<1>5. Abs(e[2]) < 2^15
  <2>1. 2^15 = 32768
      OBVIOUS
  <2> QED
      BY <1>2, <2>1, SignedClicks
<1>6. WheelWindows(w) = <<e>>
    BY DEF WheelWindows
<1>7. w.clicks \in Int
    BY SignedClicks
<1> HIDE DEF e
<1>8. TurnedBy(<<e>>) = w.clicks
    BY <1>4, <1>7, OneEvent
<1> QED
    BY <1>4, <1>5, <1>6, <1>8 DEF Carried

\* The size of a chunk, and what the chunks up to one come to.
ChunkSize(i, size, limit) == IF i * limit <= size THEN limit ELSE size - (i - 1) * limit
ChunksTo(i, size, limit) == IF i * limit <= size THEN i * limit ELSE size

LEMMA ChunksGrow ==
  ASSUME NEW size \in Nat, size > 0, NEW limit \in Nat, limit > 0, NEW count,
         count = (size + limit - 1) \div limit
  PROVE  /\ count \in Nat /\ ChunksTo(0, size, limit) = 0 /\ ChunksTo(count, size, limit) = size
         /\ \A i \in 0..count : ChunksTo(i, size, limit) \in Int
         /\ \A i \in 1..count : /\ ChunkSize(i, size, limit) \in 1..limit
                               /\ ChunksTo(i, size, limit) = ChunksTo(i - 1, size, limit) + ChunkSize(i, size, limit)
<1>1. size + limit - 1 \in Int /\ size + limit - 1 >= limit
    OBVIOUS
<1>2. count \in Int /\ limit * count <= size + limit - 1 /\ size + limit - 1 < limit * count + limit
    BY <1>1, DivBounds
<1>3. count >= 1
  <2>1. ASSUME count <= 0 PROVE FALSE
    <3>1. limit * count <= 0
        BY <1>2, <2>1
    <3> QED
        BY <1>1, <1>2, <3>1
  <2> QED
      BY <1>2, <2>1
<1>4. ChunksTo(0, size, limit) = 0
    BY DEF ChunksTo
<1>5. count * limit = limit * count /\ count * limit \in Int
    BY <1>2
<1>6. ChunksTo(count, size, limit) = size
    BY <1>2, <1>5 DEF ChunksTo
<1>7. \A i \in 0..count : i * limit \in Int /\ ChunksTo(i, size, limit) \in Int
    BY <1>2 DEF ChunksTo
<1>8. ASSUME NEW i \in 1..count
      PROVE  /\ ChunkSize(i, size, limit) \in 1..limit
             /\ ChunksTo(i, size, limit) = ChunksTo(i - 1, size, limit) + ChunkSize(i, size, limit)
  <2>1. i \in Int /\ (i - 1) * limit = i * limit - limit /\ i * limit \in Int
      BY <1>2
  <2>2. i * limit <= count * limit
      BY <1>2, <2>1
  <2>3. (i - 1) * limit <= size - 1
      BY <1>2, <1>5, <2>1, <2>2
  <2> DEFINE x == i * limit
             y == (i - 1) * limit
  <2>4. x \in Int /\ y = x - limit /\ y <= size - 1
      BY <2>1, <2>3
  <2>5. /\ ChunkSize(i, size, limit) = (IF x <= size THEN limit ELSE size - y)
        /\ ChunksTo(i, size, limit) = (IF x <= size THEN x ELSE size)
        /\ ChunksTo(i - 1, size, limit) = (IF y <= size THEN y ELSE size)
      BY DEF ChunkSize, ChunksTo
  <2> HIDE DEF x, y
  <2> QED
      BY <2>4, <2>5
<1> QED
    BY <1>2, <1>3, <1>4, <1>6, <1>7, <1>8

LEMMA MacWhole == ASSUME NEW w, WheelOf(w), os = "macos" PROVE Carried(WheelMac(w), w)
<1> DEFINE size == w.clicks
           sign == IF w.direction \in {"up", "right"} THEN 1 ELSE -1
           count == (size + MAX_LINES - 1) \div MAX_LINES
           lines == Chunks(Signed(w), MAX_LINES)
           events == [i \in 1..count |-> IF Horizontal(w) THEN <<"wheel2", -lines[i]>> ELSE <<"wheel1", lines[i]>>]
           size_i(i) == ChunkSize(i, size, MAX_LINES)
           S == [i \in 0..count |-> ChunksTo(i, size, MAX_LINES)]
<1>1. size \in Nat /\ size > 0 /\ MAX_LINES \in Nat /\ MAX_LINES > 0 /\ w.direction \in Directions
    BY SignedClicks, DriverAssumption DEF WheelOf
<1>2. /\ count \in Nat /\ ChunksTo(0, size, MAX_LINES) = 0 /\ ChunksTo(count, size, MAX_LINES) = size
      /\ \A i \in 0..count : ChunksTo(i, size, MAX_LINES) \in Int
      /\ \A i \in 1..count : /\ size_i(i) \in 1..MAX_LINES
                            /\ ChunksTo(i, size, MAX_LINES) = ChunksTo(i - 1, size, MAX_LINES) + size_i(i)
    BY <1>1, ChunksGrow
<1>3. Abs(Signed(w)) = size /\ (Signed(w) < 0 <=> sign = -1)
    BY <1>1, SignedClicks DEF Directions
<1>4. lines = [i \in 1..count |-> sign * size_i(i)]
    BY <1>3 DEF Chunks, ChunkSize
<1>5. WheelMac(w) = events
  <2>1. DOMAIN lines = 1..count
      BY <1>4
  <2> QED
      BY <2>1 DEF WheelMac
<1> HIDE DEF count, lines, size_i, size
<1>6. ASSUME NEW i \in 1..count PROVE Turned(events[i]) = <<w.direction, size_i(i)>>
  <2>1. lines[i] = sign * size_i(i) /\ size_i(i) \in 1..MAX_LINES
      BY <1>2, <1>4
  <2>2. size_i(i) \in Int /\ size_i(i) > 0
      BY <1>1, <2>1
  <2>3. Abs(lines[i]) = size_i(i) /\ Abs(-lines[i]) = size_i(i) /\ (lines[i] > 0 <=> sign = 1)
        /\ (-lines[i] > 0 <=> sign = -1)
      BY <2>1, <2>2 DEF Abs
  <2>4. events[i] = IF Horizontal(w) THEN <<"wheel2", -lines[i]>> ELSE <<"wheel1", lines[i]>>
      OBVIOUS
  <2> HIDE DEF events
  <2>5. CASE Horizontal(w)
    <3>1. w.direction = (IF sign = -1 THEN "left" ELSE "right")
        BY <1>1, <2>5 DEF Horizontal, Directions
    <3>2. events[i] = <<"wheel2", -lines[i]>>
        BY <2>4, <2>5
    <3>3. Turned(events[i]) = <<IF -lines[i] > 0 THEN "left" ELSE "right", Abs(-lines[i])>>
        BY <3>2 DEF Turned
    <3> QED
        BY <2>3, <3>1, <3>3 
  <2>6. CASE ~Horizontal(w)
    <3>1. w.direction = (IF sign = 1 THEN "up" ELSE "down")
        BY <1>1, <2>6 DEF Horizontal, Directions
    <3>2. events[i] = <<"wheel1", lines[i]>>
        BY <2>4, <2>6
    <3>3. Turned(events[i]) = <<IF lines[i] > 0 THEN "up" ELSE "down", Abs(lines[i])>>
        BY <3>2 DEF Turned
    <3> QED
        BY <2>3, <3>1, <3>3
  <2> QED
      BY <2>5, <2>6
<1>7. Len(events) = count /\ DOMAIN events = 1..count
    BY <1>2
<1> HIDE DEF events, sign
<1>8. S \in [0..count -> Int] /\ S[0] = 0 /\ S[count] = size
    BY <1>2
<1>9. \A i \in 1..count : S[i] = S[i - 1] + Turned(events[i])[2]
  <2> TAKE i \in 1..count
  <2>1. i \in 0..count /\ i - 1 \in 0..count
      BY <1>2
  <2>2. Turned(events[i])[2] = size_i(i)
      BY <1>6
  <2> QED
      BY <1>2, <2>1, <2>2
<1> HIDE DEF S
<1>10. TurnedBy(events) = size
    BY <1>2, <1>7, <1>8, <1>9, TurnedSum
<1>11. \A i \in DOMAIN events : Turned(events[i])[1] = w.direction /\ Turned(events[i])[2] <= MAX_LINES
    BY <1>1, <1>2, <1>6, <1>7
<1> QED
    BY <1>5, <1>10, <1>11 DEF Carried, size

LEMMA WheelWhole ==
  ASSUME NEW w, WheelOf(w), os \in {"x11", "windows", "macos"} PROVE Carried(WheelEvents(w), w)
BY X11Whole, WindowsWhole, MacWhole DEF WheelEvents

LEMMA ClampIn ==
  ASSUME NEW n \in Int PROVE ClampClicks(Abs(n)) \in 1..MAX_CLICKS
<1>1. MAX_CLICKS \in Nat \ {0}
    BY DriverAssumption
<1>2. Abs(n) \in Int
    BY DEF Abs
<1> QED
    BY <1>1, <1>2 DEF ClampClicks

LEMMA RequestWheel ==
  ASSUME NEW amount \in Int, NEW direction \in {"", "up", "right"}, NEW horizontal \in BOOLEAN
  PROVE  WheelOf(NormalizeRequest(amount, direction, horizontal))
<1>1. PICK w : w = NormalizeRequest(amount, direction, horizontal)
    OBVIOUS
<1>2. w.clicks = ClampClicks(Abs(amount)) /\ w.direction \in Directions
    BY <1>1 DEF NormalizeRequest, Directions
<1>3. w.clicks \in 1..MAX_CLICKS
    BY <1>2, ClampIn
<1>4. WheelOf(w)
    BY <1>2, <1>3 DEF WheelOf
<1> QED
    BY <1>1, <1>4

-----------------------------------------------------------------------------
(* What an input tool sends is its plan. *)

\* What Type is to leave in the field: X11 gets the text as it is.
TextDue == Field \o (IF os = "x11" THEN task.text ELSE Keys(task.text))

\* Up to its last step a call has sent what was planned of the request, and only a call of the keys
\* gets to "type".
PlanInv ==
  /\ os \in {"x11", "windows", "macos"}
  /\ task.step \in {"prepare", "type"} => task.text \in Seq(Characters)
  /\ task.step = "prepare" => out = <<"old">>
  /\ task.step = "type" => out = Field
  /\ task.step \in {"save", "set", "paste", "restore"} => task.action # "keys"
  /\ task.step = "enter" /\ task.action = "keys" => out = TextDue
  /\ task.step = "release" /\ task.tool = "Scroll" /\ ~task.failed => Scrolled
  /\ PlansTrue

LEMMA ScrolledKeeps == ASSUME out' = out, os' = os, Scrolled PROVE Scrolled'
BY DEF Scrolled

\* The tools start with nothing sent.
LEMMA PlansBegin ==
  ASSUME InputInv, PlanInv, StartHoldKey \/ StartClick \/ StartScroll \/ StartMove \/ StartShortcut \/ StartType
  PROVE  PlanInv'
<1>1. CASE StartHoldKey
  <2>1. PICK keys \in KeyLists :
          \/ Begin([NoTask EXCEPT !.tool = "HoldKey", !.step = "press", !.keys = keys])
          \/ Begin([NoTask EXCEPT !.tool = "HoldKey", !.reply = "refused"])
      BY <1>1 DEF StartHoldKey
  <2>2. task'.tool = "HoldKey" /\ task'.step \in {"press", "over"} /\ os' = os
      BY <2>1 DEF Begin, NoTask
  <2> QED
      BY <2>2 DEF PlanInv, PlansTrue, TypedKeys
<1>2. CASE StartClick
  <2>1. PICK keys \in KeyLists, button \in Buttons, action \in ClickActions \cup {"unknown"} :
          \/ Begin([NoTask EXCEPT !.tool = "Click", !.step = "press", !.keys = keys, !.button = button,
                                  !.action = action])
          \/ Begin([NoTask EXCEPT !.tool = "Click", !.reply = "refused"])
      BY <1>2 DEF StartClick
  <2>2. task'.tool = "Click" /\ task'.step \in {"press", "over"} /\ os' = os
      BY <2>1 DEF Begin, NoTask
  <2> QED
      BY <2>2 DEF PlanInv, PlansTrue, TypedKeys
<1>3. CASE StartScroll
  <2>1. PICK keys \in KeyLists :
          \/ Begin([NoTask EXCEPT !.tool = "Scroll", !.step = "press", !.keys = keys])
          \/ Begin([NoTask EXCEPT !.tool = "Scroll", !.reply = "refused"])
      BY <1>3 DEF StartScroll
  <2>2. /\ task'.tool = "Scroll" /\ task'.step \in {"press", "over"} /\ os' = os
        /\ task'.step = "over" => task'.reply = "refused"
      BY <2>1 DEF Begin, NoTask
  <2> QED
      BY <2>2 DEF PlanInv, PlansTrue, TypedKeys, Over
<1>4. CASE StartMove
  <2>1. PICK drag \in BOOLEAN :
          Begin([NoTask EXCEPT !.tool = "Move", !.button = "left", !.action = IF drag THEN "drag" ELSE "move",
                               !.step = IF ~drag THEN "move" ELSE IF os = "x11" THEN "drag" ELSE "dragged"])
      BY <1>4 DEF StartMove
  <2>2. task'.tool = "Move" /\ task'.step \in {"move", "drag", "dragged"} /\ os' = os
      BY <2>1 DEF Begin, NoTask
  <2> QED
      BY <2>2 DEF PlanInv, PlansTrue, TypedKeys
<1>5. CASE StartShortcut
  <2>1. PICK repeat \in Repeats :
          \/ Begin([NoTask EXCEPT !.tool = "Shortcut", !.step = "shortcut", !.keys = [i \in 1..repeat |-> "a"]])
          \/ Begin([NoTask EXCEPT !.tool = "Shortcut", !.reply = "refused"])
      BY <1>5 DEF StartShortcut
  <2>2. task'.tool = "Shortcut" /\ task'.step \in {"shortcut", "over"} /\ os' = os
      BY <2>1 DEF Begin, NoTask
  <2> QED
      BY <2>2 DEF PlanInv, PlansTrue, TypedKeys
<1>6. CASE StartType
  <2>1. PICK text \in Texts, method \in {"keys", "paste"}, clear \in BOOLEAN :
          Begin([NoTask EXCEPT !.tool = "Type", !.step = "prepare", !.text = text, !.action = method,
                               !.clear = clear])
      BY <1>6 DEF StartType
  <2>2. /\ task'.tool = "Type" /\ task'.step = "prepare" /\ task'.text = text /\ os' = os
        /\ out' = <<"old">>
      BY <2>1 DEF Begin, NoTask
  <2>3. text \in Seq(Characters)
      BY InputAssumption
  <2> QED
      BY <2>2, <2>3 DEF PlanInv, PlansTrue, TypedKeys, Over
<1> QED
    BY <1>1, <1>2, <1>3, <1>4, <1>5, <1>6

\* A scroll's wheel is sent once, whole.
LEMMA PlansHold ==
  ASSUME InputInv, PlanInv, KeyDown \/ HoldBody \/ ClickBody \/ ScrollBody \/ KeyUp \/ EndHeld
  PROVE  PlanInv'
<1>0. DOMAIN task = DOMAIN NoTask /\ (task.step \in HoldSteps => task.tool \in {"HoldKey", "Click", "Scroll"})
    BY DEF InputInv, TaskShape
<1> USE DEF HoldSteps
<1>1. CASE KeyDown
  <2>1. task'.tool = task.tool /\ os' = os /\ (task'.step = "press" \/ (task'.step = "release" /\ task'.failed))
    <3>1. task.step = "press" /\ os' = os
        BY <1>1 DEF KeyDown
    <3>2. PICK key : task' = [task EXCEPT !.held = Append(task.held, key)] \/ FailTo("release")
        BY <1>1 DEF KeyDown
    <3> QED
        BY <1>0, <3>1, <3>2, FailFields DEF SameCall, NoTask
  <2> QED
      BY <2>1 DEF PlanInv, PlansTrue, TypedKeys, Over
<1>2. CASE HoldBody \/ ClickBody
  <2>1. task.tool # "Scroll" /\ task'.tool = task.tool /\ os' = os /\ task'.step = "release"
    <3>1. task.tool \in {"HoldKey", "Click"} /\ (Step("release") \/ FailTo("release")) /\ os' = os
        BY <1>2 DEF HoldBody, ClickBody, driverVars
    <3> QED
        BY <1>0, <3>1, StepFields, FailFields DEF SameCall
  <2> QED
      BY <2>1 DEF PlanInv, PlansTrue, TypedKeys, Over
<1>3. CASE ScrollBody
  <2>1. os' = os
      BY <1>3 DEF ScrollBody
  <2>2. CASE FailTo("release")
    <3>1. task'.step = "release" /\ task'.failed
        BY <1>0, <2>2, FailFields
    <3> QED
        BY <2>1, <3>1 DEF PlanInv, PlansTrue, TypedKeys, Over
  <2>3. CASE Step("release") /\ ~FailTo("release")
    <3>1. PICK amount \in Amounts, direction \in {"", "up", "right"}, horizontal \in BOOLEAN :
            LET w == NormalizeRequest(amount, direction, horizontal)
            IN out' = [wheel |-> w, events |-> WheelEvents(w), flags |-> Flags]
        BY <1>3, <2>3 DEF ScrollBody
    <3>2. PICK w : w = NormalizeRequest(amount, direction, horizontal)
        OBVIOUS
    <3>3. out'.wheel = w /\ out'.events = WheelEvents(w)
        BY <3>1, <3>2
    <3>4. amount \in Int
        BY InputAssumption
    <3>5. Carried(WheelEvents(w), w)
        BY <3>2, <3>4, RequestWheel, WheelWhole DEF PlanInv
    <3>6. Scrolled'
        BY <2>1, <3>3, <3>5 DEF Scrolled, Carried
    <3>7. task'.step = "release"
        BY <1>0, <2>3, StepFields
    <3> QED
        BY <2>1, <3>6, <3>7 DEF PlanInv, PlansTrue, TypedKeys, Over
  <2> QED
      BY <1>3, <2>2, <2>3 DEF ScrollBody
<1>4. CASE KeyUp
  <2>1. /\ task.step = "release" /\ task'.step = "release" /\ task'.tool = task.tool /\ os' = os /\ out' = out
        /\ task'.failed = task.failed
    <3>1. task.step = "release" /\ os' = os /\ out' = out
        BY <1>4 DEF KeyUp
    <3>2. \/ task' = [task EXCEPT !.held = Front(task.held)]
          \/ task' = [task EXCEPT !.held = Front(task.held), !.saved = "stuck"]
        BY <1>4 DEF KeyUp
    <3> QED
        BY <1>0, <3>1, <3>2 DEF NoTask
  <2> QED
      BY <2>1, ScrolledKeeps DEF PlanInv, PlansTrue, TypedKeys, Over
<1>5. CASE EndHeld
  <2>1. /\ task.step = "release" /\ os' = os /\ out' = out
      BY <1>5 DEF EndHeld, driverVars
  <2>2. PICK saying : Answer(saying) /\ (task.failed => saying = "failed")
      BY <1>5 DEF EndHeld
  <2>3. task'.step = "over" /\ task'.tool = task.tool /\ task'.reply = saying
      BY <1>0, <2>2, AnswerFields DEF SameCall
  <2>4. task.tool # "Type"
      BY <1>0, <2>1
  <2>5. task.tool = "Scroll" /\ saying = "ok" => Scrolled
      BY <2>1, <2>2 DEF PlanInv
  <2> QED
      BY <2>1, <2>3, <2>4, <2>5, ScrolledKeeps DEF PlanInv, PlansTrue, TypedKeys
<1> QED
    BY <1>1, <1>2, <1>3, <1>4, <1>5

\* The other tools, and what a paste does, send no plan.
LEMMA PlansElsewhere ==
  ASSUME InputInv, PlanInv,
         \/ MovePointer \/ DragElsewhere \/ DragPress \/ DragWalk \/ DragDrop \/ ShortcutX11 \/ ShortcutElsewhere
         \/ SaveClipboard \/ SetClipboard \/ Paste \/ Restore
  PROVE  PlanInv'
<1>0. DOMAIN task = DOMAIN NoTask
    BY DEF InputInv, TaskShape
<1>1. CASE MovePointer \/ DragElsewhere \/ DragPress \/ DragWalk \/ DragDrop \/ ShortcutX11 \/ ShortcutElsewhere
  <2>1. task.tool \in {"Move", "Shortcut"} /\ os' = os
      BY <1>1 DEF InputInv, TaskShape, Dragging, MovePointer, DragElsewhere, DragPress, DragWalk, DragDrop,
                  ShortcutX11, ShortcutElsewhere
  <2>2. \/ UNCHANGED task \/ (\E saying : Answer(saying))
        \/ \E step \in {"walk", "drop"} : Step(step) \/ FailTo(step)
    <3>1. MovePointer \/ DragElsewhere \/ DragDrop => \E saying : Answer(saying)
        BY DEF MovePointer, DragElsewhere, DragDrop
    <3>2. DragPress => (\E saying : Answer(saying)) \/ Step("walk")
        BY DEF DragPress
    <3>3. DragWalk => \E step \in {"walk", "drop"} : Step(step) \/ FailTo(step)
        BY DEF DragWalk
    <3>4. ShortcutX11 \/ ShortcutElsewhere => UNCHANGED task \/ (\E saying : Answer(saying))
        BY DEF ShortcutX11, ShortcutElsewhere
    <3> QED
        BY <1>1, <3>1, <3>2, <3>3, <3>4
  <2>3. task'.tool = task.tool /\ (task'.step \in {"over", "walk", "drop"} \/ task' = task)
    <3>1. ASSUME NEW saying, Answer(saying) PROVE task'.tool = task.tool /\ task'.step = "over"
        BY <1>0, <3>1, AnswerFields DEF SameCall
    <3>2. ASSUME NEW step \in {"walk", "drop"}, Step(step) \/ FailTo(step)
          PROVE  task'.tool = task.tool /\ task'.step \in {"walk", "drop"}
        BY <1>0, <3>2, StepFields, FailFields DEF SameCall
    <3> QED
        BY <2>2, <3>1, <3>2
  <2>4. task.step \notin {"prepare", "type", "save", "set", "paste", "restore", "enter"}
      BY <2>1 DEF InputInv, TaskShape, TypeSteps
  <2> QED
      BY <2>1, <2>3, <2>4 DEF PlanInv, PlansTrue, TypedKeys
<1>2. CASE SaveClipboard \/ SetClipboard \/ Paste \/ Restore
  <2>1. task.step \in {"save", "set", "paste", "restore"} /\ os' = os
      BY <1>2 DEF SaveClipboard, SetClipboard, Paste, Restore
  <2>2. task.tool = "Type" /\ task.action # "keys"
      BY <2>1 DEF InputInv, TaskShape, PlanInv, TypeSteps
  <2>3. /\ task'.tool = task.tool /\ task'.action = task.action
        /\ task'.step \in {"set", "paste", "restore", "over", "enter"}
    <3>1. ASSUME SaveClipboard
          PROVE  /\ task'.tool = task.tool /\ task'.action = task.action
                 /\ task'.step \in {"set", "paste", "restore", "over", "enter"}
        BY <1>0, <3>1 DEF SaveClipboard, NoTask
    <3>2. ASSUME NEW step \in {"paste", "restore"}, Step(step) \/ FailTo(step)
          PROVE  /\ task'.tool = task.tool /\ task'.action = task.action
                 /\ task'.step \in {"set", "paste", "restore", "over", "enter"}
        BY <1>0, <3>2, StepFields, FailFields DEF SameCall
    <3>3. ASSUME NEW saying, AfterRestore(saying)
          PROVE  /\ task'.tool = task.tool /\ task'.action = task.action
                 /\ task'.step \in {"set", "paste", "restore", "over", "enter"}
        BY <1>0, <3>3 DEF AfterRestore, NoTask
    <3>4. SetClipboard \/ Paste => \E step \in {"paste", "restore"} : Step(step) \/ FailTo(step)
        BY DEF SetClipboard, Paste
    <3>5. Restore => \E saying : AfterRestore(saying)
        BY DEF Restore
    <3> QED
        BY <1>2, <3>1, <3>2, <3>3, <3>4, <3>5
  <2> QED
      BY <2>1, <2>2, <2>3 DEF PlanInv, PlansTrue, TypedKeys
<1> QED
    BY <1>1, <1>2

\* Typing: the whole text after what the field was left with.
LEMMA TypedWhole ==
  ASSUME NEW text \in Seq(Characters), TypeUnicode(text, TRUE)
  PROVE  out' = out \o (IF os = "x11" THEN text ELSE Keys(text))
<1>1. CASE TypeX11(text, TRUE)
    BY <1>1 DEF TypeX11
<1>2. CASE TypeWindows(text, TRUE)
  <2>1. os = "windows" /\ out' = out \o All(Plan(text, 1))
      BY <1>2 DEF TypeWindows, All
  <2> QED
      BY <2>1, PlanWhole
<1>3. CASE TypeMac(text, TRUE)
  <2>1. os = "macos" /\ out' = out \o All(Plan(text, MAX_UNITS))
      BY <1>3 DEF TypeMac, All
  <2> QED
      BY <2>1, PlanWhole
<1> QED
    BY <1>1, <1>2, <1>3 DEF TypeUnicode
LEMMA ConcatLen ==
  ASSUME NEW T, NEW s \in Seq(T), NEW t \in Seq(T) PROVE Len(s \o t) = Len(s) + Len(t)
OBVIOUS
LEMMA ConcatAt ==
  ASSUME NEW T, NEW s \in Seq(T), NEW t \in Seq(T), NEW i \in 1..Len(t) PROVE (s \o t)[Len(s) + i] = t[i]
OBVIOUS
LEMMA FieldPrepared ==
  ASSUME out = <<"old">>, os \in {"x11", "windows", "macos"}, PrepareField(task.clear, TRUE)
  PROVE  out' = Field
<1> DEFINE steps == CASE os = "x11" -> StepsX11(task.clear) [] os = "windows" -> StepsWindows(task.clear)
                      [] os = "macos" -> StepsMac(task.clear)
<1>1. out' = Prepared(steps)
    BY DEF PrepareField
<1>2. CASE task.clear
  <2> DEFINE S == {"permission", "click", "select", "delete"}
             rest == <<"select", "delete">>
  <2>1. PICK before \in Seq(S) : steps = before \o rest
    <3>1. <<"click">> \in Seq(S) /\ <<"permission", "click">> \in Seq(S)
        OBVIOUS
    <3> QED
        BY <1>2, <3>1 DEF StepsX11, StepsWindows, StepsMac
  <2>2. "delete" \in ToSet(steps)
    <3>1. rest \in Seq(S) /\ Len(rest) = 2 /\ rest[2] = "delete"
        OBVIOUS
    <3> HIDE DEF rest, S, steps
    <3>a. before \in Seq(S) /\ rest \in Seq(S)
        BY <3>1
    <3>2. PICK n \in Nat : Len(before) = n
        OBVIOUS
    <3>3. Len(before \o rest) = n + 2
      <4>1. Len(before \o rest) = Len(before) + Len(rest)
          BY <3>1, ConcatLen
      <4> QED
          BY <3>1, <3>2, <4>1
    <3>4. (before \o rest)[n + 2] = rest[2]
      <4>1. 2 \in 1..Len(rest)
          BY <3>1
      <4>2. (before \o rest)[Len(before) + 2] = rest[2]
          BY <3>a, <4>1, ConcatAt
      <4> QED
          BY <3>2, <4>2
    <3>5. before \o rest \in Seq(S)
        BY <3>1
    <3>6. n + 2 \in DOMAIN (before \o rest)
        BY <3>2, <3>3, <3>5
    <3> QED
        BY <2>1, <3>1, <3>4, <3>6 DEF ToSet
  <2> HIDE DEF steps
  <2> QED
      BY <1>1, <1>2, <2>2 DEF Prepared, Field
<1>3. CASE ~task.clear
  <2>1. steps \in {<<"click">>, <<"permission", "click">>}
      BY <1>3 DEF StepsX11, StepsWindows, StepsMac
  <2>2. "delete" \notin ToSet(steps) /\ "select" \notin ToSet(steps)
      BY <2>1 DEF ToSet
  <2> HIDE DEF steps
  <2> QED
      BY <1>1, <1>3, <2>2 DEF Prepared, Field
<1> QED
    BY <1>2, <1>3

LEMMA PlansType ==
  ASSUME InputInv, PlanInv, Prepare \/ TypeKeys \/ PressEnter \/ NextTool
  PROVE  PlanInv'
<1>0. DOMAIN task = DOMAIN NoTask /\ os' = os
    BY DEF InputInv, TaskShape, Prepare, TypeKeys, PressEnter, NextTool
<1>1. CASE Prepare
  <2>1. /\ task.step = "prepare" /\ task.text \in Seq(Characters) /\ out = <<"old">> /\ task.reply = "none"
        /\ task.tool = "Type"
      BY <1>1 DEF Prepare, PlanInv, InputInv, TaskShape, TypeSteps
  <2>2. CASE Answer("failed")
    <3>1. task'.step = "over" /\ task'.reply = "failed"
        BY <1>0, <2>2, AnswerFields
    <3> QED
        BY <1>0, <3>1 DEF PlanInv, PlansTrue, TypedKeys
  <2>3. CASE PrepareField(task.clear, TRUE) /\ Step(IF task.action = "keys" THEN "type" ELSE "save")
    <3>1. /\ SameCall /\ task'.step = IF task.action = "keys" THEN "type" ELSE "save"
        BY <1>0, <2>3, StepFields
    <3>2. out' = Field
      <4>1. os \in {"x11", "windows", "macos"}
          BY DEF PlanInv
      <4> QED
          BY <2>1, <2>3, <4>1, FieldPrepared
    <3>3. Field' = Field
        BY <3>1 DEF Field, SameCall
    <3> QED
        BY <1>0, <2>1, <3>1, <3>2, <3>3 DEF PlanInv, PlansTrue, TypedKeys, SameCall, Over
  <2> QED
      BY <1>1, <2>2, <2>3 DEF Prepare
<1>2. CASE TypeKeys
  <2>1. task.step = "type" /\ task.text \in Seq(Characters) /\ out = Field
      BY <1>2 DEF TypeKeys, PlanInv
  <2>2. CASE Answer("failed")
    <3>1. task'.step = "over" /\ task'.reply = "failed"
        BY <1>0, <2>2, AnswerFields
    <3> QED
        BY <1>0, <3>1 DEF PlanInv, PlansTrue, TypedKeys
  <2>3. CASE TypeUnicode(task.text, TRUE) /\ Step("enter")
    <3>1. SameCall /\ task'.step = "enter"
        BY <1>0, <2>3, StepFields
    <3>2. out' = TextDue
        BY <2>1, <2>3, TypedWhole DEF TextDue
    <3>3. TextDue' = TextDue
        BY <1>0, <3>1 DEF Field, TextDue, SameCall
    <3> QED
        BY <1>0, <3>1, <3>2, <3>3 DEF PlanInv, PlansTrue, TypedKeys, Over
  <2> QED
      BY <1>2, <2>2, <2>3 DEF TypeKeys
<1>3. CASE PressEnter
  <2>1. task.step = "enter" /\ task.tool = "Type" /\ out' = out
      BY <1>3 DEF PressEnter, InputInv, TaskShape
  <2>2. PICK saying : Answer(saying)
      BY <1>3 DEF PressEnter
  <2>3. SameCall /\ task'.step = "over"
      BY <1>0, <2>2, AnswerFields
  <2>4. TextDue' = TextDue
      BY <1>0, <2>3 DEF Field, TextDue, SameCall
  <2>5. task.action = "keys" => out' = TextDue'
      BY <2>1, <2>4 DEF PlanInv
  <2> QED
      BY <1>0, <2>1, <2>3, <2>5 DEF PlanInv, PlansTrue, TypedKeys, SameCall, TextDue, Field
<1>4. CASE NextTool
  <2>1. task'.step = "over" /\ task'.tool = "none"
      BY <1>4 DEF NextTool, NoTask
  <2> QED
      BY <1>0, <2>1 DEF PlanInv, PlansTrue, TypedKeys
<1> QED
    BY <1>1, <1>2, <1>3, <1>4

LEMMA PlansStep == ASSUME InputInv, PlanInv, [InputNext]_inputVars PROVE PlanInv'
<1>1. CASE UNCHANGED inputVars
  <2>1. task' = task /\ out' = out /\ os' = os
      BY <1>1 DEF inputVars, driverVars
  <2>2. Field' = Field /\ TextDue' = TextDue
      BY <2>1 DEF Field, TextDue
  <2>3. Over' = Over
      BY <2>1 DEF Over
  <2>4. PlansTrue'
      BY <2>1, <2>2, <2>3, ScrolledKeeps DEF PlanInv, PlansTrue, TypedKeys, Field
  <2> QED
      BY <2>1, <2>2, <2>4, ScrolledKeeps DEF PlanInv
<1> QED
    BY <1>1, PlansBegin, PlansHold, PlansElsewhere, PlansType DEF InputNext

LEMMA PlansStart == InputInit => PlanInv
<1> SUFFICES ASSUME InputInit PROVE PlanInv
    OBVIOUS
<1>1. PICK name \in {"x11", "windows", "macos"} : InputIdle(name)
    BY DEF InputInit
<1>2. os \in {"x11", "windows", "macos"} /\ task = NoTask
    BY <1>1 DEF InputIdle, DriverIdle
<1>3. task.step = "over" /\ task.tool = "none"
    BY <1>2 DEF NoTask
<1> QED
    BY <1>2, <1>3 DEF PlanInv, PlansTrue, TypedKeys, Over

(* Whatever wheel and text the input tools are asked for: a scroll that succeeds turned the wheel as far as
   scroll.py's clamp allows, in events each system can carry; a text typed by keys on Windows or macOS
   arrived complete, a line end as one Enter, wherever the plan's runs were cut. *)
THEOREM InputPlannedWhole == InputSpec => []PlansTrue
<1>1. InputInit => InputInv /\ PlanInv
    BY InputBegins, PlansStart
<1>2. (InputInv /\ PlanInv) /\ [InputNext]_inputVars => (InputInv /\ PlanInv)'
    BY InputStep, PlansStep
<1>3. PlanInv => PlansTrue
    BY DEF PlanInv
<1> QED
    BY <1>1, <1>2, <1>3, PTL DEF InputSpec

-----------------------------------------------------------------------------
(* The types of the input tools. *)

\* What a call holds its keys by, and what it saved of the clipboard.
TypedInv ==
  /\ InputTypeOK
  /\ task.step \in HoldSteps => \A i \in 1..Len(task.keys) : CheckKey(task.keys[i])
  /\ task.step \in {"set", "paste", "restore"} => task.saved \in {"", "text", "typed"}

Downs == Modifiers \cup Buttons \cup {"a", "f20", "enter", "tab"}
LEMMA FaultTyped == ASSUME inputFaults \in 0..MaxInputFaults, NoFault \/ FaultNow PROVE inputFaults' \in 0..MaxInputFaults
BY DriverAssumption DEF NoFault, FaultNow

LEMMA PressTyped ==
  ASSUME DriverTypeOK, NEW key \in KeyNames, CheckKey(key), NEW works \in BOOLEAN, PressKey(key, works),
         UNCHANGED <<os, clip>>
  PROVE  DriverTypeOK'
<1>1. inputFaults' \in 0..MaxInputFaults
    BY FaultTyped DEF DriverTypeOK, PressKey, KeyX11, KeyWindows, KeyMac, SendOne
<1>2. CASE KeyX11(key, FALSE, works)
    BY <1>1, <1>2 DEF DriverTypeOK, KeyX11, After, KeyNames
<1>3. CASE KeyWindows(key, FALSE, works)
    BY <1>1, <1>3 DEF DriverTypeOK, KeyWindows, SendOne, After, KeyNames, CheckKey, KnownWindows
<1>4. CASE KeyMac(key, FALSE, works)
    BY <1>1, <1>4 DEF DriverTypeOK, KeyMac, After, KeyNames, CheckKey, KnownMac
<1> QED
    BY <1>2, <1>3, <1>4 DEF PressKey
LEMMA ReleaseTyped ==
  ASSUME DriverTypeOK, NEW key, NEW works \in BOOLEAN, ReleaseKey(key, works), UNCHANGED <<os, clip>>
  PROVE  DriverTypeOK'
<1>1. inputFaults' \in 0..MaxInputFaults
    BY FaultTyped DEF DriverTypeOK, ReleaseKey, KeyX11, KeyWindows, KeyMac, SendOne
<1>2. CASE KeyX11(key, TRUE, works)
    BY <1>1, <1>2 DEF DriverTypeOK, KeyX11, After
<1>3. CASE KeyWindows(key, TRUE, works)
    BY <1>1, <1>3 DEF DriverTypeOK, KeyWindows, SendOne, After
<1>4. CASE KeyMac(key, TRUE, works)
    BY <1>1, <1>4 DEF DriverTypeOK, KeyMac, After
<1> QED
    BY <1>2, <1>3, <1>4 DEF ReleaseKey
LEMMA ClickTyped ==
  ASSUME DriverTypeOK, NEW button \in Buttons, NEW action \in ClickActions, NEW works \in BOOLEAN,
         ClickAt(button, action, works), UNCHANGED <<os, clip>>
  PROVE  DriverTypeOK'
<1>0. down' \subseteq down \cup {button} /\ marked' = marked
    BY ClickEffect
<1>1. inputFaults' \in 0..MaxInputFaults
    BY FaultTyped DEF DriverTypeOK, ClickAt, ClickX11, ClickWindows, ClickMac, SendOne
<1>2. grip' \in Buttons \cup {"none"} /\ (os # "macos" => grip' = grip)
    BY DEF DriverTypeOK, ClickAt, ClickX11, ClickWindows, ClickMac
<1> QED
    BY <1>0, <1>1, <1>2 DEF DriverTypeOK

\* A plan is a sequence of strokes.
LEMMA PlanTyped ==
  ASSUME NEW text \in Seq(Characters), NEW units PROVE Plan(text, units) \in Seq(Strokes)
<1>0. PICK N \in Nat : Len(text) = N
    OBVIOUS
<1>1. PICK strokes \in [0..N -> Seq(Strokes)] : Plan(text, units) = strokes[N]
    BY <1>0, PlanSteps
<1> QED
    BY <1>1
LEMMA TypingTyped ==
  ASSUME DriverTypeOK, NEW text \in Seq(Characters), NEW works \in BOOLEAN, TypeUnicode(text, works),
         UNCHANGED <<os, clip, marked, grip>>
  PROVE  DriverTypeOK'
<1>1. inputFaults' \in 0..MaxInputFaults
    BY FaultTyped DEF DriverTypeOK, TypeUnicode, TypeX11, TypeWindows, TypeMac
<1>2. down' \subseteq Downs
  <2>1. down \subseteq Downs
      BY DEF DriverTypeOK, Downs
  <2>2. CASE UNCHANGED down
      BY <2>1, <2>2
  <2>3. CASE ~UNCHANGED down
    <3> DEFINE strokes == Plan(text, 1)
    <3>1. strokes \in Seq(Strokes)
        BY PlanTyped
    <3>2. TypeWindows(text, works) /\ ~works
        BY <2>3 DEF TypeUnicode, TypeX11, TypeWindows, TypeMac
    <3>3. PICK n \in 0..(Len(strokes) - 1) : strokes[n + 1].key # "none" /\ down' = down \cup {strokes[n + 1].key}
        BY <2>3, <3>2 DEF TypeWindows
    <3> HIDE DEF strokes
    <3>4. PICK k \in Nat : Len(strokes) = k
        BY <3>1
    <3>5. strokes[n + 1] \in Strokes
        BY <3>1, <3>4
    <3>6. strokes[n + 1].key \in {"enter", "tab"}
        BY <3>3, <3>5 DEF Strokes
    <3> QED
        BY <2>1, <3>3, <3>6 DEF Downs
  <2> QED
      BY <2>2, <2>3
<1> QED
    BY <1>1, <1>2 DEF DriverTypeOK, Downs

\* A step of a call leaves the driver's types as they are where it presses and releases nothing.
LEMMA QuietTyped ==
  ASSUME DriverTypeOK, UNCHANGED <<os, marked, grip>>, down' \subseteq down \cup {"left"},
         clip' \in {"text", "image", "empty", "typed"}, inputFaults' \in 0..MaxInputFaults
  PROVE  DriverTypeOK'
BY DEF DriverTypeOK, Buttons

LEMMA TypedBegins ==
  ASSUME InputInv, TypedInv,
         StartHoldKey \/ StartClick \/ StartScroll \/ StartMove \/ StartShortcut \/ StartType
  PROVE  TypedInv'
<1>0. ASSUME NEW record, FreshTask(record), Begin(record),
             record.step = "press" => \A i \in 1..Len(record.keys) : CheckKey(record.keys[i])
      PROVE  TypedInv'
  <2>1. task' = [record EXCEPT !.before = down, !.clipBefore = clip] /\ UNCHANGED <<os, down, marked, grip, clip, inputFaults, lastDown>>
      BY <1>0 DEF Begin
  <2>2. task'.step = record.step /\ task'.keys = record.keys
      BY <1>0, <2>1 DEF FreshTask, NoTask
  <2>3. record.step \in {"over", "press", "move", "drag", "dragged", "shortcut", "prepare"}
      BY <1>0 DEF FreshTask
  <2>4. task'.step \in HoldSteps => \A i \in 1..Len(task'.keys) : CheckKey(task'.keys[i])
      BY <1>0, <2>2, <2>3 DEF HoldSteps
  <2> QED
      BY <2>1, <2>2, <2>3, <2>4 DEF TypedInv, InputTypeOK, DriverTypeOK, CheckKey
<1>1. /\ <<>> \in Seq(KeyNames) /\ \A keys \in KeyLists : keys \in Seq(KeyNames) /\ DOMAIN keys = 1..Len(keys)
    BY InputAssumption DEF KeyNames
<1>2. \A key \in Modifiers : CheckKey(key)
    BY DEF TypedInv, InputTypeOK, DriverTypeOK, CheckKey, KnownWindows, KnownMac
<1>3. CASE StartHoldKey
  <2>1. PICK keys \in KeyLists :
          \/ /\ \A i \in DOMAIN keys : CheckKey(keys[i])
             /\ Begin([NoTask EXCEPT !.tool = "HoldKey", !.step = "press", !.keys = keys])
          \/ Begin([NoTask EXCEPT !.tool = "HoldKey", !.reply = "refused"])
      BY <1>3 DEF StartHoldKey
  <2>2. PICK r : r = [NoTask EXCEPT !.tool = "HoldKey", !.step = "press", !.keys = keys]
      OBVIOUS
  <2>3. PICK refusal : refusal = [NoTask EXCEPT !.tool = "HoldKey", !.reply = "refused"]
      OBVIOUS
  <2>4. FreshTask(r) /\ r.keys = keys /\ FreshTask(refusal) /\ refusal.step = "over"
      BY <1>1, <2>2, <2>3 DEF FreshTask, NoTask
  <2> QED
      BY <1>0, <1>1, <2>1, <2>2, <2>3, <2>4
<1>4. CASE StartClick
  <2>1. PICK keys \in KeyLists, button \in Buttons, action \in ClickActions \cup {"unknown"} :
          \/ /\ CheckModifiers(keys) /\ action \in ClickActions
             /\ Begin([NoTask EXCEPT !.tool = "Click", !.step = "press", !.keys = keys, !.button = button,
                                     !.action = action])
          \/ Begin([NoTask EXCEPT !.tool = "Click", !.reply = "refused"])
      BY <1>4 DEF StartClick
  <2>2. PICK r : r = [NoTask EXCEPT !.tool = "Click", !.step = "press", !.keys = keys, !.button = button, !.action = action]
      OBVIOUS
  <2>3. PICK refusal : refusal = [NoTask EXCEPT !.tool = "Click", !.reply = "refused"]
      OBVIOUS
  <2>4. CheckModifiers(keys) /\ action \in ClickActions => FreshTask(r)
      BY <1>1, <2>2 DEF FreshTask, NoTask, CheckModifiers
  <2>5. r.keys = keys /\ FreshTask(refusal) /\ refusal.step = "over"
      BY <1>1, <2>2, <2>3 DEF FreshTask, NoTask
  <2>6. CheckModifiers(keys) => \A i \in 1..Len(keys) : CheckKey(keys[i])
      BY <1>1, <1>2 DEF CheckModifiers
  <2> QED
      BY <1>0, <2>1, <2>2, <2>3, <2>4, <2>5, <2>6
<1>5. CASE StartScroll
  <2>1. PICK keys \in KeyLists :
          \/ CheckModifiers(keys) /\ Begin([NoTask EXCEPT !.tool = "Scroll", !.step = "press", !.keys = keys])
          \/ Begin([NoTask EXCEPT !.tool = "Scroll", !.reply = "refused"])
      BY <1>5 DEF StartScroll
  <2>2. PICK r : r = [NoTask EXCEPT !.tool = "Scroll", !.step = "press", !.keys = keys]
      OBVIOUS
  <2>3. PICK refusal : refusal = [NoTask EXCEPT !.tool = "Scroll", !.reply = "refused"]
      OBVIOUS
  <2>4. CheckModifiers(keys) => FreshTask(r)
      BY <1>1, <2>2 DEF FreshTask, NoTask, CheckModifiers
  <2>5. r.keys = keys /\ FreshTask(refusal) /\ refusal.step = "over"
      BY <1>1, <2>2, <2>3 DEF FreshTask, NoTask
  <2>6. CheckModifiers(keys) => \A i \in 1..Len(keys) : CheckKey(keys[i])
      BY <1>1, <1>2 DEF CheckModifiers
  <2> QED
      BY <1>0, <2>1, <2>2, <2>3, <2>4, <2>5, <2>6
<1>6. CASE StartMove
  <2>1. PICK drag \in BOOLEAN :
          Begin([NoTask EXCEPT !.tool = "Move", !.button = "left", !.action = IF drag THEN "drag" ELSE "move",
                               !.step = IF ~drag THEN "move" ELSE IF os = "x11" THEN "drag" ELSE "dragged"])
      BY <1>6 DEF StartMove
  <2>2. PICK r : r = [NoTask EXCEPT !.tool = "Move", !.button = "left", !.action = IF drag THEN "drag" ELSE "move",
                                    !.step = IF ~drag THEN "move" ELSE IF os = "x11" THEN "drag" ELSE "dragged"]
      OBVIOUS
  <2>3. FreshTask(r) /\ r.step # "press"
      BY <1>1, <2>2 DEF FreshTask, NoTask
  <2> QED
      BY <1>0, <2>1, <2>2, <2>3
<1>7. CASE StartShortcut
  <2>1. PICK repeat \in Repeats :
          \/ /\ repeat \in 1..MAX_REPEAT
             /\ Begin([NoTask EXCEPT !.tool = "Shortcut", !.step = "shortcut", !.keys = [i \in 1..repeat |-> "a"]])
          \/ Begin([NoTask EXCEPT !.tool = "Shortcut", !.reply = "refused"])
      BY <1>7 DEF StartShortcut
  <2>2. PICK keys : keys = [i \in 1..repeat |-> "a"]
      OBVIOUS
  <2>3. repeat \in 1..MAX_REPEAT => keys \in Seq(KeyNames)
      BY <2>2, InputAssumption DEF KeyNames
  <2>4. PICK r : r = [NoTask EXCEPT !.tool = "Shortcut", !.step = "shortcut", !.keys = keys]
      OBVIOUS
  <2>5. PICK refusal : refusal = [NoTask EXCEPT !.tool = "Shortcut", !.reply = "refused"]
      OBVIOUS
  <2>6. (repeat \in 1..MAX_REPEAT => FreshTask(r)) /\ r.step = "shortcut"
      BY <2>3, <2>4 DEF FreshTask, NoTask
  <2>7. FreshTask(refusal) /\ refusal.step = "over"
      BY <1>1, <2>5 DEF FreshTask, NoTask
  <2>8. (repeat \in 1..MAX_REPEAT /\ Begin(r)) \/ Begin(refusal)
      BY <2>1, <2>2, <2>4, <2>5
  <2> QED
      BY <1>0, <2>6, <2>7, <2>8
<1>8. CASE StartType
  <2>1. PICK text \in Texts, method \in {"keys", "paste"}, clear \in BOOLEAN :
          Begin([NoTask EXCEPT !.tool = "Type", !.step = "prepare", !.text = text, !.action = method,
                               !.clear = clear])
      BY <1>8 DEF StartType
  <2>2. PICK r : r = [NoTask EXCEPT !.tool = "Type", !.step = "prepare", !.text = text, !.action = method,
                                    !.clear = clear]
      OBVIOUS
  <2>3. FreshTask(r) /\ r.step = "prepare"
      BY <1>1, <2>2 DEF FreshTask, NoTask
  <2> QED
      BY <1>0, <2>1, <2>2, <2>3
<1> QED
    BY <1>3, <1>4, <1>5, <1>6, <1>7, <1>8

LEMMA TypedHolds ==
  ASSUME InputInv, TypedInv, KeyDown \/ HoldBody \/ ClickBody \/ ScrollBody \/ KeyUp \/ EndHeld
  PROVE  TypedInv'
<1>0. /\ DOMAIN task = DOMAIN NoTask /\ task.step \in HoldSteps /\ task.keys \in Seq(KeyNames) /\ os' = os
      /\ task.held \in Seq(KeyNames) /\ clip' = clip /\ lastDown' \in Buttons \cup {"none"}
      /\ \A i \in 1..Len(task.keys) : CheckKey(task.keys[i])
  <2>1. task.step \in HoldSteps
      BY DEF HoldSteps, AllHeld, KeyDown, HoldBody, ClickBody, ScrollBody, KeyUp, EndHeld
  <2>2. os' = os /\ clip' = clip
      BY DEF driverVars, KeyDown, HoldBody, ClickBody, ScrollBody, KeyUp, EndHeld
  <2>3. lastDown' \in {lastDown, task.button} /\ (lastDown' # lastDown => task.tool = "Click")
      BY DEF driverVars, AllHeld, KeyDown, HoldBody, ClickBody, ScrollBody, KeyUp, EndHeld
  <2> QED
      BY <2>1, <2>2, <2>3 DEF InputInv, TaskShape, TypedInv, InputTypeOK
<1>1. /\ task'.step \in HoldSteps \cup {"over"} /\ task'.keys = task.keys
  <2>1. CASE KeyDown
    <3>1. PICK key : task' = [task EXCEPT !.held = Append(task.held, key)] \/ FailTo("release")
        BY <2>1 DEF KeyDown
    <3> QED
        BY <1>0, <3>1, FailFields DEF SameCall, NoTask, HoldSteps
  <2>2. CASE HoldBody \/ ClickBody \/ ScrollBody
    <3>1. Step("release") \/ FailTo("release")
        BY <2>2 DEF HoldBody, ClickBody, ScrollBody
    <3> QED
        BY <1>0, <3>1, StepFields, FailFields DEF SameCall, HoldSteps
  <2>3. CASE KeyUp
    <3>1. \/ task' = [task EXCEPT !.held = Front(task.held)]
          \/ task' = [task EXCEPT !.held = Front(task.held), !.saved = "stuck"]
        BY <2>3 DEF KeyUp
    <3> QED
        BY <1>0, <3>1 DEF NoTask
  <2>4. CASE EndHeld
    <3>1. PICK saying : Answer(saying)
        BY <2>4 DEF EndHeld
    <3> QED
        BY <1>0, <3>1, AnswerFields DEF SameCall
  <2> QED
      BY <2>1, <2>2, <2>3, <2>4
<1>2. DriverTypeOK'
  <2>0. DriverTypeOK
      BY DEF TypedInv, InputTypeOK
  <2>1. CASE KeyDown
    <3>1. PICK n \in Nat, k \in Nat : Len(task.held) = n /\ Len(task.keys) = k
        BY <1>0, LenNat
    <3>2. n + 1 \in 1..k
        BY <2>1, <3>1 DEF KeyDown
    <3>3. task.keys[n + 1] \in KeyNames /\ CheckKey(task.keys[n + 1])
        BY <1>0, <3>1, <3>2
    <3>4. PICK works \in BOOLEAN : PressKey(task.keys[n + 1], works)
        BY <2>1, <3>1 DEF KeyDown
    <3> QED
        BY <1>0, <2>0, <3>3, <3>4, PressTyped
  <2>2. CASE HoldBody \/ EndHeld
      BY <2>0, <2>2 DEF HoldBody, EndHeld, driverVars, DriverTypeOK
  <2>3. CASE ClickBody
    <3>1. PICK works \in BOOLEAN : ClickAt(task.button, task.action, works)
        BY <2>3 DEF ClickBody
    <3>2. task.button \in Buttons /\ task.action \in ClickActions
        BY <1>0, <2>3 DEF ClickBody, AllHeld, InputInv, TaskShape
    <3> QED
        BY <1>0, <2>0, <3>1, <3>2, ClickTyped
  <2>4. CASE ScrollBody
    <3>1. UNCHANGED <<down, marked, grip>> /\ (NoFault \/ FaultNow)
        BY <2>4 DEF ScrollBody
    <3> QED
        BY <1>0, <2>0, <3>1, FaultTyped DEF DriverTypeOK
  <2>5. CASE KeyUp
    <3>1. PICK works \in BOOLEAN : ReleaseKey(Last(task.held), works)
        BY <2>5 DEF KeyUp
    <3> QED
        BY <1>0, <2>0, <3>1, ReleaseTyped
  <2> QED
      BY <2>1, <2>2, <2>3, <2>4, <2>5
<1> QED
    BY <1>0, <1>1, <1>2 DEF TypedInv, InputTypeOK, HoldSteps, CheckKey

\* What the other steps leave, whose types only matter where they write the clipboard.
LEMMA TypedMoves ==
  ASSUME InputInv, TypedInv,
         MovePointer \/ DragElsewhere \/ DragPress \/ DragWalk \/ DragDrop \/ ShortcutX11 \/ ShortcutElsewhere
  PROVE  TypedInv'
<1>0. /\ DOMAIN task = DOMAIN NoTask /\ UNCHANGED <<os, marked, grip, clip, lastDown>>
      /\ down' \subseteq down \cup {"left"} /\ (NoFault \/ FaultNow)
    BY DEF InputInv, TaskShape, MovePointer, DragElsewhere, DragPress, DragWalk, DragDrop, ShortcutX11, ShortcutElsewhere
<1>1. \/ UNCHANGED task \/ (\E saying : Answer(saying))
      \/ \E step \in {"walk", "drop"} : Step(step) \/ FailTo(step)
  <2>1. MovePointer \/ DragElsewhere \/ DragDrop => \E saying : Answer(saying)
      BY DEF MovePointer, DragElsewhere, DragDrop
  <2>2. DragPress => (\E saying : Answer(saying)) \/ Step("walk")
      BY DEF DragPress
  <2>3. DragWalk => \E step \in {"walk", "drop"} : Step(step) \/ FailTo(step)
      BY DEF DragWalk
  <2>4. ShortcutX11 \/ ShortcutElsewhere => UNCHANGED task \/ (\E saying : Answer(saying))
      BY DEF ShortcutX11, ShortcutElsewhere
  <2> QED
      BY <2>1, <2>2, <2>3, <2>4
<1>2. task'.step \in {"over", "walk", "drop"} \/ task' = task
    BY <1>0, <1>1, AnswerFields, StepFields, FailFields
<1>3. DriverTypeOK'
    BY <1>0, FaultTyped, QuietTyped DEF TypedInv, InputTypeOK, DriverTypeOK
<1> QED
    BY <1>0, <1>2, <1>3 DEF TypedInv, InputTypeOK, HoldSteps, CheckKey

LEMMA TypedTypes ==
  ASSUME InputInv, PlanInv, TypedInv,
         Prepare \/ TypeKeys \/ PressEnter \/ SaveClipboard \/ SetClipboard \/ Paste \/ Restore \/ NextTool
  PROVE  TypedInv'
<1>0. DOMAIN task = DOMAIN NoTask /\ os' = os /\ DriverTypeOK
    BY DEF InputInv, TaskShape, TypedInv, InputTypeOK, Prepare, TypeKeys, PressEnter, SaveClipboard, SetClipboard, Paste,
           Restore, NextTool
<1>1. CASE NextTool
  <2>1. task' = NoTask /\ down' \in {down, {}} /\ clip' \in {clip, "text", "image"}
        /\ UNCHANGED <<marked, grip, inputFaults>> /\ lastDown' \in {lastDown, "none"}
      BY <1>1 DEF NextTool, UserActs
  <2>2. task'.step = "over"
      BY <2>1 DEF NoTask
  <2> QED
      BY <1>0, <2>1, <2>2 DEF TypedInv, InputTypeOK, DriverTypeOK, HoldSteps
<1>2. CASE TypeKeys
  <2>1. PICK works \in BOOLEAN : TypeUnicode(task.text, works)
      BY <1>2 DEF TypeKeys
  <2>2. task.text \in Seq(Characters) /\ UNCHANGED <<marked, grip, clip, lastDown>>
      BY <1>2 DEF TypeKeys, PlanInv
  <2>3. DriverTypeOK'
      BY <1>0, <2>1, <2>2, TypingTyped
  <2>4. Step("enter") \/ Answer("failed")
      BY <1>2 DEF TypeKeys
  <2>5. task'.step \in {"enter", "over"}
      BY <1>0, <2>4, StepFields, AnswerFields
  <2> QED
      BY <2>2, <2>3, <2>5 DEF TypedInv, InputTypeOK, HoldSteps
<1>3. CASE Prepare \/ PressEnter
  <2>1. UNCHANGED <<marked, grip, clip, lastDown>> /\ down' \subseteq down \cup {"left"}
      BY <1>3 DEF Prepare, PressEnter, PrepareField, ClickedFirst, AfterClick
  <2>2. NoFault \/ FaultNow
      BY <1>3 DEF Prepare, PressEnter, PrepareField
  <2>3. (\E saying : Answer(saying)) \/ \E step \in {"type", "save"} : Step(step)
      BY <1>3 DEF Prepare, PressEnter
  <2>4. task'.step \in {"over", "type", "save"}
      BY <1>0, <2>3, StepFields, AnswerFields
  <2>5. DriverTypeOK'
      BY <1>0, <2>1, <2>2, FaultTyped DEF DriverTypeOK, Buttons
  <2> QED
      BY <2>1, <2>4, <2>5 DEF TypedInv, InputTypeOK, HoldSteps
<1>4. CASE SaveClipboard \/ SetClipboard \/ Paste \/ Restore
  <2>1. UNCHANGED <<down, marked, grip, lastDown>>
      BY <1>4 DEF SaveClipboard, SetClipboard, Paste, Restore
  <2>2. NoFault \/ FaultNow
      BY <1>4 DEF SaveClipboard, SetClipboard, Paste, Restore, SetText, SetX11, SetWindows, SetMac
  <2>3. /\ task'.step \in {"set", "paste", "restore", "over", "enter"}
        /\ task'.step \in {"set", "paste", "restore"} => task'.saved \in {"", "text", "typed"}
    <3>1. CASE SaveClipboard
        BY <1>0, <3>1 DEF SaveClipboard, NoTask, ClipText
    <3>2. CASE SetClipboard \/ Paste
      <4>1. PICK step \in {"paste", "restore"} : Step(step) \/ FailTo(step)
          BY <3>2 DEF SetClipboard, Paste
      <4>2. task.saved \in {"", "text", "typed"}
          BY <3>2 DEF SetClipboard, Paste, TypedInv
      <4> QED
          BY <1>0, <4>1, <4>2, StepFields, FailFields
    <3>3. CASE Restore
      <4>1. PICK saying : AfterRestore(saying)
          BY <3>3 DEF Restore
      <4> QED
          BY <1>0, <4>1 DEF AfterRestore, NoTask
    <3> QED
        BY <1>4, <3>1, <3>2, <3>3
  <2>4. clip' \in {"text", "image", "empty", "typed"}
    <3>1. ASSUME NEW to \in {"text", "typed"}, NEW works, SetText(to, works)
          PROVE  clip' \in {"text", "image", "empty", "typed"}
        BY <1>0, <3>1 DEF DriverTypeOK, SetText, SetX11, SetWindows, SetMac
    <3>2. CASE SaveClipboard \/ Paste
        BY <1>0, <3>2 DEF SaveClipboard, Paste, DriverTypeOK
    <3>3. CASE SetClipboard
      <4>1. SetText("typed", TRUE) \/ SetText("typed", FALSE)
          BY <3>3 DEF SetClipboard
      <4> QED
          BY <3>1, <4>1
    <3>4. CASE Restore
      <4>1. UNCHANGED clip \/ (task.saved # "" /\ (SetText(task.saved, TRUE) \/ SetText(task.saved, FALSE)))
          BY <3>4 DEF Restore
      <4>2. task.saved \in {"", "text", "typed"}
          BY <3>4 DEF Restore, TypedInv
      <4> QED
          BY <1>0, <3>1, <4>1, <4>2 DEF DriverTypeOK
    <3> QED
        BY <1>4, <3>2, <3>3, <3>4
  <2>5. DriverTypeOK'
      BY <1>0, <2>1, <2>2, <2>4, FaultTyped DEF DriverTypeOK
  <2> QED
      BY <2>1, <2>3, <2>5 DEF TypedInv, InputTypeOK, HoldSteps
<1> QED
    BY <1>1, <1>2, <1>3, <1>4

LEMMA TypedStep == ASSUME InputInv, PlanInv, TypedInv, [InputNext]_inputVars PROVE TypedInv'
<1>1. CASE UNCHANGED inputVars
    BY <1>1 DEF inputVars, driverVars, TypedInv, InputTypeOK, DriverTypeOK, CheckKey
<1> QED
    BY <1>1, TypedBegins, TypedHolds, TypedMoves, TypedTypes DEF InputNext

LEMMA TypedStart == InputInit => TypedInv
<1> SUFFICES ASSUME InputInit PROVE TypedInv
    OBVIOUS
<1>1. PICK name \in {"x11", "windows", "macos"} : InputIdle(name)
    BY DEF InputInit
<1>2. task = NoTask /\ lastDown = "none" /\ DriverTypeOK
    BY <1>1, DriverAssumption DEF InputIdle, DriverIdle, DriverTypeOK
<1>3. task.step = "over"
    BY <1>2 DEF NoTask
<1> QED
    BY <1>2, <1>3 DEF TypedInv, InputTypeOK, HoldSteps

-----------------------------------------------------------------------------
(* Sorting: keys of one length are ordered by their first difference. *)
KeysLong(k) == [1..k -> Int]

LEMMA LessAsym ==
  ASSUME NEW k \in Nat, NEW p \in KeysLong(k), NEW q \in KeysLong(k), Less(p, q) PROVE ~Less(q, p)
<1>1. PICK i \in 1..k : p[i] < q[i] /\ \A j \in 1..(i - 1) : p[j] = q[j]
    BY DEF Less, KeysLong
<1>2. ASSUME NEW h \in 1..k, q[h] < p[h], \A j \in 1..(h - 1) : q[j] = p[j] PROVE FALSE
  <2>1. p[i] \in Int /\ q[i] \in Int /\ p[h] \in Int /\ q[h] \in Int
      BY DEF KeysLong
  <2>2. ~(i \in 1..(h - 1)) /\ ~(h \in 1..(i - 1))
      BY <1>1, <1>2, <2>1
  <2>3. i = h
      BY <2>2
  <2> QED
      BY <1>1, <1>2, <2>1, <2>3
<1>3. DOMAIN q = 1..k
    BY DEF KeysLong
<1> QED
    BY <1>2, <1>3 DEF Less

LEMMA LessTrans ==
  ASSUME NEW k \in Nat, NEW p \in KeysLong(k), NEW q \in KeysLong(k), NEW r \in KeysLong(k), Less(p, q), Less(q, r)
  PROVE  Less(p, r)
<1>1. PICK i \in 1..k : p[i] < q[i] /\ \A j \in 1..(i - 1) : p[j] = q[j]
    BY DEF Less, KeysLong
<1>2. PICK h \in 1..k : q[h] < r[h] /\ \A j \in 1..(h - 1) : q[j] = r[j]
    BY DEF Less, KeysLong
<1>3. DOMAIN p = 1..k /\ \A j \in 1..k : p[j] \in Int /\ q[j] \in Int /\ r[j] \in Int
    BY DEF KeysLong
<1>4. CASE i <= h
  <2>1. p[i] < r[i]
    <3>1. i = h \/ i \in 1..(h - 1)
        BY <1>4
    <3> QED
        BY <1>1, <1>2, <1>3, <3>1
  <2>2. ASSUME NEW j \in 1..(i - 1) PROVE p[j] = r[j]
    <3>1. j \in 1..(h - 1)
        BY <1>4
    <3> QED
        BY <1>1, <1>2, <3>1
  <2> QED
      BY <1>3, <2>1, <2>2 DEF Less
<1>5. CASE h < i
  <2>1. p[h] < r[h]
    <3>1. h \in 1..(i - 1)
        BY <1>5
    <3> QED
        BY <1>1, <1>2, <1>3, <3>1
  <2>2. ASSUME NEW j \in 1..(h - 1) PROVE p[j] = r[j]
    <3>1. j \in 1..(i - 1)
        BY <1>5
    <3> QED
        BY <1>1, <1>2, <3>1
  <2> QED
      BY <1>3, <2>1, <2>2 DEF Less
<1> QED
    BY <1>4, <1>5

LEMMA LessTotal ==
  ASSUME NEW k \in Nat, NEW p \in KeysLong(k), NEW q \in KeysLong(k), p # q PROVE Less(p, q) \/ Less(q, p)
<1> DEFINE D == {i \in 1..k : p[i] # q[i]}
<1>1. D # {} /\ D \subseteq Nat
    BY DEF KeysLong
<1>2. PICK i \in D : \A j \in D : i <= j
  <2> HIDE DEF D
  <2> QED
      BY <1>1, LeastNat
<1>3. i \in 1..k /\ p[i] \in Int /\ q[i] \in Int /\ p[i] # q[i] /\ DOMAIN p = 1..k /\ DOMAIN q = 1..k
    BY DEF KeysLong
<1>4. ASSUME NEW j \in 1..(i - 1) PROVE p[j] = q[j]
  <2>1. j \in 1..k /\ ~(i <= j)
      BY <1>3
  <2>2. j \notin D
      BY <1>2, <2>1
  <2> QED
      BY <2>1, <2>2
<1>5. p[i] < q[i] \/ q[i] < p[i]
    BY <1>3
<1> QED
    BY <1>3, <1>4, <1>5 DEF Less

\* So "not after" is transitive, and a finite set has a least item.
LEMMA NotLessTrans ==
  ASSUME NEW k \in Nat, NEW p \in KeysLong(k), NEW q \in KeysLong(k), NEW r \in KeysLong(k), ~Less(q, p), ~Less(r, q)
  PROVE  ~Less(r, p)
BY LessAsym, LessTrans, LessTotal

LEMMA LeastItem ==
  ASSUME NEW S, IsFiniteSet(S), S # {}, NEW k \in Nat, NEW key \in [S -> KeysLong(k)]
  PROVE  \E x \in S : \A y \in S : ~Less(key[y], key[x])
<1> DEFINE N == Cardinality(S)
           Good(T) == \E x \in T : \A y \in T : ~Less(key[y], key[x])
           P == {n \in 0..N : \A T \in SUBSET S : Cardinality(T) = n /\ T # {} => Good(T)}
<1>0. N \in Nat
    BY FS_CardinalityType
<1>1. 0 \in P
  <2>1. ASSUME NEW T \in SUBSET S, Cardinality(T) = 0 PROVE T = {}
      BY <2>1, FS_Subset, FS_EmptySet
  <2> QED
      BY <1>0, <2>1
<1>2. ASSUME NEW n \in 1..N, n - 1 \in P PROVE n \in P
  <2>1. SUFFICES ASSUME NEW T \in SUBSET S, Cardinality(T) = n, T # {} PROVE Good(T)
      BY <1>0
  <2>2. PICK z \in T : TRUE
      BY <2>1
  <2>3. IsFiniteSet(T)
      BY FS_Subset
  <2>4. Cardinality(T \ {z}) = n - 1
      BY <2>1, <2>2, <2>3, FS_RemoveElement
  <2>5. ~Less(key[z], key[z])
    <3>1. key[z] \in KeysLong(k)
        OBVIOUS
    <3> QED
        BY <3>1, LessAsym
  <2>6. CASE T \ {z} = {}
      BY <2>2, <2>5, <2>6
  <2>7. CASE T \ {z} # {}
    <3>1. Good(T \ {z})
        BY <1>2, <2>4, <2>7
    <3>2. PICK x \in T \ {z} : \A y \in T \ {z} : ~Less(key[y], key[x])
        BY <3>1
    <3>3. CASE Less(key[z], key[x])
      <4>1. key[x] \in KeysLong(k) /\ key[z] \in KeysLong(k)
          OBVIOUS
      <4>2. ~Less(key[x], key[z])
          BY <3>3, <4>1, LessAsym
      <4>3. ASSUME NEW y \in T PROVE ~Less(key[y], key[z])
        <5>1. CASE y = z
            BY <2>5, <5>1
        <5>2. CASE y # z
          <6>1. key[y] \in KeysLong(k) /\ ~Less(key[y], key[x])
              BY <3>2, <5>2
          <6> QED
              BY <4>1, <4>2, <6>1, NotLessTrans
        <5> QED
            BY <5>1, <5>2
      <4> QED
          BY <4>3
    <3>4. CASE ~Less(key[z], key[x])
      <4>1. \A y \in T : ~Less(key[y], key[x])
          BY <3>2, <3>4
      <4> QED
          BY <4>1
    <3> QED
        BY <3>3, <3>4
  <2> QED
      BY <2>6, <2>7
<1> HIDE DEF P
<1>3. \A n \in 0..N : n \in P
    BY <1>0, <1>1, <1>2, UpTo
<1>4. N \in P
    BY <1>0, <1>3
<1> QED
    BY <1>4 DEF P

\* Every step of InOrder takes what is least of the rest.
Taken(s, rest, items, key, N) ==
  /\ rest \in [0..N -> SUBSET items] /\ rest[0] = items
  /\ \A i \in 1..N :
       /\ Cardinality(rest[i]) = N - i /\ s[i] \in rest[i - 1] /\ rest[i] = rest[i - 1] \ {s[i]}
       /\ \A y \in rest[i - 1] : ~Less(key[y], key[s[i]])
LEMMA InOrderSteps ==
  ASSUME NEW items, IsFiniteSet(items), NEW k \in Nat, NEW key \in [items -> KeysLong(k)],
         NEW N \in Nat, Cardinality(items) = N, NEW s, s = InOrder(items, key)
  PROVE  s = [i \in 1..N |-> s[i]] /\ \E rest : Taken(s, rest, items, key, N)
<1> DEFINE First(those) == CHOOSE x \in those : \A y \in those : ~Less(key[y], key[x])
           T == SUBSET items
           F == [p \in T \X (1..N) |-> p[1] \ {First(p[1])}]
           Val(g) == [i \in 0..N |-> IF i = 0 THEN items ELSE g[i - 1] \ {First(g[i - 1])}]
           f == CHOOSE g : g = Val(g)
<1>1. s = [i \in 1..N |-> First(f[i - 1])]
    BY DEF InOrder
<1> HIDE DEF f, Val
<1>2. \A those \in T : those # {} => First(those) \in those /\ \A y \in those : ~Less(key[y], key[First(those)])
  <2> TAKE those \in T
  <2>1. SUFFICES ASSUME those # {}
                 PROVE  \E x \in those : \A y \in those : ~Less(key[y], key[x])
      OBVIOUS
  <2>2. IsFiniteSet(those)
      BY FS_Subset
  <2> DEFINE part == [x \in those |-> key[x]]
  <2>3. part \in [those -> KeysLong(k)]
      OBVIOUS
  <2>4. \E x \in those : \A y \in those : ~Less(part[y], part[x])
    <3> HIDE DEF part
    <3> QED
        BY <2>1, <2>2, <2>3, LeastItem
  <2> QED
      BY <2>4
<1> HIDE DEF First
<1>3. items \in T /\ \A x \in T, i \in 1..N : F[<<x, i>>] = x \ {First(x)} /\ F[<<x, i>>] \in T
    OBVIOUS
<1> HIDE DEF T
<1>4. Leads(N, T, F)
    BY <1>3 DEF Leads
<1> HIDE DEF F
<1>5. PICK g \in [0..N -> T] : g[0] = items /\ \A i \in 1..N : g[i] = F[<<g[i - 1], i>>]
  <2>1. PICK g : g \in [0..N -> T] /\ Follows(N, items, F, g)
      BY <1>3, <1>4, Recursion
  <2> QED
      BY <2>1 DEF Follows
<1>6. \A i \in 1..N : i # 0 /\ i \in 0..N /\ i - 1 \in 0..N
    OBVIOUS
<1>7. \A i \in 1..N : g[i] = g[i - 1] \ {First(g[i - 1])}
  <2> TAKE i \in 1..N
  <2>1. g[i - 1] \in T
      BY <1>5, <1>6
  <2> QED
      BY <1>3, <1>5, <2>1
<1>8. g = Val(g)
  <2>1. \A i \in 0..N : g[i] = Val(g)[i]
    <3> TAKE i \in 0..N
    <3>1. i = 0 \/ i \in 1..N
        OBVIOUS
    <3> QED
        BY <1>5, <1>6, <1>7, <3>1 DEF Val
  <2>2. DOMAIN g = 0..N /\ DOMAIN Val(g) = 0..N /\ Val(g) = [i \in DOMAIN Val(g) |-> Val(g)[i]]
      BY <1>5 DEF Val
  <2> QED
      BY <1>5, <2>1, <2>2
<1>9. f = Val(f)
    BY <1>8 DEF f
<1>10. f[0] = items /\ DOMAIN f = 0..N /\ \A i \in 1..N : f[i] = f[i - 1] \ {First(f[i - 1])}
  <2>1. f = [i \in 0..N |-> IF i = 0 THEN items ELSE f[i - 1] \ {First(f[i - 1])}]
      BY <1>9 DEF Val
  <2>2. 0 \in 0..N
      OBVIOUS
  <2> QED
      BY <1>6, <2>1, <2>2
<1>11. \A i \in 0..N : f[i] \in T /\ Cardinality(f[i]) = N - i
  <2> DEFINE P == {i \in 0..N : f[i] \in T /\ Cardinality(f[i]) = N - i}
  <2>1. 0 \in P
      BY <1>3, <1>10
  <2>2. ASSUME NEW i \in 1..N, i - 1 \in P PROVE i \in P
    <3>1. f[i - 1] \in T /\ Cardinality(f[i - 1]) = N - (i - 1)
        BY <2>2
    <3>2. IsFiniteSet(f[i - 1])
        BY <3>1, FS_Subset DEF T
    <3>3. f[i - 1] # {}
      <4>1. N - (i - 1) # 0
          OBVIOUS
      <4> QED
          BY <3>1, <4>1, FS_EmptySet
    <3>4. First(f[i - 1]) \in f[i - 1]
        BY <1>2, <3>1, <3>3
    <3>5. Cardinality(f[i]) = (N - (i - 1)) - 1
      <4>1. PICK those, x : those = f[i - 1] /\ x = First(f[i - 1])
          OBVIOUS
      <4>2. f[i] = those \ {x}
          BY <1>10, <4>1
      <4>3. IsFiniteSet(those) /\ x \in those
          BY <3>2, <3>4, <4>1
      <4>4. Cardinality(those \ {x}) = Cardinality(those) - 1
          BY <4>3, FS_RemoveElement
      <4> QED
          BY <3>1, <4>1, <4>2, <4>4
    <3>6. f[i] \in T
        BY <1>10, <3>1 DEF T
    <3> QED
        BY <1>6, <3>5, <3>6
  <2> HIDE DEF P
  <2>3. \A i \in 0..N : i \in P
      BY <2>1, <2>2, UpTo
  <2> QED
      BY <2>3 DEF P
<1>12. f \in [0..N -> T]
  <2>1. f = [i \in 0..N |-> f[i]]
      BY <1>9 DEF Val
  <2> QED
      BY <1>11, <2>1
<1>13. ASSUME NEW i \in 1..N
       PROVE  /\ Cardinality(f[i]) = N - i /\ s[i] \in f[i - 1] /\ f[i] = f[i - 1] \ {s[i]}
              /\ \A y \in f[i - 1] : ~Less(key[y], key[s[i]])
  <2>1. s[i] = First(f[i - 1])
      BY <1>1
  <2>2. f[i - 1] \in T /\ Cardinality(f[i - 1]) = N - (i - 1) /\ Cardinality(f[i]) = N - i
      BY <1>6, <1>11
  <2>3. f[i - 1] # {}
    <3>1. N - (i - 1) # 0
        OBVIOUS
    <3> QED
        BY <2>2, <3>1, FS_EmptySet
  <2> QED
      BY <1>2, <1>10, <2>1, <2>2, <2>3
<1>14. s = [i \in 1..N |-> s[i]]
    BY <1>1
<1>15. Taken(s, f, items, key, N)
    BY <1>10, <1>12, <1>13 DEF T, Taken
<1> QED
    BY <1>14, <1>15

\* So it gives every item once, none before one of a lesser key.
Sorted(s, items, key, N) ==
  /\ s \in Seq(items) /\ Len(s) = N /\ \A x \in items : \E i \in 1..N : s[i] = x
  /\ \A i, j \in 1..N : i < j => s[i] # s[j] /\ ~Less(key[s[j]], key[s[i]])
LEMMA InOrderSorts ==
  ASSUME NEW items, IsFiniteSet(items), NEW k \in Nat, NEW key \in [items -> KeysLong(k)],
         NEW N \in Nat, Cardinality(items) = N
  PROVE  Sorted(InOrder(items, key), items, key, N)
<1>1. PICK s : s = InOrder(items, key)
    OBVIOUS
<1>2. s = [i \in 1..N |-> s[i]] /\ \E rest : Taken(s, rest, items, key, N)
    BY <1>1, InOrderSteps
<1>3. PICK rest : Taken(s, rest, items, key, N)
    BY <1>2
<1> USE DEF Taken
<1>4. \A i \in 1..N : i \in 0..N /\ i - 1 \in 0..N
    OBVIOUS
<1>5. \A j \in 0..N : \A i \in 0..j : rest[j] \subseteq rest[i]
  <2> DEFINE P == {j \in 0..N : \A i \in 0..j : rest[j] \subseteq rest[i]}
  <2>1. 0 \in P
      OBVIOUS
  <2>2. ASSUME NEW j \in 1..N, j - 1 \in P PROVE j \in P
    <3>1. rest[j] \subseteq rest[j - 1]
        BY <1>3
    <3>2. ASSUME NEW i \in 0..j PROVE rest[j] \subseteq rest[i]
      <4>1. i = j \/ i \in 0..(j - 1)
          OBVIOUS
      <4> QED
          BY <2>2, <3>1, <4>1
    <3> QED
        BY <1>4, <3>2
  <2> HIDE DEF P
  <2>3. \A j \in 0..N : j \in P
      BY <2>1, <2>2, UpTo
  <2> QED
      BY <2>3 DEF P
<1>6. ASSUME NEW i \in 1..N, NEW j \in 1..N, i < j PROVE s[i] # s[j] /\ ~Less(key[s[j]], key[s[i]])
  <2>1. s[j] \in rest[j - 1]
      BY <1>3
  <2>2. j - 1 \in 0..N /\ i \in 0..(j - 1)
      BY <1>6
  <2>3. s[j] \in rest[i] /\ rest[i] = rest[i - 1] \ {s[i]}
      BY <1>3, <1>5, <2>1, <2>2
  <2> QED
      BY <1>3, <2>3
<1>7. \A i \in 0..N : items = rest[i] \cup {s[h] : h \in 1..i}
  <2> DEFINE P == {i \in 0..N : items = rest[i] \cup {s[h] : h \in 1..i}}
  <2>1. 0 \in P
      BY <1>3
  <2>2. ASSUME NEW i \in 1..N, i - 1 \in P PROVE i \in P
    <3>1. items = rest[i - 1] \cup {s[h] : h \in 1..(i - 1)}
        BY <2>2
    <3>2. s[i] \in rest[i - 1] /\ rest[i] = rest[i - 1] \ {s[i]}
        BY <1>3
    <3>3. \A h : h \in 1..i <=> h = i \/ h \in 1..(i - 1)
        OBVIOUS
    <3>4. {s[h] : h \in 1..i} = {s[i]} \cup {s[h] : h \in 1..(i - 1)}
        BY <3>3
    <3> QED
        BY <1>4, <3>1, <3>2, <3>4
  <2> HIDE DEF P
  <2>3. \A i \in 0..N : i \in P
      BY <2>1, <2>2, UpTo
  <2> QED
      BY <2>3 DEF P
<1>8. rest[N] = {}
  <2>1. rest[N] \in SUBSET items /\ IsFiniteSet(rest[N])
    <3>1. N \in 0..N
        OBVIOUS
    <3>2. rest[N] \in SUBSET items
        BY <1>3, <3>1
    <3> QED
        BY <3>2, FS_Subset
  <2>2. Cardinality(rest[N]) = 0
    <3>1. CASE N = 0
        BY <1>3, <3>1
    <3>2. CASE N # 0
        BY <1>3, <3>2
    <3> QED
        BY <3>1, <3>2
  <2> QED
      BY <2>1, <2>2, FS_EmptySet
<1>9. \A x \in items : \E i \in 1..N : s[i] = x
    BY <1>7, <1>8
<1>10. s \in Seq(items) /\ Len(s) = N
  <2>1. \A i \in 1..N : s[i] \in items
    <3> TAKE i \in 1..N
    <3>1. s[i] \in rest[i - 1] /\ rest[i - 1] \in SUBSET items
        BY <1>3, <1>4
    <3> QED
        BY <3>1
  <2> QED
      BY <1>2, <2>1
<1> QED
    BY <1>1, <1>6, <1>9, <1>10 DEF Sorted

-----------------------------------------------------------------------------
(* Rows. *)
Boxed(items) == \A m \in items : m.box \in Boxes
TopOf(m) == m.box[2]

LEMMA BoxSides == ASSUME NEW b \in Boxes PROVE b[1] \in Int /\ b[2] \in Int /\ b[3] \in Int /\ b[4] \in Int
BY DEF Boxes
LEMMA ExactKey ==
  ASSUME NEW m, m.box \in Boxes PROVE Exact(m) \in KeysLong(4) /\ Exact(m)[1] = TopOf(m) /\ Len(Exact(m)) = 4 /\ Exact(m) \in Seq(Int)
<1>1. m.box[1] \in Int /\ m.box[2] \in Int /\ m.box[3] \in Int /\ m.box[4] \in Int
    BY BoxSides
<1> QED
    BY <1>1 DEF Exact, KeysLong, TopOf
LEMMA ConcatParts ==
  ASSUME NEW T, NEW s \in Seq(T), NEW t \in Seq(T)
  PROVE  /\ s \o t \in Seq(T) /\ Len(s \o t) = Len(s) + Len(t)
         /\ \A i \in 1..Len(s) : (s \o t)[i] = s[i]
OBVIOUS
LEMMA ConcatFirst ==
  ASSUME NEW T, NEW s \in Seq(T), NEW t \in Seq(T), Len(s) = 2 PROVE (s \o t)[1] = s[1]
<1>1. 1 \in 1..Len(s)
    OBVIOUS
<1>2. \A i \in 1..Len(s) : (s \o t)[i] = s[i]
    BY ConcatParts
<1>3. PICK r : r = s \o t
    OBVIOUS
<1> QED
    BY <1>1, <1>2, <1>3
LEMMA SeqFunction == ASSUME NEW T, NEW s \in Seq(T), NEW n \in Nat, Len(s) = n PROVE s \in [1..n -> T]
OBVIOUS
LEMMA KeyLonger ==
  ASSUME NEW a \in Int, NEW b \in Int, NEW e \in Seq(Int), Len(e) = 4
  PROVE  <<a, b>> \o e \in KeysLong(6) /\ (<<a, b>> \o e)[1] = a
<1>1. <<a, b>> \in Seq(Int) /\ Len(<<a, b>>) = 2 /\ <<a, b>>[1] = a
    OBVIOUS
<1>2. PICK p : p = <<a, b>>
    OBVIOUS
<1> DEFINE T == Int
<1>3. p \in Seq(T) /\ Len(p) = 2 /\ 1 \in 1..Len(p) /\ p[1] = a /\ e \in Seq(T)
    BY <1>1, <1>2
<1> HIDE DEF T
<1>4. p \o e \in Seq(T) /\ Len(p \o e) = Len(p) + Len(e) /\ (p \o e)[1] = p[1]
  <2>1. p \o e \in Seq(T)
      BY <1>3
  <2>2. Len(p \o e) = Len(p) + Len(e)
      BY <1>3, ConcatParts
  <2>3. (p \o e)[1] = p[1]
      BY <1>3, ConcatFirst
  <2> QED
      BY <2>1, <2>2, <2>3
<1>5. Len(p \o e) = 6 /\ 6 \in Nat
    BY <1>3, <1>4
<1>6. p \o e \in [1..6 -> T]
    BY <1>4, <1>5, SeqFunction
<1> QED
    BY <1>2, <1>3, <1>4, <1>6 DEF KeysLong, T

\* A lesser first part makes a key less.
LEMMA FirstDecides ==
  ASSUME NEW k \in Nat, k > 0, NEW p \in KeysLong(k), NEW q \in KeysLong(k), ~Less(q, p) PROVE p[1] <= q[1]
<1>1. DOMAIN q = 1..k /\ p[1] \in Int /\ q[1] \in Int /\ 1 \in 1..k
    BY DEF KeysLong
<1>2. \A j \in 1..(1 - 1) : FALSE
    OBVIOUS
<1> QED
    BY <1>1, <1>2 DEF Less

\* The rows ReadingOrder finds in the items by their tops.
NextRow(r, i, s) ==
  IF i = 1 \/ TopOf(s[i]) - r.top > RowHeight THEN [row |-> r.row + 1, top |-> TopOf(s[i])] ELSE r
RowsOf(rows, s, N) ==
  /\ rows \in [0..N -> [row : Nat, top : Int]]
  /\ \A i \in 1..N : rows[i] = NextRow(rows[i - 1], i, s)
LEMMA RowsExist ==
  ASSUME NEW items, Boxed(items), NEW N \in Nat, NEW s \in Seq(items), Len(s) = N, NEW rows,
         rows = CHOOSE g : g = [i \in 0..N |->
                                  IF i = 0 THEN [row |-> 0, top |-> 0]
                                  ELSE IF i = 1 \/ s[i].box[2] - g[i - 1].top > RowHeight
                                       THEN [row |-> g[i - 1].row + 1, top |-> s[i].box[2]]
                                       ELSE g[i - 1]]
  PROVE  RowsOf(rows, s, N)
<1> DEFINE T == [row : Nat, top : Int]
           start == [row |-> 0, top |-> 0]
           F == [p \in T \X (1..N) |-> NextRow(p[1], p[2], s)]
           Val(g) == [i \in 0..N |->
                        IF i = 0 THEN start
                        ELSE IF i = 1 \/ s[i].box[2] - g[i - 1].top > RowHeight
                             THEN [row |-> g[i - 1].row + 1, top |-> s[i].box[2]]
                             ELSE g[i - 1]]
<1>1. rows = CHOOSE g : g = Val(g)
    OBVIOUS
<1> HIDE DEF Val
<1>2. \A i \in 1..N : TopOf(s[i]) \in Int
    BY BoxSides DEF Boxed, TopOf
<1>3. \A x \in T, i \in 1..N : NextRow(x, i, s) \in T
    BY <1>2 DEF NextRow
<1>4. start \in T
    OBVIOUS
<1> HIDE DEF T, start
<1>5. \A x \in T, i \in 1..N : F[<<x, i>>] = NextRow(x, i, s)
    OBVIOUS
<1>6. Leads(N, T, F)
    BY <1>3, <1>5 DEF Leads
<1> HIDE DEF F
<1>7. PICK g \in [0..N -> T] : g[0] = start /\ \A i \in 1..N : g[i] = F[<<g[i - 1], i>>]
  <2>1. PICK g : g \in [0..N -> T] /\ Follows(N, start, F, g)
      BY <1>4, <1>6, Recursion
  <2> QED
      BY <2>1 DEF Follows
<1>8. \A i \in 1..N : i # 0 /\ i \in 0..N /\ i - 1 \in 0..N
    OBVIOUS
<1>9. \A i \in 1..N : g[i] = NextRow(g[i - 1], i, s)
  <2> TAKE i \in 1..N
  <2>1. g[i - 1] \in T /\ g[i] = F[<<g[i - 1], i>>]
      BY <1>7, <1>8
  <2> QED
      BY <1>5, <2>1
<1>10. g = Val(g)
  <2>1. \A i \in 0..N : g[i] = Val(g)[i]
    <3> TAKE i \in 0..N
    <3>1. i = 0 \/ i \in 1..N
        OBVIOUS
    <3> QED
        BY <1>7, <1>8, <1>9, <3>1 DEF Val, NextRow, TopOf
  <2>2. DOMAIN g = 0..N /\ DOMAIN Val(g) = 0..N /\ Val(g) = [i \in DOMAIN Val(g) |-> Val(g)[i]]
      BY <1>7 DEF Val
  <2> QED
      BY <1>7, <2>1, <2>2
<1>11. rows = Val(rows)
    BY <1>1, <1>10
<1>12. rows[0] = start /\ \A i \in 1..N : rows[i] = NextRow(rows[i - 1], i, s)
  <2>1. 0 \in 0..N
      OBVIOUS
  <2> QED
      BY <1>8, <1>11, <2>1 DEF Val, NextRow, TopOf
<1>13. rows = [i \in 0..N |-> rows[i]]
    BY <1>11 DEF Val
<1>14. \A i \in 0..N : rows[i] \in T
  <2>1. \A i \in 1..N : rows[i - 1] \in T => rows[i] \in T
      BY <1>3, <1>12
  <2>2. rows[0] \in T
      BY <1>4, <1>12
  <2> QED
      BY <2>1, <2>2, Defined
<1>15. rows \in [0..N -> T]
    BY <1>13, <1>14
<1> QED
    BY <1>12, <1>15 DEF RowsOf, T

\* With the tops in order a row begins at its first top, and ends within RowHeight of it.
LEMMA RowsRun ==
  ASSUME NEW items, Boxed(items), NEW N \in Nat, NEW s \in Seq(items), Len(s) = N,
         \A i, j \in 1..N : i < j => TopOf(s[i]) <= TopOf(s[j]),
         NEW rows, RowsOf(rows, s, N)
  PROVE  /\ \A i \in 1..N : rows[i].top <= TopOf(s[i]) /\ TopOf(s[i]) <= rows[i].top + RowHeight
         /\ \A j \in 1..N : \A i \in 1..j :
              rows[i].row <= rows[j].row /\ (rows[i].row = rows[j].row => rows[i].top = rows[j].top)
<1>1. \A i \in 1..N : TopOf(s[i]) \in Int
    BY BoxSides DEF Boxed, TopOf
<1>2. \A i \in 0..N : rows[i].row \in Nat /\ rows[i].top \in Int
    BY DEF RowsOf
<1>3. \A i \in 1..N : /\ i - 1 \in 0..N /\ i \in 0..N /\ (i # 1 => i - 1 \in 1..N)
    OBVIOUS
<1>4. \A i \in 1..N : \/ rows[i].row = rows[i - 1].row + 1 /\ rows[i].top = TopOf(s[i])
                      \/ i # 1 /\ rows[i] = rows[i - 1] /\ ~(TopOf(s[i]) - rows[i - 1].top > RowHeight)
  <2> TAKE i \in 1..N
  <2>1. rows[i] = NextRow(rows[i - 1], i, s)
      BY DEF RowsOf
  <2>2. CASE i = 1 \/ TopOf(s[i]) - rows[i - 1].top > RowHeight
    <3>1. rows[i] = [row |-> rows[i - 1].row + 1, top |-> TopOf(s[i])]
        BY <2>1, <2>2 DEF NextRow
    <3> QED
        BY <3>1
  <2>3. CASE ~(i = 1 \/ TopOf(s[i]) - rows[i - 1].top > RowHeight)
      BY <2>1, <2>3 DEF NextRow
  <2> QED
      BY <2>2, <2>3
<1> DEFINE P == {i \in 0..N : i = 0 \/ (rows[i].top <= TopOf(s[i]) /\ TopOf(s[i]) <= rows[i].top + RowHeight)}
<1>5. \A i \in 0..N : i \in P
  <2>1. 0 \in P
      OBVIOUS
  <2>2. ASSUME NEW i \in 1..N, i - 1 \in P PROVE i \in P
    <3>1. CASE rows[i].row = rows[i - 1].row + 1 /\ rows[i].top = TopOf(s[i])
        BY <1>1, <1>3, <3>1 DEF RowHeight
    <3>2. CASE i # 1 /\ rows[i] = rows[i - 1] /\ ~(TopOf(s[i]) - rows[i - 1].top > RowHeight)
      <4>1. i - 1 \in 1..N /\ i - 1 < i /\ i \in 0..N
          BY <1>3, <3>2
      <4>2. rows[i - 1].top <= TopOf(s[i - 1])
          BY <2>2, <4>1
      <4>3. TopOf(s[i - 1]) <= TopOf(s[i])
          BY <4>1
      <4>4. rows[i].top \in Int /\ rows[i].top = rows[i - 1].top /\ TopOf(s[i - 1]) \in Int /\ TopOf(s[i]) \in Int
          BY <1>1, <1>2, <3>2, <4>1
      <4>5. rows[i].top <= TopOf(s[i]) /\ TopOf(s[i]) <= rows[i].top + RowHeight
          BY <3>2, <4>2, <4>3, <4>4 DEF RowHeight
      <4> QED
          BY <4>1, <4>5
    <3> QED
        BY <1>4, <3>1, <3>2
  <2> HIDE DEF P
  <2> QED
      BY <2>1, <2>2, UpTo
<1> DEFINE Runs2(i, j) == rows[i].row <= rows[j].row /\ (rows[i].row = rows[j].row => rows[i].top = rows[j].top)
           Q == {j \in 0..N : \A i \in 1..j : Runs2(i, j)}
<1>6. \A j \in 0..N : j \in Q
  <2>1. 0 \in Q
      OBVIOUS
  <2>2. ASSUME NEW j \in 1..N, j - 1 \in Q PROVE j \in Q
    <3>1. ASSUME NEW i \in 1..j PROVE Runs2(i, j)
      <4>1. CASE i = j
          BY <1>2, <1>3, <4>1
      <4>2. CASE i # j
        <5>1. i \in 1..(j - 1) /\ i \in 0..N /\ j - 1 \in 0..N
            BY <4>2
        <5>2. Runs2(i, j - 1)
            BY <2>2, <5>1
        <5>3. rows[i].row \in Nat /\ rows[j - 1].row \in Nat
            BY <1>2, <5>1
        <5>4. rows[j].row = rows[j - 1].row + 1 \/ rows[j] = rows[j - 1]
            BY <1>4
        <5> QED
            BY <5>2, <5>3, <5>4
      <4> QED
          BY <4>1, <4>2
    <3> QED
        BY <3>1
  <2> HIDE DEF Q
  <2> QED
      BY <2>1, <2>2, UpTo
<1>7. \A i \in 1..N : rows[i].top <= TopOf(s[i]) /\ TopOf(s[i]) <= rows[i].top + RowHeight
    BY <1>5
<1>8. \A j \in 1..N : \A i \in 1..j : Runs2(i, j)
    BY <1>6
<1> QED
    BY <1>7, <1>8

\* The items, each once, and no row of them before one above it.
ByRows(s, items, N) ==
  /\ s \in Seq(items) /\ Len(s) = N /\ \A x \in items : \E i \in 1..N : s[i] = x
  /\ \A i, j \in 1..N : i < j => s[i] # s[j] /\ TopOf(s[i]) <= TopOf(s[j]) + RowHeight
LEMMA TopsDown ==
  ASSUME NEW items, Boxed(items), NEW N \in Nat, NEW column, NEW key, key = [m \in items |-> Exact(m)],
         Sorted(column, items, key, N)
  PROVE  /\ column \in Seq(items) /\ Len(column) = N /\ \A i \in 1..N : column[i] \in items
         /\ \A i, j \in 1..N : i < j => TopOf(column[i]) <= TopOf(column[j])
<1>1. column \in Seq(items) /\ Len(column) = N
    BY DEF Sorted
<1>2. \A i \in 1..N : column[i] \in items
    BY <1>1
<1>3. ASSUME NEW i \in 1..N, NEW j \in 1..N, i < j PROVE TopOf(column[i]) <= TopOf(column[j])
  <2>1. column[i] \in items /\ column[j] \in items /\ column[i].box \in Boxes /\ column[j].box \in Boxes
      BY <1>2 DEF Boxed
  <2>2. ~Less(key[column[j]], key[column[i]])
      BY <1>3 DEF Sorted
  <2>3. key[column[i]] = Exact(column[i]) /\ key[column[j]] = Exact(column[j])
      BY <2>1
  <2>4. /\ Exact(column[i]) \in KeysLong(4) /\ Exact(column[i])[1] = TopOf(column[i])
        /\ Exact(column[j]) \in KeysLong(4) /\ Exact(column[j])[1] = TopOf(column[j])
      BY <2>1, ExactKey
  <2>5. PICK p, q : p = Exact(column[i]) /\ q = Exact(column[j])
      OBVIOUS
  <2>6. p[1] <= q[1]
      BY <2>2, <2>3, <2>4, <2>5, FirstDecides
  <2> QED
      BY <2>4, <2>5, <2>6
<1> QED
    BY <1>1, <1>2, <1>3

LEMMA RowsOrder ==
  ASSUME NEW items, Boxed(items), NEW N \in Nat,
         NEW d \in Seq(items), Len(d) = N, \A i \in 1..N : d[i] \in items,
         \A i, j \in 1..N : i < j => TopOf(d[i]) <= TopOf(d[j]),
         NEW rows, RowsOf(rows, d, N),
         NEW a \in 1..N, NEW b \in 1..N, rows[a].row <= rows[b].row
  PROVE  TopOf(d[a]) <= TopOf(d[b]) + RowHeight
<1>1. TopOf(d[a]) \in Int /\ TopOf(d[b]) \in Int
    BY BoxSides DEF Boxed, TopOf
<1>2. /\ \A i \in 1..N : rows[i].top <= TopOf(d[i]) /\ TopOf(d[i]) <= rows[i].top + RowHeight
      /\ \A j \in 1..N : \A i \in 1..j :
           rows[i].row <= rows[j].row /\ (rows[i].row = rows[j].row => rows[i].top = rows[j].top)
    BY RowsRun
<1>3. /\ rows[a].row \in Nat /\ rows[a].top \in Int /\ rows[b].row \in Nat /\ rows[b].top \in Int
  <2>1. \A i \in 0..N : rows[i].row \in Nat /\ rows[i].top \in Int
      BY DEF RowsOf
  <2>2. a \in 0..N /\ b \in 0..N
      OBVIOUS
  <2> QED
      BY <2>1, <2>2
<1>4. CASE a = b \/ a < b
  <2>1. TopOf(d[a]) <= TopOf(d[b])
      BY <1>1, <1>4
  <2> QED
      BY <1>1, <2>1 DEF RowHeight
<1>5. CASE b < a
  <2>1. b \in 1..a
      BY <1>5
  <2>2. rows[b].row <= rows[a].row /\ (rows[b].row = rows[a].row => rows[b].top = rows[a].top)
      BY <1>2, <2>1
  <2>3. rows[b].top = rows[a].top
      BY <1>3, <2>2
  <2>4. TopOf(d[a]) <= rows[a].top + RowHeight /\ rows[b].top <= TopOf(d[b])
      BY <1>2
  <2> QED
      BY <1>1, <1>3, <2>3, <2>4 DEF RowHeight
<1> QED
    BY <1>4, <1>5

LEMMA ReadingOrderRuns ==
  ASSUME NEW items, IsFiniteSet(items), Boxed(items), NEW N \in Nat, Cardinality(items) = N
  PROVE  ByRows(ReadingOrder(items), items, N)
<1>1. PICK key : key = [m \in items |-> Exact(m)]
    OBVIOUS
<1>2. PICK column : column = InOrder(items, key)
    OBVIOUS
<1> DEFINE Val(g) == [i \in 0..Len(column) |->
                        IF i = 0 THEN [row |-> 0, top |-> 0]
                        ELSE IF i = 1 \/ column[i].box[2] - g[i - 1].top > RowHeight
                             THEN [row |-> g[i - 1].row + 1, top |-> column[i].box[2]]
                             ELSE g[i - 1]]
<1>3. PICK rows : rows = CHOOSE g : g = Val(g)
    OBVIOUS
<1> DEFINE Index(m) == CHOOSE i \in DOMAIN column : column[i] = m
<1>4. PICK key2 : key2 = [m \in items |-> <<rows[Index(m)].row, m.box[1]>> \o Exact(m)]
    OBVIOUS
<1>5. ReadingOrder(items) = InOrder(items, key2)
    BY <1>1, <1>2, <1>3, <1>4 DEF ReadingOrder
<1>6. key \in [items -> KeysLong(4)]
    BY <1>1, ExactKey DEF Boxed
<1>7. Sorted(column, items, key, N)
    BY <1>2, <1>6, InOrderSorts
<1>8. /\ column \in Seq(items) /\ Len(column) = N /\ \A i \in 1..N : column[i] \in items
      /\ \A i, j \in 1..N : i < j => TopOf(column[i]) <= TopOf(column[j])
    BY <1>1, <1>7, TopsDown
<1>9. RowsOf(rows, column, N)
  <2>1. rows = CHOOSE g : g = [i \in 0..N |->
                                  IF i = 0 THEN [row |-> 0, top |-> 0]
                                  ELSE IF i = 1 \/ column[i].box[2] - g[i - 1].top > RowHeight
                                       THEN [row |-> g[i - 1].row + 1, top |-> column[i].box[2]]
                                       ELSE g[i - 1]]
      BY <1>3, <1>8
  <2> HIDE DEF Val
  <2> QED
      BY <1>8, <2>1, RowsExist
<1> HIDE DEF Val
<1>10. \A m \in items : Index(m) \in 1..N /\ column[Index(m)] = m
  <2>1. DOMAIN column = 1..N
      BY <1>8
  <2>2. \A m \in items : \E i \in DOMAIN column : column[i] = m
      BY <1>7, <2>1 DEF Sorted
  <2> QED
      BY <2>1, <2>2
<1> HIDE DEF Index
<1>11. \A m \in items : key2[m] \in KeysLong(6) /\ key2[m][1] = rows[Index(m)].row
  <2> TAKE m \in items
  <2>1. PICK a : a = rows[Index(m)].row
      OBVIOUS
  <2>2. PICK b : b = m.box[1]
      OBVIOUS
  <2>3. PICK e : e = Exact(m)
      OBVIOUS
  <2>4. a \in Int
    <3>1. Index(m) \in 0..N
        BY <1>10
    <3> QED
        BY <1>9, <2>1, <3>1 DEF RowsOf
  <2>5. b \in Int
      BY <2>2, BoxSides DEF Boxed
  <2>6. e \in Seq(Int) /\ Len(e) = 4
      BY <2>3, ExactKey DEF Boxed
  <2>7. <<a, b>> \o e \in KeysLong(6) /\ (<<a, b>> \o e)[1] = a
      BY <2>4, <2>5, <2>6, KeyLonger
  <2>8. key2[m] = <<a, b>> \o e
      BY <1>4, <2>1, <2>2, <2>3
  <2> QED
      BY <2>1, <2>7, <2>8
<1>12. key2 \in [items -> KeysLong(6)]
  <2>1. key2 = [m \in items |-> key2[m]]
      BY <1>4
  <2> QED
      BY <1>11, <2>1
<1>13. PICK s : s = InOrder(items, key2)
    OBVIOUS
<1>14. Sorted(s, items, key2, N)
    BY <1>12, <1>13, InOrderSorts
<1>15. s \in Seq(items) /\ Len(s) = N
    BY <1>14 DEF Sorted
<1>16. ASSUME NEW i \in 1..N, NEW j \in 1..N, i < j
       PROVE  s[i] # s[j] /\ TopOf(s[i]) <= TopOf(s[j]) + RowHeight
  <2>1. s[i] \in items /\ s[j] \in items
      BY <1>15
  <2>2. s[i] # s[j] /\ ~Less(key2[s[j]], key2[s[i]])
      BY <1>14, <1>16 DEF Sorted
  <2>3. PICK p, q : p = key2[s[i]] /\ q = key2[s[j]]
      OBVIOUS
  <2>4. p \in KeysLong(6) /\ q \in KeysLong(6)
      BY <1>11, <2>1, <2>3
  <2>5. p[1] <= q[1]
      BY <2>2, <2>3, <2>4, FirstDecides
  <2>6. PICK a, b : a = Index(s[i]) /\ b = Index(s[j])
      OBVIOUS
  <2>7. a \in 1..N /\ b \in 1..N /\ column[a] = s[i] /\ column[b] = s[j]
      BY <1>10, <2>1, <2>6
  <2>8. rows[a].row <= rows[b].row
      BY <1>11, <2>1, <2>3, <2>5, <2>6
  <2>9. TopOf(column[a]) <= TopOf(column[b]) + RowHeight
      BY <1>8, <1>9, <2>7, <2>8, RowsOrder
  <2> QED
      BY <2>2, <2>7, <2>9
<1>17. \A x \in items : \E i \in 1..N : s[i] = x
    BY <1>14 DEF Sorted
<1> QED
    BY <1>5, <1>13, <1>15, <1>16, <1>17 DEF ByRows

LEMMA AppendIs ==
  ASSUME NEW S, NEW s \in Seq(S), NEW e \in S, NEW n \in Nat, n = Len(s)
  PROVE  /\ Append(s, e) \in Seq(S) /\ Len(Append(s, e)) = n + 1 /\ Append(s, e)[n + 1] = e
         /\ \A i \in 1..n : Append(s, e)[i] = s[i]
OBVIOUS
LEMMA InToSet ==
  ASSUME NEW S, NEW s \in Seq(S), NEW n \in Nat, n = Len(s)
  PROVE  \A x : x \in ToSet(s) <=> \E i \in 1..n : s[i] = x
BY DEF ToSet

-----------------------------------------------------------------------------
(* The elements' marks. *)
Looks(listed, n) == {ElementMark(listed[i]) : i \in 1..n}
Kept(u, listed, n) ==
  /\ u \in Seq(Looks(listed, n)) /\ \A i \in 1..n : \E j \in 1..Len(u) : u[j] = ElementMark(listed[i])
  /\ \A i, j \in 1..Len(u) : i # j => u[i] # u[j]
NextKept(k, m) == IF m \in ToSet(k) THEN k ELSE Append(k, m)
LEMMA KeptAll ==
  ASSUME NEW listed, NEW n \in Nat, NEW u, Kept(u, listed, n),
         NEW m, m = ElementMark(listed[n + 1])
  PROVE  Kept(NextKept(u, m), listed, n + 1)
<1> DEFINE S == Looks(listed, n)
           T == Looks(listed, n + 1)
<1>1. S \subseteq T /\ m \in T
  <2>1. 1..n \subseteq 1..(n + 1) /\ n + 1 \in 1..(n + 1)
      OBVIOUS
  <2> QED
      BY <2>1 DEF Looks
<1>2. u \in Seq(S)
    BY DEF Kept
<1>3. Seq(S) \subseteq Seq(T)
  <2> HIDE DEF S, T
  <2> QED
      BY <1>1
<1> HIDE DEF S, T
<1>4. PICK k \in Nat : k = Len(u)
    BY <1>2
<1>5. u \in Seq(T)
    BY <1>2, <1>3
<1>6. \A x : x \in ToSet(u) <=> \E i \in 1..k : u[i] = x
    BY <1>4, <1>5, InToSet
<1>7. /\ \A i \in 1..n : \E j \in 1..k : u[j] = ElementMark(listed[i])
      /\ \A i, j \in 1..k : i # j => u[i] # u[j]
    BY <1>4 DEF Kept
<1>8. \A i \in 1..(n + 1) : i \in 1..n \/ i = n + 1
    OBVIOUS
<1>9. CASE m \in ToSet(u)
  <2>1. \E j \in 1..k : u[j] = m
      BY <1>6, <1>9
  <2>2. \A i \in 1..(n + 1) : \E j \in 1..k : u[j] = ElementMark(listed[i])
      BY <1>7, <1>8, <2>1
  <2>3. NextKept(u, m) = u
      BY <1>9 DEF NextKept
  <2> QED
      BY <1>4, <1>5, <1>7, <2>2, <2>3 DEF Kept, T
<1>10. CASE m \notin ToSet(u)
  <2>1. PICK v : v = Append(u, m)
      OBVIOUS
  <2>2. v \in Seq(T) /\ Len(v) = k + 1 /\ v[k + 1] = m /\ \A i \in 1..k : v[i] = u[i]
      BY <1>1, <1>4, <1>5, <2>1, AppendIs
  <2>3. \A i \in 1..(k + 1) : i \in 1..k \/ i = k + 1
      OBVIOUS
  <2>4. \A i \in 1..k : u[i] # m
      BY <1>6, <1>10
  <2>5. \A i, j \in 1..(k + 1) : i # j => v[i] # v[j]
      BY <1>7, <2>2, <2>3, <2>4
  <2>6. k + 1 \in 1..(k + 1) /\ \A j \in 1..k : j \in 1..(k + 1)
      OBVIOUS
  <2>7. ASSUME NEW i \in 1..(n + 1) PROVE \E j \in 1..(k + 1) : v[j] = ElementMark(listed[i])
    <3>1. CASE i = n + 1
        BY <2>2, <2>6, <3>1
    <3>2. CASE i \in 1..n
      <4>1. PICK j \in 1..k : u[j] = ElementMark(listed[i])
          BY <1>7, <3>2
      <4> QED
          BY <2>2, <2>6, <4>1
    <3> QED
        BY <1>8, <3>1, <3>2
  <2>8. NextKept(u, m) = v
      BY <1>10, <2>1 DEF NextKept
  <2> QED
      BY <2>2, <2>5, <2>7, <2>8 DEF Kept, T
<1> QED
    BY <1>9, <1>10

LEMMA UniqueKeeps ==
  ASSUME NEW N \in Nat, NEW listed, Len(listed) = N
  PROVE  Kept(Unique(listed), listed, N)
<1> DEFINE S == Seq(Looks(listed, N))
           F == [p \in S \X (1..N) |-> NextKept(p[1], ElementMark(listed[p[2]]))]
           Val(g) == [i \in 0..N |->
                        IF i = 0 THEN <<>>
                        ELSE IF ElementMark(listed[i]) \in ToSet(g[i - 1]) THEN g[i - 1]
                        ELSE Append(g[i - 1], ElementMark(listed[i]))]
           f == CHOOSE g : g = Val(g)
<1>1. Unique(listed) = f[N]
    BY DEF Unique
<1> HIDE DEF f, Val
<1>2. \A x \in S, i \in 1..N : NextKept(x, ElementMark(listed[i])) \in S
  <2> TAKE x \in S, i \in 1..N
  <2> DEFINE T == Looks(listed, N)
  <2>1. ElementMark(listed[i]) \in T
      BY DEF Looks
  <2>2. x \in Seq(T)
      OBVIOUS
  <2>3. Append(x, ElementMark(listed[i])) \in Seq(T)
    <3> HIDE DEF T
    <3> QED
        BY <2>1, <2>2
  <2> QED
      BY <2>2, <2>3 DEF NextKept
<1>3. <<>> \in S
    OBVIOUS
<1>4. \A x \in S, i \in 1..N : F[<<x, i>>] = NextKept(x, ElementMark(listed[i]))
  <2> HIDE DEF S
  <2> QED
      OBVIOUS
<1>5. Leads(N, S, F)
  <2> HIDE DEF S, F
  <2> QED
      BY <1>2, <1>4 DEF Leads
<1> HIDE DEF S, F
<1>6. PICK g \in [0..N -> S] : g[0] = <<>> /\ \A i \in 1..N : g[i] = F[<<g[i - 1], i>>]
  <2>1. PICK g : g \in [0..N -> S] /\ Follows(N, <<>>, F, g)
      BY <1>3, <1>5, Recursion
  <2> QED
      BY <2>1 DEF Follows
<1>7. \A i \in 1..N : i # 0 /\ i \in 0..N /\ i - 1 \in 0..N
    OBVIOUS
<1>8. \A i \in 1..N : g[i] = NextKept(g[i - 1], ElementMark(listed[i]))
  <2> TAKE i \in 1..N
  <2>1. g[i - 1] \in S
      BY <1>6, <1>7
  <2> QED
      BY <1>4, <1>6, <2>1
<1>9. g = Val(g)
  <2>1. \A i \in 0..N : g[i] = Val(g)[i]
    <3> TAKE i \in 0..N
    <3>1. i = 0 \/ i \in 1..N
        OBVIOUS
    <3> QED
        BY <1>6, <1>7, <1>8, <3>1 DEF Val, NextKept
  <2>2. DOMAIN g = 0..N /\ DOMAIN Val(g) = 0..N /\ Val(g) = [i \in DOMAIN Val(g) |-> Val(g)[i]]
      BY <1>6 DEF Val
  <2> QED
      BY <1>6, <2>1, <2>2
<1>10. f = Val(f)
    BY <1>9 DEF f
<1>11. f[0] = <<>> /\ \A i \in 1..N : f[i] = NextKept(f[i - 1], ElementMark(listed[i]))
  <2>1. 0 \in 0..N
      OBVIOUS
  <2> QED
      BY <1>7, <1>10, <2>1 DEF Val, NextKept
<1> DEFINE P == {i \in 0..N : Kept(f[i], listed, i)}
<1>12. 0 \in P
  <2>1. <<>> \in Seq(Looks(listed, 0)) /\ Len(<<>>) = 0 /\ 0 \in 0..N
      OBVIOUS
  <2>2. \A i \in 1..0 : FALSE
      OBVIOUS
  <2>3. PICK u : u = <<>>
      OBVIOUS
  <2>4. Kept(u, listed, 0)
      BY <2>1, <2>2, <2>3 DEF Kept
  <2> QED
      BY <1>11, <2>1, <2>3, <2>4
<1>13. \A i \in 1..N : i - 1 \in P => i \in P
  <2> TAKE i \in 1..N
  <2> HAVE i - 1 \in P
  <2>1. PICK h \in Nat : h = i - 1 /\ h + 1 = i
      OBVIOUS
  <2>2. Kept(f[h], listed, h) /\ f[i] = NextKept(f[h], ElementMark(listed[h + 1]))
      BY <1>11, <2>1
  <2>3. Kept(f[i], listed, i)
      BY <2>1, <2>2, KeptAll
  <2> QED
      BY <1>7, <2>3
<1>14. \A i \in 0..N : i \in P
  <2> HIDE DEF P
  <2> QED
      BY <1>12, <1>13, UpTo
<1> QED
    BY <1>1, <1>14

-----------------------------------------------------------------------------
(* The lines of words. *)
Worded(free) ==
  /\ \A w \in free : w = [text |-> <<w.text[1]>>, box |-> w.box] /\ w.box \in Boxes
  /\ \A v, w \in free : v.text = w.text => v = w
Texts1(free) == {w.text[1] : w \in free}
Lines(free) == [text : Seq(Texts1(free)), box : Boxes]
Joined(L, taken, free) ==
  /\ L \in Seq(Lines(free))
  /\ \A i \in 1..Len(L) : ToSet(L[i].text) \subseteq Texts1(taken)
  /\ \A i, j \in 1..Len(L) : i # j => ToSet(L[i].text) \cap ToSet(L[j].text) = {}
  /\ \A w \in taken : \E i \in 1..Len(L) : w.text[1] \in ToSet(L[i].text)

LEMMA WordText ==
  ASSUME NEW free, Worded(free), NEW w \in free
  PROVE  /\ w.text = <<w.text[1]>> /\ ToSet(w.text) = {w.text[1]} /\ w.text \in Seq(Texts1(free))
         /\ w \in Lines(free) /\ w.box \in Boxes
<1>1. w = [text |-> <<w.text[1]>>, box |-> w.box] /\ w.box \in Boxes
    BY DEF Worded
<1>2. PICK t : t = w.text[1]
    OBVIOUS
<1>3. w.text = <<t>> /\ t \in Texts1(free)
    BY <1>1, <1>2 DEF Texts1
<1>4. ToSet(<<t>>) = {t}
    BY DEF ToSet
<1>5. <<t>> \in Seq(Texts1(free))
    BY <1>3
<1>6. w = [text |-> <<t>>, box |-> w.box]
    BY <1>1, <1>2
<1>7. w \in Lines(free)
  <2> DEFINE T == Seq(Texts1(free))
  <2>1. <<t>> \in T
      BY <1>5
  <2> HIDE DEF T
  <2>2. w \in [text : T, box : Boxes]
      BY <1>1, <1>6, <2>1
  <2> QED
      BY <2>2 DEF Lines, T
<1> QED
    BY <1>1, <1>2, <1>3, <1>4, <1>5, <1>7

LEMMA ConcatSet ==
  ASSUME NEW S, NEW s \in Seq(S), NEW e \in S
  PROVE  s \o <<e>> \in Seq(S) /\ ToSet(s \o <<e>>) = ToSet(s) \cup {e}
<1>1. PICK n \in Nat : n = Len(s)
    OBVIOUS
<1>2. PICK v : v = s \o <<e>>
    OBVIOUS
<1>3. v \in Seq(S) /\ Len(v) = n + 1 /\ v[n + 1] = e /\ \A i \in 1..n : v[i] = s[i]
    BY <1>1, <1>2
<1>4. \A x : x \in ToSet(v) <=> \E i \in 1..(n + 1) : v[i] = x
  <2>1. n + 1 \in Nat /\ n + 1 = Len(v)
      BY <1>3
  <2>2. PICK k \in Nat : k = n + 1
      OBVIOUS
  <2> QED
      BY <1>3, <2>1, <2>2, InToSet
<1>5. \A x : x \in ToSet(s) <=> \E i \in 1..n : s[i] = x
    BY <1>1, InToSet
<1>6. \A i \in 1..(n + 1) : i \in 1..n \/ i = n + 1
    OBVIOUS
<1>7. n + 1 \in 1..(n + 1) /\ \A i \in 1..n : i \in 1..(n + 1)
    OBVIOUS
<1>8. ToSet(v) = ToSet(s) \cup {e}
    BY <1>3, <1>4, <1>5, <1>6, <1>7
<1> QED
    BY <1>2, <1>3, <1>8

LEMMA Wider ==
  ASSUME NEW free, NEW line \in Lines(free), NEW w, NEW t \in Texts1(free), w.text = <<t>>, w.box \in Boxes
  PROVE  Extended(line, w) \in Lines(free) /\ ToSet(Extended(line, w).text) = ToSet(line.text) \cup {t}
<1> DEFINE T == Texts1(free)
<1>1. line.text \in Seq(T) /\ line.box \in Boxes
  <2> DEFINE S == Seq(T)
  <2>1. line \in [text : S, box : Boxes]
      BY DEF Lines
  <2> HIDE DEF S, T
  <2>2. line.text \in S /\ line.box \in Boxes
      BY <2>1
  <2> QED
      BY <2>2 DEF S
<1> HIDE DEF T
<1>2. PICK b : b = <<Lesser(line.box[1], w.box[1]), Lesser(line.box[2], w.box[2]),
                     Greater(line.box[3], w.box[3]), Greater(line.box[4], w.box[4])>>
    OBVIOUS
<1>3. b \in Boxes
  <2>1. /\ line.box[1] \in Int /\ line.box[2] \in Int /\ line.box[3] \in Int /\ line.box[4] \in Int
        /\ w.box[1] \in Int /\ w.box[2] \in Int /\ w.box[3] \in Int /\ w.box[4] \in Int
      BY <1>1, BoxSides
  <2>2. \A x, y \in Int : Lesser(x, y) \in Int /\ Greater(x, y) \in Int
      BY DEF Lesser, Greater
  <2> HIDE DEF Lesser, Greater
  <2> QED
      BY <1>2, <2>1, <2>2 DEF Boxes
<1>4. PICK s : s = line.text \o <<t>>
    OBVIOUS
<1>5. s \in Seq(T) /\ ToSet(s) = ToSet(line.text) \cup {t}
  <2>1. t \in T
      BY DEF T
  <2> QED
      BY <1>1, <1>4, <2>1, ConcatSet
<1>6. Extended(line, w) = [text |-> s, box |-> b]
    BY <1>2, <1>4 DEF Extended
<1>7. [text |-> s, box |-> b] \in [text : Seq(T), box : Boxes]
  <2> DEFINE S == Seq(T)
  <2>1. s \in S
      BY <1>5
  <2> HIDE DEF S
  <2>2. [text |-> s, box |-> b] \in [text : S, box : Boxes]
      BY <1>3, <2>1
  <2> QED
      BY <2>2 DEF S
<1> QED
    BY <1>5, <1>6, <1>7 DEF Lines, T

LEMMA LineOf ==
  ASSUME NEW free, NEW L \in Seq(Lines(free)), NEW n \in Nat, n = Len(L), NEW i \in 1..n
  PROVE  L[i] \in Lines(free)
<1> DEFINE S == Lines(free)
<1>1. L \in Seq(S)
    OBVIOUS
<1> HIDE DEF S
<1>2. L[i] \in S
    BY <1>1
<1> QED
    BY <1>2 DEF S

LEMMA JoinKeeps ==
  ASSUME NEW free, Worded(free), NEW taken, taken \subseteq free, NEW w \in free, w \notin taken,
         NEW L, Joined(L, taken, free)
  PROVE  Joined(JoinWord(L, w), taken \cup {w}, free)
<1> DEFINE S == Lines(free)
           more == taken \cup {w}
<1>1. L \in Seq(S)
    BY DEF Joined
<1>2. PICK n \in Nat : n = Len(L)
  <2> HIDE DEF S
  <2> QED
      BY <1>1
<1>3. /\ \A i \in 1..n : ToSet(L[i].text) \subseteq Texts1(taken)
      /\ \A i, j \in 1..n : i # j => ToSet(L[i].text) \cap ToSet(L[j].text) = {}
      /\ \A v \in taken : \E i \in 1..n : v.text[1] \in ToSet(L[i].text)
    BY <1>2 DEF Joined
<1>4. \A i \in 1..n : L[i] \in S
    BY <1>1, <1>2, LineOf
<1>5. PICK t : t = w.text[1]
    OBVIOUS
<1>6. /\ w.text = <<t>> /\ ToSet(w.text) = {t} /\ w \in S /\ w.box \in Boxes /\ t \in Texts1(free)
  <2>1. t \in Texts1(free)
      BY <1>5 DEF Texts1
  <2> QED
      BY <1>5, <2>1, WordText
\* No line has the word yet.
<1>7. t \notin Texts1(taken)
  <2>1. ASSUME NEW v \in taken, v.text[1] = t PROVE FALSE
    <3>1. v.text = <<v.text[1]>>
        BY WordText
    <3>2. v = w
        BY <1>6, <2>1, <3>1 DEF Worded
    <3> QED
        BY <3>2
  <2> QED
      BY <2>1 DEF Texts1
<1>8. Texts1(more) = Texts1(taken) \cup {t}
    BY <1>5 DEF Texts1
<1>9. \A i \in 1..n : t \notin ToSet(L[i].text)
    BY <1>3, <1>7
<1>10. DOMAIN L = 1..n
  <2> HIDE DEF S
  <2> QED
      BY <1>1, <1>2
<1> DEFINE before == {i \in DOMAIN L : Continues(L[i], w)}
<1>11. CASE before = {}
  <2>1. PICK M : M = Append(L, w)
      OBVIOUS
  <2>2. M \in Seq(S) /\ Len(M) = n + 1 /\ M[n + 1] = w /\ \A i \in 1..n : M[i] = L[i]
    <3> HIDE DEF S
    <3> QED
        BY <1>1, <1>2, <1>6, <2>1, AppendIs
  <2>3. \A i \in 1..(n + 1) : i \in 1..n \/ i = n + 1
      OBVIOUS
  <2>4. n + 1 \in 1..(n + 1) /\ \A i \in 1..n : i \in 1..(n + 1)
      OBVIOUS
  <2>5. \A i \in 1..(n + 1) : ToSet(M[i].text) \subseteq Texts1(more)
      BY <1>3, <1>6, <1>8, <2>2, <2>3
  <2>6. \A i, j \in 1..(n + 1) : i # j => ToSet(M[i].text) \cap ToSet(M[j].text) = {}
    <3> TAKE i, j \in 1..(n + 1)
    <3> HAVE i # j
    <3>1. CASE i \in 1..n /\ j \in 1..n
        BY <1>3, <2>2, <3>1
    <3>2. CASE i \in 1..n /\ j = n + 1
        BY <1>6, <1>9, <2>2, <3>2
    <3>3. CASE i = n + 1 /\ j \in 1..n
        BY <1>6, <1>9, <2>2, <3>3
    <3> QED
        BY <2>3, <3>1, <3>2, <3>3
  <2>7. ASSUME NEW v \in more PROVE \E i \in 1..(n + 1) : v.text[1] \in ToSet(M[i].text)
    <3>1. CASE v = w
        BY <1>5, <1>6, <2>2, <2>4, <3>1
    <3>2. CASE v \in taken
      <4>1. PICK i \in 1..n : v.text[1] \in ToSet(L[i].text)
          BY <1>3, <3>2
      <4> QED
          BY <2>2, <2>4, <4>1
    <3> QED
        BY <3>1, <3>2
  <2>8. JoinWord(L, w) = M
      BY <1>11, <2>1 DEF JoinWord
  <2>9. M \in Seq(Lines(free))
      BY <2>2
  <2>10. Joined(M, more, free)
    <3>1. PICK m : m = n + 1 /\ Len(M) = m
        BY <2>2
    <3>2. \A i \in 1..m : ToSet(M[i].text) \subseteq Texts1(more)
        BY <2>5, <3>1
    <3>3. \A i, j \in 1..m : i # j => ToSet(M[i].text) \cap ToSet(M[j].text) = {}
        BY <2>6, <3>1
    <3>4. \A v \in more : \E i \in 1..m : v.text[1] \in ToSet(M[i].text)
        BY <2>7, <3>1
    <3> HIDE DEF more
    <3> QED
        BY <2>9, <3>1, <3>2, <3>3, <3>4 DEF Joined
  <2> QED
      BY <2>8, <2>10
<1>12. CASE before # {}
  <2> DEFINE least == CHOOSE i \in before : \A j \in before : i <= j
  <2>1. before \subseteq Nat /\ before \subseteq 1..n
      BY <1>10
  <2>2. \E i \in before : \A j \in before : i <= j
    <3> HIDE DEF before
    <3> QED
        BY <1>12, <2>1, LeastNat
  <2>3. least \in 1..n
    <3> HIDE DEF before
    <3> QED
        BY <2>1, <2>2
  <2>4. PICK k \in 1..n : k = least
      BY <2>3
  <2>5. PICK e : e = Extended(L[k], w)
      OBVIOUS
  <2>6. e \in S /\ ToSet(e.text) = ToSet(L[k].text) \cup {t}
    <3>1. L[k] \in Lines(free) /\ t \in Texts1(free) /\ w.text = <<t>> /\ w.box \in Boxes
        BY <1>4, <1>6
    <3>2. PICK line : line = L[k]
        OBVIOUS
    <3> QED
        BY <2>5, <3>1, <3>2, Wider
  <2>7. JoinWord(L, w) = [L EXCEPT ![k] = Extended(@, w)]
      BY <1>12, <2>4 DEF JoinWord
  <2> HIDE DEF before, least
  <2>8. PICK M : M = [L EXCEPT ![k] = e]
      OBVIOUS
  <2>9. JoinWord(L, w) = M
      BY <2>5, <2>7, <2>8
  <2>10. M \in Seq(S) /\ Len(M) = n /\ M[k] = e /\ \A i \in 1..n : i # k => M[i] = L[i]
    <3> HIDE DEF S
    <3> QED
        BY <1>1, <1>2, <2>4, <2>6, <2>8
  <2>11. \A i \in 1..n : ToSet(M[i].text) \subseteq Texts1(more)
      BY <1>3, <1>8, <2>6, <2>10
  <2>12. \A i, j \in 1..n : i # j => ToSet(M[i].text) \cap ToSet(M[j].text) = {}
    <3> TAKE i, j \in 1..n
    <3> HAVE i # j
    <3>1. CASE i # k /\ j # k
        BY <1>3, <2>10, <3>1
    <3>2. CASE i = k
      <4>1. ToSet(L[k].text) \cap ToSet(L[j].text) = {} /\ t \notin ToSet(L[j].text)
          BY <1>3, <1>9, <3>2
      <4> QED
          BY <2>6, <2>10, <3>2, <4>1
    <3>3. CASE j = k
      <4>1. ToSet(L[k].text) \cap ToSet(L[i].text) = {} /\ t \notin ToSet(L[i].text)
          BY <1>3, <1>9, <3>3
      <4> QED
          BY <2>6, <2>10, <3>3, <4>1
    <3> QED
        BY <3>1, <3>2, <3>3
  <2>13. ASSUME NEW v \in more PROVE \E i \in 1..n : v.text[1] \in ToSet(M[i].text)
    <3>1. CASE v = w
        BY <1>5, <2>4, <2>6, <2>10, <3>1
    <3>2. CASE v \in taken
      <4>1. PICK i \in 1..n : v.text[1] \in ToSet(L[i].text)
          BY <1>3, <3>2
      <4>2. CASE i = k
          BY <2>6, <2>10, <4>1, <4>2
      <4>3. CASE i # k
          BY <2>10, <4>1, <4>3
      <4> QED
          BY <4>2, <4>3
    <3> QED
        BY <3>1, <3>2
  <2>14. M \in Seq(Lines(free))
      BY <2>10
  <2> QED
      BY <2>9, <2>10, <2>11, <2>12, <2>13, <2>14 DEF Joined
<1> QED
    BY <1>11, <1>12

LEMMA JoinTyped ==
  ASSUME NEW free, Worded(free), NEW w \in free, NEW L \in Seq(Lines(free))
  PROVE  JoinWord(L, w) \in Seq(Lines(free))
<1> DEFINE S == Lines(free)
           before == {i \in DOMAIN L : Continues(L[i], w)}
<1>1. w \in S /\ w.text = <<w.text[1]>> /\ w.box \in Boxes /\ w.text[1] \in Texts1(free)
    BY WordText DEF Texts1
<1>2. PICK n \in Nat : n = Len(L)
  <2>1. L \in Seq(S)
      OBVIOUS
  <2> HIDE DEF S
  <2> QED
      BY <2>1
<1>3. L \in Seq(S)
    OBVIOUS
<1>4. DOMAIN L = 1..n
  <2> HIDE DEF S
  <2> QED
      BY <1>2, <1>3
<1>5. CASE before = {}
  <2>1. Append(L, w) \in Seq(S)
    <3> HIDE DEF S
    <3> QED
        BY <1>1, <1>3
  <2> QED
      BY <1>5, <2>1 DEF JoinWord
<1>6. CASE before # {}
  <2> DEFINE least == CHOOSE i \in before : \A j \in before : i <= j
  <2>1. before \subseteq Nat /\ before \subseteq 1..n
      BY <1>4
  <2>2. \E i \in before : \A j \in before : i <= j
    <3> HIDE DEF before
    <3> QED
        BY <1>6, <2>1, LeastNat
  <2>3. PICK k \in 1..n : k = least
    <3> HIDE DEF before
    <3> QED
        BY <2>1, <2>2
  <2>4. PICK e : e = Extended(L[k], w)
      OBVIOUS
  <2>5. e \in S
    <3>1. L[k] \in S
        BY <1>2, LineOf
    <3>2. PICK t : t = w.text[1]
        OBVIOUS
    <3> QED
        BY <1>1, <2>4, <3>1, <3>2, Wider
  <2>6. JoinWord(L, w) = [L EXCEPT ![k] = Extended(@, w)]
      BY <1>6, <2>3 DEF JoinWord
  <2> HIDE DEF before, least
  <2>7. PICK M : M = [L EXCEPT ![k] = e]
      OBVIOUS
  <2>8. M \in Seq(S)
    <3> HIDE DEF S
    <3> QED
        BY <1>2, <1>3, <2>5, <2>7
  <2> QED
      BY <2>4, <2>6, <2>7, <2>8
<1> QED
    BY <1>5, <1>6

LEMMA JoinedAll ==
  ASSUME NEW free, IsFiniteSet(free), Worded(free)
  PROVE  Joined(JoinWords(free), free, free)
<1>1. PICK N \in Nat : N = Cardinality(free)
    BY FS_CardinalityType
<1>2. PICK key : key = [w \in free |-> <<w.box[1], w.box[2]>>]
    OBVIOUS
<1>3. key \in [free -> KeysLong(2)]
  <2>1. \A w \in free : <<w.box[1], w.box[2]>> \in KeysLong(2)
    <3> TAKE w \in free
    <3>1. PICK a, b : a = w.box[1] /\ b = w.box[2]
        OBVIOUS
    <3>2. a \in Int /\ b \in Int
        BY <3>1, WordText, BoxSides
    <3>3. <<a, b>> \in [1..2 -> Int]
        BY <3>2
    <3> QED
        BY <3>1, <3>3 DEF KeysLong
  <2> QED
      BY <1>2, <2>1
<1>4. PICK d : d = InOrder(free, key)
    OBVIOUS
<1>5. Sorted(d, free, key, N)
    BY <1>1, <1>3, <1>4, InOrderSorts
<1>6. d \in Seq(free) /\ Len(d) = N /\ \A i \in 1..N : d[i] \in free
  <2>1. d \in Seq(free) /\ Len(d) = N
      BY <1>5 DEF Sorted
  <2> QED
      BY <2>1
<1>7. /\ \A x \in free : \E i \in 1..N : d[i] = x
      /\ \A i, j \in 1..N : i < j => d[i] # d[j]
    BY <1>5 DEF Sorted
<1> DEFINE S == Seq(Lines(free))
           F == [p \in S \X (1..N) |-> JoinWord(p[1], d[p[2]])]
           Val(g) == [i \in 0..N |-> IF i = 0 THEN <<>> ELSE JoinWord(g[i - 1], d[i])]
           f == CHOOSE g : g = Val(g)
<1>8. JoinWords(free) = f[N]
  <2>1. JoinWords(free) = (CHOOSE g : g = [i \in 0..Len(d) |-> IF i = 0 THEN <<>> ELSE JoinWord(g[i - 1], d[i])])[Len(d)]
      BY <1>2, <1>4 DEF JoinWords
  <2> QED
      BY <1>6, <2>1
<1> HIDE DEF f, Val
<1>9. \A x \in S, i \in 1..N : JoinWord(x, d[i]) \in S
    BY <1>6, JoinTyped
<1>10. <<>> \in S
    OBVIOUS
<1> HIDE DEF S
<1>11. \A x \in S, i \in 1..N : F[<<x, i>>] = JoinWord(x, d[i])
    OBVIOUS
<1> HIDE DEF F
<1>12. Leads(N, S, F)
    BY <1>9, <1>11 DEF Leads
<1>13. PICK g \in [0..N -> S] : g[0] = <<>> /\ \A i \in 1..N : g[i] = F[<<g[i - 1], i>>]
  <2>1. PICK g : g \in [0..N -> S] /\ Follows(N, <<>>, F, g)
      BY <1>10, <1>12, Recursion
  <2> QED
      BY <2>1 DEF Follows
<1>14. \A i \in 1..N : i # 0 /\ i \in 0..N /\ i - 1 \in 0..N
    OBVIOUS
<1>15. \A i \in 1..N : g[i] = JoinWord(g[i - 1], d[i])
  <2> TAKE i \in 1..N
  <2>1. g[i - 1] \in S
      BY <1>13, <1>14
  <2> QED
      BY <1>11, <1>13, <2>1
<1>16. g = Val(g)
  <2>1. \A i \in 0..N : g[i] = Val(g)[i]
    <3> TAKE i \in 0..N
    <3>1. i = 0 \/ i \in 1..N
        OBVIOUS
    <3> QED
        BY <1>13, <1>14, <1>15, <3>1 DEF Val
  <2>2. DOMAIN g = 0..N /\ DOMAIN Val(g) = 0..N /\ Val(g) = [i \in DOMAIN Val(g) |-> Val(g)[i]]
      BY <1>13 DEF Val
  <2> QED
      BY <1>13, <2>1, <2>2
<1>17. f = Val(f)
    BY <1>16 DEF f
<1>18. f[0] = <<>> /\ \A i \in 1..N : f[i] = JoinWord(f[i - 1], d[i])
  <2>1. 0 \in 0..N
      OBVIOUS
  <2> QED
      BY <1>14, <1>17, <2>1 DEF Val
<1> DEFINE Those(i) == {d[h] : h \in 1..i}
           P == {i \in 0..N : Joined(f[i], Those(i), free)}
<1>19. 0 \in P
  <2>1. <<>> \in Seq(Lines(free)) /\ Len(<<>>) = 0 /\ 0 \in 0..N
      OBVIOUS
  <2>2. \A i \in 1..0 : FALSE
      OBVIOUS
  <2>3. PICK u : u = <<>>
      OBVIOUS
  <2>4. Those(0) = {}
      BY <2>2
  <2>5. Joined(u, {}, free)
      BY <2>1, <2>2, <2>3 DEF Joined
  <2> QED
      BY <1>18, <2>1, <2>3, <2>4, <2>5
<1>20. \A i \in 1..N : i - 1 \in P => i \in P
  <2> TAKE i \in 1..N
  <2> HAVE i - 1 \in P
  <2>1. PICK taken : taken = Those(i - 1)
      OBVIOUS
  <2>2. Joined(f[i - 1], taken, free)
      BY <2>1
  <2>3. \A h \in 1..(i - 1) : h \in 1..N /\ h < i
      OBVIOUS
  <2>4. taken \subseteq free /\ d[i] \notin taken
      BY <1>6, <1>7, <2>1, <2>3
  <2>5. d[i] \in free
      BY <1>6
  <2>6. Joined(JoinWord(f[i - 1], d[i]), taken \cup {d[i]}, free)
      BY <2>2, <2>4, <2>5, JoinKeeps
  <2>7. Those(i) = taken \cup {d[i]}
    <3>1. \A h \in 1..i : h \in 1..(i - 1) \/ h = i
        OBVIOUS
    <3>2. i \in 1..i /\ \A h \in 1..(i - 1) : h \in 1..i
        OBVIOUS
    <3> QED
        BY <2>1, <3>1, <3>2
  <2> QED
      BY <1>14, <1>18, <2>6, <2>7
<1>21. N \in P
  <2> HIDE DEF P
  <2> QED
      BY <1>19, <1>20, UpTo
<1>22. Those(N) = free
    BY <1>6, <1>7
<1> QED
    BY <1>8, <1>21, <1>22

LEMMA CountedOnce ==
  ASSUME NEW n \in Nat, NEW s, \A i, j \in 1..n : i # j => s[i] # s[j],
         NEW S, S = {s[i] : i \in 1..n}
  PROVE  IsFiniteSet(S) /\ Cardinality(S) = n
<1> DEFINE z == [i \in 1..n |-> s[i]]
           D == 1..n
<1>1. z \in [D -> S] /\ (\A i, j \in D : z[i] = z[j] => i = j) /\ \A x \in S : \E i \in D : z[i] = x
    OBVIOUS
<1>2. IsFiniteSet(D) /\ Cardinality(D) = n
  <2>1. 1 \in Int /\ n \in Int
      OBVIOUS
  <2>2. IsFiniteSet(1..n) /\ Cardinality(1..n) = IF 1 > n THEN 0 ELSE n - 1 + 1
      BY <2>1, FS_Interval
  <2> QED
      BY <2>2
<1> HIDE DEF z, D
<1>3. ExistsBijection(D, S)
  <2>1. z \in Bijection(D, S)
      BY <1>1 DEF Bijection, Injection, Surjection, IsInjective
  <2> QED
      BY <2>1 DEF ExistsBijection
<1> QED
    BY <1>2, <1>3, FS_Bijection

Leading(t, s, S, q, k, n) ==
  /\ n \in Nat /\ n <= k /\ n <= q /\ (n = k \/ n = q)
  /\ t \in Seq(S) /\ Len(t) = n /\ \A i \in 1..n : t[i] = s[i]
LEMMA FirstPart ==
  ASSUME NEW S, NEW s \in Seq(S), NEW k \in Nat, Len(s) = k, NEW q \in Nat
  PROVE  Leading(FirstOf(s, q), s, S, q, k, Lesser(q, k))
<1> DEFINE n == Lesser(q, k)
<1>1. n \in Nat /\ n <= k /\ n <= q /\ (n = k \/ n = q)
    BY DEF Lesser
<1>2. FirstOf(s, q) = SubSeq(s, 1, n)
    BY DEF FirstOf
<1> HIDE DEF n
<1>3. SubSeq(s, 1, n) \in Seq(S) /\ Len(SubSeq(s, 1, n)) = n /\ \A i \in 1..n : SubSeq(s, 1, n)[i] = s[i]
    BY <1>1
<1>4. Leading(FirstOf(s, q), s, S, q, k, n)
    BY <1>1, <1>2, <1>3 DEF Leading
<1> QED
    BY <1>4 DEF n

Apart(s, n) == \A i, j \in 1..n : i # j => s[i] # s[j]
OfElements(e, n) == \A i \in 1..n : e[i].source = "element"
OfWords(t, m) == \A i \in 1..m : t[i] = [text |-> t[i].text, box |-> t[i].box]
MarkSet(e, n, t, m) == {e[i] : i \in 1..n} \cup {WordMark(t[i]) : i \in 1..m}
\* The marks of both kinds, each one once.
LEMMA BothKinds ==
  ASSUME NEW n \in Nat, NEW e, Apart(e, n), OfElements(e, n),
         NEW m \in Nat, NEW t, Apart(t, m), OfWords(t, m),
         NEW items, items = MarkSet(e, n, t, m)
  PROVE  IsFiniteSet(items) /\ Cardinality(items) = n + m
<1> DEFINE z == [i \in 1..(n + m) |-> IF i <= n THEN e[i] ELSE WordMark(t[i - n])]
<1>1. PICK N \in Nat : N = n + m
    OBVIOUS
<1>2. \A i \in 1..m : WordMark(t[i]).source = "ocr" /\ WordMark(t[i]).text = t[i].text /\ WordMark(t[i]).box = t[i].box
    BY DEF WordMark
<1>3. \A i \in 1..N : \/ i \in 1..n /\ z[i] = e[i]
                      \/ i \notin 1..n /\ i - n \in 1..m /\ z[i] = WordMark(t[i - n])
    BY <1>1
<1>4. \A i \in 1..n : i \in 1..N
    BY <1>1
<1>5. \A i \in 1..m : i + n \in 1..N /\ i + n \notin 1..n /\ (i + n) - n = i
    BY <1>1
<1>6. z = [i \in 1..N |-> z[i]]
    BY <1>1
<1> HIDE DEF z
<1>7. \A i, j \in 1..N : i # j => z[i] # z[j]
  <2> TAKE i, j \in 1..N
  <2> HAVE i # j
  <2>1. CASE i \in 1..n /\ j \in 1..n
      BY <1>3, <2>1 DEF Apart
  <2>2. CASE i \in 1..n /\ j \notin 1..n
    <3>1. z[i].source = "element" /\ z[j].source = "ocr"
        BY <1>2, <1>3, <2>2 DEF OfElements
    <3> QED
        BY <3>1
  <2>3. CASE i \notin 1..n /\ j \in 1..n
    <3>1. z[j].source = "element" /\ z[i].source = "ocr"
        BY <1>2, <1>3, <2>3 DEF OfElements
    <3> QED
        BY <3>1
  <2>4. CASE i \notin 1..n /\ j \notin 1..n
    <3>1. i - n \in 1..m /\ j - n \in 1..m /\ i - n # j - n /\ z[i] = WordMark(t[i - n]) /\ z[j] = WordMark(t[j - n])
        BY <1>3, <2>4
    <3>2. PICK a \in 1..m, b \in 1..m : a = i - n /\ b = j - n
        BY <3>1
    <3>3. t[a] # t[b]
        BY <3>1, <3>2 DEF Apart
    <3>4. t[a].text # t[b].text \/ t[a].box # t[b].box
      <4>1. t[a] = [text |-> t[a].text, box |-> t[a].box] /\ t[b] = [text |-> t[b].text, box |-> t[b].box]
          BY DEF OfWords
      <4> QED
          BY <3>3, <4>1
    <3>5. WordMark(t[a]) # WordMark(t[b])
        BY <1>2, <3>4
    <3> QED
        BY <3>1, <3>2, <3>5
  <2> QED
      BY <2>1, <2>2, <2>3, <2>4
<1>8. items = {z[i] : i \in 1..N}
  <2>0. items = {e[i] : i \in 1..n} \cup {WordMark(t[i]) : i \in 1..m}
      BY DEF MarkSet
  <2>1. ASSUME NEW x \in items PROVE \E i \in 1..N : z[i] = x
    <3>1. CASE \E i \in 1..n : x = e[i]
        BY <1>3, <1>4, <3>1
    <3>2. CASE \E i \in 1..m : x = WordMark(t[i])
      <4>1. PICK i \in 1..m : x = WordMark(t[i])
          BY <3>2
      <4>2. PICK h \in 1..N : h = i + n /\ h \notin 1..n /\ h - n = i
          BY <1>5
      <4> QED
          BY <1>3, <4>1, <4>2
    <3> QED
        BY <2>0, <3>1, <3>2
  <2>2. \A i \in 1..N : z[i] \in items
      BY <1>3, <2>0
  <2> QED
      BY <2>1, <2>2
<1>9. IsFiniteSet(items) /\ Cardinality(items) = N
  <2>1. PICK s : s = z
      OBVIOUS
  <2>2. PICK S : S = {s[i] : i \in 1..N}
      OBVIOUS
  <2>3. \A i, j \in 1..N : i # j => s[i] # s[j]
      BY <1>7, <2>1
  <2>4. IsFiniteSet(S) /\ Cardinality(S) = N
      BY <2>2, <2>3, CountedOnce
  <2> QED
      BY <1>8, <2>1, <2>2, <2>4
<1> QED
    BY <1>1, <1>9

LEMMA FreeWorded ==
  ASSUME NEW listed, NEW read, IsReading(read)
  PROVE  Worded(FreeWords(listed, read)) /\ IsFiniteSet(FreeWords(listed, read))
<1> DEFINE all == ToSet(read)
<1>1. FreeWords(listed, read) \subseteq all
    BY DEF FreeWords
<1>2. IsFiniteSet(all)
  <2>1. read \in Seq(all)
      BY DEF IsReading
  <2>2. PICK n \in Nat : n = Len(read)
    <3> HIDE DEF all
    <3> QED
        BY <2>1
  <2>3. \A x \in all : \E i \in 1..n : read[i] = x
      BY <2>1, <2>2, InToSet
  <2>4. \A i \in 1..n : read[i] \in all
    <3> HIDE DEF all
    <3> QED
        BY <2>1, <2>2
  <2> HIDE DEF all
  <2> DEFINE D == 1..n
             z == [i \in D |-> read[i]]
  <2>5. z \in [D -> all] /\ \A x \in all : \E i \in D : z[i] = x
      BY <2>3, <2>4
  <2> HIDE DEF z
  <2>6. ExistsSurjection(D, all)
    <3> HIDE DEF D
    <3> QED
        BY <2>5 DEF ExistsSurjection, Surjection
  <2> QED
      BY <2>6, FS_NatSurjection
<1>3. IsFiniteSet(FreeWords(listed, read))
  <2> HIDE DEF all
  <2> QED
      BY <1>1, <1>2, FS_Subset
<1>4. Worded(all)
    BY DEF IsReading, Worded
<1>5. Worded(FreeWords(listed, read))
  <2> HIDE DEF all
  <2> QED
      BY <1>1, <1>4 DEF Worded
<1> QED
    BY <1>3, <1>5

Told(listed, read, saying) ==
    LET given == saying.marks
        seen == {i \in DOMAIN given : given[i].source = "ocr"}
        placed == {w \in FreeWords(listed, read) : \E i \in seen : ToSet(w.text) \subseteq WordsOf(given[i])}
    IN /\ Len(given) <= MAX_MARKS
       /\ \A i, j \in seen : i # j => WordsOf(given[i]) \cap WordsOf(given[j]) = {}
       /\ saying.dropped = 0 => placed = FreeWords(listed, read)
       /\ seen # {} => \A n \in ToSet(listed) : ElementMark(n) \in ToSet(given)
       /\ \A i, j \in DOMAIN given : i < j => given[i].box[2] <= given[j].box[2] + RowHeight
       /\ Len(given) = MAX_MARKS \/ saying.dropped = 0

\* The lines of words in reading order, each once.
RowsOfText(lines, K, free) ==
  /\ Len(lines) = K /\ Apart(lines, K) /\ lines \in Seq(Lines(free))
  /\ \A i, j \in 1..K : i # j => ToSet(lines[i].text) \cap ToSet(lines[j].text) = {}
  /\ \A w \in free : \E i \in 1..K : w.text[1] \in ToSet(lines[i].text)
LEMMA LinesInRows ==
  ASSUME NEW free, IsFiniteSet(free), Worded(free), NEW lines, lines = ReadingOrder(ToSet(JoinWords(free)))
  PROVE  \E K \in Nat : RowsOfText(lines, K, free)
<1>1. PICK L : L = JoinWords(free)
    OBVIOUS
<1>2. Joined(L, free, free)
    BY <1>1, JoinedAll
<1> DEFINE S == Lines(free)
           W == ToSet(L)
<1>3. L \in Seq(S)
    BY <1>2 DEF Joined
<1>4. PICK n \in Nat : n = Len(L)
  <2> HIDE DEF S
  <2> QED
      BY <1>3
<1>5. \A x : x \in W <=> \E i \in 1..n : L[i] = x
    BY <1>3, <1>4, InToSet
<1>6. \A i \in 1..n : L[i] \in S
    BY <1>3, <1>4, LineOf
<1>7. /\ \A i, j \in 1..n : i # j => ToSet(L[i].text) \cap ToSet(L[j].text) = {}
      /\ \A w \in free : \E i \in 1..n : w.text[1] \in ToSet(L[i].text)
    BY <1>2, <1>4 DEF Joined
<1> HIDE DEF S, W
<1>8. W \subseteq S
    BY <1>5, <1>6
<1>9. IsFiniteSet(W)
  <2> DEFINE D == 1..n
             z == [i \in D |-> L[i]]
  <2>1. z \in [D -> W] /\ \A x \in W : \E i \in D : z[i] = x
      BY <1>5
  <2> HIDE DEF z
  <2>2. ExistsSurjection(D, W)
    <3> HIDE DEF D
    <3> QED
        BY <2>1 DEF ExistsSurjection, Surjection
  <2> QED
      BY <2>2, FS_NatSurjection
<1>10. Boxed(W)
  <2>1. \A x \in S : x.box \in Boxes
    <3> DEFINE T == Seq(Texts1(free))
    <3>1. S = [text : T, box : Boxes]
        BY DEF S, Lines
    <3> HIDE DEF T
    <3> QED
        BY <3>1
  <2> QED
      BY <1>8, <2>1 DEF Boxed
<1>11. PICK K \in Nat : K = Cardinality(W)
    BY <1>9, FS_CardinalityType
<1>12. ByRows(lines, W, K)
  <2>1. lines = ReadingOrder(W)
      BY <1>1 DEF W
  <2> QED
      BY <1>9, <1>10, <1>11, <2>1, ReadingOrderRuns
<1>13. /\ lines \in Seq(W) /\ Len(lines) = K /\ \A x \in W : \E i \in 1..K : lines[i] = x
       /\ \A i, j \in 1..K : i < j => lines[i] # lines[j]
    BY <1>12 DEF ByRows
<1>14. \A i \in 1..K : lines[i] \in W
    BY <1>13
<1>15. Apart(lines, K)
  <2>1. \A i, j \in 1..K : i # j => i < j \/ j < i
      OBVIOUS
  <2> QED
      BY <1>13, <2>1 DEF Apart
<1>16. ASSUME NEW i \in 1..K, NEW j \in 1..K, i # j
       PROVE  ToSet(lines[i].text) \cap ToSet(lines[j].text) = {}
  <2>1. PICK a \in 1..n : L[a] = lines[i]
      BY <1>5, <1>14
  <2>2. PICK b \in 1..n : L[b] = lines[j]
      BY <1>5, <1>14
  <2>3. a # b
      BY <1>15, <1>16, <2>1, <2>2 DEF Apart
  <2> QED
      BY <1>7, <2>1, <2>2, <2>3
<1>17. ASSUME NEW w \in free PROVE \E i \in 1..K : w.text[1] \in ToSet(lines[i].text)
  <2>1. PICK a \in 1..n : w.text[1] \in ToSet(L[a].text)
      BY <1>7
  <2>2. L[a] \in W
      BY <1>5
  <2>3. PICK i \in 1..K : lines[i] = L[a]
      BY <1>13, <2>2
  <2> QED
      BY <2>1, <2>3
<1>18. lines \in Seq(S)
    BY <1>8, <1>13
<1> QED
    BY <1>13, <1>15, <1>16, <1>17, <1>18 DEF RowsOfText, S

LEMMA FromTheWords ==
  ASSUME NEW free, NEW lines, NEW K \in Nat, RowsOfText(lines, K, free), NEW i \in 1..K
  PROVE  lines[i] = [text |-> lines[i].text, box |-> lines[i].box] /\ lines[i].box \in Boxes
<1> DEFINE T == Seq(Texts1(free))
           S == [text : T, box : Boxes]
<1>1. lines \in Seq(S) /\ Len(lines) = K
    BY DEF RowsOfText, Lines
<1>2. lines[i] \in S
  <2> HIDE DEF S
  <2> QED
      BY <1>1
<1> HIDE DEF T
<1> QED
    BY <1>2

\* merge: what is given is the first of both kinds in reading order, and the rest is counted.
Merged(listed, read, saying, free, u, k, lines, K, n, m, items) ==
  /\ n \in Nat /\ m \in Nat /\ n <= k /\ m <= K /\ n <= MAX_MARKS /\ m <= MAX_MARKS - n
  /\ (n = k \/ n = MAX_MARKS) /\ (m = K \/ m = MAX_MARKS - n)
  /\ items = MarkSet(u, n, lines, m)
  /\ ByRows(saying.marks, items, n + m) /\ saying.dropped = k + K - n - m
LEMMA MergeTakes ==
  ASSUME NEW N \in Nat, NEW listed \in Seq(Elements), Len(listed) = N, NEW read, IsReading(read),
         NEW free, free = FreeWords(listed, read), NEW u, u = Unique(listed), NEW k \in Nat, Len(u) = k,
         Kept(u, listed, N), NEW lines, lines = ReadingOrder(ToSet(JoinWords(free))), NEW K \in Nat,
         RowsOfText(lines, K, free)
  PROVE  \E n, m, items : Merged(listed, read, Merge(listed, read), free, u, k, lines, K, n, m, items)
<1> DEFINE M == Looks(listed, N)
           S == Lines(free)
<1>1. u \in Seq(M) /\ Apart(u, k)
    BY DEF Kept, Apart
<1>2. \A x \in M : x.source = "element" /\ x.box \in Boxes
  <2>1. ASSUME NEW i \in 1..N PROVE ElementMark(listed[i]).source = "element" /\ ElementMark(listed[i]).box \in Boxes
    <3>1. listed[i] \in Elements
        OBVIOUS
    <3>2. BoxOf(listed[i]) \in Boxes
        BY <3>1, ListAssumption
    <3> QED
        BY <3>2 DEF ElementMark
  <2> QED
      BY <2>1 DEF Looks
<1> HIDE DEF M
<1>3. lines \in Seq(S) /\ Len(lines) = K /\ Apart(lines, K)
    BY DEF RowsOfText
<1> HIDE DEF S
<1>4. PICK e : e = FirstOf(u, MAX_MARKS)
    OBVIOUS
<1>5. PICK n : n = Lesser(MAX_MARKS, k)
    OBVIOUS
<1>6. MAX_MARKS \in Nat
    BY ListAssumption
<1>7. /\ n \in Nat /\ n <= k /\ n <= MAX_MARKS /\ (n = k \/ n = MAX_MARKS)
      /\ e \in Seq(M) /\ Len(e) = n /\ \A i \in 1..n : e[i] = u[i]
  <2>1. Leading(e, u, M, MAX_MARKS, k, n)
    <3> QED
        BY <1>1, <1>4, <1>5, <1>6, FirstPart
  <2> QED
      BY <2>1 DEF Leading
<1>8. PICK q \in Nat : q = MAX_MARKS - n
    BY <1>6, <1>7
<1>9. PICK t : t = FirstOf(lines, q)
    OBVIOUS
<1>10. PICK m : m = Lesser(q, K)
    OBVIOUS
<1>11. /\ m \in Nat /\ m <= K /\ m <= q /\ (m = K \/ m = q)
       /\ t \in Seq(S) /\ Len(t) = m /\ \A i \in 1..m : t[i] = lines[i]
  <2>1. Leading(t, lines, S, q, K, m)
      BY <1>3, <1>9, <1>10, FirstPart
  <2> QED
      BY <2>1 DEF Leading
<1>12. PICK items : items = ToSet(e) \cup {WordMark(line) : line \in ToSet(t)}
    OBVIOUS
<1>13. items = MarkSet(u, n, lines, m)
  <2>1. \A x : x \in ToSet(e) <=> \E i \in 1..n : e[i] = x
      BY <1>7, InToSet
  <2>2. \A x : x \in ToSet(t) <=> \E i \in 1..m : t[i] = x
      BY <1>11, InToSet
  <2>3. ToSet(e) = {u[i] : i \in 1..n}
      BY <1>7, <2>1
  <2>4. ToSet(t) = {lines[i] : i \in 1..m}
      BY <1>11, <2>2
  <2> QED
      BY <1>12, <2>3, <2>4 DEF MarkSet
<1>14. \A i \in 1..n : i \in 1..k /\ u[i] \in M
    BY <1>1, <1>7
<1>15. \A i \in 1..m : i \in 1..K
    BY <1>11
<1>16. IsFiniteSet(items) /\ Cardinality(items) = n + m
  <2>1. Apart(u, n)
      BY <1>1, <1>14 DEF Apart
  <2>2. Apart(lines, m)
      BY <1>3, <1>15 DEF Apart
  <2>3. OfElements(u, n)
      BY <1>2, <1>14 DEF OfElements
  <2>4. OfWords(lines, m)
    <3>1. \A i \in 1..K : lines[i] = [text |-> lines[i].text, box |-> lines[i].box]
        BY FromTheWords
    <3> QED
        BY <1>15, <3>1 DEF OfWords
  <2> QED
      BY <1>7, <1>11, <1>13, <2>1, <2>2, <2>3, <2>4, BothKinds
<1>17. Boxed(items)
  <2>1. \A i \in 1..n : u[i].box \in Boxes
      BY <1>2, <1>14
  <2>2. \A i \in 1..m : WordMark(lines[i]).box \in Boxes
    <3> TAKE i \in 1..m
    <3>1. lines[i].box \in Boxes
        BY <1>15, FromTheWords
    <3> QED
        BY <3>1 DEF WordMark
  <2> QED
      BY <1>13, <2>1, <2>2 DEF Boxed, MarkSet
<1>18. ByRows(ReadingOrder(items), items, n + m)
  <2>1. PICK c \in Nat : c = n + m
      BY <1>7, <1>11
  <2> QED
      BY <1>16, <1>17, <2>1, ReadingOrderRuns
<1>19. Merge(listed, read) = [marks |-> ReadingOrder(items), dropped |-> k + K - n - m]
  <2>1. FirstOf(lines, MAX_MARKS - Len(FirstOf(Unique(listed), MAX_MARKS))) = t
      BY <1>4, <1>7, <1>8, <1>9
  <2>2. Len(Unique(listed)) + Len(lines) - Len(e) - Len(t) = k + K - n - m
      BY <1>3, <1>7, <1>11
  <2> QED
      BY <1>4, <1>12, <2>1, <2>2 DEF Merge
<1>20. Merged(listed, read, Merge(listed, read), free, u, k, lines, K, n, m, items)
    BY <1>7, <1>8, <1>11, <1>13, <1>18, <1>19 DEF Merged
<1> QED
    BY <1>20

LEMMA MergedTells ==
  ASSUME NEW N \in Nat, NEW listed \in Seq(Elements), Len(listed) = N, NEW read, IsReading(read),
         NEW free, free = FreeWords(listed, read), NEW u, NEW k \in Nat, Len(u) = k,
         Kept(u, listed, N), NEW lines, NEW K \in Nat, RowsOfText(lines, K, free),
         NEW saying, NEW n, NEW m, NEW items, Merged(listed, read, saying, free, u, k, lines, K, n, m, items)
  PROVE  Told(listed, read, saying)
<1>1. PICK given : given = saying.marks
    OBVIOUS
<1>2. /\ n \in Nat /\ m \in Nat /\ n <= k /\ m <= K /\ n <= MAX_MARKS /\ m <= MAX_MARKS - n
      /\ (n = k \/ n = MAX_MARKS) /\ (m = K \/ m = MAX_MARKS - n)
      /\ items = MarkSet(u, n, lines, m)
      /\ ByRows(given, items, n + m) /\ saying.dropped = k + K - n - m
    BY <1>1 DEF Merged
<1>3. PICK c \in Nat : c = n + m
    BY <1>2
<1>4. /\ given \in Seq(items) /\ Len(given) = c /\ \A x \in items : \E i \in 1..c : given[i] = x
      /\ \A i, j \in 1..c : i < j => given[i] # given[j] /\ TopOf(given[i]) <= TopOf(given[j]) + RowHeight
    BY <1>2, <1>3 DEF ByRows
<1>5. DOMAIN given = 1..c /\ \A i \in 1..c : given[i] \in items
    BY <1>4
<1> DEFINE seen == {i \in DOMAIN given : given[i].source = "ocr"}
           placed == {w \in FreeWords(listed, read) : \E i \in seen : ToSet(w.text) \subseteq WordsOf(given[i])}
<1>6. \A i \in 1..k : u[i].source = "element"
  <2> DEFINE M == Looks(listed, N)
  <2>1. \A x \in M : x.source = "element"
      BY DEF Looks, ElementMark
  <2>2. u \in Seq(M)
      BY DEF Kept
  <2> HIDE DEF M
  <2> QED
      BY <2>1, <2>2
<1>7. \A i \in 1..m : i \in 1..K
    BY <1>2
<1>8. \A i \in 1..n : i \in 1..k
    BY <1>2
<1>9. \A i \in seen : \E j \in 1..m : given[i] = WordMark(lines[j]) /\ WordsOf(given[i]) = ToSet(lines[j].text)
  <2> TAKE i \in seen
  <2>1. given[i] \in items /\ given[i].source = "ocr"
      BY <1>5
  <2>2. ~\E j \in 1..n : given[i] = u[j]
      BY <1>6, <1>8, <2>1
  <2>3. PICK j \in 1..m : given[i] = WordMark(lines[j])
      BY <1>2, <2>1, <2>2 DEF MarkSet
  <2>4. given[i].text = lines[j].text
      BY <2>3 DEF WordMark
  <2> QED
      BY <2>3, <2>4 DEF WordsOf
<1>10. Len(given) <= MAX_MARKS
    BY <1>2, <1>3, <1>4, ListAssumption
<1>11. \A i, j \in seen : i # j => WordsOf(given[i]) \cap WordsOf(given[j]) = {}
  <2> TAKE i, j \in seen
  <2> HAVE i # j
  <2>1. PICK a \in 1..m : given[i] = WordMark(lines[a]) /\ WordsOf(given[i]) = ToSet(lines[a].text)
      BY <1>9
  <2>2. PICK b \in 1..m : given[j] = WordMark(lines[b]) /\ WordsOf(given[j]) = ToSet(lines[b].text)
      BY <1>9
  <2>3. i \in 1..c /\ j \in 1..c
      BY <1>5
  <2>4. i < j \/ j < i
      BY <2>3
  <2>5. given[i] # given[j]
      BY <1>4, <2>3, <2>4
  <2>6. a # b
      BY <2>1, <2>2, <2>5
  <2>7. ToSet(lines[a].text) \cap ToSet(lines[b].text) = {}
      BY <1>7, <2>6 DEF RowsOfText
  <2> QED
      BY <2>1, <2>2, <2>7
<1>12. ASSUME saying.dropped = 0 PROVE placed = FreeWords(listed, read)
  <2>1. n = k /\ m = K
      BY <1>2, <1>12
  <2>2. ASSUME NEW w \in free PROVE \E i \in seen : ToSet(w.text) \subseteq WordsOf(given[i])
    <3>1. PICK j \in 1..m : w.text[1] \in ToSet(lines[j].text)
        BY <2>1 DEF RowsOfText
    <3>2. WordMark(lines[j]) \in items
        BY <1>2 DEF MarkSet
    <3>3. PICK i \in 1..c : given[i] = WordMark(lines[j])
        BY <1>4, <3>2
    <3>4. WordMark(lines[j]).source = "ocr" /\ WordMark(lines[j]).text = lines[j].text
        BY DEF WordMark
    <3>5. i \in seen
        BY <1>5, <3>3, <3>4
    <3>6. WordsOf(given[i]) = ToSet(lines[j].text)
        BY <3>3, <3>4 DEF WordsOf
    <3>7. ToSet(w.text) = {w.text[1]}
        BY FreeWorded, WordText
    <3> HIDE DEF seen
    <3> QED
        BY <3>1, <3>5, <3>6, <3>7
  <2> HIDE DEF seen
  <2> QED
      BY <2>2
<1>13. ASSUME seen # {} PROVE \A x \in ToSet(listed) : ElementMark(x) \in ToSet(given)
  <2>1. PICK j \in 1..m : TRUE
      BY <1>9, <1>13
  <2>2. n = k
    <3>1. m > 0
        BY <1>2, <2>1
    <3> QED
        BY <1>2, <3>1, ListAssumption
  <2> TAKE x \in ToSet(listed)
  <2>3. PICK h \in 1..N : listed[h] = x
      BY InToSet
  <2>4. PICK i \in 1..k : u[i] = ElementMark(x)
      BY <2>3 DEF Kept
  <2>5. ElementMark(x) \in items
      BY <1>2, <2>2, <2>4 DEF MarkSet
  <2>6. PICK a \in 1..c : given[a] = ElementMark(x)
      BY <1>4, <2>5
  <2> QED
      BY <1>5, <2>6 DEF ToSet
<1>14. \A i, j \in DOMAIN given : i < j => given[i].box[2] <= given[j].box[2] + RowHeight
    BY <1>4, <1>5 DEF TopOf
<1>15. Len(given) = MAX_MARKS \/ saying.dropped = 0
  <2>1. MAX_MARKS \in Nat
      BY ListAssumption
  <2>2. CASE n = k /\ m = K
      BY <1>2, <2>2
  <2>3. CASE n = MAX_MARKS \/ m = MAX_MARKS - n
      BY <1>2, <1>3, <1>4, <2>1, <2>3
  <2> QED
      BY <1>2, <2>2, <2>3
<1>16. Told(listed, read, saying)
    BY <1>1, <1>10, <1>11, <1>12, <1>13, <1>14, <1>15 DEF Told
<1> QED
    BY <1>16

LEMMA MergeTells ==
  ASSUME NEW listed \in Seq(Elements), NEW read, IsReading(read)
  PROVE  Told(listed, read, Merge(listed, read))
<1>1. PICK N \in Nat : N = Len(listed)
    OBVIOUS
<1>2. PICK free : free = FreeWords(listed, read)
    OBVIOUS
<1>3. PICK u : u = Unique(listed)
    OBVIOUS
<1>4. Kept(u, listed, N)
    BY <1>1, <1>3, UniqueKeeps
<1>5. PICK k \in Nat : k = Len(u)
  <2> DEFINE M == Looks(listed, N)
  <2>1. u \in Seq(M)
      BY <1>4 DEF Kept
  <2> HIDE DEF M
  <2> QED
      BY <2>1
<1>6. PICK lines : lines = ReadingOrder(ToSet(JoinWords(free)))
    OBVIOUS
<1>7. Worded(free) /\ IsFiniteSet(free)
    BY <1>2, FreeWorded
<1>8. PICK K \in Nat : RowsOfText(lines, K, free)
    BY <1>6, <1>7, LinesInRows
<1>9. PICK n, m, items : Merged(listed, read, Merge(listed, read), free, u, k, lines, K, n, m, items)
    BY <1>1, <1>2, <1>3, <1>4, <1>5, <1>6, <1>8, MergeTakes
<1> QED
    BY <1>1, <1>2, <1>4, <1>5, <1>8, <1>9, MergedTells

-----------------------------------------------------------------------------
(* The types of the other parts. *)

LEMMA StartTypes == StartInv /\ StartInit => StartTypeOK
BY DEF StartInit, StartIdle, NoOptions, StartTypeOK

LEMMA StartTypesKeep == StartTypeOK /\ StartInv' /\ [StartNext]_startVars => StartTypeOK'
<1> SUFFICES ASSUME StartTypeOK, StartInv', [StartNext]_startVars PROVE StartTypeOK'
    OBVIOUS
<1>1. options' \in Options
    BY DEF StartInv
<1>2. options'.oauth \in {"none", "open", "secret"} /\ options'.named \subseteq AllTools
    BY <1>1 DEF Options
<1>3. ASSUME tools' \subseteq Registered,
             boot' \in {"down", "config", "tools", "gates", "serving", "refused", "parked"}
      PROVE  StartTypeOK'
    BY <1>2, <1>3 DEF StartTypeOK, Registered
<1>4. tools \subseteq Registered
    BY DEF StartTypeOK
<1>5. CASE Refuse
    BY <1>3, <1>5 DEF Refuse
<1>6. CASE Boot \/ StopServer
    BY <1>3, <1>4, <1>6 DEF Boot, StopServer
<1>7. CASE Request \/ UNCHANGED startVars
    BY <1>3, <1>4, <1>7 DEF Request, startVars, StartTypeOK
<1>8. CASE ServerValues /\ ~Refuse
  <2>1. boot' = "tools" /\ UNCHANGED tools
      BY <1>8 DEF ServerValues
  <2> QED
      BY <1>3, <1>4, <2>1
<1>9. CASE ToolValues /\ ~Refuse
  <2>1. boot' = "gates" /\ \E offered : tools' = offered \cap Registered
      BY <1>9 DEF ToolValues
  <2> QED
      BY <1>3, <2>1
<1>10. CASE Serve /\ ~Refuse
  <2>1. boot' = "serving" /\ UNCHANGED tools
      BY <1>10 DEF Serve
  <2> QED
      BY <1>3, <1>4, <2>1
<1> QED
    BY <1>5, <1>6, <1>7, <1>8, <1>9, <1>10 DEF StartNext, BadConfig

-----------------------------------------------------------------------------
\* The OAuth store: no code without an allowed uri and a known client.
OAuthTyped ==
  /\ clients \in [Clients -> [known : BOOLEAN, uris : SUBSET GoodUris, secret : BOOLEAN]]
  /\ OAuthTypeOK

LEMMA OAuthTypedBegins == OAuthInit => OAuthTyped
BY OAuthAssumption DEF OAuthInit, OAuthIdle, OAuthTyped, OAuthTypeOK, Unknown, Nobody, Served

LEMMA OAuthTypedKeeps == OAuthTyped /\ [OAuthNext]_oauthVars => OAuthTyped'
<1> SUFFICES ASSUME OAuthTyped, [OAuthNext]_oauthVars PROVE OAuthTyped'
    OBVIOUS
<1> DEFINE R == [known : BOOLEAN, uris : SUBSET GoodUris, secret : BOOLEAN]
<1>0. clients \in [Clients -> R]
    BY DEF OAuthTyped
<1>1. \A r \in R : r.uris \subseteq GoodUris
    OBVIOUS
<1>2. ASSUME clients' \in [Clients -> R], UNCHANGED <<codes, issued, served, clock>> PROVE OAuthTyped'
    BY <1>1, <1>2 DEF OAuthTyped, OAuthTypeOK
<1>3. ASSUME NEW c \in Clients, NEW uris \in SUBSET Uris, RegisterClient(c, uris)
      PROVE  OAuthTyped'
  <2>1. [known |-> TRUE, uris |-> uris, secret |-> Configured = "none" /\ ~NeedsSecret] \in R
      BY <1>3 DEF RegisterClient
  <2> HIDE DEF R
  <2>2. clients' \in [Clients -> R]
      BY <1>0, <1>3, <2>1 DEF RegisterClient
  <2> QED
      BY <1>2, <1>3, <2>2 DEF RegisterClient
<1>4. ASSUME NEW c \in Clients, NEW uri \in Uris, NEW v \in Verifiers, Authorize(c, uri, v)
      PROVE  OAuthTyped'
  <2>1. PICK r : r = [clients[c] EXCEPT !.known = TRUE, !.uris = @ \cup {uri}]
      OBVIOUS
  <2>2. r \in R
      BY <1>0, <1>4, <2>1 DEF Authorize
  <2>3. clients' = [clients EXCEPT ![c] = r]
      BY <1>0, <1>4, <2>1 DEF Authorize
  <2>4. clients' \in [Clients -> R]
    <3> HIDE DEF R
    <3> QED
        BY <1>0, <2>2, <2>3
  <2>5. /\ issued' = issued + 1 /\ issued < MaxCodes /\ UNCHANGED <<served, clock>>
        /\ \A k \in codes' : k \in codes \/ (k.id = issued' /\ k.client = c)
      BY <1>4 DEF Authorize
  <2>6. issued \in 0..MaxCodes /\ issued' \in 0..MaxCodes /\ 1..issued \subseteq 1..issued' /\ issued' \in 1..issued'
      BY <2>5, OAuthAssumption DEF OAuthTyped, OAuthTypeOK
  <2>7. \A k \in codes' : k.id \in 1..issued' /\ k.client \in Clients
      BY <2>5, <2>6 DEF OAuthTyped, OAuthTypeOK
  <2> QED
      BY <1>1, <2>4, <2>5, <2>6, <2>7 DEF OAuthTyped, OAuthTypeOK
<1>5. ASSUME NEW code \in codes, NEW c \in Clients, NEW uri \in Uris, NEW v \in Verifiers,
             NEW s \in {"right", "wrong", "none"}, Exchange(code, c, uri, v, s)
      PROVE  OAuthTyped'
    BY <1>5 DEF Exchange, Consumed, OAuthTyped, OAuthTypeOK
<1>6. CASE ServeKey \/ ServeToken \/ ServeNobody
    BY <1>6 DEF ServeKey, ServeToken, ServeNobody, Served, Nobody, OAuthTyped, OAuthTypeOK
<1>7. CASE TimePasses
    BY <1>7, OAuthAssumption DEF TimePasses, OAuthTyped, OAuthTypeOK
<1>8. CASE Restart
  <2>1. Unknown \in R
      BY DEF Unknown
  <2>2. clients' \in [Clients -> R]
    <3> HIDE DEF R
    <3> QED
        BY <1>8, <2>1 DEF Restart
  <2> QED
      BY <1>1, <1>8, <2>2 DEF Restart, Nobody, Served, OAuthTyped, OAuthTypeOK
<1>9. CASE UNCHANGED oauthVars
    BY <1>9 DEF oauthVars, OAuthTyped, OAuthTypeOK
<1> QED
    BY <1>3, <1>4, <1>5, <1>6, <1>7, <1>8, <1>9 DEF OAuthNext

-----------------------------------------------------------------------------
LEMMA UpdaterTypes ==
  ASSUME NEW r \in {"stable", "canary"}, NEW day \in 0..LastDay, NEW at \in {"idle", "parked"}, UpdaterIdle(r, day, at)
  PROVE  UpdaterTypeOK
<1>1. releases \in Seq([version : Nat, day : Nat, held : BOOLEAN]) /\ Len(releases) = 0
    BY DEF UpdaterIdle
<1> QED
    BY <1>1, UpdaterAssumption DEF UpdaterIdle, UpdaterTypeOK, NoRun, NoRelease

LEMMA UpdaterTypesKeep ==
  UpdaterTypeOK /\ ReleasesInv /\ ReleasesInv' /\ AttemptsInv' /\ [UpdaterNext]_updaterVars => UpdaterTypeOK'
<1> SUFFICES ASSUME UpdaterTypeOK, ReleasesInv, ReleasesInv', AttemptsInv', [UpdaterNext]_updaterVars
             PROVE  UpdaterTypeOK'
    OBVIOUS
<1>1. /\ releases' \in Seq([version : Nat, day : Nat, held : BOOLEAN]) /\ installed' \in Nat
      /\ installer' \in 0..Len(releases') /\ started' \in Nat /\ hidden' \in Nat
    BY DEF ReleasesInv, ReleaseItems, AttemptsInv
<1>2. PICK n, m \in Nat : n = Len(releases) /\ m = Len(releases')
  <2>1. \A s \in Seq(ReleaseItems) : Len(s) \in Nat
      OBVIOUS
  <2> QED
      BY <2>1 DEF ReleasesInv
<1>3. n <= m
  <2>1. CASE PublishRelease
    <3>1. m = n + 1
      <4>1. PICK e : releases' = Append(releases, e)
          BY <2>1 DEF PublishRelease
      <4>2. releases \in Seq(ReleaseItems) /\ releases' \in Seq(ReleaseItems)
          BY DEF ReleasesInv
      <4>3. Len(releases') = Len(releases) + 1
          BY <4>1, <4>2
      <4> QED
          BY <1>2, <4>3
    <3> QED
        BY <3>1
  <2>2. CASE Hold
    <3>1. PICK i \in DOMAIN releases : releases' = [releases EXCEPT ![i].held = ~@]
        BY <2>2 DEF Hold
    <3>2. releases \in Seq(ReleaseItems)
        BY DEF ReleasesInv
    <3>3. PICK e : releases' = [releases EXCEPT ![i] = e]
        BY <3>1
    <3>4. Len(releases') = Len(releases)
        BY <3>2, <3>3
    <3> QED
        BY <1>2, <3>4
  <2>3. CASE UNCHANGED releases
      BY <1>2, <2>3
  <2> QED
      BY <2>1, <2>2, <2>3 DEF UpdaterNext, UpdaterStep, NextDay, SelfUpgrade, InstallerEnds, BeginRun, NothingToDo,
         RecordAttempt, StartUpgrade, StartFails, StartTimesOut, RunKilled, updaterVars
<1>4. /\ attempts \in [tag : 0..n, attempts : 0..MAX_ATTEMPTS]
      /\ updater \in [at : {"idle", "begun", "recorded", "parked"}, installed : Nat, tag : 0..n, attempts : 0..MAX_ATTEMPTS]
      /\ today \in 0..LastDay /\ ring \in {"stable", "canary"} /\ updaterFaults \in 0..MaxUpdaterFaults
    BY <1>2 DEF UpdaterTypeOK
<1>5. 0..n \subseteq 0..m
    BY <1>3
<1>6. today' \in 0..LastDay /\ ring' \in {"stable", "canary"} /\ updaterFaults' \in 0..MaxUpdaterFaults
  <2>1. /\ today' = today \/ (today < LastDay /\ today' = today + 1)
        /\ ring' = ring
        /\ updaterFaults' = updaterFaults \/ (updaterFaults < MaxUpdaterFaults /\ updaterFaults' = updaterFaults + 1)
      BY DEF UpdaterNext, UpdaterStep, NextDay, PublishRelease, Hold, SelfUpgrade, InstallerEnds, BeginRun,
         NothingToDo, RecordAttempt, StartUpgrade, StartFails, StartTimesOut, RunKilled, updaterVars
  <2>2. LastDay \in Nat /\ MaxUpdaterFaults \in Nat
      BY UpdaterAssumption
  <2>3. today' \in 0..LastDay
      BY <1>4, <2>1, <2>2
  <2>4. updaterFaults' \in 0..MaxUpdaterFaults
      BY <1>4, <2>1, <2>2
  <2> QED
      BY <1>4, <2>1, <2>3, <2>4
<1>7. /\ attempts' \in [tag : 0..m, attempts : 0..MAX_ATTEMPTS]
      /\ updater' \in [at : {"idle", "begun", "recorded", "parked"}, installed : Nat, tag : 0..m, attempts : 0..MAX_ATTEMPTS]
  <2> DEFINE A == [tag : 0..m, attempts : 0..MAX_ATTEMPTS]
             U == [at : {"idle", "begun", "recorded", "parked"}, installed : Nat, tag : 0..m, attempts : 0..MAX_ATTEMPTS]
  <2>1. attempts \in A /\ updater \in U /\ [tag |-> updater.tag, attempts |-> updater.attempts] \in A
      BY <1>4, <1>5
  <2>2. NoRun \in U
      BY UpdaterAssumption DEF NoRun, NoRelease
  <2>3. CASE RecordAttempt
    <3>1. updater'.at = "recorded" /\ Target = updater'.tag
        BY <2>1, <2>3 DEF RecordAttempt
    <3>2. Target \in 0..m
        BY <1>2, <3>1 DEF ReleasesInv
    <3>3. AttemptsAt(Target) \in 0..MAX_ATTEMPTS /\ AttemptsAt(Target) + 1 \in 0..MAX_ATTEMPTS
      <4>1. AttemptsAt(Target) \in 0..MAX_ATTEMPTS /\ AttemptsAt(Target) < MAX_ATTEMPTS
          BY <1>4, <2>3, UpdaterAssumption DEF RecordAttempt, AttemptsAt
      <4> QED
          BY <4>1, UpdaterAssumption
    <3>4. PICK t \in 0..m, k \in 0..MAX_ATTEMPTS : t = Target /\ k = AttemptsAt(Target) /\ k + 1 \in 0..MAX_ATTEMPTS
        BY <3>2, <3>3
    <3>5. attempts' = [tag |-> t, attempts |-> k + 1] /\ updater' = [updater EXCEPT !.at = "recorded", !.tag = t, !.attempts = k]
        BY <2>3, <3>4 DEF RecordAttempt
    <3> QED
        BY <2>1, <3>4, <3>5
  <2>4. CASE BeginRun
    <3>1. installed \in Nat
        BY DEF ReleasesInv
    <3> QED
        BY <2>1, <2>2, <2>4, <3>1 DEF BeginRun
  <2>5. CASE attempts' \in {attempts, [tag |-> updater.tag, attempts |-> updater.attempts]} /\ updater' \in {updater, NoRun}
    <3> HIDE DEF A, U
    <3>1. attempts' \in A /\ updater' \in U
        BY <2>1, <2>2, <2>5
    <3> QED
        BY <3>1 DEF A, U
  <2> HIDE DEF A, U
  <2>6. attempts' \in A /\ updater' \in U
      BY <2>3, <2>4, <2>5 DEF A, U, UpdaterNext, UpdaterStep, NextDay, PublishRelease, Hold, SelfUpgrade, InstallerEnds,
         NothingToDo, StartUpgrade, StartFails, StartTimesOut, RunKilled, updaterVars
  <2> QED
      BY <2>6 DEF A, U
<1> QED
    BY <1>1, <1>2, <1>6, <1>7 DEF UpdaterTypeOK

-----------------------------------------------------------------------------
LEMMA CoordTypes == ASSUME NEW g \in Screens, CoordIdle(g) PROVE CoordTypeOK
BY DEF CoordIdle, CoordTypeOK, NotDone

LEMMA CoordTypesKeep == CoordTypeOK /\ [CoordNext]_coordVars => CoordTypeOK'
<1> SUFFICES ASSUME CoordTypeOK, [CoordNext]_coordVars PROVE CoordTypeOK'
    OBVIOUS
<1>1. ASSUME NEW maxWidth \in MaxWidths, Snapshot(maxWidth) PROVE CoordTypeOK'
  <2>1. picture'.maxWidth = maxWidth /\ done'.tool = "none" /\ done'.asked = Nothing /\ screen' = screen
      BY <1>1 DEF Snapshot, NotDone
  <2> QED
      BY <2>1 DEF CoordTypeOK
<1>2. ASSUME NEW r \in Things, Click(r) \/ Zoom(r) PROVE CoordTypeOK'
  <2>1. done'.tool \in {"Click", "Zoom"} /\ done'.asked = r /\ UNCHANGED <<screen, picture>>
    <3>1. CASE Click(r)
        BY <3>1 DEF Click
    <3>2. CASE Zoom(r)
        BY <3>2 DEF Zoom
    <3> QED
        BY <1>2, <3>1, <3>2
  <2> QED
      BY <2>1 DEF CoordTypeOK
<1>3. CASE ChangeDisplay \/ UNCHANGED coordVars
    BY <1>3 DEF ChangeDisplay, coordVars, CoordTypeOK
<1> QED
    BY <1>1, <1>2, <1>3 DEF CoordNext

-----------------------------------------------------------------------------
\* The lock is the tool's while it reads or acts.
LockedSteps == {"target", "walk", "live", "act", "center", "focus", "wait"}
ElementTyped == ElementTypeOK /\ (tool.step \in LockedSteps => holder = "tool")

LEMMA ElementTypes ==
  ASSUME NEW titles, NEW active \in Windows \cup {NoWindow}, NEW shows, ElementIdle(titles, active, shows)
  PROVE  ElementTyped
<1>1. Len(listing) = 0 /\ tree = 0 /\ worldSteps = 0 /\ 0 + 0 <= MaxChanges
    BY ElementAssumption DEF ElementIdle
<1>2. NoTool.step = "idle" /\ NoShot.step = "idle"
    BY DEF NoTool, NoShot
<1>3. ElementTypeOK
    BY <1>1, <1>2 DEF ElementIdle, ElementTypeOK
<1> QED
    BY <1>2, <1>3 DEF ElementIdle, ElementTyped, LockedSteps

LEMMA ElementTypesKeep == ElementTyped /\ ElementInv /\ ElementInv' /\ [ElementNext]_elementVars => ElementTyped'
<1> SUFFICES ASSUME ElementTyped, ElementInv, ElementInv', [ElementNext]_elementVars PROVE ElementTyped'
    OBVIOUS
<1>1. desktop'.active \in Windows \cup {NoWindow} /\ desktop'.focus \in Nodes \cup {"none"}
    BY DEF ElementInv, Desktops
<1>2. Len(listing') = tree' /\ tree' \in Nat
    BY DEF ElementInv, ListingInv
<1>3. /\ tree \in Nat /\ holder \in {"free", "tool", "shot"} /\ worldSteps \in Nat /\ tree + worldSteps <= MaxChanges
      /\ (holder = "shot" <=> shot.step = "walk") /\ (tool.step \in LockedSteps => holder = "tool")
    BY DEF ElementTyped, ElementTypeOK
<1>4. DOMAIN tool = {"op", "step", "ref", "entry", "target", "place", "reply"}
    BY DEF ElementInv, NoTool
<1>5. ASSUME holder' \in {"free", "tool", "shot"}, worldSteps' \in Nat, tree' + worldSteps' <= MaxChanges,
             holder' = "shot" <=> shot'.step = "walk", tool'.step \in LockedSteps => holder' = "tool"
      PROVE  ElementTyped'
    BY <1>1, <1>2, <1>5 DEF ElementTyped, ElementTypeOK
<1>6. worldSteps' \in Nat
  <2>1. worldSteps' = worldSteps \/ worldSteps' = worldSteps + 1
      BY DEF ElementNext, WorldStep, World, BeginTool, ReadTarget, WalkTree, CheckLive, Act, Center, Mouse, GiveFocus, Unchanged,
         NoFocus, WaitFocus, TypeText, NextElementTool, ShotBegins, ShotEnds, Raise, Close, Retitle, Reuse, MoveFocus,
         RestartServer, elementVars
  <2> QED
      BY <1>3, <2>1
<1>7. tree' + worldSteps' <= MaxChanges
  <2>1. \/ tree' = tree /\ worldSteps' = worldSteps
        \/ Spare /\ tree' = tree + 1 /\ worldSteps' = worldSteps
        \/ Spare /\ tree' = tree /\ worldSteps' = worldSteps + 1
      BY DEF ElementNext, WorldStep, World, BeginTool, ReadTarget, WalkTree, PublishTree, CheckLive, Act, Center, Mouse, GiveFocus,
         Unchanged, NoFocus, WaitFocus, TypeText, NextElementTool, ShotBegins, ShotEnds, Raise, Close, Retitle, Reuse, MoveFocus,
         RestartServer, elementVars
  <2> QED
      BY <1>3, <2>1, ElementAssumption DEF Spare
<1>8. \A step : [tool EXCEPT !.step = step].step = step
    BY <1>4
<1>9. \A saying : EndTool(saying) => tool'.step = "over"
    BY <1>4 DEF EndTool
<1> USE DEF LockedSteps
<1>10. CASE BeginTool
  <2>1. tool'.step \in {"target", "live"} /\ holder' = "tool" /\ holder = "free" /\ shot' = shot
      BY <1>10 DEF BeginTool, NoTool
  <2> QED
      BY <1>3, <1>5, <1>6, <1>7, <2>1
<1>11. CASE ReadTarget
  <2>1. /\ tool.step = "target" /\ shot' = shot
        /\ (tool'.step = "over" /\ holder' = "free") \/ (tool'.step = "walk" /\ holder' = holder)
      BY <1>4, <1>9, <1>11 DEF ReadTarget, FreeSlot, Unchanged
  <2> QED
      BY <1>3, <1>5, <1>6, <1>7, <2>1
<1>12. CASE WalkTree
  <2>1. tool.step = "walk" /\ shot' = shot /\ tool'.step = "over" /\ holder' = "free"
      BY <1>9, <1>12 DEF WalkTree, FreeSlot, Unchanged
  <2> QED
      BY <1>3, <1>5, <1>6, <1>7, <2>1
<1>13. CASE CheckLive
  <2>1. /\ tool.step = "live" /\ shot' = shot
        /\ (tool'.step = "over" /\ holder' = "free") \/ (tool'.step = "act" /\ holder' = holder)
      BY <1>4, <1>9, <1>13 DEF CheckLive, FreeSlot, Unchanged
  <2> QED
      BY <1>3, <1>5, <1>6, <1>7, <2>1
<1>14. CASE Act
  <2>1. /\ tool.step = "act" /\ shot' = shot
        /\ (tool'.step = "over" /\ holder' = "free") \/ (tool'.step \in {"center", "focus"} /\ holder' = holder)
      BY <1>4, <1>9, <1>14 DEF Act, Otherwise, FreeSlot, Unchanged
  <2> QED
      BY <1>3, <1>5, <1>6, <1>7, <2>1
<1>15. CASE Center
  <2>1. tool.step = "center" /\ shot' = shot /\ tool'.step \in {"over", "mouse"} /\ holder' = "free"
      BY <1>4, <1>9, <1>15 DEF Center, FreeSlot, Unchanged
  <2> QED
      BY <1>3, <1>5, <1>6, <1>7, <2>1
<1>16. CASE Mouse \/ TypeText
  <2>1. shot' = shot /\ tool'.step = "over" /\ holder' = holder
      BY <1>9, <1>16 DEF Mouse, TypeText, Unchanged
  <2> QED
      BY <1>3, <1>5, <1>6, <1>7, <2>1
<1>17. CASE GiveFocus
  <2>1. tool.step = "focus" /\ shot' = shot /\ tool'.step = "wait" /\ holder' = holder
      BY <1>8, <1>17 DEF GiveFocus
  <2> QED
      BY <1>3, <1>5, <1>6, <1>7, <2>1
<1>18. CASE NoFocus
  <2>1. tool.step \in {"focus", "wait"} /\ shot' = shot /\ tool'.step = "over" /\ holder' = "free"
      BY <1>9, <1>18 DEF NoFocus, FreeSlot, Unchanged
  <2> QED
      BY <1>3, <1>5, <1>6, <1>7, <2>1
<1>19. CASE WaitFocus
  <2>1. tool.step = "wait" /\ shot' = shot /\ tool'.step = "keys" /\ holder' = "free"
      BY <1>8, <1>19 DEF WaitFocus, FreeSlot, Unchanged
  <2> QED
      BY <1>3, <1>5, <1>6, <1>7, <2>1
<1>20. CASE NextElementTool
  <2>1. shot' = shot /\ tool'.step = "idle" /\ holder' = holder
      BY <1>20 DEF NextElementTool, NoTool
  <2> QED
      BY <1>3, <1>5, <1>6, <1>7, <2>1
<1>21. CASE ShotBegins
  <2>1. holder = "free" /\ holder' = "shot" /\ shot'.step = "walk" /\ tool' = tool
      BY <1>21 DEF ShotBegins
  <2> QED
      BY <1>3, <1>5, <1>6, <1>7, <2>1
<1>22. CASE ShotEnds
  <2>1. shot.step = "walk" /\ shot'.step = "idle" /\ holder' = "free" /\ tool' = tool
      BY <1>22 DEF ShotEnds, NoShot, FreeSlot
  <2> QED
      BY <1>3, <1>5, <1>6, <1>7, <2>1
<1>23. CASE WorldStep \/ RestartServer \/ UNCHANGED elementVars
  <2>1. UNCHANGED <<holder, shot, tool>>
      BY <1>23 DEF WorldStep, Raise, Close, Retitle, Reuse, MoveFocus, World, RestartServer, elementVars
  <2> QED
      BY <1>3, <1>5, <1>6, <1>7, <2>1
<1> QED
    BY <1>10, <1>11, <1>12, <1>13, <1>14, <1>15, <1>16, <1>17, <1>18, <1>19, <1>20, <1>21, <1>22, <1>23 DEF ElementNext

-----------------------------------------------------------------------------
\* What UiaInv does not say of the types: a ref names the thread that listed it.
Listings == Threads \X (1..uiaTrees)
UiaRest ==
  /\ client \in Threads \cup {None} /\ belated \subseteq UiaCalls /\ known \subseteq Listings
  /\ \A c \in UiaCalls : jobOf[c].result = "listed" => jobOf[c].tree \in Listings

LEMMA UiaRestBegins == ASSUME NEW step, UiaIdle(step) PROVE UiaRest
BY DEF UiaIdle, UiaRest, NoJob

LEMMA UiaTyped == UiaInv /\ UiaRest => UiaTypeOK
BY DEF UiaInv, UiaTypes, ThreadRecords, UiaRest, UiaTypeOK, Listings

LEMMA UiaRestStays ==
  ASSUME UiaRest, UiaInv, UNCHANGED <<client, known, uiaTrees>>, belated' \subseteq UiaCalls,
         \A c \in UiaCalls : jobOf'[c].result = "listed" => jobOf'[c] = jobOf[c]
  PROVE  UiaRest'
BY DEF UiaRest, Listings

LEMMA UiaCallerKeeps == ASSUME UiaRest, UiaInv, NEW c \in UiaCalls, CallStep(c) PROVE UiaRest'
<1>1. jobOf \in [UiaCalls -> JobRecords]
    BY DEF UiaInv, UiaTypes
<1>2. CASE GetResult(c)
    BY <1>2 DEF GetResult, Alone, UiaRest, Listings
<1>3. CASE PutJob(c)
  <2>1. UNCHANGED <<client, known, uiaTrees, belated>>
      BY <1>3 DEF PutJob
  <2>2. jobOf' = jobOf \/ jobOf' = [jobOf EXCEPT ![c].step = "queued"]
      BY <1>3 DEF PutJob
  <2>3. jobOf[c].result = "none" \/ uiaCall[c].at # "ready"
      BY DEF UiaInv, JobInv, JobFine
  <2>4. \A d \in UiaCalls : jobOf'[d].result = "listed" => jobOf'[d] = jobOf[d]
      BY <1>1, <1>3, <2>2, <2>3 DEF JobRecords, PutJob
  <2> QED
      BY <2>1, <2>4, UiaRestStays DEF UiaRest
<1>4. CASE UNCHANGED <<client, known, uiaTrees, belated, jobOf>>
    BY <1>4 DEF UiaRest, Listings
<1> QED
    BY <1>2, <1>3, <1>4 DEF CallStep, BeginUia, Busy, Running, NotReady, SlowStart, TimesOut, GiveUp, ByHand, Alone

LEMMA UiaThreadKeeps == ASSUME UiaRest, UiaInv, NEW w \in Threads, ThreadStep(w) PROVE UiaRest'
<1>1. /\ jobOf \in [UiaCalls -> JobRecords] /\ uiaTrees \in Nat
      /\ thread[w].at = "job" => thread[w].job \in UiaCalls
  <2>1. thread[w].job \in UiaCalls \cup {Wake}
      BY DEF UiaInv, UiaTypes, ThreadRecords
  <2> QED
      BY <2>1 DEF UiaInv, UiaTypes, QueueInv
<1>2. CASE StartThread(w)
  <2>1. UNCHANGED <<known, uiaTrees, belated, jobOf>> /\ client' \in {client, w}
      BY <1>2 DEF StartThread, MakeClient, SwapClient, Callers
  <2> QED
      BY <2>1 DEF UiaRest, Listings
<1>3. CASE Loop(w)
  <2>1. UNCHANGED <<client, known, uiaTrees, belated>>
      BY <1>3 DEF Loop, Callers
  <2>2. CASE jobOf' = jobOf
      BY <2>1, <2>2, UiaRestStays DEF UiaRest
  <2>3. CASE jobOf' # jobOf
    <3>1. /\ thread[w].jobs # <<>> /\ Head(thread[w].jobs) # Wake
          /\ \E step \in {"walk", "live"} : jobOf' = [jobOf EXCEPT ![Head(thread[w].jobs)].step = step]
        BY <1>3, <2>3 DEF Loop
    <3>2. thread[w].jobs \in Seq(UiaCalls \cup {Wake})
        BY DEF UiaInv, UiaTypes, ThreadRecords
    <3>3. 1 \in DOMAIN thread[w].jobs /\ Head(thread[w].jobs) = thread[w].jobs[1]
        BY <3>1, <3>2
    <3>4. jobOf[thread[w].jobs[1]].step = "queued" /\ thread[w].jobs[1] \in UiaCalls \cup {Wake}
        BY <3>1, <3>2, <3>3 DEF UiaInv, QueueInv
    <3>5. PICK c \in UiaCalls : c = thread[w].jobs[1]
        BY <3>1, <3>3, <3>4
    <3>6. jobOf[c].result = "none"
        BY <3>4, <3>5 DEF UiaInv, JobInv, JobFine
    <3>7. \A d \in UiaCalls : jobOf'[d].result = "listed" => jobOf'[d] = jobOf[d]
        BY <1>1, <3>1, <3>3, <3>5, <3>6 DEF JobRecords
    <3> QED
        BY <2>1, <3>7, UiaRestStays DEF UiaRest
  <2> QED
      BY <2>2, <2>3
<1>4. CASE WalkWindow(w) /\ uiaTrees' = uiaTrees
  <2>1. PICK c \in UiaCalls : c = thread[w].job
      BY <1>1, <1>4 DEF WalkWindow, OnJob
  <2>2. jobOf' = [jobOf EXCEPT ![c] = [step |-> "done", result |-> "failed", tree |-> NoRef]]
      BY <1>1, <1>4, <2>1 DEF WalkWindow, EndJob
  <2>3. UNCHANGED <<client, known, uiaTrees, belated>>
      BY <1>4 DEF WalkWindow, Callers
  <2>4. \A d \in UiaCalls : jobOf'[d].result = "listed" => jobOf'[d] = jobOf[d]
      BY <1>1, <2>2
  <2> QED
      BY <2>3, <2>4, UiaRestStays DEF UiaRest
<1>5. CASE WalkWindow(w) /\ uiaTrees' # uiaTrees
  <2>1. PICK c \in UiaCalls : c = thread[w].job
      BY <1>1, <1>5 DEF WalkWindow, OnJob
  <2>2. PICK n \in Nat : n = uiaTrees + 1
      BY <1>1
  <2>3. uiaTrees' = n /\ jobOf' = [jobOf EXCEPT ![c] = [step |-> "done", result |-> "listed", tree |-> <<w, n>>]]
      BY <1>5, <2>1, <2>2 DEF WalkWindow, EndJob, Number
  <2>4. UNCHANGED <<client, known, belated>>
      BY <1>5 DEF WalkWindow, Callers
  <2>5. n \in 1..n /\ 1..uiaTrees \subseteq 1..n
      BY <1>1, <2>2
  <2>6. <<w, n>> \in Listings' /\ Listings \subseteq Listings'
      BY <2>3, <2>5 DEF Listings
  <2>7. \A d \in UiaCalls : jobOf'[d].result = "listed" => jobOf'[d].tree \in Listings'
      BY <1>1, <2>3, <2>6 DEF UiaRest
  <2> QED
      BY <2>4, <2>6, <2>7 DEF UiaRest
<1>6. CASE LiveElement(w) \/ OwnPattern(w) \/ RestOfJob(w)
  <2>1. PICK c \in UiaCalls : c = thread[w].job /\ jobOf[c].step \in {"live", "own", "rest"}
      BY <1>1, <1>6 DEF LiveElement, OwnPattern, RestOfJob, OnJob
  <2>2. UNCHANGED <<client, known, uiaTrees>>
      BY <1>6 DEF LiveElement, OwnPattern, RestOfJob, Callers
  <2>3. \/ \E ending \in {"failed", "yours", "done", "may_have_happened"} :
             EndJob(w, ending, NoRef) /\ belated' = belated
        \/ \E step, acts : NextCallOf(w, step, acts)
      BY <1>6 DEF LiveElement, OwnPattern, RestOfJob, Refused
  <2>4. belated' \subseteq UiaCalls
      BY <2>1, <2>3 DEF NextCallOf, UiaRest
  <2>5. jobOf[c].result = "none"
      BY <2>1 DEF UiaInv, JobInv, JobFine
  <2>6. \A d \in UiaCalls : jobOf'[d].result = "listed" => jobOf'[d] = jobOf[d]
    <3>1. CASE \E ending \in {"failed", "yours", "done", "may_have_happened"} : EndJob(w, ending, NoRef)
        BY <1>1, <2>1, <3>1 DEF EndJob
    <3>2. CASE \E step, acts : NextCallOf(w, step, acts)
      <4>1. PICK step : jobOf' = [jobOf EXCEPT ![c].step = step]
          BY <2>1, <3>2 DEF NextCallOf
      <4> QED
          BY <1>1, <2>5, <4>1 DEF JobRecords
    <3> QED
        BY <2>3, <3>1, <3>2
  <2> QED
      BY <2>2, <2>4, <2>6, UiaRestStays
<1> QED
    BY <1>2, <1>3, <1>4, <1>5, <1>6 DEF ThreadStep

LEMMA UiaRestKeeps == UiaRest /\ UiaInv /\ [UiaNext]_uiaVars => UiaRest'
<1> SUFFICES ASSUME UiaRest, UiaInv, [UiaNext]_uiaVars PROVE UiaRest'
    OBVIOUS
<1>1. CASE UNCHANGED uiaVars
    BY <1>1 DEF uiaVars, UiaRest, Listings
<1> QED
    BY <1>1, UiaCallerKeeps, UiaThreadKeeps DEF UiaNext

-----------------------------------------------------------------------------
(* The list of elements and its marks. *)

\* What is marked was merged from what was listed and read.
MarkedInv == IsReading(words) /\ (walking = "marked" => marks = Merge(found, words))
ListInv == WalkInv /\ MarkedInv

LEMMA ListStarts == ListInit => ListInv
<1> SUFFICES ASSUME ListInit PROVE ListInv
    OBVIOUS
<1>1. words \in Readings /\ walking = "yes"
    BY DEF ListInit, ListIdle
<1> QED
    BY <1>1, WalkStarts, ListAssumption DEF ListInv, MarkedInv

LEMMA ListStep == ASSUME ListInv, [ListNext]_listVars PROVE ListInv'
<1>1. WalkInv'
    BY WalkGoesOn, WalkStays DEF ListInv
<1>2. MarkedInv'
  <2>1. CASE Mark /\ UNCHANGED words
      BY <2>1 DEF Mark, ListInv, MarkedInv
  <2>2. CASE (WalkStep \/ Publish \/ NotRead) /\ UNCHANGED <<marks, words>>
    <3>1. walking' # "marked"
        BY <2>2 DEF WalkStep, EndBranch, AtElement, CanVisit, TooMany, OutOfTime, StopWalk, Vanished, TooLong, LimitReached, Visit,
           EndWalk, Publish, NotRead
    <3> QED
        BY <2>2, <3>1 DEF ListInv, MarkedInv
  <2>3. CASE UNCHANGED listVars
      BY <2>3 DEF listVars, ListInv, MarkedInv
  <2> QED
      BY <2>1, <2>2, <2>3 DEF ListNext, Publish, NotRead
<1> QED
    BY <1>1, <1>2 DEF ListInv

LEMMA ListTells == ASSUME ListInv PROVE ListTypeOK /\ NothingLostUntold
<1>1. ListTypeOK /\ WalkTellsAll
    BY WalkInvTells DEF ListInv
<1>2. MarksTellAll
  <2> SUFFICES ASSUME walking = "marked" PROVE Told(found, words, marks)
      BY DEF MarksTellAll, Told
  <2>1. found \in Seq(Elements) /\ IsReading(words) /\ marks = Merge(found, words)
      BY DEF ListInv, MarkedInv, WalkInv, WalkTypes
  <2> QED
      BY <2>1, MergeTells
<1> QED
    BY <1>1, <1>2 DEF NothingLostUntold

\* Whatever the screen shows and an OCR reads there: a walk that gives no reason found all that could be read, of
\* which only what can have no ref is left out; every element and word that was found and no control covers is in one
\* mark or counted as dropped.
THEOREM ListsAndMarksComplete == ListSpec => [](ListTypeOK /\ NothingLostUntold)
<1>1. ListInv => ListTypeOK /\ NothingLostUntold
    BY ListTells
<1>2. ListInv /\ [ListNext]_listVars => ListInv'
    BY ListStep
<1> QED
    BY ListStarts, <1>1, <1>2, PTL DEF ListSpec

-----------------------------------------------------------------------------
(* The parts of the machine server together: each at work or at rest. *)

UpdaterPart ==
  IF Runs("updater") THEN AttemptsInv /\ ReleasesInv /\ UpdaterTypeOK ELSE UpdaterIdle("stable", LastDay, "parked")
StartPart == IF Runs("start") THEN StartInv /\ StartTypeOK ELSE StartIdle("parked")
ElementPart ==
  IF Runs("elements") THEN ElementInv /\ ElementTyped
  ELSE ElementIdle([w \in Windows |-> "closed"], NoWindow, [n \in Nodes |-> ""])
ListPart == IF Runs("lists") THEN ListInv ELSE ListIdle([limit |-> 2, depth |-> 1, visits |-> 3], <<>>, "parked")
UiaPart == IF Runs("uia") THEN UiaInv /\ UiaRest ELSE UiaIdle("parked")
\* These are at rest as they begin.
AlwaysFit ==
  /\ TypeOK /\ ChildInv /\ SessionInv /\ OAuthInv /\ OAuthTyped /\ CoordInv /\ CoordTypeOK
  /\ InputInv /\ PlanInv /\ TypedInv
MachineInv == AlwaysFit /\ UpdaterPart /\ StartPart /\ ElementPart /\ ListPart /\ UiaPart

\* A step of one part leaves the others as they are.
LEMMA PartsApart ==
  ASSUME [MachineNext]_machineVars
  PROVE  /\ UNCHANGED component /\ [Next]_vars /\ [ChildNext]_childVars /\ [SessionNext]_sessionVars
         /\ [OAuthNext]_oauthVars /\ [CoordNext]_coordVars /\ [InputNext]_inputVars
         /\ [UpdaterNext]_updaterVars /\ [StartNext]_startVars /\ [ElementNext]_elementVars
         /\ [ListNext]_listVars /\ [UiaNext]_uiaVars
         /\ Runs("updater") \/ UNCHANGED updaterVars
         /\ Runs("start") \/ UNCHANGED startVars
         /\ Runs("elements") \/ UNCHANGED elementVars
         /\ Runs("lists") \/ UNCHANGED listVars
         /\ Runs("uia") \/ UNCHANGED uiaVars
BY DEF MachineNext, machineVars, TasksRun, UpdaterRuns, ChildRuns, SessionRuns, OAuthRuns, StartRuns, CoordinatesRuns,
   InputRuns, ElementsRuns, ListsRuns, UiaRuns

LEMMA PartsBegin == ASSUME MachineInit PROVE MachineInv
<1>1. ChildInv /\ SessionInv /\ OAuthInv /\ OAuthTyped
    BY ChildBegins, SessionBegins, OAuthBegins, OAuthTypedBegins DEF MachineInit
<1>2. TypeOK
    BY TypeBegins DEF MachineInit
<1>3. CoordInv /\ CoordTypeOK
  <2>1. PICK g \in Screens : CoordIdle(g)
      BY CoordAssumption DEF MachineInit, CoordInit
  <2> QED
      BY <2>1, CoordBegins, CoordTypes DEF CoordInit
<1>4. InputInv /\ PlanInv /\ TypedInv
  <2>1. InputInit
      BY DEF MachineInit, InputInit
  <2> QED
      BY <2>1, InputBegins, PlansStart, TypedStart
<1>5. UpdaterPart
  <2>1. CASE Runs("updater")
    <3>1. UpdaterInit
        BY <2>1 DEF MachineInit
    <3>2. PICK r \in {"stable", "canary"} : UpdaterIdle(r, 0, "idle")
        BY <3>1 DEF UpdaterInit
    <3>3. 0 \in 0..LastDay
        BY UpdaterAssumption
    <3>4. UpdaterTypeOK
        BY <3>2, <3>3, UpdaterTypes
    <3> QED
        BY <2>1, <3>1, <3>4, UpdaterBegins, ReleasesBegin DEF UpdaterPart
  <2> QED
      BY <2>1 DEF MachineInit, UpdaterPart
<1>6. StartPart
    BY StartBegins, StartTypes DEF MachineInit, StartPart
<1>7. ElementPart
  <2>1. CASE Runs("elements")
    <3>1. ElementInit
        BY <2>1 DEF MachineInit
    <3> QED
        BY <2>1, <3>1, ElementBegins, ElementTypes DEF ElementPart, ElementInit
  <2> QED
      BY <2>1 DEF MachineInit, ElementPart
<1>8. ListPart
    BY ListStarts DEF MachineInit, ListPart
<1>9. UiaPart
    BY UiaBegins, UiaRestBegins DEF MachineInit, UiaPart, UiaInit
<1> QED
    BY <1>1, <1>2, <1>3, <1>4, <1>5, <1>6, <1>7, <1>8, <1>9 DEF MachineInv, AlwaysFit

LEMMA PartsStep == ASSUME MachineInv, [MachineNext]_machineVars PROVE MachineInv'
<1> USE PartsApart DEF MachineInv
<1>1. AlwaysFit'
  <2> USE DEF AlwaysFit
  <2>1. TypeOK'
      BY TypeStep
  <2>2. ChildInv' /\ SessionInv' /\ OAuthInv' /\ OAuthTyped'
      BY ChildStep, SessionStep, OAuthStep, OAuthTypedKeeps
  <2>3. CoordInv' /\ CoordTypeOK'
      BY CoordStep, CoordTypesKeep
  <2>4. InputInv' /\ PlanInv'
      BY InputStep, PlansStep
  <2>5. TypedInv'
      BY TypedStep
  <2> QED
      BY <2>1, <2>2, <2>3, <2>4, <2>5
<1>2. UpdaterPart'
  <2>1. CASE Runs("updater")
    <3>1. AttemptsInv /\ ReleasesInv /\ UpdaterTypeOK /\ [UpdaterNext]_updaterVars
        BY <2>1 DEF UpdaterPart
    <3>2. AttemptsInv' /\ ReleasesInv'
        BY <3>1, UpdaterKeeps, ReleasesKeep
    <3>3. UpdaterTypeOK'
        BY <3>1, <3>2, UpdaterTypesKeep
    <3> QED
        BY <2>1, <3>2, <3>3 DEF UpdaterPart, Runs
  <2>2. CASE ~Runs("updater")
      BY <2>2 DEF UpdaterPart, Runs, UpdaterIdle, updaterVars
  <2> QED
      BY <2>1, <2>2
<1>3. StartPart'
  <2>1. CASE Runs("start")
    <3>1. StartInv /\ StartTypeOK /\ [StartNext]_startVars
        BY <2>1 DEF StartPart
    <3> QED
        BY <2>1, <3>1, StartStep, StartTypesKeep DEF StartPart, Runs
  <2>2. CASE ~Runs("start")
      BY <2>2 DEF StartPart, Runs, StartIdle, startVars
  <2> QED
      BY <2>1, <2>2
<1>4. ElementPart'
  <2>1. CASE Runs("elements")
    <3>1. ElementInv /\ ElementTyped /\ [ElementNext]_elementVars
        BY <2>1 DEF ElementPart
    <3> QED
        BY <2>1, <3>1, ElementStep, ElementTypesKeep DEF ElementPart, Runs
  <2>2. CASE ~Runs("elements")
      BY <2>2 DEF ElementPart, Runs, ElementIdle, elementVars
  <2> QED
      BY <2>1, <2>2
<1>5. ListPart'
  <2>1. CASE Runs("lists")
    <3>1. ListInv /\ [ListNext]_listVars
        BY <2>1 DEF ListPart
    <3> QED
        BY <2>1, <3>1, ListStep DEF ListPart, Runs
  <2>2. CASE ~Runs("lists")
      BY <2>2 DEF ListPart, Runs, ListIdle, listVars
  <2> QED
      BY <2>1, <2>2
<1>6. UiaPart'
  <2>1. CASE Runs("uia")
    <3>1. UiaInv /\ UiaRest /\ [UiaNext]_uiaVars
        BY <2>1 DEF UiaPart
    <3> QED
        BY <2>1, <3>1, UiaStep, UiaRestKeeps DEF UiaPart, Runs
  <2>2. CASE ~Runs("uia")
      BY <2>2 DEF UiaPart, Runs, UiaIdle, uiaVars
  <2> QED
      BY <2>1, <2>2
<1> QED
    BY <1>1, <1>2, <1>3, <1>4, <1>5, <1>6

LEMMA MachineFits == ASSUME MachineInv PROVE MachineTypeOK /\ NothingLost
<1> USE DEF MachineInv
<1>1. TypeOK /\ ChildTypeOK /\ SessionTypeOK /\ OAuthTypeOK /\ CoordTypeOK /\ InputTypeOK
    BY DEF AlwaysFit, ChildInv, SessionInv, OAuthTyped, TypedInv
<1>2. UpdaterTypeOK
  <2>1. LastDay \in 0..LastDay
      BY UpdaterAssumption
  <2> QED
      BY <2>1, UpdaterTypes DEF UpdaterPart
<1>3. StartTypeOK
    BY DEF StartPart, StartIdle, StartTypeOK, NoOptions
<1>4. ElementTypeOK
    BY ElementTypes DEF ElementPart, ElementTyped
<1>5. ListTypeOK /\ NothingLostUntold
  <2>1. CASE Runs("lists")
      BY <2>1, ListTells DEF ListPart
  <2>2. CASE ~Runs("lists")
    <3>1. /\ bounds = [limit |-> 2, depth |-> 1, visits |-> 3] /\ walking = "parked" /\ cut = "" /\ clipped = FALSE
          /\ visited = 0 /\ vanished = {} /\ refless = {}
        BY <2>2 DEF ListPart, ListIdle
    <3>2. Len(stack) = 1 /\ Len(found) = 0
      <4>1. \A x : Len(<<x>>) = 1
          OBVIOUS
      <4>2. found = <<>> /\ \E x : stack = <<x>>
          BY <2>2 DEF ListPart, ListIdle
      <4> QED
          BY <4>1, <4>2
    <3>3. NothingLostUntold
        BY <3>1 DEF NothingLostUntold, WalkTellsAll, MarksTellAll
    <3>4. bounds.limit = 2 /\ bounds.depth = 1 /\ bounds.visits = 3
        BY <3>1
    <3>5. Len(stack) <= bounds.depth /\ Len(found) <= bounds.limit /\ visited <= bounds.visits
      <4>1. visited = 0
          BY <3>1
      <4> QED
          BY <3>2, <3>4, <4>1
    <3>6. ListTypeOK
        BY <3>1, <3>5 DEF ListTypeOK
    <3> QED
        BY <3>3, <3>6
  <2> QED
      BY <2>1, <2>2
<1>6. UiaTypeOK
  <2>1. CASE Runs("uia")
      BY <2>1, UiaTyped DEF UiaPart
  <2>2. CASE ~Runs("uia")
      BY <2>2 DEF UiaPart, UiaIdle, UiaTypeOK
  <2> QED
      BY <2>1, <2>2
<1>7. PlansTrue
    BY DEF AlwaysFit, PlanInv
<1> QED
    BY <1>1, <1>2, <1>3, <1>4, <1>5, <1>6, <1>7 DEF MachineTypeOK, NothingLost

LEMMA MachineSafe ==
  ASSUME MachineInv
  PROVE  /\ AttemptsCounted /\ StaleSessionHeals /\ TokensProven /\ ShellNeverOpen /\ PointsLand
         /\ InputAccounted /\ ElementActs /\ UiaPromise
<1> USE DEF MachineInv
<1>1. StaleSessionHeals /\ TokensProven /\ PointsLand /\ InputAccounted
    BY DEF AlwaysFit, SessionInv, OAuthInv, CoordInv, InputInv, InputAccounted
<1>2. AttemptsCounted
  <2>1. CASE Runs("updater")
      BY <2>1 DEF UpdaterPart, AttemptsInv, AttemptsCounted
  <2>2. CASE ~Runs("updater")
      BY <2>2, UpdaterAssumption DEF UpdaterPart, UpdaterIdle, NoRun, AttemptsCounted
  <2> QED
      BY <2>1, <2>2
<1>3. ShellNeverOpen
    BY DEF StartPart, StartInv, StartIdle, NoResponse, ShellNeverOpen
<1>4. ElementActs
  <2>1. CASE Runs("elements")
      BY <2>1, ElementTold DEF ElementPart
  <2>2. CASE ~Runs("elements")
    <3>1. tool.op = "none"
      <4>1. tool = NoTool
          BY <2>2 DEF ElementPart, ElementIdle
      <4>2. NoTool.op = "none"
          BY DEF NoTool
      <4> QED
          BY <4>1, <4>2
    <3> QED
        BY <3>1 DEF ElementActs
  <2> QED
      BY <2>1, <2>2
<1>5. UiaPromise
  <2>1. CASE Runs("uia")
      BY <2>1, UiaInvIsPromise DEF UiaPart
  <2>2. CASE ~Runs("uia")
    <3>1. /\ current = None /\ acted = [c \in UiaCalls |-> <<>>]
          /\ \A w \in Threads : thread[w].at = "unborn"
          /\ \A c \in UiaCalls : uiaCall[c].at = "parked"
        BY <2>2 DEF UiaPart, UiaIdle
    <3>2. ActsOnce
        BY <3>1 DEF ActsOnce, Replied
    <3>3. {w \in Threads : thread[w].at # "unborn" /\ ~Ended(w)} = {}
        BY <3>1
    <3>4. Cardinality({}) = 0 /\ 0 <= MAX_STUCK_WORKERS
        BY FS_EmptySet, UiaAssumption
    <3>5. ThreadsApart
        BY <3>1, <3>3, <3>4 DEF ThreadsApart
    <3> QED
        BY <3>2, <3>5 DEF UiaPromise
  <2> QED
      BY <2>1, <2>2
<1> QED
    BY <1>1, <1>2, <1>3, <1>4, <1>5

LEMMA MachineAlways == MachineSpec => []MachineInv
<1>1. MachineInit => MachineInv
    BY PartsBegin
<1>2. MachineInv /\ [MachineNext]_machineVars => MachineInv'
    BY PartsStep
<1> QED
    BY <1>1, <1>2, PTL DEF MachineSpec

\* The machine server as it runs, each part at work or at rest and a step of one leaving the others alone: no
\* part's state ever holds a value the code could not give it.
THEOREM MachineTyped == MachineSpec => []MachineTypeOK
<1>1. MachineInv => MachineTypeOK
    BY MachineFits
<1> QED
    BY MachineAlways, <1>1, PTL

\* Nothing asked for or found is lost on its way (scroll.py, typing_input.py, element_tree.py, marks.py): a wheel is
\* planned whole on every system and a text where typing_input.py plans it, and what the walk and the marks leave out
\* they say, but for elements that can have no ref.
THEOREM NothingIsLost == MachineSpec => []NothingLost
<1>1. MachineInv => NothingLost
    BY MachineFits
<1> QED
    BY MachineAlways, <1>1, PTL

\* The parts keep their promises beside each other: what the theorems about each part by itself say holds of the
\* machine server they make up.
THEOREM MachineCorrect ==
  MachineSpec => [](AttemptsCounted /\ StaleSessionHeals /\ TokensProven /\ ShellNeverOpen /\ PointsLand
                    /\ InputAccounted /\ ElementActs /\ UiaPromise)
<1>1. MachineInv => AttemptsCounted /\ StaleSessionHeals /\ TokensProven /\ ShellNeverOpen /\ PointsLand
                    /\ InputAccounted /\ ElementActs /\ UiaPromise
    BY MachineSafe
<1> QED
    BY MachineAlways, <1>1, PTL
=============================================================================
