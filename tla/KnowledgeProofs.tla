------------------------------ MODULE KnowledgeProofs ------------------------------
(***************************************************************************)
(* The knowledge document implements the map of sections, for any          *)
(* template, texts, titles, agents, operators and number of calls.         *)
(*                                                                         *)
(* A document that was composed is taken apart into the sections it was    *)
(* composed of: the lines of a section, taken one by one after those of    *)
(* the sections before it, add that section.  So a text that is changed in *)
(* one section, put together and taken apart again is changed in that      *)
(* section only; and what a writer changes is the document, because it     *)
(* holds the lock since it has read.                                       *)
(*                                                                         *)
(* With this, all variables of the components of MCRecords keep their      *)
(* types.                                                                  *)
(***************************************************************************)
EXTENDS MCRecords, RecordsProofs, TicketIngestProofs, FunctionTheorems

(***************************************************************************)
(* The knowledge document                                                  *)
(***************************************************************************)

\* A set of naturals that is not empty has a least element.
LEMMA LeastExists ==
    ASSUME NEW S, S \subseteq Nat, S # {}
    PROVE  \E n \in S : \A m \in S : n <= m
<1>1. PICK n \in S : \A m \in S : ~ (<<m, n>> \in OpToRel(<, Nat))
  BY NatLessThanWellFounded, WFMin
<1>2. \A m \in S : n <= m
  <2> TAKE m \in S
  <2>1. ~ (<<m, n>> \in OpToRel(<, Nat))
    BY <1>1
  <2>2. m \in Nat /\ n \in Nat
    OBVIOUS
  <2> QED BY <2>1, <2>2 DEF OpToRel
<1> QED BY <1>2

-----------------------------------------------------------------------------
(* Texts, line by line *)

\* f is what becomes of a text, line by line, up to the n-th.
FoldOf(f, text, lines, n) ==
    f = [k \in 0 .. n |-> IF k = 0 THEN text ELSE TakeLine(f[k - 1], lines[k])]

\* What becomes of a text when the lines are added.
Folded(text, lines) == (CHOOSE f : FoldOf(f, text, lines, Len(lines)))[Len(lines)]

\* Step by step.
LEMMA FoldSteps ==
    ASSUME NEW f, NEW text, NEW lines, Len(lines) \in Nat, FoldOf(f, text, lines, Len(lines))
    PROVE  /\ f[0] = text
           /\ \A n \in 1 .. Len(lines) : f[n] = TakeLine(f[n - 1], lines[n])
<1> DEFINE next(n) == IF n = 0 THEN text ELSE TakeLine(f[n - 1], lines[n])
<1>1. f = [n \in 0 .. Len(lines) |-> next(n)]
  BY DEF FoldOf
<1>2. \A n \in 0 .. Len(lines) : f[n] = next(n)
  <2> HIDE DEF next
  <2> QED BY <1>1
<1>3. 0 \in 0 .. Len(lines) /\ \A n \in 1 .. Len(lines) : n \in 0 .. Len(lines) /\ n # 0
  OBVIOUS
<1> QED BY <1>2, <1>3

\* There is such a function for the first lines, however many.
LEMMA FoldExists ==
    ASSUME NEW text, NEW lines, NEW n \in Nat
    PROVE  \E f : FoldOf(f, text, lines, n)
<1> DEFINE Is(f, m) == f = [k \in 0 .. m |-> IF k = 0 THEN text ELSE TakeLine(f[k - 1], lines[k])]
           T == {m \in Nat : ~ \E f : Is(f, m)}
<1>1. SUFFICES ASSUME T # {} PROVE FALSE
  BY DEF FoldOf
<1>2. PICK m \in T : \A k \in T : m <= k
  <2>1. T \subseteq Nat
    OBVIOUS
  <2> HIDE DEF T
  <2> QED BY <1>1, <2>1, LeastExists
<1>3. m \in Nat /\ ~ \E f : Is(f, m)
  OBVIOUS
<1>4. CASE m = 0
  <2> DEFINE g == [k \in 0 .. m |-> text]
  <2>1. \A k \in 0 .. m : k = 0
    BY <1>4
  <2>2. Is(g, m)
    BY <2>1
  <2> QED BY <1>3, <2>2
<1>5. CASE m > 0
  <2>1. m - 1 \in Nat /\ ~ (m <= m - 1)
    BY <1>3, <1>5
  <2>2. m - 1 \notin T
    BY <1>2, <2>1
  <2>3. PICK f : Is(f, m - 1)
    BY <2>1, <2>2
  <2> DEFINE last == TakeLine(f[m - 1], lines[m])
             old(k) == IF k = 0 THEN text ELSE TakeLine(f[k - 1], lines[k])
             g == [k \in 0 .. m |-> IF k = m THEN last ELSE f[k]]
             next(k) == IF k = 0 THEN text ELSE TakeLine(g[k - 1], lines[k])
  <2>4. \A k \in 0 .. m - 1 : g[k] = f[k]
    <3> HIDE DEF last
    <3> QED BY <1>3
  <2>5. \A k \in 0 .. m : g[k] = next(k)
    <3> TAKE k \in 0 .. m
    <3>1. CASE k = m
      <4>1. g[k] = last /\ k # 0
        <5> HIDE DEF last
        <5> QED BY <1>3, <1>5, <3>1
      <4>2. g[m - 1] = f[m - 1]
        <5>1. m - 1 \in 0 .. m - 1
          BY <1>3, <1>5
        <5> HIDE DEF g
        <5> QED BY <5>1, <2>4
      <4> HIDE DEF g
      <4> QED BY <3>1, <4>1, <4>2
    <3>2. CASE k # m
      <4>1. k \in 0 .. m - 1
        BY <1>3, <3>2
      <4>2. f[k] = old(k)
        <5>1. f = [j \in 0 .. m - 1 |-> old(j)]
          BY <2>3
        <5> HIDE DEF old
        <5> QED BY <4>1, <5>1
      <4>3. k # 0 => k - 1 \in 0 .. m - 1
        BY <1>3, <4>1
      <4>4. k # 0 => g[k - 1] = f[k - 1]
        <5> HIDE DEF g
        <5> QED BY <2>4, <4>3
      <4>5. g[k] = f[k]
        <5> HIDE DEF g
        <5> QED BY <2>4, <4>1
      <4> HIDE DEF g
      <4> QED BY <4>2, <4>4, <4>5
    <3> QED BY <3>1, <3>2
  <2>6. g = [k \in 0 .. m |-> g[k]]
    OBVIOUS
  <2>7. g = [k \in 0 .. m |-> next(k)]
    <3> HIDE DEF g, next
    <3> QED BY <2>5, <2>6
  <2>8. Is(g, m)
    <3> HIDE DEF g
    <3> QED BY <2>7
  <2> HIDE DEF g, Is
  <2> QED BY <1>3, <2>8
<1> QED BY <1>3, <1>4, <1>5

\* A function that begins with the text and takes the lines one by one ends with
\* what becomes of the text.
LEMMA FoldIs ==
    ASSUME NEW text, NEW lines, Len(lines) \in Nat, NEW f,
           f[0] = text, \A n \in 1 .. Len(lines) : f[n] = TakeLine(f[n - 1], lines[n])
    PROVE  Folded(text, lines) = f[Len(lines)]
<1> DEFINE g == CHOOSE h : FoldOf(h, text, lines, Len(lines))
<1>1. FoldOf(g, text, lines, Len(lines))
  BY FoldExists
<1>2. /\ g[0] = text
      /\ \A n \in 1 .. Len(lines) : g[n] = TakeLine(g[n - 1], lines[n])
  <2> HIDE DEF g
  <2> QED BY <1>1, FoldSteps
<1> HIDE DEF g
<1> DEFINE T == {n \in 0 .. Len(lines) : f[n] # g[n]}
<1>3. T = {}
  <2>1. SUFFICES ASSUME T # {} PROVE FALSE
    OBVIOUS
  <2>2. PICK m \in T : \A k \in T : m <= k
    <3>1. T \subseteq Nat
      OBVIOUS
    <3> HIDE DEF T
    <3> QED BY <2>1, <3>1, LeastExists
  <2>3. m \in 0 .. Len(lines) /\ f[m] # g[m] /\ m # 0
    BY <1>2
  <2>4. m - 1 \in 0 .. Len(lines) /\ ~ (m <= m - 1) /\ m \in 1 .. Len(lines)
    BY <2>3
  <2>5. f[m - 1] = g[m - 1]
    <3>1. m - 1 \notin T
      BY <2>2, <2>4
    <3> QED BY <2>4, <3>1
  <2>6. f[m] = TakeLine(f[m - 1], lines[m]) /\ g[m] = TakeLine(g[m - 1], lines[m])
    BY <1>2, <2>4
  <2> QED BY <2>3, <2>5, <2>6
<1>4. f[Len(lines)] = g[Len(lines)]
  <2>1. Len(lines) \in 0 .. Len(lines)
    OBVIOUS
  <2> QED BY <1>3, <2>1
<1>5. Folded(text, lines) = g[Len(lines)]
  BY DEF Folded, g
<1> QED BY <1>4, <1>5

\* There is one.
LEMMA FoldHas ==
    ASSUME NEW text, NEW lines, Len(lines) \in Nat
    PROVE  \E f : /\ f[0] = text /\ \A n \in 1 .. Len(lines) : f[n] = TakeLine(f[n - 1], lines[n])
                  /\ Folded(text, lines) = f[Len(lines)]
<1>1. PICK f : FoldOf(f, text, lines, Len(lines))
  BY FoldExists
<1>2. f[0] = text /\ \A n \in 1 .. Len(lines) : f[n] = TakeLine(f[n - 1], lines[n])
  BY <1>1, FoldSteps
<1>3. Folded(text, lines) = f[Len(lines)]
  BY <1>2, FoldIs
<1> QED BY <1>2, <1>3

\* No line changes nothing.
LEMMA FoldNone == ASSUME NEW text PROVE Folded(text, <<>>) = text
<1>1. Len(<<>>) = 0
  OBVIOUS
<1> QED BY <1>1, FoldHas

\* Some lines, and then others.
LEMMA FoldConcat ==
    ASSUME NEW X, NEW L \in Seq(X), NEW M \in Seq(X), NEW text
    PROVE  Folded(text, L \o M) = Folded(Folded(text, L), M)
<1>1. /\ Len(L) \in Nat /\ Len(M) \in Nat /\ Len(L \o M) = Len(L) + Len(M)
      /\ \A n \in 1 .. Len(L) : (L \o M)[n] = L[n]
      /\ \A n \in Len(L) + 1 .. Len(L) + Len(M) : (L \o M)[n] = M[n - Len(L)]
  OBVIOUS
<1>2. PICK f : /\ f[0] = text /\ \A n \in 1 .. Len(L) : f[n] = TakeLine(f[n - 1], L[n])
               /\ Folded(text, L) = f[Len(L)]
  BY <1>1, FoldHas
<1>3. PICK g : /\ g[0] = f[Len(L)] /\ \A n \in 1 .. Len(M) : g[n] = TakeLine(g[n - 1], M[n])
               /\ Folded(f[Len(L)], M) = g[Len(M)]
  BY <1>1, FoldHas
<1> DEFINE h == [n \in 0 .. Len(L) + Len(M) |-> IF n <= Len(L) THEN f[n] ELSE g[n - Len(L)]]
<1>4. h[0] = text
  BY <1>1, <1>2
<1>5. ASSUME NEW n \in 1 .. Len(L \o M) PROVE h[n] = TakeLine(h[n - 1], (L \o M)[n])
  <2>1. n \in 0 .. Len(L) + Len(M) /\ n - 1 \in 0 .. Len(L) + Len(M) /\ n \in Nat
    BY <1>1
  <2>2. CASE n <= Len(L)
    <3>1. n \in 1 .. Len(L) /\ n - 1 <= Len(L)
      BY <1>1, <2>1, <2>2
    <3>2. h[n] = f[n] /\ h[n - 1] = f[n - 1]
      BY <2>1, <2>2, <3>1
    <3> HIDE DEF h
    <3> QED BY <1>1, <1>2, <3>1, <3>2
  <2>3. CASE ~ (n <= Len(L))
    <3>1. n - Len(L) \in 1 .. Len(M) /\ n \in Len(L) + 1 .. Len(L) + Len(M)
          /\ n - Len(L) - 1 = n - 1 - Len(L)
      BY <1>1, <2>1, <2>3
    <3>2. h[n] = g[n - Len(L)]
      BY <2>1, <2>3
    <3>3. h[n - 1] = g[n - 1 - Len(L)]
      <4>1. CASE n - 1 <= Len(L)
        <5>1. n - 1 = Len(L) /\ n - 1 - Len(L) = 0
          BY <1>1, <2>1, <2>3, <4>1
        <5>2. h[n - 1] = f[Len(L)]
          BY <2>1, <5>1
        <5> HIDE DEF h
        <5> QED BY <1>3, <5>1, <5>2
      <4>2. CASE ~ (n - 1 <= Len(L))
        BY <2>1, <4>2
      <4> QED BY <4>1, <4>2
    <3>4. g[n - Len(L)] = TakeLine(g[n - Len(L) - 1], M[n - Len(L)])
      BY <1>3, <3>1
    <3>5. (L \o M)[n] = M[n - Len(L)]
      BY <1>1, <3>1
    <3> HIDE DEF h
    <3> QED BY <3>1, <3>2, <3>3, <3>4, <3>5
  <2> QED BY <2>2, <2>3
<1>6. h[Len(L \o M)] = g[Len(M)]
  <2>1. CASE Len(M) = 0
    BY <1>1, <1>3, <2>1
  <2>2. CASE Len(M) > 0
    <3>1. ~ (Len(L) + Len(M) <= Len(L)) /\ Len(L) + Len(M) - Len(L) = Len(M) /\ Len(L) + Len(M) \in 0 .. Len(L) + Len(M)
      BY <1>1, <2>2
    <3> QED BY <1>1, <3>1
  <2> QED BY <1>1, <2>1, <2>2
<1>7. Folded(text, L \o M) = h[Len(L \o M)]
  <2>1. Len(L \o M) \in Nat
    BY <1>1
  <2> HIDE DEF h
  <2> QED BY <1>4, <1>5, <2>1, FoldIs
<1> HIDE DEF h
<1> QED BY <1>2, <1>3, <1>6, <1>7

\* f joins the first n of the sequences, one after the other.
JoinOf(f, ss, n) == f = [i \in 1 .. n |-> IF i = 1 THEN ss[i] ELSE f[i - 1] \o ss[i]]

\* There is such a function, however many there are.
LEMMA JoinExists ==
    ASSUME NEW ss, NEW n \in Nat
    PROVE  \E f : JoinOf(f, ss, n)
<1> DEFINE Is(f, m) == f = [i \in 1 .. m |-> IF i = 1 THEN ss[i] ELSE f[i - 1] \o ss[i]]
           T == {m \in Nat : ~ \E f : Is(f, m)}
<1>1. SUFFICES ASSUME T # {} PROVE FALSE
  BY DEF JoinOf
<1>2. PICK m \in T : \A k \in T : m <= k
  <2>1. T \subseteq Nat
    OBVIOUS
  <2> HIDE DEF T
  <2> QED BY <1>1, <2>1, LeastExists
<1>3. m \in Nat /\ ~ \E f : Is(f, m)
  OBVIOUS
<1>4. CASE m = 0
  <2> DEFINE g == [i \in 1 .. m |-> ss]
  <2>1. 1 .. m = {}
    BY <1>4
  <2>2. Is(g, m)
    BY <2>1
  <2> QED BY <1>3, <2>2
<1>5. CASE m > 0
  <2>1. m - 1 \in Nat /\ ~ (m <= m - 1)
    BY <1>3, <1>5
  <2>2. m - 1 \notin T
    BY <1>2, <2>1
  <2>3. PICK f : Is(f, m - 1)
    BY <2>1, <2>2
  <2> DEFINE last == IF m = 1 THEN ss[m] ELSE f[m - 1] \o ss[m]
             old(i) == IF i = 1 THEN ss[i] ELSE f[i - 1] \o ss[i]
             g == [i \in 1 .. m |-> IF i = m THEN last ELSE f[i]]
             next(i) == IF i = 1 THEN ss[i] ELSE g[i - 1] \o ss[i]
  <2>4. \A i \in 1 .. m - 1 : g[i] = f[i]
    <3> HIDE DEF last
    <3> QED BY <1>3
  <2>5. \A i \in 1 .. m : g[i] = next(i)
    <3> TAKE i \in 1 .. m
    <3>1. CASE i = m
      <4>1. g[i] = last
        <5> HIDE DEF last
        <5> QED BY <1>3, <1>5, <3>1
      <4>2. m # 1 => g[m - 1] = f[m - 1]
        <5>1. m # 1 => m - 1 \in 1 .. m - 1
          BY <1>3, <1>5
        <5> HIDE DEF g
        <5> QED BY <5>1, <2>4
      <4> HIDE DEF g
      <4> QED BY <3>1, <4>1, <4>2
    <3>2. CASE i # m
      <4>1. i \in 1 .. m - 1
        BY <1>3, <3>2
      <4>2. f[i] = old(i)
        <5>1. f = [j \in 1 .. m - 1 |-> old(j)]
          BY <2>3
        <5> HIDE DEF old
        <5> QED BY <4>1, <5>1
      <4>3. i # 1 => i - 1 \in 1 .. m - 1
        BY <1>3, <4>1
      <4>4. i # 1 => g[i - 1] = f[i - 1]
        <5> HIDE DEF g
        <5> QED BY <2>4, <4>3
      <4>5. g[i] = f[i]
        <5> HIDE DEF g
        <5> QED BY <2>4, <4>1
      <4> HIDE DEF g
      <4> QED BY <4>2, <4>4, <4>5
    <3> QED BY <3>1, <3>2
  <2>6. g = [i \in 1 .. m |-> g[i]]
    OBVIOUS
  <2>7. g = [i \in 1 .. m |-> next(i)]
    <3> HIDE DEF g, next
    <3> QED BY <2>5, <2>6
  <2>8. Is(g, m)
    <3> HIDE DEF g
    <3> QED BY <2>7
  <2> HIDE DEF g, Is
  <2> QED BY <1>3, <2>8
<1> QED BY <1>3, <1>4, <1>5

\* What FlattenSeq does, one sequence at a time.
LEMMA FlattenHas ==
    ASSUME NEW ss, Len(ss) \in Nat, Len(ss) # 0
    PROVE  \E f : /\ f[1] = ss[1] /\ \A i \in 2 .. Len(ss) : f[i] = f[i - 1] \o ss[i]
                  /\ FlattenSeq(ss) = f[Len(ss)]
<1> DEFINE f == CHOOSE g : JoinOf(g, ss, Len(ss))
           next(i) == IF i = 1 THEN ss[i] ELSE f[i - 1] \o ss[i]
<1>1. JoinOf(f, ss, Len(ss))
  BY JoinExists
<1>2. f = [i \in 1 .. Len(ss) |-> next(i)]
  <2> HIDE DEF f
  <2> QED BY <1>1 DEF JoinOf
<1>3. FlattenSeq(ss) = f[Len(ss)]
  BY DEF FlattenSeq, JoinOf
<1>4. \A i \in 1 .. Len(ss) : f[i] = next(i)
  <2> HIDE DEF f, next
  <2> QED BY <1>2
<1>5. 1 \in 1 .. Len(ss) /\ \A i \in 2 .. Len(ss) : i \in 1 .. Len(ss) /\ i # 1
  OBVIOUS
<1> HIDE DEF f
<1> QED BY <1>3, <1>4, <1>5

\* A text that is in some set, and stays in it whichever of the sequences is
\* added, is in it when all are added.
LEMMA FlattenStays ==
    ASSUME NEW X, NEW ss \in Seq(Seq(X)), NEW I, NEW text \in I,
           \A u \in I : \A i \in 1 .. Len(ss) : Folded(u, ss[i]) \in I
    PROVE  Folded(text, FlattenSeq(ss)) \in I /\ FlattenSeq(ss) \in Seq(X)
<1>1. Len(ss) \in Nat /\ \A i \in 1 .. Len(ss) : ss[i] \in Seq(X)
  OBVIOUS
<1>2. CASE Len(ss) = 0
  <2>1. ss = <<>> /\ FlattenSeq(ss) = <<>>
    BY <1>2 DEF FlattenSeq
  <2>2. Folded(text, <<>>) = text
    BY FoldNone
  <2>3. FlattenSeq(ss) \in Seq(X)
    <3>1. <<>> \in Seq(X)
      OBVIOUS
    <3> QED BY <2>1, <3>1
  <2> QED BY <2>1, <2>2, <2>3
<1>3. CASE Len(ss) # 0
  <2>1. PICK f : /\ f[1] = ss[1] /\ \A i \in 2 .. Len(ss) : f[i] = f[i - 1] \o ss[i]
                 /\ FlattenSeq(ss) = f[Len(ss)]
    BY <1>1, <1>3, FlattenHas
  <2> DEFINE ok(i) == f[i] \in Seq(X) /\ Folded(text, f[i]) \in I
             T == {i \in 1 .. Len(ss) : ~ ok(i)}
  <2>2. T = {}
    <3>1. SUFFICES ASSUME T # {} PROVE FALSE
      OBVIOUS
    <3>2. PICK m \in T : \A k \in T : m <= k
      <4>1. T \subseteq Nat
        OBVIOUS
      <4> HIDE DEF T
      <4> QED BY <3>1, <4>1, LeastExists
    <3>3. m \in 1 .. Len(ss) /\ ~ ok(m)
      OBVIOUS
    <3>4. m # 1
      <4>1. ok(1)
        <5>1. 1 \in 1 .. Len(ss)
          BY <1>1, <1>3
        <5> QED BY <1>1, <2>1, <5>1
      <4> HIDE DEF ok
      <4> QED BY <3>3, <4>1
    <3>5. m - 1 \in 1 .. Len(ss) /\ ~ (m <= m - 1) /\ m \in 2 .. Len(ss)
      BY <1>1, <3>3, <3>4
    <3>6. ok(m - 1)
      <4>1. m - 1 \notin T
        BY <3>2, <3>5
      <4> HIDE DEF ok
      <4> QED BY <3>5, <4>1
    <3>7. f[m] = f[m - 1] \o ss[m] /\ ss[m] \in Seq(X)
      BY <1>1, <2>1, <3>3, <3>5
    <3>8. Folded(text, f[m]) = Folded(Folded(text, f[m - 1]), ss[m])
      BY <3>6, <3>7, FoldConcat
    <3>9. f[m] \in Seq(X)
      BY <3>6, <3>7
    <3> QED BY <3>3, <3>6, <3>8, <3>9
  <2>3. ok(Len(ss))
    <3>1. Len(ss) \in 1 .. Len(ss)
      BY <1>1, <1>3
    <3> HIDE DEF ok
    <3> QED BY <2>2, <3>1
  <2> QED BY <2>1, <2>3
<1> QED BY <1>2, <1>3

\* Sequences of lines, joined, are lines.
LEMMA FlattenJoins ==
    ASSUME NEW X, NEW ss \in Seq(Seq(X))
    PROVE  FlattenSeq(ss) \in Seq(X)
<1> DEFINE I == {NoText} \cup {Folded(NoText, a) : a \in Seq(X)}
<1>1. \A u \in I : \A i \in 1 .. Len(ss) : Folded(u, ss[i]) \in I
  <2> TAKE u \in I
  <2> TAKE i \in 1 .. Len(ss)
  <2>1. ss[i] \in Seq(X)
    OBVIOUS
  <2>2. CASE u = NoText
    BY <2>1, <2>2
  <2>3. CASE u # NoText
    <3>1. PICK a \in Seq(X) : u = Folded(NoText, a)
      BY <2>3
    <3>2. Folded(u, ss[i]) = Folded(NoText, a \o ss[i])
      BY <2>1, <3>1, FoldConcat
    <3>3. a \o ss[i] \in Seq(X)
      BY <2>1
    <3> QED BY <3>2, <3>3
  <2> QED BY <2>2, <2>3
<1>2. NoText \in I
  OBVIOUS
<1> HIDE DEF I
<1> QED BY <1>1, <1>2, FlattenStays

\* A function that begins with a text and adds the sequences one by one ends
\* with what becomes of the text when all are added.
LEMMA FlattenIs ==
    ASSUME NEW X, NEW ss \in Seq(Seq(X)), NEW text, NEW r,
           r[0] = text, \A i \in 1 .. Len(ss) : r[i] = Folded(r[i - 1], ss[i])
    PROVE  Folded(text, FlattenSeq(ss)) = r[Len(ss)]
<1>1. Len(ss) \in Nat /\ \A i \in 1 .. Len(ss) : ss[i] \in Seq(X)
  OBVIOUS
<1>2. CASE Len(ss) = 0
  <2>1. ss = <<>> /\ FlattenSeq(ss) = <<>>
    BY <1>2 DEF FlattenSeq
  <2> QED BY <1>2, <2>1, FoldNone
<1>3. CASE Len(ss) # 0
  <2>1. PICK f : /\ f[1] = ss[1] /\ \A i \in 2 .. Len(ss) : f[i] = f[i - 1] \o ss[i]
                 /\ FlattenSeq(ss) = f[Len(ss)]
    BY <1>1, <1>3, FlattenHas
  <2> DEFINE ok(i) == f[i] \in Seq(X) /\ Folded(text, f[i]) = r[i]
             T == {i \in 1 .. Len(ss) : ~ ok(i)}
  <2>2. T = {}
    <3>1. SUFFICES ASSUME T # {} PROVE FALSE
      OBVIOUS
    <3>2. PICK m \in T : \A k \in T : m <= k
      <4>1. T \subseteq Nat
        OBVIOUS
      <4> HIDE DEF T
      <4> QED BY <3>1, <4>1, LeastExists
    <3>3. m \in 1 .. Len(ss) /\ ~ ok(m)
      OBVIOUS
    <3>4. m # 1
      <4>1. ok(1)
        <5>1. 1 \in 1 .. Len(ss) /\ 1 - 1 = 0
          BY <1>1, <1>3
        <5>2. r[1] = Folded(text, ss[1])
          BY <5>1
        <5> QED BY <1>1, <2>1, <5>1, <5>2
      <4> HIDE DEF ok
      <4> QED BY <3>3, <4>1
    <3>5. m - 1 \in 1 .. Len(ss) /\ ~ (m <= m - 1) /\ m \in 2 .. Len(ss)
      BY <1>1, <3>3, <3>4
    <3>6. ok(m - 1)
      <4>1. m - 1 \notin T
        BY <3>2, <3>5
      <4> HIDE DEF ok
      <4> QED BY <3>5, <4>1
    <3>7. f[m] = f[m - 1] \o ss[m] /\ ss[m] \in Seq(X)
      BY <1>1, <2>1, <3>3, <3>5
    <3>8. Folded(text, f[m]) = Folded(Folded(text, f[m - 1]), ss[m])
      BY <3>6, <3>7, FoldConcat
    <3>9. f[m] \in Seq(X)
      BY <3>6, <3>7
    <3>10. r[m] = Folded(r[m - 1], ss[m])
      BY <3>3
    <3> QED BY <3>3, <3>6, <3>8, <3>9, <3>10
  <2>3. ok(Len(ss))
    <3>1. Len(ss) \in 1 .. Len(ss)
      BY <1>1, <1>3
    <3> HIDE DEF ok
    <3> QED BY <2>2, <3>1
  <2> QED BY <2>1, <2>3
<1> QED BY <1>2, <1>3

-----------------------------------------------------------------------------
(* Sections *)

\* Sections, subsections, and texts of sections only.
Sec(key, content, subs) == [key |-> key, content |-> content, subs |-> subs]
Sub(key, title, content) == [key |-> key, title |-> title, content |-> content]
TextOf(secs) == [buffer |-> <<>>, secs |-> secs]

\* What they hold, and the lines of a text.
Contents == Seq(PlainLines)
Lines == PlainLines \cup {H2(key) : key \in Keys \cup {AnalysisRun}} \cup {H3(title) : title \in SubTitles}
SubTypes == [key : Seq(Nat), title : SubTitles, content : Contents]

\* The keys of subsections are those that their titles get in this order.
Keyed(subs) == \A i \in 1 .. Len(subs) : subs[i].key = Slug(subs[i].title, {subs[j].key : j \in 1 .. i - 1})

\* Sections whose subsections have the keys that parsing gives them.
SectionTypes ==
    {s \in [key : Keys \cup {AnalysisRun}, content : Contents, subs : Seq(SubTypes)] : Keyed(s.subs)}

\* Headings are headings, of either level, and lines that are written are none.
LEMMA KindsOfLines ==
    /\ \A key : IsH2(H2(key)) /\ H2(key).h2 = key
    /\ \A title : ~IsH2(H3(title)) /\ IsH3(H3(title)) /\ H3(title).h3 = title
    /\ \A line \in PlainLines : ~IsH2(line) /\ ~IsH3(line)
<1>1. \A key : IsH2(H2(key)) /\ H2(key).h2 = key
  BY DEF IsH2, H2
<1>2. \A title : ~IsH2(H3(title)) /\ IsH3(H3(title)) /\ H3(title).h3 = title
  BY DEF IsH2, IsH3, H3
<1> QED BY <1>1, <1>2, KnowledgeAssumption

\* The last of a sequence, replaced.
LEMMA LastReplaced ==
    ASSUME NEW X, NEW T \in Seq(X), NEW s, NEW u
    PROVE  /\ Len(Append(T, s)) = Len(T) + 1 /\ Len(Append(T, s)) # 0
           /\ Append(T, s)[Len(Append(T, s))] = s
           /\ [Append(T, s) EXCEPT ![Len(Append(T, s))] = u] = Append(T, u)
<1> DEFINE Y == X \cup {s, u}
           n == Len(T) + 1
<1>1. T \in Seq(Y) /\ s \in Y /\ u \in Y
  OBVIOUS
<1> HIDE DEF Y
<1>2. /\ Append(T, s) \in Seq(Y) /\ Len(Append(T, s)) = n /\ Append(T, s)[n] = s
      /\ \A i \in 1 .. Len(T) : Append(T, s)[i] = T[i]
  BY <1>1
<1>3. /\ Append(T, u) \in Seq(Y) /\ Len(Append(T, u)) = n /\ Append(T, u)[n] = u
      /\ \A i \in 1 .. Len(T) : Append(T, u)[i] = T[i]
  BY <1>1
<1>4. n \in Nat /\ n # 0 /\ \A i \in 1 .. n : i # n => i \in 1 .. Len(T)
  BY <1>1
<1>5. DOMAIN Append(T, s) = 1 .. n /\ DOMAIN Append(T, u) = 1 .. n
  BY <1>2, <1>3
<1>6. Append(T, u) = [i \in 1 .. n |-> Append(T, u)[i]]
  <2>1. PICK a : a = Append(T, u)
    OBVIOUS
  <2>2. a \in Seq(Y) /\ Len(a) = n
    BY <1>3, <2>1
  <2>3. a = [i \in 1 .. n |-> a[i]]
    BY <2>2
  <2> QED BY <2>1, <2>3
<1>7. [Append(T, s) EXCEPT ![n] = u] = [i \in 1 .. n |-> IF i = n THEN u ELSE Append(T, s)[i]]
  BY <1>5
<1>8. \A i \in 1 .. n : Append(T, u)[i] = IF i = n THEN u ELSE Append(T, s)[i]
  BY <1>2, <1>3, <1>4
<1>9. [Append(T, s) EXCEPT ![n] = u] = Append(T, u)
  BY <1>6, <1>7, <1>8
<1> QED BY <1>2, <1>4, <1>9

\* The fields of sections, subsections and texts that are built or changed.
LEMMA SecFields ==
    ASSUME NEW key, NEW content, NEW subs
    PROVE  /\ Sec(key, content, subs).key = key /\ Sec(key, content, subs).content = content
           /\ Sec(key, content, subs).subs = subs
           /\ \A x : /\ [Sec(key, content, subs) EXCEPT !.content = x] = Sec(key, x, subs)
                    /\ [Sec(key, content, subs) EXCEPT !.subs = x] = Sec(key, content, x)
  BY DEF Sec

\* Likewise of a subsection.
LEMMA SubFields ==
    ASSUME NEW key, NEW title, NEW content
    PROVE  /\ Sub(key, title, content).key = key /\ Sub(key, title, content).title = title
           /\ Sub(key, title, content).content = content
           /\ \A x : [Sub(key, title, content) EXCEPT !.content = x] = Sub(key, title, x)
  BY DEF Sub

\* And of a text.
LEMMA TextFields ==
    ASSUME NEW secs
    PROVE  /\ TextOf(secs).secs = secs /\ TextOf(secs).buffer = <<>>
           /\ \A x : [TextOf(secs) EXCEPT !.secs = x] = TextOf(x)
  BY DEF TextOf

\* A heading begins a section.
LEMMA TakesH2 ==
    ASSUME NEW T, NEW key
    PROVE  TakeLine(TextOf(T), H2(key)) = TextOf(Append(T, Sec(key, <<>>, <<>>)))
<1>1. IsH2(H2(key)) /\ H2(key).h2 = key
  BY KindsOfLines
<1>2. [Section(key) EXCEPT !.content = <<>>] = Sec(key, <<>>, <<>>)
  BY DEF Section, Sec
<1>3. TextOf(T).secs = T /\ TextOf(T).buffer = <<>>
  BY TextFields
<1>4. TakeLine(TextOf(T), H2(key))
        = [buffer |-> <<>>, secs |-> Append(T, [Section(key) EXCEPT !.content = <<>>])]
  BY <1>1, <1>3 DEF TakeLine
<1> QED BY <1>2, <1>4 DEF TextOf

\* A line of a section that has no subsection.
LEMMA TakesLine ==
    ASSUME NEW X, NEW T \in Seq(X), NEW key, NEW content, NEW line \in PlainLines
    PROVE  TakeLine(TextOf(Append(T, Sec(key, content, <<>>))), line)
              = TextOf(Append(T, Sec(key, Append(content, line), <<>>)))
<1> DEFINE s == Sec(key, content, <<>>)
           u == Sec(key, Append(content, line), <<>>)
           t == TextOf(Append(T, s))
           n == Len(Append(T, s))
<1>1. ~IsH2(line) /\ ~IsH3(line)
  BY KindsOfLines
<1>2. t.secs = Append(T, s) /\ t.buffer = <<>>
  BY TextFields
<1>3. n # 0 /\ t.secs[n] = s /\ [t.secs EXCEPT ![n] = u] = Append(T, u)
  <2>1. Append(T, s)[n] = s /\ n # 0 /\ [Append(T, s) EXCEPT ![n] = u] = Append(T, u)
    <3> HIDE DEF s, u
    <3> QED BY LastReplaced
  <2> HIDE DEF s, u, t, n
  <2> QED BY <1>2, <2>1
<1>4. Len(s.subs) = 0 /\ u = [s EXCEPT !.content = Append(s.content, line)]
  <2>1. s.subs = <<>> /\ s.content = content
    BY SecFields
  <2>2. u = [s EXCEPT !.content = Append(content, line)]
    <3>1. PICK x : x = Append(content, line)
      OBVIOUS
    <3>2. Sec(key, x, <<>>) = [s EXCEPT !.content = x]
      BY SecFields
    <3> HIDE DEF s
    <3> QED BY <3>1, <3>2
  <2> HIDE DEF s, u
  <2> QED BY <2>1, <2>2
<1>5. TakeLine(t, line) = [t EXCEPT !.secs[n].content = Append(@, line)]
  <2> HIDE DEF s, t
  <2> QED BY <1>1, <1>2, <1>3, <1>4 DEF TakeLine
<1>6. [t EXCEPT !.secs[n].content = Append(@, line)] = [t EXCEPT !.secs = [t.secs EXCEPT ![n] = [t.secs[n] EXCEPT !.content = Append(t.secs[n].content, line)]]]
  OBVIOUS
<1>7. TakeLine(t, line) = [t EXCEPT !.secs = Append(T, u)]
  <2> HIDE DEF s, t, n, u
  <2> QED BY <1>3, <1>4, <1>5, <1>6
<1> QED BY <1>7, TextFields

\* A heading begins a subsection.
LEMMA TakesH3 ==
    ASSUME NEW X, NEW T \in Seq(X), NEW key, NEW content, NEW subs, NEW title
    PROVE  TakeLine(TextOf(Append(T, Sec(key, content, subs))), H3(title))
              = TextOf(Append(T, Sec(key, content, Append(subs, Sub(Slug(title, {subs[i].key : i \in DOMAIN subs}), title, <<>>)))))
<1> DEFINE s == Sec(key, content, subs)
           u == WithSub(s, title, <<>>)
           t == TextOf(Append(T, s))
           n == Len(Append(T, s))
<1>1. ~IsH2(H3(title)) /\ IsH3(H3(title)) /\ H3(title).h3 = title
  BY KindsOfLines
<1>2. t.secs = Append(T, s) /\ t.buffer = <<>>
  BY TextFields
<1>3. n # 0 /\ t.secs[n] = s /\ [t.secs EXCEPT ![n] = u] = Append(T, u)
  BY <1>2, LastReplaced
<1>4. TakeLine(t, H3(title)) = [t EXCEPT !.secs[n] = WithSub(@, title, <<>>)]
  <2> HIDE DEF s, t
  <2> QED BY <1>1, <1>2, <1>3 DEF TakeLine
<1>5. [t EXCEPT !.secs[n] = WithSub(@, title, <<>>)] = [t EXCEPT !.secs = [t.secs EXCEPT ![n] = WithSub(t.secs[n], title, <<>>)]]
  OBVIOUS
<1>6. TakeLine(t, H3(title)) = [t EXCEPT !.secs = Append(T, u)]
  <2> HIDE DEF s, t, n
  <2> QED BY <1>3, <1>4, <1>5
<1>7. u = Sec(key, content, Append(subs, Sub(Slug(title, {subs[i].key : i \in DOMAIN subs}), title, <<>>)))
  <2>1. s.subs = subs
    BY SecFields
  <2>2. SubKeys(s) = {subs[i].key : i \in DOMAIN subs}
    <3> HIDE DEF s
    <3> QED BY <2>1 DEF SubKeys
  <2>3. PICK x : x = Append(subs, Sub(Slug(title, {subs[i].key : i \in DOMAIN subs}), title, <<>>))
    OBVIOUS
  <2>4. u = [s EXCEPT !.subs = x]
    <3> HIDE DEF s
    <3> QED BY <2>1, <2>2, <2>3 DEF WithSub, Sub
  <2>5. [s EXCEPT !.subs = x] = Sec(key, content, x)
    BY SecFields
  <2> HIDE DEF s, u
  <2> QED BY <2>3, <2>4, <2>5
<1> QED BY <1>6, <1>7, TextFields

\* A line of a subsection.
LEMMA TakesSubLine ==
    ASSUME NEW X, NEW T \in Seq(X), NEW Y, NEW B \in Seq(Y), NEW key, NEW content,
           NEW sub, NEW title, NEW lines, NEW line \in PlainLines
    PROVE  TakeLine(TextOf(Append(T, Sec(key, content, Append(B, Sub(sub, title, lines))))), line)
              = TextOf(Append(T, Sec(key, content, Append(B, Sub(sub, title, Append(lines, line))))))
<1> DEFINE b == Sub(sub, title, lines)
           c == Sub(sub, title, Append(lines, line))
           s == Sec(key, content, Append(B, b))
           u == Sec(key, content, Append(B, c))
           t == TextOf(Append(T, s))
           n == Len(Append(T, s))
           m == Len(Append(B, b))
<1>1. ~IsH2(line) /\ ~IsH3(line)
  BY KindsOfLines
<1>2. t.secs = Append(T, s) /\ t.buffer = <<>> /\ s.subs = Append(B, b)
  <2>1. t.secs = Append(T, s) /\ t.buffer = <<>>
    BY TextFields
  <2>2. s.subs = Append(B, b)
    <3>1. PICK x : x = Append(B, b)
      OBVIOUS
    <3>2. Sec(key, content, x).subs = x
      BY SecFields
    <3> HIDE DEF b
    <3> QED BY <3>1, <3>2
  <2> QED BY <2>1, <2>2
<1>3. n # 0 /\ t.secs[n] = s /\ [t.secs EXCEPT ![n] = u] = Append(T, u)
  BY <1>2, LastReplaced
<1>4. m = Len(B) + 1 /\ m > 0 /\ s.subs[m] = b /\ [s.subs EXCEPT ![m] = c] = Append(B, c)
  <2>1. Len(B) \in Nat
    OBVIOUS
  <2>2. m = Len(B) + 1 /\ s.subs[m] = b /\ [s.subs EXCEPT ![m] = c] = Append(B, c)
    BY <1>2, LastReplaced
  <2> QED BY <2>1, <2>2
<1>5. c = [b EXCEPT !.content = Append(b.content, line)] /\ u = [s EXCEPT !.subs = Append(B, c)]
  <2>1. b.content = lines /\ c = [b EXCEPT !.content = Append(lines, line)]
    <3>1. PICK x : x = Append(lines, line)
      OBVIOUS
    <3>2. b.content = lines /\ Sub(sub, title, x) = [b EXCEPT !.content = x]
      BY SubFields
    <3> HIDE DEF b
    <3> QED BY <3>1, <3>2
  <2>2. u = [s EXCEPT !.subs = Append(B, c)]
    <3>1. PICK x, y : x = Append(B, b) /\ y = Append(B, c)
      OBVIOUS
    <3>2. Sec(key, content, y) = [Sec(key, content, x) EXCEPT !.subs = y]
      BY SecFields
    <3> HIDE DEF b, c
    <3> QED BY <3>1, <3>2
  <2> HIDE DEF s, u, b, c
  <2> QED BY <2>1, <2>2
<1>6. TakeLine(t, line) = [t EXCEPT !.secs[n].subs[m].content = Append(@, line)]
  <2> HIDE DEF s, t, b
  <2> QED BY <1>1, <1>2, <1>3, <1>4 DEF TakeLine
<1>7. [t EXCEPT !.secs[n].subs[m].content = Append(@, line)]
        = [t EXCEPT !.secs = [t.secs EXCEPT ![n] = [t.secs[n] EXCEPT !.subs =
             [t.secs[n].subs EXCEPT ![m] = [t.secs[n].subs[m] EXCEPT !.content = Append(t.secs[n].subs[m].content, line)]]]]]
  OBVIOUS
<1>8. TakeLine(t, line) = [t EXCEPT !.secs = Append(T, u)]
  <2> HIDE DEF s, t, n, u, b, c, m
  <2> QED BY <1>3, <1>4, <1>5, <1>6, <1>7
<1> QED BY <1>8, TextFields

\* The beginnings of a sequence, one element after the other.
LEMMA Beginnings ==
    ASSUME NEW X, NEW C \in Seq(X)
    PROVE  /\ SubSeq(C, 1, 0) = <<>> /\ SubSeq(C, 1, Len(C)) = C
           /\ \A n \in 1 .. Len(C) : SubSeq(C, 1, n) = Append(SubSeq(C, 1, n - 1), C[n])
           /\ \A n \in 0 .. Len(C) : SubSeq(C, 1, n) \in Seq(X) /\ Len(SubSeq(C, 1, n)) = n
           /\ \A n \in 0 .. Len(C) : \A i \in 1 .. n : SubSeq(C, 1, n)[i] = C[i]
<1>1. Len(C) \in Nat /\ \A i \in 1 .. Len(C) : C[i] \in X
  OBVIOUS
<1>2. SubSeq(C, 1, 0) = <<>>
  OBVIOUS
<1>3. \A n \in 0 .. Len(C) : SubSeq(C, 1, n) \in Seq(X) /\ Len(SubSeq(C, 1, n)) = n
  <2> TAKE n \in 0 .. Len(C)
  <2>1. \A i \in 1 .. n : C[i] \in X
    BY <1>1
  <2>2. n \in Nat
    OBVIOUS
  <2> QED BY <1>1, <2>1, <2>2
<1>4. \A n \in 0 .. Len(C) : \A i \in 1 .. n : SubSeq(C, 1, n)[i] = C[i]
  BY <1>1
<1>5. SubSeq(C, 1, Len(C)) = C
  <2>1. PICK a : a = SubSeq(C, 1, Len(C))
    OBVIOUS
  <2>2. a \in Seq(X) /\ Len(a) = Len(C) /\ \A i \in 1 .. Len(C) : a[i] = C[i]
    BY <1>1, <1>3, <1>4, <2>1
  <2>3. a = C
    BY <2>2, SeqEqual
  <2> QED BY <2>1, <2>3
<1>6. ASSUME NEW n \in 1 .. Len(C) PROVE SubSeq(C, 1, n) = Append(SubSeq(C, 1, n - 1), C[n])
  <2>1. PICK a, b : a = SubSeq(C, 1, n) /\ b = SubSeq(C, 1, n - 1)
    OBVIOUS
  <2>2. a \in Seq(X) /\ Len(a) = n /\ \A i \in 1 .. n : a[i] = C[i]
    BY <1>1, <1>3, <1>4, <2>1
  <2>3. b \in Seq(X) /\ Len(b) = n - 1 /\ \A i \in 1 .. n - 1 : b[i] = C[i]
    <3>1. n - 1 \in 0 .. Len(C)
      BY <1>1
    <3> QED BY <1>3, <1>4, <2>1, <3>1
  <2>4. C[n] \in X
    BY <1>1
  <2>5. PICK c : c = Append(b, C[n])
    OBVIOUS
  <2>6. c \in Seq(X) /\ Len(c) = n /\ \A i \in 1 .. n : c[i] = C[i]
    BY <2>3, <2>4, <2>5
  <2>7. a = c
    BY <2>2, <2>6, SeqEqual
  <2> QED BY <2>1, <2>5, <2>7
<1> QED BY <1>2, <1>3, <1>4, <1>5, <1>6

\* The content of a section, line by line.
LEMMA FoldsContent ==
    ASSUME NEW X, NEW T \in Seq(X), NEW key, NEW C \in Contents
    PROVE  Folded(TextOf(Append(T, Sec(key, <<>>, <<>>))), C) = TextOf(Append(T, Sec(key, C, <<>>)))
<1> DEFINE is(c) == TextOf(Append(T, Sec(key, c, <<>>)))
           f == [n \in 0 .. Len(C) |-> is(SubSeq(C, 1, n))]
<1>1. Len(C) \in Nat /\ \A n \in 1 .. Len(C) : C[n] \in PlainLines
  BY DEF Contents
<1>2. /\ SubSeq(C, 1, 0) = <<>> /\ SubSeq(C, 1, Len(C)) = C
      /\ \A n \in 1 .. Len(C) : SubSeq(C, 1, n) = Append(SubSeq(C, 1, n - 1), C[n])
  BY Beginnings DEF Contents
<1>3. \A c : \A line \in PlainLines : TakeLine(is(c), line) = is(Append(c, line))
  BY TakesLine
<1>4. f[0] = is(<<>>) /\ f[Len(C)] = is(C)
  <2>1. 0 \in 0 .. Len(C) /\ Len(C) \in 0 .. Len(C)
    BY <1>1
  <2> HIDE DEF is
  <2> QED BY <1>2, <2>1
<1>5. ASSUME NEW n \in 1 .. Len(C) PROVE f[n] = TakeLine(f[n - 1], C[n])
  <2>1. n \in 0 .. Len(C) /\ n - 1 \in 0 .. Len(C)
    BY <1>1
  <2>2. f[n] = is(Append(SubSeq(C, 1, n - 1), C[n])) /\ f[n - 1] = is(SubSeq(C, 1, n - 1))
    <3> HIDE DEF is
    <3> QED BY <1>2, <2>1
  <2> HIDE DEF is, f
  <2> QED BY <1>1, <1>3, <2>2
<1>6. Folded(is(<<>>), C) = f[Len(C)]
  <2> HIDE DEF is, f
  <2> QED BY <1>1, <1>4, <1>5, FoldIs
<1> HIDE DEF f
<1> QED BY <1>4, <1>6

\* The content of a subsection, line by line.
LEMMA FoldsSubContent ==
    ASSUME NEW X, NEW T \in Seq(X), NEW Y, NEW B \in Seq(Y), NEW key, NEW content,
           NEW sub, NEW title, NEW C \in Contents
    PROVE  Folded(TextOf(Append(T, Sec(key, content, Append(B, Sub(sub, title, <<>>))))), C)
              = TextOf(Append(T, Sec(key, content, Append(B, Sub(sub, title, C)))))
<1> DEFINE is(c) == TextOf(Append(T, Sec(key, content, Append(B, Sub(sub, title, c)))))
           f == [n \in 0 .. Len(C) |-> is(SubSeq(C, 1, n))]
<1>1. Len(C) \in Nat /\ \A n \in 1 .. Len(C) : C[n] \in PlainLines
  BY DEF Contents
<1>2. /\ SubSeq(C, 1, 0) = <<>> /\ SubSeq(C, 1, Len(C)) = C
      /\ \A n \in 1 .. Len(C) : SubSeq(C, 1, n) = Append(SubSeq(C, 1, n - 1), C[n])
  BY Beginnings DEF Contents
<1>3. \A c : \A line \in PlainLines : TakeLine(is(c), line) = is(Append(c, line))
  BY TakesSubLine
<1>4. f[0] = is(<<>>) /\ f[Len(C)] = is(C)
  <2>1. 0 \in 0 .. Len(C) /\ Len(C) \in 0 .. Len(C)
    BY <1>1
  <2> HIDE DEF is
  <2> QED BY <1>2, <2>1
<1>5. ASSUME NEW n \in 1 .. Len(C) PROVE f[n] = TakeLine(f[n - 1], C[n])
  <2>1. n \in 0 .. Len(C) /\ n - 1 \in 0 .. Len(C)
    BY <1>1
  <2>2. f[n] = is(Append(SubSeq(C, 1, n - 1), C[n])) /\ f[n - 1] = is(SubSeq(C, 1, n - 1))
    <3> HIDE DEF is
    <3> QED BY <1>2, <2>1
  <2> HIDE DEF is, f
  <2> QED BY <1>1, <1>3, <2>2
<1>6. Folded(is(<<>>), C) = f[Len(C)]
  <2> HIDE DEF is, f
  <2> QED BY <1>1, <1>4, <1>5, FoldIs
<1> HIDE DEF f
<1> QED BY <1>4, <1>6

\* The lines of a subsection, as SectionLines has them.
SubLines(b) == <<H3(b.title)>> \o b.content

\* One line is added as TakeLine does.
LEMMA FoldOne == ASSUME NEW text, NEW line PROVE Folded(text, <<line>>) = TakeLine(text, line)
<1> DEFINE f == [n \in 0 .. 1 |-> IF n = 0 THEN text ELSE TakeLine(text, line)]
<1>1. Len(<<line>>) = 1 /\ <<line>>[1] = line
  OBVIOUS
<1>2. f[0] = text /\ f[1] = TakeLine(text, line)
  OBVIOUS
<1>3. ASSUME NEW n \in 1 .. Len(<<line>>) PROVE f[n] = TakeLine(f[n - 1], <<line>>[n])
  <2>1. n = 1 /\ n - 1 = 0
    BY <1>1
  <2> HIDE DEF f
  <2> QED BY <1>1, <1>2, <2>1
<1>4. Len(<<line>>) \in Nat
  BY <1>1
<1>5. Folded(text, <<line>>) = f[Len(<<line>>)]
  <2> HIDE DEF f
  <2> QED BY <1>2, <1>3, <1>4, FoldIs
<1> HIDE DEF f
<1> QED BY <1>1, <1>2, <1>5

\* The keys of the subsections.
KeysOf(B) == {B[i].key : i \in 1 .. Len(B)}

\* A subsection is taken as it was written, if its key is the one that its title gets.
LEMMA FoldsSub ==
    ASSUME NEW X, NEW T \in Seq(X), NEW B \in Seq(SubTypes), NEW key, NEW content, NEW b \in SubTypes,
           b.key = Slug(b.title, KeysOf(B))
    PROVE  /\ Folded(TextOf(Append(T, Sec(key, content, B))), SubLines(b)) = TextOf(Append(T, Sec(key, content, Append(B, b))))
           /\ SubLines(b) \in Seq(Lines)
<1>1. b.title \in SubTitles /\ b.content \in Seq(PlainLines) /\ b = Sub(b.key, b.title, b.content)
  BY DEF SubTypes, Sub, Contents
<1>2. <<H3(b.title)>> \in Seq(Lines) /\ b.content \in Seq(Lines)
  <2>1. H3(b.title) \in Lines /\ PlainLines \subseteq Lines
    BY <1>1 DEF Lines
  <2> QED BY <1>1, <2>1
<1>3. KeysOf(B) = {B[i].key : i \in DOMAIN B}
  <2>1. DOMAIN B = 1 .. Len(B)
    OBVIOUS
  <2> QED BY <2>1 DEF KeysOf
<1> DEFINE t == TextOf(Append(T, Sec(key, content, B)))
           u == TextOf(Append(T, Sec(key, content, Append(B, Sub(b.key, b.title, <<>>)))))
<1>4. Folded(t, <<H3(b.title)>>) = u
  <2>1. Folded(t, <<H3(b.title)>>) = TakeLine(t, H3(b.title))
    BY FoldOne
  <2>2. TakeLine(t, H3(b.title)) = TextOf(Append(T, Sec(key, content, Append(B, Sub(Slug(b.title, {B[i].key : i \in DOMAIN B}), b.title, <<>>)))))
    BY TakesH3
  <2> QED BY <1>3, <2>1, <2>2
<1>5. Folded(u, b.content) = TextOf(Append(T, Sec(key, content, Append(B, Sub(b.key, b.title, b.content)))))
  BY <1>1, FoldsSubContent DEF Contents
<1>6. Folded(t, SubLines(b)) = Folded(Folded(t, <<H3(b.title)>>), b.content)
  <2> HIDE DEF t
  <2> QED BY <1>2, FoldConcat DEF SubLines
<1>7. Folded(t, SubLines(b)) = TextOf(Append(T, Sec(key, content, Append(B, b))))
  <2> HIDE DEF t, u
  <2> QED BY <1>1, <1>4, <1>5, <1>6
<1>8. SubLines(b) \in Seq(Lines)
  BY <1>2 DEF SubLines
<1> QED BY <1>7, <1>8

\* All subsections are taken as they were written.
LEMMA FoldsSubs ==
    ASSUME NEW X, NEW T \in Seq(X), NEW B \in Seq(SubTypes), Keyed(B), NEW key, NEW content
    PROVE  LET lines == FlattenSeq([i \in DOMAIN B |-> SubLines(B[i])])
           IN  /\ Folded(TextOf(Append(T, Sec(key, content, <<>>))), lines) = TextOf(Append(T, Sec(key, content, B)))
               /\ lines \in Seq(Lines)
<1> DEFINE ss == [i \in DOMAIN B |-> SubLines(B[i])]
           is(b) == TextOf(Append(T, Sec(key, content, b)))
           r == [n \in 0 .. Len(B) |-> is(SubSeq(B, 1, n))]
<1>1. Len(B) \in Nat /\ DOMAIN B = 1 .. Len(B) /\ \A n \in 1 .. Len(B) : B[n] \in SubTypes
  OBVIOUS
<1>2. /\ SubSeq(B, 1, 0) = <<>> /\ SubSeq(B, 1, Len(B)) = B
      /\ \A n \in 1 .. Len(B) : SubSeq(B, 1, n) = Append(SubSeq(B, 1, n - 1), B[n])
      /\ \A n \in 0 .. Len(B) : SubSeq(B, 1, n) \in Seq(SubTypes) /\ Len(SubSeq(B, 1, n)) = n
      /\ \A n \in 0 .. Len(B) : \A i \in 1 .. n : SubSeq(B, 1, n)[i] = B[i]
  BY Beginnings
<1>3. ASSUME NEW n \in 1 .. Len(B)
      PROVE  /\ Folded(is(SubSeq(B, 1, n - 1)), SubLines(B[n])) = is(SubSeq(B, 1, n))
             /\ SubLines(B[n]) \in Seq(Lines)
  <2>1. n - 1 \in 0 .. Len(B)
    BY <1>1
  <2>2. PICK a : a = SubSeq(B, 1, n - 1)
    OBVIOUS
  <2>3. a \in Seq(SubTypes) /\ Len(a) = n - 1 /\ \A i \in 1 .. n - 1 : a[i] = B[i]
    BY <1>2, <2>1, <2>2
  <2>4. KeysOf(a) = {B[i].key : i \in 1 .. n - 1}
    BY <2>3 DEF KeysOf
  <2>5. B[n].key = Slug(B[n].title, KeysOf(a))
    BY <2>4 DEF Keyed
  <2>6. /\ Folded(is(a), SubLines(B[n])) = is(Append(a, B[n]))
        /\ SubLines(B[n]) \in Seq(Lines)
    <3>1. PICK b : b = B[n]
      OBVIOUS
    <3>2. b \in SubTypes /\ b.key = Slug(b.title, KeysOf(a)) /\ a \in Seq(SubTypes)
      BY <1>1, <2>3, <2>5, <3>1
    <3>3. Folded(is(a), SubLines(b)) = is(Append(a, b)) /\ SubLines(b) \in Seq(Lines)
      BY <3>2, FoldsSub
    <3> HIDE DEF is
    <3> QED BY <3>1, <3>3
  <2> HIDE DEF is
  <2> QED BY <1>2, <2>2, <2>6
<1>4. ss \in Seq(Seq(Lines)) /\ Len(ss) = Len(B) /\ \A n \in 1 .. Len(B) : ss[n] = SubLines(B[n])
  <2>1. \A n \in 1 .. Len(B) : SubLines(B[n]) \in Seq(Lines)
    BY <1>3
  <2>2. ss = [i \in 1 .. Len(B) |-> SubLines(B[i])]
    BY <1>1
  <2> HIDE DEF ss
  <2> QED BY <1>1, <2>1, <2>2
<1>5. r[0] = is(<<>>) /\ r[Len(B)] = is(B)
  <2>1. 0 \in 0 .. Len(B) /\ Len(B) \in 0 .. Len(B)
    BY <1>1
  <2> HIDE DEF is
  <2> QED BY <1>2, <2>1
<1>6. ASSUME NEW n \in 1 .. Len(ss) PROVE r[n] = Folded(r[n - 1], ss[n])
  <2>1. n \in 1 .. Len(B) /\ n \in 0 .. Len(B) /\ n - 1 \in 0 .. Len(B)
    BY <1>1, <1>4
  <2>2. r[n] = is(SubSeq(B, 1, n)) /\ r[n - 1] = is(SubSeq(B, 1, n - 1))
    <3> HIDE DEF is
    <3> QED BY <2>1
  <2> HIDE DEF is, r, ss
  <2> QED BY <1>3, <1>4, <2>1, <2>2
<1>7. Folded(is(<<>>), FlattenSeq(ss)) = r[Len(ss)]
  <2> HIDE DEF is, r, ss
  <2> QED BY <1>4, <1>5, <1>6, FlattenIs
<1>8. FlattenSeq(ss) \in Seq(Lines)
  <2> HIDE DEF ss
  <2> QED BY <1>4, FlattenJoins
<1>9. r[Len(ss)] = is(B)
  <2> HIDE DEF is, r, ss
  <2> QED BY <1>4, <1>5
<1> HIDE DEF r
<1> QED BY <1>7, <1>8, <1>9

\* A section is taken as it was written.
LEMMA FoldsSection ==
    ASSUME NEW X, NEW T \in Seq(X), NEW s \in SectionTypes
    PROVE  /\ Folded(TextOf(T), SectionLines(s)) = TextOf(Append(T, s))
           /\ SectionLines(s) \in Seq(Lines)
<1>1. /\ s.key \in Keys \cup {AnalysisRun} /\ s.content \in Contents /\ s.subs \in Seq(SubTypes)
      /\ Keyed(s.subs) /\ s = Sec(s.key, s.content, s.subs)
  BY DEF SectionTypes, Sec
<1> DEFINE lines == FlattenSeq([i \in DOMAIN s.subs |-> SubLines(s.subs[i])])
           t == TextOf(Append(T, Sec(s.key, <<>>, <<>>)))
           u == TextOf(Append(T, Sec(s.key, s.content, <<>>)))
<1>2. Folded(TextOf(T), <<H2(s.key)>>) = t
  BY FoldOne, TakesH2
<1>3. Folded(t, s.content) = u
  BY <1>1, FoldsContent
<1>4. Folded(u, lines) = TextOf(Append(T, Sec(s.key, s.content, s.subs))) /\ lines \in Seq(Lines)
  BY <1>1, FoldsSubs
<1>5. <<H2(s.key)>> \in Seq(Lines) /\ s.content \in Seq(Lines)
  <2>1. H2(s.key) \in Lines /\ PlainLines \subseteq Lines
    BY <1>1 DEF Lines
  <2> QED BY <1>1, <2>1 DEF Contents
<1>6. SectionLines(s) = (<<H2(s.key)>> \o s.content) \o lines
  BY DEF SectionLines, SubLines
<1>7. <<H2(s.key)>> \o s.content \in Seq(Lines)
  BY <1>5
<1>8. Folded(TextOf(T), SectionLines(s)) = Folded(Folded(TextOf(T), <<H2(s.key)>> \o s.content), lines)
  <2>1. PICK L : L = <<H2(s.key)>> \o s.content
    OBVIOUS
  <2>2. L \in Seq(Lines) /\ lines \in Seq(Lines) /\ SectionLines(s) = L \o lines
    BY <1>4, <1>6, <1>7, <2>1
  <2>3. Folded(TextOf(T), L \o lines) = Folded(Folded(TextOf(T), L), lines)
    <3> HIDE DEF lines
    <3> QED BY <2>2, FoldConcat
  <2> QED BY <2>1, <2>2, <2>3
<1>9. Folded(TextOf(T), <<H2(s.key)>> \o s.content) = Folded(Folded(TextOf(T), <<H2(s.key)>>), s.content)
  BY <1>5, FoldConcat
<1>10. SectionLines(s) \in Seq(Lines)
  <2> HIDE DEF lines
  <2> QED BY <1>4, <1>6, <1>7
<1> HIDE DEF lines, t, u
<1> QED BY <1>1, <1>2, <1>3, <1>4, <1>8, <1>9, <1>10

-----------------------------------------------------------------------------
(* Documents *)

\* No key of the template has two sections.
Uniq(secs) == \A i, j \in 1 .. Len(secs) : secs[i].key \in Keys /\ secs[i].key = secs[j].key => i = j

\* Texts of such sections; free lines are those somebody typed.
TypedLines == UNION {ToSet(text) : text \in Texts}
TextTypes == [buffer : Seq(TypedLines), secs : Seq(SectionTypes)]
ProperTexts == {text \in TextTypes : Uniq(text.secs)}

\* A section without text is a section.
LEMMA BlankSection ==
    ASSUME NEW key \in Keys \cup {AnalysisRun}
    PROVE  Section(key) \in SectionTypes /\ Section(key).key = key
<1>1. /\ Section(key).key = key /\ Section(key).content = <<>> /\ Section(key).subs = <<>>
      /\ Section(key) = Sec(key, <<>>, <<>>)
  BY DEF Section, Sec
<1>2. <<>> \in Contents /\ <<>> \in Seq(SubTypes)
  BY DEF Contents
<1>3. Keyed(<<>>)
  BY DEF Keyed
<1> QED BY <1>1, <1>2, <1>3 DEF SectionTypes, Sec

\* What ByKey finds among sections of which at most one has the key.
LEMMA ByKeyIs ==
    ASSUME NEW secs \in Seq(SectionTypes), Uniq(secs), NEW key \in Keys
    PROVE  /\ ByKey(secs, key) \in SectionTypes /\ ByKey(secs, key).key = key
           /\ \A i \in 1 .. Len(secs) : secs[i].key = key => ByKey(secs, key) = secs[i]
           /\ (\A i \in 1 .. Len(secs) : secs[i].key # key) => ByKey(secs, key) = Section(key)
<1> DEFINE has == {i \in DOMAIN secs : secs[i].key = key}
<1>1. DOMAIN secs = 1 .. Len(secs) /\ Len(secs) \in Nat /\ \A i \in 1 .. Len(secs) : secs[i] \in SectionTypes
  OBVIOUS
<1>2. CASE has = {}
  <2>1. ByKey(secs, key) = Section(key)
    BY <1>2 DEF ByKey
  <2>2. \A i \in 1 .. Len(secs) : secs[i].key # key
    BY <1>1, <1>2
  <2> QED BY <2>1, <2>2, BlankSection
<1>3. CASE has # {}
  <2>1. PICK i \in 1 .. Len(secs) : secs[i].key = key
    BY <1>1, <1>3
  <2>2. \A j \in has : j = i
    BY <1>1, <2>1 DEF Uniq
  <2>3. i \in has /\ \A j \in has : j <= i
    BY <1>1, <2>1, <2>2
  <2>4. (CHOOSE n \in has : \A j \in has : j <= n) = i
    <3> HIDE DEF has
    <3> QED BY <2>2, <2>3
  <2>5. ByKey(secs, key) = secs[i]
    BY <1>3, <2>4 DEF ByKey
  <2> QED BY <1>1, <2>1, <2>2, <2>5
<1> QED BY <1>2, <1>3

\* The place of the first section that has the key.
LEMMA PlaceIs ==
    ASSUME NEW secs \in Seq(SectionTypes), NEW key
    PROVE  \/ /\ PlaceOf(secs, key) \in 1 .. Len(secs) /\ PlaceOf(secs, key) # 0
              /\ secs[PlaceOf(secs, key)].key = key
           \/ PlaceOf(secs, key) = 0 /\ \A i \in 1 .. Len(secs) : secs[i].key # key
<1> DEFINE has == {i \in 1 .. Len(secs) : secs[i].key = key}
<1>1. PlaceOf(secs, key) = IF has # {} THEN Min(has) ELSE 0
  BY DEF PlaceOf, SelectInSeq
<1>2. CASE has = {}
  BY <1>1, <1>2
<1>3. CASE has # {}
  <2>1. has \subseteq Nat
    OBVIOUS
  <2>2. \E n \in has : \A m \in has : n <= m
    <3> HIDE DEF has
    <3> QED BY <1>3, <2>1, LeastExists
  <2>3. Min(has) \in has
    <3> HIDE DEF has
    <3> QED BY <2>2 DEF Min
  <2> QED BY <1>1, <1>3, <2>3
<1> QED BY <1>2, <1>3

\* What readers find.
LEMMA FirstIs ==
    ASSUME NEW text, text.secs \in Seq(SectionTypes), NEW key \in Keys
    PROVE  /\ FirstOf(text, key) \in SectionTypes /\ FirstOf(text, key).key = key
           /\ \/ \E i \in 1 .. Len(text.secs) : text.secs[i].key = key /\ FirstOf(text, key) = text.secs[i]
              \/ (\A i \in 1 .. Len(text.secs) : text.secs[i].key # key) /\ FirstOf(text, key) = Section(key)
<1>1. \A i \in 1 .. Len(text.secs) : text.secs[i] \in SectionTypes
  OBVIOUS
<1>2. CASE PlaceOf(text.secs, key) = 0
  BY <1>2, PlaceIs, BlankSection DEF FirstOf
<1>3. CASE PlaceOf(text.secs, key) # 0
  <2>1. /\ PlaceOf(text.secs, key) \in 1 .. Len(text.secs)
        /\ text.secs[PlaceOf(text.secs, key)].key = key
    BY <1>3, PlaceIs
  <2>2. FirstOf(text, key) = text.secs[PlaceOf(text.secs, key)]
    BY <1>3 DEF FirstOf
  <2> QED BY <1>1, <2>1, <2>2
<1> QED BY <1>2, <1>3

\* They find the same as ByKey.
LEMMA FirstIsByKey ==
    ASSUME NEW text \in ProperTexts, NEW key \in Keys
    PROVE  FirstOf(text, key) = ByKey(text.secs, key)
<1>1. text.secs \in Seq(SectionTypes) /\ Uniq(text.secs)
  BY DEF ProperTexts, TextTypes
<1> QED BY <1>1, FirstIs, ByKeyIs

\* Where the sections of the template are.
LEMMA TemplateIs ==
    /\ Len(Template) \in Nat /\ DOMAIN Template = 1 .. Len(Template)
    /\ \A i \in 1 .. Len(Template) : Template[i] \in Keys
    /\ \A i, j \in 1 .. Len(Template) : Template[i] = Template[j] => i = j
    /\ \A k \in Keys : \E i \in 1 .. Len(Template) : Template[i] = k
<1>1. Template \in Seq(Keys) /\ \A i, j \in DOMAIN Template : Template[i] = Template[j] => i = j
  BY KnowledgeAssumption
<1>2. /\ Len(Template) \in Nat /\ DOMAIN Template = 1 .. Len(Template)
      /\ \A i \in 1 .. Len(Template) : Template[i] \in Keys
  BY <1>1
<1>3. \A k \in Keys : \E i \in 1 .. Len(Template) : Template[i] = k
  BY <1>2 DEF Keys, ToSet
<1> QED BY <1>1, <1>2, <1>3

\* The sections of the template, written in its order and taken again.
LEMMA ComposesTemplate ==
    ASSUME NEW base \in Seq(SectionTypes)
    PROVE  LET lines == FlattenSeq([i \in 1 .. Len(base) |-> SectionLines(base[i])])
           IN  Folded(NoText, lines) = TextOf(base) /\ lines \in Seq(Lines)
<1> DEFINE ss == [i \in 1 .. Len(base) |-> SectionLines(base[i])]
           r == [n \in 0 .. Len(base) |-> TextOf(SubSeq(base, 1, n))]
<1>1. Len(base) \in Nat /\ \A n \in 1 .. Len(base) : base[n] \in SectionTypes
  OBVIOUS
<1>2. /\ SubSeq(base, 1, 0) = <<>> /\ SubSeq(base, 1, Len(base)) = base
      /\ \A n \in 1 .. Len(base) : SubSeq(base, 1, n) = Append(SubSeq(base, 1, n - 1), base[n])
      /\ \A n \in 0 .. Len(base) : SubSeq(base, 1, n) \in Seq(SectionTypes)
  BY Beginnings
<1>3. \A s \in SectionTypes : SectionLines(s) \in Seq(Lines)
  BY FoldsSection
<1>4. ss \in Seq(Seq(Lines)) /\ Len(ss) = Len(base) /\ \A n \in 1 .. Len(base) : ss[n] = SectionLines(base[n])
  BY <1>1, <1>3
<1>5. r[0] = NoText /\ r[Len(base)] = TextOf(base)
  <2>1. 0 \in 0 .. Len(base) /\ Len(base) \in 0 .. Len(base)
    BY <1>1
  <2>2. TextOf(<<>>) = NoText
    BY DEF TextOf, NoText
  <2> QED BY <1>2, <2>1, <2>2
<1>6. ASSUME NEW n \in 1 .. Len(ss) PROVE r[n] = Folded(r[n - 1], ss[n])
  <2>1. n \in 1 .. Len(base) /\ n \in 0 .. Len(base) /\ n - 1 \in 0 .. Len(base)
    BY <1>1, <1>4
  <2>2. r[n] = TextOf(SubSeq(base, 1, n)) /\ r[n - 1] = TextOf(SubSeq(base, 1, n - 1))
    BY <2>1
  <2>3. PICK a, s : a = SubSeq(base, 1, n - 1) /\ s = base[n]
    OBVIOUS
  <2>4. a \in Seq(SectionTypes) /\ s \in SectionTypes /\ SubSeq(base, 1, n) = Append(a, s) /\ ss[n] = SectionLines(s)
    <3> HIDE DEF ss
    <3> QED BY <1>1, <1>2, <1>4, <2>1, <2>3
  <2>5. Folded(TextOf(a), SectionLines(s)) = TextOf(Append(a, s))
    BY <2>4, FoldsSection
  <2> HIDE DEF r, ss
  <2> QED BY <2>2, <2>3, <2>4, <2>5
<1>7. Folded(NoText, FlattenSeq(ss)) = r[Len(ss)] /\ FlattenSeq(ss) \in Seq(Lines)
  <2> HIDE DEF r, ss
  <2> QED BY <1>4, <1>5, <1>6, FlattenIs, FlattenJoins
<1>8. r[Len(ss)] = TextOf(base)
  <2> HIDE DEF r, ss
  <2> QED BY <1>4, <1>5
<1> HIDE DEF r
<1> QED BY <1>7, <1>8

\* Sections that the template does not know come after its own.
LEMMA ComposesOthers ==
    ASSUME NEW base \in Seq(SectionTypes), NEW secs \in Seq(SectionTypes)
    PROVE  LET lines == FlattenSeq([i \in 1 .. Len(secs) |-> IF secs[i].key \in Keys THEN <<>> ELSE SectionLines(secs[i])])
           IN  /\ lines \in Seq(Lines)
               /\ \E S \in Seq(SectionTypes) :
                     /\ Folded(TextOf(base), lines) = TextOf(S) /\ Len(base) <= Len(S)
                     /\ \A i \in 1 .. Len(base) : S[i] = base[i]
                     /\ \A i \in Len(base) + 1 .. Len(S) : S[i].key \notin Keys
<1> DEFINE ss == [i \in 1 .. Len(secs) |-> IF secs[i].key \in Keys THEN <<>> ELSE SectionLines(secs[i])]
           Follows(S) == /\ Len(base) <= Len(S) /\ \A i \in 1 .. Len(base) : S[i] = base[i]
                         /\ \A i \in Len(base) + 1 .. Len(S) : S[i].key \notin Keys
           I == {TextOf(S) : S \in {R \in Seq(SectionTypes) : Follows(R)}}
<1>1. Len(base) \in Nat /\ Len(secs) \in Nat /\ \A n \in 1 .. Len(secs) : secs[n] \in SectionTypes
  OBVIOUS
<1>2. \A s \in SectionTypes : SectionLines(s) \in Seq(Lines)
  BY FoldsSection
<1>3. ss \in Seq(Seq(Lines)) /\ Len(ss) = Len(secs)
      /\ \A n \in 1 .. Len(secs) : ss[n] = IF secs[n].key \in Keys THEN <<>> ELSE SectionLines(secs[n])
  <2>1. \A n \in 1 .. Len(secs) : (IF secs[n].key \in Keys THEN <<>> ELSE SectionLines(secs[n])) \in Seq(Lines)
    BY <1>1, <1>2
  <2> QED BY <1>1, <2>1
<1>4. TextOf(base) \in I
  <2>1. Follows(base)
    BY <1>1
  <2> HIDE DEF Follows
  <2> QED BY <2>1
<1>5. ASSUME NEW u \in I, NEW i \in 1 .. Len(ss) PROVE Folded(u, ss[i]) \in I
  <2>1. PICK S \in Seq(SectionTypes) : Follows(S) /\ u = TextOf(S)
    <3> HIDE DEF Follows
    <3> QED OBVIOUS
  <2>2. i \in 1 .. Len(secs)
    BY <1>3
  <2>3. CASE secs[i].key \in Keys
    <3>1. ss[i] = <<>>
      <4> HIDE DEF ss
      <4> QED BY <1>3, <2>2, <2>3
    <3>2. Folded(u, <<>>) = u
      BY FoldNone
    <3> HIDE DEF ss, I
    <3> QED BY <3>1, <3>2
  <2>4. CASE secs[i].key \notin Keys
    <3>1. PICK s : s = secs[i]
      OBVIOUS
    <3>2. s \in SectionTypes /\ ss[i] = SectionLines(s) /\ s.key \notin Keys
      <4> HIDE DEF ss
      <4> QED BY <1>1, <1>3, <2>2, <2>4, <3>1
    <3>3. Folded(TextOf(S), SectionLines(s)) = TextOf(Append(S, s))
      BY <3>2, FoldsSection
    <3>4. PICK R : R = Append(S, s)
      OBVIOUS
    <3>5. R \in Seq(SectionTypes) /\ Len(R) = Len(S) + 1 /\ R[Len(S) + 1] = s /\ \A j \in 1 .. Len(S) : R[j] = S[j]
      BY <3>2, <3>4
    <3>6. Follows(R)
      <4>1. Len(S) \in Nat /\ Len(base) <= Len(S) /\ Len(base) <= Len(R)
        BY <1>1, <2>1, <3>5
      <4>2. \A j \in 1 .. Len(base) : R[j] = base[j]
        BY <1>1, <2>1, <3>5, <4>1
      <4>3. \A j \in Len(base) + 1 .. Len(R) : R[j].key \notin Keys
        <5> TAKE j \in Len(base) + 1 .. Len(R)
        <5>1. CASE j = Len(S) + 1
          BY <3>2, <3>5, <5>1
        <5>2. CASE j # Len(S) + 1
          <6>1. j \in 1 .. Len(S) /\ j \in Len(base) + 1 .. Len(S)
            BY <1>1, <3>5, <4>1, <5>2
          <6> QED BY <2>1, <3>5, <6>1
        <5> QED BY <5>1, <5>2
      <4> QED BY <4>1, <4>2, <4>3
    <3>7. TextOf(R) \in I
      <4> HIDE DEF Follows
      <4> QED BY <3>5, <3>6
    <3> HIDE DEF ss, I
    <3> QED BY <2>1, <3>2, <3>3, <3>4, <3>7
  <2> QED BY <2>3, <2>4
<1>6. Folded(TextOf(base), FlattenSeq(ss)) \in I /\ FlattenSeq(ss) \in Seq(Lines)
  <2> HIDE DEF ss, I
  <2> QED BY <1>3, <1>4, <1>5, FlattenStays
<1>7. PICK S \in Seq(SectionTypes) : Follows(S) /\ Folded(TextOf(base), FlattenSeq(ss)) = TextOf(S)
  <2> HIDE DEF ss, Follows
  <2> QED BY <1>6
<1> HIDE DEF ss
<1>8. \E R \in Seq(SectionTypes) :
         /\ Folded(TextOf(base), FlattenSeq(ss)) = TextOf(R) /\ Len(base) <= Len(R)
         /\ \A i \in 1 .. Len(base) : R[i] = base[i]
         /\ \A i \in Len(base) + 1 .. Len(R) : R[i].key \notin Keys
  BY <1>7
<1> QED BY <1>6, <1>8 DEF ss

\* Putting sections together keeps what ByKey finds of each key of the template.
LEMMA ComposeIs ==
    ASSUME NEW secs \in Seq(SectionTypes), Uniq(secs)
    PROVE  /\ ComposeSections(secs) \in ProperTexts /\ ComposeSections(secs).buffer = <<>>
           /\ \A k \in Keys : FirstOf(ComposeSections(secs), k) = ByKey(secs, k)
<1> DEFINE base == [i \in 1 .. Len(Template) |-> ByKey(secs, Template[i])]
           L == FlattenSeq([i \in DOMAIN Template |-> SectionLines(ByKey(secs, Template[i]))])
           M == FlattenSeq([i \in DOMAIN secs |-> IF secs[i].key \in Keys THEN <<>> ELSE SectionLines(secs[i])])
<1>1. /\ Len(Template) \in Nat /\ DOMAIN Template = 1 .. Len(Template)
      /\ \A i \in 1 .. Len(Template) : Template[i] \in Keys
  BY TemplateIs
<1>2. \A i \in 1 .. Len(Template) : ByKey(secs, Template[i]) \in SectionTypes /\ ByKey(secs, Template[i]).key = Template[i]
  BY <1>1, ByKeyIs
<1>3. /\ base \in Seq(SectionTypes) /\ Len(base) = Len(Template)
      /\ \A i \in 1 .. Len(Template) : base[i] = ByKey(secs, Template[i]) /\ base[i].key = Template[i]
  BY <1>1, <1>2
<1>4. L = FlattenSeq([i \in 1 .. Len(base) |-> SectionLines(base[i])])
  <2>1. [i \in DOMAIN Template |-> SectionLines(ByKey(secs, Template[i]))] = [i \in 1 .. Len(base) |-> SectionLines(base[i])]
    <3> HIDE DEF base
    <3> QED BY <1>1, <1>3
  <2> QED BY <2>1
<1>5. M = FlattenSeq([i \in 1 .. Len(secs) |-> IF secs[i].key \in Keys THEN <<>> ELSE SectionLines(secs[i])])
  <2>1. DOMAIN secs = 1 .. Len(secs)
    OBVIOUS
  <2> QED BY <2>1
<1>6. Folded(NoText, L) = TextOf(base) /\ L \in Seq(Lines)
  <2> HIDE DEF base, L
  <2> QED BY <1>3, <1>4, ComposesTemplate
<1>7. PICK S \in Seq(SectionTypes) :
         /\ Folded(TextOf(base), M) = TextOf(S) /\ Len(base) <= Len(S)
         /\ \A i \in 1 .. Len(base) : S[i] = base[i]
         /\ \A i \in Len(base) + 1 .. Len(S) : S[i].key \notin Keys
  <2> HIDE DEF base, M
  <2> QED BY <1>3, <1>5, ComposesOthers
<1>8. M \in Seq(Lines)
  <2> HIDE DEF base, M
  <2> QED BY <1>3, <1>5, ComposesOthers
<1>9. ComposeSections(secs) = TextOf(S)
  <2>1. ComposeSections(secs) = Parsed(L \o M)
    BY DEF ComposeSections
  <2>2. Parsed(L \o M) = Folded(NoText, L \o M)
    <3> HIDE DEF L, M
    <3> QED BY DEF Parsed, Folded, FoldOf
  <2>3. Folded(NoText, L \o M) = Folded(Folded(NoText, L), M)
    <3> HIDE DEF L, M
    <3> QED BY <1>6, <1>8, FoldConcat
  <2> HIDE DEF L, M, base
  <2> QED BY <1>6, <1>7, <2>1, <2>2, <2>3
<1> HIDE DEF base, L, M
<1>10. TextOf(S).secs = S /\ TextOf(S).buffer = <<>>
  BY TextFields
<1>11. Uniq(S)
  <2> SUFFICES ASSUME NEW i \in 1 .. Len(S), NEW j \in 1 .. Len(S), S[i].key \in Keys, S[i].key = S[j].key
               PROVE  i = j
    BY DEF Uniq
  <2>1. Len(S) \in Nat /\ Len(base) \in Nat
    BY <1>1, <1>3
  <2>2. i \in 1 .. Len(base) /\ j \in 1 .. Len(base)
    BY <1>7, <2>1
  <2>3. Template[i] = Template[j]
    BY <1>3, <1>7, <2>2
  <2> QED BY <1>3, <2>2, <2>3, TemplateIs
<1>12. TextOf(S) \in ProperTexts
  <2>1. <<>> \in Seq(TypedLines)
    OBVIOUS
  <2>2. TextOf(S) \in TextTypes
    BY <2>1 DEF TextOf, TextTypes
  <2> QED BY <1>10, <1>11, <2>2 DEF ProperTexts
<1>13. ASSUME NEW k \in Keys PROVE FirstOf(TextOf(S), k) = ByKey(secs, k)
  <2>1. PICK i \in 1 .. Len(Template) : Template[i] = k
    BY TemplateIs
  <2>2. i \in 1 .. Len(S) /\ S[i] = ByKey(secs, k) /\ S[i].key = k
    <3>1. i \in 1 .. Len(base) /\ Len(S) \in Nat
      BY <1>3
    <3>2. i \in 1 .. Len(S)
      BY <1>1, <1>3, <1>7, <3>1
    <3> QED BY <1>3, <1>7, <2>1, <3>1, <3>2
  <2>3. ByKey(S, k) = S[i]
    BY <1>11, <2>2, ByKeyIs
  <2>4. FirstOf(TextOf(S), k) = ByKey(S, k)
    BY <1>10, <1>12, FirstIsByKey
  <2> QED BY <2>2, <2>3, <2>4
<1> QED BY <1>9, <1>10, <1>12, <1>13

\* One section is put in, in the place of the first that has its key.
LEMMA ChangedIs ==
    ASSUME NEW text \in ProperTexts, NEW s \in SectionTypes, s.key \in Keys
    PROVE  /\ Changed(text, s) \in ProperTexts /\ Changed(text, s).buffer = <<>>
           /\ \A k \in Keys : FirstOf(Changed(text, s), k) = IF k = s.key THEN s ELSE FirstOf(text, k)
<1> DEFINE secs == text.secs
           n == PlaceOf(secs, s.key)
           next == IF n = 0 THEN Append(secs, s) ELSE [secs EXCEPT ![n] = s]
<1>1. secs \in Seq(SectionTypes) /\ Uniq(secs) /\ Len(secs) \in Nat
  BY DEF ProperTexts, TextTypes
<1>2. \/ n \in 1 .. Len(secs) /\ n # 0 /\ secs[n].key = s.key
      \/ n = 0 /\ \A i \in 1 .. Len(secs) : secs[i].key # s.key
  BY <1>1, PlaceIs
<1>3. /\ next \in Seq(SectionTypes)
      /\ \E i \in 1 .. Len(next) :
            /\ next[i] = s /\ Len(next) \in Nat
            /\ \A j \in 1 .. Len(next) : j # i => j \in 1 .. Len(secs) /\ next[j] = secs[j] /\ secs[j].key # s.key
            /\ \A j \in 1 .. Len(secs) : secs[j].key # s.key => j # i /\ j \in 1 .. Len(next)
  <2>1. CASE n = 0
    <3>1. PICK a : a = Append(secs, s)
      OBVIOUS
    <3>2. a \in Seq(SectionTypes) /\ Len(a) = Len(secs) + 1 /\ a[Len(secs) + 1] = s /\ \A j \in 1 .. Len(secs) : a[j] = secs[j]
      BY <1>1, <3>1
    <3>3. next = a
      BY <2>1, <3>1
    <3> HIDE DEF next, secs, n
    <3>4. \A j \in 1 .. Len(a) : j # Len(secs) + 1 => j \in 1 .. Len(secs)
      BY <1>1, <3>2
    <3> QED BY <1>1, <1>2, <2>1, <3>2, <3>3, <3>4
  <2>2. CASE n # 0
    <3>1. next = [secs EXCEPT ![n] = s] /\ n \in 1 .. Len(secs) /\ secs[n].key = s.key
      BY <1>2, <2>2
    <3> HIDE DEF next, secs, n
    <3>2. next \in Seq(SectionTypes) /\ Len(next) = Len(secs) /\ next[n] = s /\ \A j \in 1 .. Len(secs) : j # n => next[j] = secs[j]
      BY <1>1, <3>1
    <3>3. \A j \in 1 .. Len(secs) : j # n => secs[j].key # s.key
      BY <1>1, <3>1 DEF Uniq
    <3> QED BY <1>1, <3>1, <3>2, <3>3
  <2> QED BY <2>1, <2>2
<1> HIDE DEF next
<1>4. PICK i \in 1 .. Len(next) :
            /\ next[i] = s /\ Len(next) \in Nat
            /\ \A j \in 1 .. Len(next) : j # i => j \in 1 .. Len(secs) /\ next[j] = secs[j] /\ secs[j].key # s.key
            /\ \A j \in 1 .. Len(secs) : secs[j].key # s.key => j # i /\ j \in 1 .. Len(next)
  BY <1>3
<1>5. Uniq(next)
  <2> HIDE DEF secs, n
  <2> QED BY <1>1, <1>4 DEF Uniq
<1>6. Changed(text, s) = ComposeSections(next)
  BY DEF Changed, next
<1>7. ASSUME NEW k \in Keys PROVE ByKey(next, k) = IF k = s.key THEN s ELSE FirstOf(text, k)
  <2>1. CASE k = s.key
    BY <1>3, <1>4, <1>5, <2>1, ByKeyIs
  <2>2. CASE k # s.key
    <3>1. FirstOf(text, k) = ByKey(secs, k)
      BY FirstIsByKey
    <3>2. CASE \E j \in 1 .. Len(secs) : secs[j].key = k
      <4>1. PICK j \in 1 .. Len(secs) : secs[j].key = k
        BY <3>2
      <4>2. j \in 1 .. Len(next) /\ next[j] = secs[j]
        BY <1>4, <2>2, <4>1
      <4>3. ByKey(next, k) = next[j]
        BY <1>3, <1>5, <4>1, <4>2, ByKeyIs
      <4>4. ByKey(secs, k) = secs[j]
        BY <1>1, <4>1, ByKeyIs
      <4> QED BY <2>2, <3>1, <4>2, <4>3, <4>4
    <3>3. CASE \A j \in 1 .. Len(secs) : secs[j].key # k
      <4>1. \A j \in 1 .. Len(next) : next[j].key # k
        BY <1>4, <2>2, <3>3
      <4>2. ByKey(next, k) = Section(k)
        BY <1>3, <1>5, <4>1, ByKeyIs
      <4>3. ByKey(secs, k) = Section(k)
        BY <1>1, <3>3, ByKeyIs
      <4> QED BY <2>2, <3>1, <4>2, <4>3
    <3> QED BY <3>2, <3>3
  <2> QED BY <2>1, <2>2
<1>8. /\ ComposeSections(next) \in ProperTexts /\ ComposeSections(next).buffer = <<>>
      /\ \A k \in Keys : FirstOf(ComposeSections(next), k) = ByKey(next, k)
  BY <1>3, <1>5, ComposeIs
<1> HIDE DEF secs, n
<1> QED BY <1>6, <1>7, <1>8

\* The key of a subsection is not among those that are taken.
LEMMA SlugIsNew ==
    ASSUME NEW title \in SubTitles, NEW taken, IsFiniteSet(taken)
    PROVE  Slug(title, taken) \notin taken /\ Slug(title, taken) \in Seq(Nat)
<1>1. title \in Seq(Nat)
  BY KnowledgeAssumption
<1>2. CASE title \notin taken
  BY <1>1, <1>2 DEF Slug
<1>3. CASE title \in taken
  <2> DEFINE c == Cardinality(taken)
             free == {n \in 2 .. c + 2 : Append(title, n) \notin taken}
  <2>1. c \in Nat
    BY FS_CardinalityType
  <2>2. free # {}
    <3> SUFFICES ASSUME free = {} PROVE FALSE
      OBVIOUS
    <3> DEFINE S == 2 .. c + 2
               f == [n \in S |-> Append(title, n)]
    <3>1. IsFiniteSet(S) /\ Cardinality(S) = c + 1
      <4>1. PICK d : d = c + 2
        OBVIOUS
      <4>2. 2 \in Int /\ d \in Int /\ ~ (2 > d) /\ d - 2 + 1 = c + 1
        <5> HIDE DEF c
        <5> QED BY <2>1, <4>1
      <4>3. IsFiniteSet(2 .. d) /\ Cardinality(2 .. d) = d - 2 + 1
        BY <4>2, FS_Interval
      <4> HIDE DEF c
      <4> QED BY <4>1, <4>2, <4>3
    <3>2. f \in [S -> taken]
      OBVIOUS
    <3>3. c < Cardinality(S)
      <4> HIDE DEF c, S
      <4> QED BY <2>1, <3>1
    <3>4. \E x, y \in S : x # y /\ f[x] = f[y]
      <4> HIDE DEF f, S
      <4> QED BY <3>1, <3>2, <3>3, FS_PigeonHole
    <3>5. PICK x \in S, y \in S : x # y /\ f[x] = f[y]
      BY <3>4
    <3>6. x \in Nat /\ y \in Nat /\ Append(title, x) = Append(title, y)
      BY <2>1, <3>5
    <3>7. Append(title, x)[Len(title) + 1] = x /\ Append(title, y)[Len(title) + 1] = y
      BY <1>1, <3>6
    <3> QED BY <3>5, <3>6, <3>7
  <2>3. PICK n \in free : \A m \in free : n <= m
    <3>1. free \subseteq Nat
      BY <2>1
    <3> HIDE DEF free
    <3> QED BY <2>2, <3>1, LeastExists
  <2>4. /\ n \in 2 .. c + 2 /\ Append(title, n) \notin taken
        /\ \A m \in 2 .. n - 1 : Append(title, m) \in taken
    <3>1. n \in 2 .. c + 2 /\ Append(title, n) \notin taken
      OBVIOUS
    <3>2. \A m \in 2 .. n - 1 : m \in 2 .. c + 2 /\ ~ (n <= m)
      BY <2>1, <3>1
    <3>3. \A m \in 2 .. n - 1 : m \notin free
      <4> HIDE DEF free
      <4> QED BY <2>3, <3>2
    <3> QED BY <3>1, <3>2, <3>3
  <2> DEFINE is(k) == Append(title, k) \notin taken /\ \A m \in 2 .. k - 1 : Append(title, m) \in taken
             least == CHOOSE k \in 2 .. c + 2 : is(k)
  <2>5. \E k \in 2 .. c + 2 : is(k)
    BY <2>4
  <2>6. least \in 2 .. c + 2 /\ is(least)
    <3> HIDE DEF is
    <3> QED BY <2>5
  <2>7. Slug(title, taken) = Append(title, least)
    BY <1>3 DEF Slug
  <2>8. least \in Nat /\ Append(title, least) \notin taken
    <3> HIDE DEF least
    <3> QED BY <2>1, <2>6
  <2> HIDE DEF least
  <2> QED BY <1>1, <2>7, <2>8
<1> QED BY <1>2, <1>3

\* A section has finitely many subsections.
LEMMA KeysFinite ==
    ASSUME NEW X, NEW B \in Seq(X)
    PROVE  IsFiniteSet({B[i].key : i \in DOMAIN B})
<1> DEFINE T == {B[i].key : i \in DOMAIN B}
           f == [i \in 1 .. Len(B) |-> B[i].key]
<1>1. Len(B) \in Nat /\ DOMAIN B = 1 .. Len(B)
  OBVIOUS
<1>2. IsFiniteSet(1 .. Len(B))
  <2>1. 1 \in Int /\ Len(B) \in Int
    BY <1>1
  <2> QED BY <2>1, FS_Interval
<1>3. f \in [1 .. Len(B) -> T] /\ \A t \in T : \E i \in 1 .. Len(B) : f[i] = t
  BY <1>1
<1>4. f \in Surjection(1 .. Len(B), T)
  <2> HIDE DEF f, T
  <2> QED BY <1>3, Fun_IsSurj
<1>5. IsFiniteSet(T)
  <2> HIDE DEF f, T
  <2> QED BY <1>2, <1>4, FS_Surjection
<1> QED BY <1>5

-----------------------------------------------------------------------------
(* Calls *)

\* Whatever agents, routes and a run may call for.
Ops == [what : {"replace", "append"}, key : Keys, text : Contents]
         \cup [what : {"add"}, key : Parents, title : SubTitles, text : Contents]

\* A section with one subsection more.
LEMMA WithSubIs ==
    ASSUME NEW s \in SectionTypes, NEW title \in SubTitles, NEW content \in Contents
    PROVE  /\ WithSub(s, title, content) \in SectionTypes
           /\ WithSub(s, title, content).key = s.key /\ WithSub(s, title, content).content = s.content
           /\ Len(WithSub(s, title, content).subs) = Len(s.subs) + 1
           /\ SubSeq(WithSub(s, title, content).subs, 1, Len(s.subs)) = s.subs
           /\ WithSub(s, title, content).subs[Len(s.subs) + 1].key \notin {s.subs[i].key : i \in DOMAIN s.subs}
           /\ Slug(title, SubKeys(s)) \in Seq(Nat)
<1>1. /\ s.key \in Keys \cup {AnalysisRun} /\ s.content \in Contents /\ s.subs \in Seq(SubTypes)
      /\ Keyed(s.subs) /\ s = Sec(s.key, s.content, s.subs)
  BY DEF SectionTypes, Sec
<1> DEFINE b == [key |-> Slug(title, SubKeys(s)), title |-> title, content |-> content]
           n == Len(s.subs)
<1>2. Slug(title, SubKeys(s)) \notin SubKeys(s) /\ Slug(title, SubKeys(s)) \in Seq(Nat)
  <2>1. IsFiniteSet(SubKeys(s))
    BY <1>1, KeysFinite DEF SubKeys
  <2> QED BY <2>1, SlugIsNew
<1>3. b \in SubTypes /\ b.key = Slug(title, SubKeys(s)) /\ b.title = title
  BY <1>2 DEF SubTypes
<1>4. PICK a : a = Append(s.subs, b)
  OBVIOUS
<1>5. a \in Seq(SubTypes) /\ Len(a) = n + 1 /\ a[n + 1] = b /\ n \in Nat /\ \A i \in 1 .. n : a[i] = s.subs[i]
  <2> HIDE DEF b
  <2> QED BY <1>1, <1>3, <1>4
<1>6. WithSub(s, title, content) = [s EXCEPT !.subs = a]
  BY <1>4 DEF WithSub
<1>7. WithSub(s, title, content) = Sec(s.key, s.content, a)
  <2>1. [Sec(s.key, s.content, s.subs) EXCEPT !.subs = a] = Sec(s.key, s.content, a)
    BY SecFields
  <2> QED BY <1>1, <1>6, <2>1
<1>8. Keyed(a)
  <2> SUFFICES ASSUME NEW i \in 1 .. Len(a)
               PROVE  a[i].key = Slug(a[i].title, {a[j].key : j \in 1 .. i - 1})
    BY DEF Keyed
  <2>1. CASE i = n + 1
    <3>1. {a[j].key : j \in 1 .. i - 1} = {s.subs[j].key : j \in 1 .. n}
      BY <1>5, <2>1
    <3>2. SubKeys(s) = {s.subs[j].key : j \in 1 .. n}
      BY <1>1 DEF SubKeys
    <3> HIDE DEF b, n
    <3> QED BY <1>3, <1>5, <2>1, <3>1, <3>2
  <2>2. CASE i # n + 1
    <3>1. i \in 1 .. n /\ \A j \in 1 .. i - 1 : j \in 1 .. n
      BY <1>5, <2>2
    <3>2. {a[j].key : j \in 1 .. i - 1} = {s.subs[j].key : j \in 1 .. i - 1}
      BY <1>5, <3>1
    <3>3. s.subs[i].key = Slug(s.subs[i].title, {s.subs[j].key : j \in 1 .. i - 1})
      BY <1>1, <3>1 DEF Keyed
    <3> HIDE DEF n
    <3> QED BY <1>5, <3>1, <3>2, <3>3
  <2> QED BY <2>1, <2>2
<1>9. SubSeq(a, 1, n) = s.subs
  <2>1. PICK c : c = SubSeq(a, 1, n)
    OBVIOUS
  <2>2. n \in 0 .. Len(a)
    BY <1>5
  <2>3. SubSeq(a, 1, n) \in Seq(SubTypes) /\ Len(SubSeq(a, 1, n)) = n /\ \A i \in 1 .. n : SubSeq(a, 1, n)[i] = a[i]
    <3> HIDE DEF n
    <3> QED BY <1>5, <2>2, Beginnings
  <2>4. c \in Seq(SubTypes) /\ Len(c) = n /\ \A i \in 1 .. n : c[i] = s.subs[i]
    <3> HIDE DEF n
    <3> QED BY <1>5, <2>1, <2>3
  <2>5. c = s.subs
    BY <1>1, <2>4, SeqEqual
  <2> QED BY <2>1, <2>5
<1>10. WithSub(s, title, content) \in SectionTypes
  BY <1>1, <1>5, <1>7, <1>8 DEF SectionTypes, Sec
<1>11. /\ WithSub(s, title, content).key = s.key /\ WithSub(s, title, content).content = s.content
       /\ WithSub(s, title, content).subs = a
  BY <1>7, SecFields
<1>12. b.key \notin {s.subs[i].key : i \in DOMAIN s.subs}
  BY <1>2 DEF SubKeys
<1> HIDE DEF b
<1> QED BY <1>2, <1>5, <1>9, <1>10, <1>11, <1>12

\* What a call makes of the section it is about.
Made(text, op) ==
    LET s == FirstOf(text, op.key) IN
    IF op.what = "add" THEN WithSub(s, op.title, NextContent(text, op))
    ELSE [s EXCEPT !.content = NextContent(text, op)]

\* It is a section of the same key.
LEMMA MadeIs ==
    ASSUME NEW text \in ProperTexts, NEW op \in Ops
    PROVE  /\ op.key \in Keys
           /\ Made(text, op) \in SectionTypes /\ Made(text, op).key = op.key
           /\ op.what # "add" => Made(text, op).subs = FirstOf(text, op.key).subs
           /\ op.what = "add" => op.key \in Parents /\ op.title \in SubTitles /\ NextContent(text, op) \in Contents
<1>1. op.key \in Keys /\ op.text \in Contents
  BY KnowledgeAssumption DEF Ops
<1>2. op.what = "add" => op.title \in SubTitles /\ op.key \in Parents
  BY DEF Ops
<1>3. text.secs \in Seq(SectionTypes)
  BY DEF ProperTexts, TextTypes
<1>4. PICK s : s = FirstOf(text, op.key)
  OBVIOUS
<1>5. s \in SectionTypes /\ s.key = op.key
  BY <1>1, <1>3, <1>4, FirstIs
<1>6. s.content \in Contents /\ s.subs \in Seq(SubTypes) /\ Keyed(s.subs) /\ s = Sec(s.key, s.content, s.subs)
  BY <1>5 DEF SectionTypes, Sec
<1>7. NextContent(text, op) \in Contents
  BY <1>1, <1>4, <1>6 DEF NextContent, ReadSection, Contents
<1>8. CASE op.what = "add"
  <2>1. Made(text, op) = WithSub(s, op.title, NextContent(text, op))
    BY <1>4, <1>8 DEF Made
  <2> QED BY <1>1, <1>2, <1>5, <1>7, <1>8, <2>1, WithSubIs
<1>9. CASE op.what # "add"
  <2>1. PICK c : c = NextContent(text, op)
    OBVIOUS
  <2>2. Made(text, op) = [s EXCEPT !.content = c]
    BY <1>4, <1>9, <2>1 DEF Made
  <2>3. [Sec(s.key, s.content, s.subs) EXCEPT !.content = c] = Sec(s.key, c, s.subs)
    BY SecFields
  <2>4. Made(text, op) = Sec(s.key, c, s.subs)
    BY <1>6, <2>2, <2>3
  <2>5. Sec(s.key, c, s.subs) \in SectionTypes
    BY <1>5, <1>6, <1>7, <2>1 DEF SectionTypes, Sec
  <2>6. Sec(s.key, c, s.subs).key = s.key /\ Sec(s.key, c, s.subs).subs = s.subs
    BY SecFields
  <2> QED BY <1>1, <1>4, <1>5, <1>9, <2>4, <2>5, <2>6
<1> QED BY <1>8, <1>9

\* A call changes that section and no other.
LEMMA WrittenIs ==
    ASSUME NEW text \in ProperTexts, NEW op \in Ops
    PROVE  /\ Written(text, op) \in ProperTexts
           /\ \A k \in Keys : FirstOf(Written(text, op), k) = IF k = op.key THEN Made(text, op) ELSE FirstOf(text, k)
<1>1. Written(text, op) = Changed(text, Made(text, op))
  BY DEF Written, Made
<1>2. op.key \in Keys /\ Made(text, op) \in SectionTypes /\ Made(text, op).key = op.key
  BY MadeIs
<1> QED BY <1>1, <1>2, ChangedIs

-----------------------------------------------------------------------------
(* Texts that are saved whole *)

\* A document without sections, and one that has those of the template only.
LEMMA Starting ==
    /\ NoText \in ProperTexts /\ EmptyKnowledgeDoc \in ProperTexts
    /\ \A k \in Keys : FirstOf(NoText, k) = Section(k) /\ FirstOf(EmptyKnowledgeDoc, k) = Section(k)
<1>1. <<>> \in Seq(SectionTypes) /\ Uniq(<<>>) /\ Len(<<>>) = 0
  BY DEF Uniq
<1>2. NoText.secs = <<>> /\ NoText \in TextTypes
  BY <1>1 DEF NoText, TextTypes
<1>3. NoText \in ProperTexts
  BY <1>1, <1>2 DEF ProperTexts
<1>4. \A k \in Keys : ByKey(<<>>, k) = Section(k)
  <2>1. PICK e : e = <<>>
    OBVIOUS
  <2>2. e \in Seq(SectionTypes) /\ Uniq(e) /\ Len(e) = 0
    BY <1>1, <2>1
  <2>3. ASSUME NEW k \in Keys PROVE ByKey(e, k) = Section(k)
    <3>1. \A i \in 1 .. Len(e) : e[i].key # k
      BY <2>2
    <3> QED BY <2>2, <3>1, ByKeyIs
  <2> QED BY <2>1, <2>3
<1>5. \A k \in Keys : FirstOf(NoText, k) = Section(k)
  BY <1>2, <1>3, <1>4, FirstIsByKey
<1>6. EmptyKnowledgeDoc \in ProperTexts /\ \A k \in Keys : FirstOf(EmptyKnowledgeDoc, k) = Section(k)
  BY <1>1, <1>4, ComposeIs DEF EmptyKnowledgeDoc
<1> QED BY <1>3, <1>5, <1>6

\* What is written is lines.
LEMMA TextsAre == \A lines \in Texts : lines \in Contents /\ lines \in Seq(TypedLines)
<1> TAKE lines \in Texts
<1>1. lines \in Seq(PlainLines)
  BY KnowledgeAssumption
<1>2. \A i \in 1 .. Len(lines) : lines[i] \in TypedLines
  BY <1>1 DEF TypedLines, ToSet
<1>3. lines \in Seq(TypedLines)
  BY <1>1, <1>2
<1> QED BY <1>1, <1>3 DEF Contents

\* Free lines change no section.
LEMMA TypedIs ==
    ASSUME NEW text \in ProperTexts, NEW lines \in Texts
    PROVE  /\ TypedFreely(text, lines) \in ProperTexts
           /\ \A k \in Keys : FirstOf(TypedFreely(text, lines), k) = FirstOf(text, k)
<1>1. text \in TextTypes /\ Uniq(text.secs) /\ text.buffer \in Seq(TypedLines)
  BY DEF ProperTexts, TextTypes
<1>2. PICK b : b = text.buffer \o lines
  OBVIOUS
<1>3. b \in Seq(TypedLines)
  BY <1>1, <1>2, TextsAre
<1>4. TypedFreely(text, lines) = [text EXCEPT !.buffer = b]
  BY <1>2 DEF TypedFreely
<1>5. TypedFreely(text, lines) \in TextTypes /\ TypedFreely(text, lines).secs = text.secs
  BY <1>1, <1>3, <1>4 DEF TextTypes
<1> QED BY <1>1, <1>5 DEF ProperTexts, FirstOf

\* Nor does a section that the template does not know.
LEMMA RunAddedIs ==
    ASSUME NEW text \in ProperTexts, NEW lines \in Texts
    PROVE  /\ RunAdded(text, lines) \in ProperTexts
           /\ \A k \in Keys : FirstOf(RunAdded(text, lines), k) = FirstOf(text, k)
<1>1. text.secs \in Seq(SectionTypes) /\ Uniq(text.secs) /\ text.buffer \in Contents
  <2>1. TypedLines \subseteq PlainLines
    BY DEF TypedLines, PlainLines
  <2>2. text.buffer \in Seq(TypedLines)
    BY DEF ProperTexts, TextTypes
  <2> QED BY <2>1, <2>2 DEF ProperTexts, TextTypes, Contents
<1>2. lines \in Contents
  BY TextsAre
<1> DEFINE T == text.secs
<1>3. TakeLine(text, H2(AnalysisRun)) = TextOf(Append(T, Sec(AnalysisRun, text.buffer, <<>>)))
  <2>1. IsH2(H2(AnalysisRun)) /\ H2(AnalysisRun).h2 = AnalysisRun
    BY KindsOfLines
  <2>2. [Section(AnalysisRun) EXCEPT !.content = text.buffer] = Sec(AnalysisRun, text.buffer, <<>>)
    BY DEF Section, Sec
  <2> QED BY <2>1, <2>2 DEF TakeLine, TextOf
<1>4. PICK c : c = text.buffer \o lines
  OBVIOUS
<1> DEFINE s == Sec(AnalysisRun, text.buffer, <<>>)
           u == Sec(AnalysisRun, c, <<>>)
           begun == TextOf(Append(T, s))
<1>5. RunAdded(text, lines) = TextOf(Append(T, u))
  <2>1. PICK x : x = Append(T, s)
    OBVIOUS
  <2>2. PICK y : y = Append(T, u)
    OBVIOUS
  <2>3. PICK z : z = TakeLine(text, H2(AnalysisRun))
    OBVIOUS
  <2>4. z = TextOf(x) /\ z.secs = x
    BY <1>3, <2>1, <2>3, TextFields
  <2>5. x[Len(x)] = s /\ [x EXCEPT ![Len(x)] = u] = y
    <3> HIDE DEF s, u, T
    <3> QED BY <1>1, <2>1, <2>2, LastReplaced DEF T
  <2>6. RunAdded(text, lines) = [z EXCEPT !.secs[Len(z.secs)].content = @ \o lines]
    BY <2>3 DEF RunAdded
  <2>7. s.content = text.buffer /\ [s EXCEPT !.content = c] = u
    BY SecFields
  <2> HIDE DEF s, u, T
  <2>8. PICK m : m = Len(x)
    OBVIOUS
  <2>9. RunAdded(text, lines) = [z EXCEPT !.secs[m].content = z.secs[m].content \o lines]
    BY <2>4, <2>6, <2>8
  <2>10. z.secs[m].content \o lines = c
    BY <1>4, <2>4, <2>5, <2>7, <2>8
  <2>11. [z EXCEPT !.secs[m].content = c] = [z EXCEPT !.secs = [z.secs EXCEPT ![m] = [z.secs[m] EXCEPT !.content = c]]]
    OBVIOUS
  <2>12. [z.secs EXCEPT ![m] = [z.secs[m] EXCEPT !.content = c]] = y
    BY <2>4, <2>5, <2>7, <2>8
  <2>13. RunAdded(text, lines) = [z EXCEPT !.secs = y]
    BY <2>9, <2>10, <2>11, <2>12
  <2>14. [TextOf(x) EXCEPT !.secs = y] = TextOf(y)
    BY TextFields
  <2> QED BY <2>2, <2>4, <2>13, <2>14
<1>6. u \in SectionTypes /\ u.key = AnalysisRun
  <2>1. c \in Contents /\ <<>> \in Seq(SubTypes) /\ Keyed(<<>>)
    BY <1>1, <1>2, <1>4 DEF Contents, Keyed
  <2> QED BY <2>1 DEF SectionTypes, Sec
<1>7. PICK a : a = Append(T, u)
  OBVIOUS
<1>8. a \in Seq(SectionTypes) /\ Len(a) = Len(T) + 1 /\ a[Len(T) + 1] = u /\ \A i \in 1 .. Len(T) : a[i] = T[i]
  <2> HIDE DEF u
  <2> QED BY <1>1, <1>6, <1>7
<1> HIDE DEF u
<1>9. Uniq(a)
  <2> SUFFICES ASSUME NEW i \in 1 .. Len(a), NEW j \in 1 .. Len(a), a[i].key \in Keys, a[i].key = a[j].key
               PROVE  i = j
    BY DEF Uniq
  <2>1. AnalysisRun \notin Keys
    BY KnowledgeAssumption
  <2>2. i # Len(T) + 1 /\ j # Len(T) + 1
    BY <1>6, <1>8, <2>1
  <2>3. i \in 1 .. Len(T) /\ j \in 1 .. Len(T)
    <3>1. PICK n : n = Len(T)
      OBVIOUS
    <3>2. n \in Nat /\ Len(a) = n + 1 /\ i # n + 1 /\ j # n + 1
      BY <1>1, <1>8, <2>2, <3>1
    <3>3. i \in 1 .. n /\ j \in 1 .. n
      BY <3>2
    <3> QED BY <3>1, <3>3
  <2> QED BY <1>1, <1>8, <2>3 DEF Uniq
<1>10. TextOf(a) \in ProperTexts /\ TextOf(a).secs = a
  <2>1. <<>> \in Seq(TypedLines)
    OBVIOUS
  <2>2. TextOf(a) \in TextTypes /\ TextOf(a).secs = a
    BY <1>8, <2>1 DEF TextOf, TextTypes
  <2> QED BY <1>9, <2>2 DEF ProperTexts
<1>11. ASSUME NEW k \in Keys PROVE FirstOf(TextOf(a), k) = FirstOf(text, k)
  <2>1. FirstOf(TextOf(a), k) = ByKey(a, k) /\ FirstOf(text, k) = ByKey(T, k)
    BY <1>10, FirstIsByKey
  <2>2. k # AnalysisRun
    BY KnowledgeAssumption
  <2>3. CASE \E i \in 1 .. Len(T) : T[i].key = k
    <3>1. PICK i \in 1 .. Len(T) : T[i].key = k
      BY <2>3
    <3>2. i \in 1 .. Len(a) /\ a[i] = T[i]
      BY <1>1, <1>8
    <3> QED BY <1>1, <1>8, <1>9, <2>1, <3>1, <3>2, ByKeyIs
  <2>4. CASE \A i \in 1 .. Len(T) : T[i].key # k
    <3>1. \A i \in 1 .. Len(a) : a[i].key # k
      <4> TAKE i \in 1 .. Len(a)
      <4>1. i = Len(T) + 1 \/ i \in 1 .. Len(T)
        BY <1>1, <1>8
      <4> QED BY <1>6, <1>8, <2>2, <2>4, <4>1
    <3> QED BY <1>1, <1>8, <1>9, <2>1, <2>4, <3>1, ByKeyIs
  <2> QED BY <2>3, <2>4
<1> QED BY <1>5, <1>7, <1>10, <1>11

\* One section that was edited on the screen.
LEMMA EditedIs ==
    ASSUME NEW text \in ProperTexts, NEW key \in Keys, NEW lines \in Texts
    PROVE  /\ SectionEdited(text, key, lines) \in ProperTexts
           /\ \E s \in SectionTypes :
                 /\ s.subs = FirstOf(text, key).subs
                 /\ \A k \in Keys : FirstOf(SectionEdited(text, key, lines), k) = IF k = key THEN s ELSE FirstOf(text, k)
<1>1. text.secs \in Seq(SectionTypes) /\ lines \in Contents
  BY TextsAre DEF ProperTexts, TextTypes
<1>2. PICK f : f = FirstOf(text, key)
  OBVIOUS
<1>3. f \in SectionTypes /\ f.key = key /\ f.subs \in Seq(SubTypes) /\ Keyed(f.subs) /\ f = Sec(f.key, f.content, f.subs)
  BY <1>1, <1>2, FirstIs DEF SectionTypes, Sec
<1>4. [f EXCEPT !.content = lines] = Sec(f.key, lines, f.subs)
  <2>1. [Sec(f.key, f.content, f.subs) EXCEPT !.content = lines] = Sec(f.key, lines, f.subs)
    BY SecFields
  <2> QED BY <1>3, <2>1
<1>5. PICK s : s = Sec(f.key, lines, f.subs)
  OBVIOUS
<1>6. s \in SectionTypes /\ s.key = key /\ s.subs = f.subs
  BY <1>1, <1>3, <1>5 DEF SectionTypes, Sec
<1>7. SectionEdited(text, key, lines) = Changed(text, s)
  BY <1>2, <1>4, <1>5 DEF SectionEdited
<1>8. /\ Changed(text, s) \in ProperTexts
      /\ \A k \in Keys : FirstOf(Changed(text, s), k) = IF k = s.key THEN s ELSE FirstOf(text, k)
  BY <1>6, ChangedIs
<1> QED BY <1>2, <1>6, <1>7, <1>8

-----------------------------------------------------------------------------
(* Steps of the map *)

\* What is read of a section.
Read(s) == [content |-> s.content, subs |-> s.subs]

\* The sections that are read, before and after.
LEMMA SectionsReadIs ==
    /\ SectionsRead = [k \in Keys |-> Read(FirstOf(doc, k))]
    /\ SectionsRead' = [k \in Keys |-> Read(FirstOf(doc', k))]
  BY DEF SectionsRead, Read

\* A change of one section that keeps its subsections is a step Write.
LEMMA MapWrites ==
    ASSUME NEW k \in Keys, NEW s, s.subs = FirstOf(doc, k).subs,
           \A j \in Keys : FirstOf(doc', j) = IF j = k THEN s ELSE FirstOf(doc, j)
    PROVE  Map!Write(k)
<1>1. PICK old, new : old = SectionsRead /\ new = SectionsRead'
  OBVIOUS
<1>2. /\ old = [j \in Keys |-> Read(FirstOf(doc, j))]
      /\ new = [j \in Keys |-> IF j = k THEN Read(s) ELSE Read(FirstOf(doc, j))]
  BY <1>1, SectionsReadIs
<1>3. new[k].content = s.content
  BY <1>2 DEF Read
<1>4. [old[k] EXCEPT !.content = s.content] = Read(s)
  BY <1>2 DEF Read
<1>5. new = [old EXCEPT ![k] = Read(s)]
  BY <1>2
<1>6. new = [old EXCEPT ![k].content = new[k].content]
  BY <1>3, <1>4, <1>5, Zenon
<1> QED BY <1>1, <1>6 DEF Map!Write

\* One subsection more under a parent is a step Add.
LEMMA MapAdds ==
    ASSUME NEW k \in Keys, NEW s,
           FirstOf(doc, k).subs \in Seq(SubTypes),
           s.content = FirstOf(doc, k).content,
           Len(s.subs) = Len(FirstOf(doc, k).subs) + 1,
           SubSeq(s.subs, 1, Len(FirstOf(doc, k).subs)) = FirstOf(doc, k).subs,
           s.subs[Len(FirstOf(doc, k).subs) + 1].key
              \notin {FirstOf(doc, k).subs[i].key : i \in DOMAIN FirstOf(doc, k).subs},
           \A j \in Keys : FirstOf(doc', j) = IF j = k THEN s ELSE FirstOf(doc, j)
    PROVE  Map!Add(k)
<1>1. PICK old, new : old = SectionsRead /\ new = SectionsRead'
  OBVIOUS
<1>2. /\ old = [j \in Keys |-> Read(FirstOf(doc, j))]
      /\ new = [j \in Keys |-> IF j = k THEN Read(s) ELSE Read(FirstOf(doc, j))]
  BY <1>1, SectionsReadIs
<1>3. new[k].subs = s.subs /\ old[k].subs = FirstOf(doc, k).subs
  BY <1>2 DEF Read
<1>4. [old[k] EXCEPT !.subs = s.subs] = Read(s)
  BY <1>2 DEF Read
<1>5. new = [old EXCEPT ![k] = Read(s)]
  BY <1>2
<1>6. new = [old EXCEPT ![k].subs = new[k].subs]
  BY <1>3, <1>4, <1>5
<1>7. /\ Len(new[k].subs) = Len(old[k].subs) + 1 /\ SubSeq(new[k].subs, 1, Len(old[k].subs)) = old[k].subs
      /\ new[k].subs[Len(new[k].subs)].key \notin {old[k].subs[i].key : i \in DOMAIN old[k].subs}
  BY <1>3, Zenon
<1> QED BY <1>1, <1>6, <1>7 DEF Map!Add

\* Where no section is changed, what is read stays.
LEMMA MapSame ==
    ASSUME \A j \in Keys : FirstOf(doc', j) = FirstOf(doc, j)
    PROVE  SectionsRead' = SectionsRead
  BY SectionsReadIs

\* A call that is stored over the text it has read is a step of the map.
LEMMA StoreIsStep ==
    ASSUME doc \in ProperTexts, NEW op \in Ops, doc' = Written(doc, op)
    PROVE  Map!MapNext
<1>1. PICK k : k = op.key
  OBVIOUS
<1>2. PICK s : s = Made(doc, op)
  OBVIOUS
<1>3. PICK f : f = FirstOf(doc, k)
  OBVIOUS
<1>4. k \in Keys /\ \A j \in Keys : FirstOf(doc', j) = IF j = k THEN s ELSE FirstOf(doc, j)
  BY <1>1, <1>2, MadeIs, WrittenIs
<1>5. f \in SectionTypes /\ f.subs \in Seq(SubTypes)
  BY <1>3, <1>4, FirstIs DEF ProperTexts, TextTypes, SectionTypes
<1>6. CASE op.what # "add"
  <2>1. s.subs = f.subs
    BY <1>1, <1>2, <1>3, <1>6, MadeIs
  <2>2. Map!Write(k)
    BY <1>3, <1>4, <2>1, MapWrites
  <2> QED BY <1>4, <2>2 DEF Map!MapNext
<1>7. CASE op.what = "add"
  <2>1. op.key \in Parents /\ op.title \in SubTitles /\ NextContent(doc, op) \in Contents
    BY <1>7, MadeIs
  <2>2. s = WithSub(f, op.title, NextContent(doc, op))
    BY <1>1, <1>2, <1>3, <1>7 DEF Made
  <2>3. /\ s.content = f.content /\ Len(s.subs) = Len(f.subs) + 1 /\ SubSeq(s.subs, 1, Len(f.subs)) = f.subs
        /\ s.subs[Len(f.subs) + 1].key \notin {f.subs[i].key : i \in DOMAIN f.subs}
    BY <1>5, <2>1, <2>2, WithSubIs
  <2>4. Map!Add(k)
    BY <1>3, <1>4, <1>5, <2>3, MapAdds
  <2> QED BY <1>1, <2>1, <2>4 DEF Map!MapNext
<1> QED BY <1>6, <1>7

\* So is a text that is saved over the text it was made of, if it is one at all.
LEMMA SaveIsStep ==
    ASSUME doc \in ProperTexts, NEW lines \in Texts, NEW key \in Keys,
           doc' \in {TypedFreely(doc, lines), RunAdded(doc, lines), SectionEdited(doc, key, lines)}
    PROVE  SectionsRead' = SectionsRead \/ Map!MapNext
<1>1. CASE doc' \in {TypedFreely(doc, lines), RunAdded(doc, lines)}
  BY <1>1, TypedIs, RunAddedIs, MapSame
<1>2. CASE doc' = SectionEdited(doc, key, lines)
  <2>1. PICK s \in SectionTypes : /\ s.subs = FirstOf(doc, key).subs
                                  /\ \A k \in Keys : FirstOf(doc', k) = IF k = key THEN s ELSE FirstOf(doc, k)
    BY <1>2, EditedIs
  <2>2. Map!Write(key)
    BY <2>1, MapWrites
  <2> QED BY <2>2 DEF Map!MapNext
<1> QED BY <1>1, <1>2

-----------------------------------------------------------------------------
(* The invariant *)

\* What each writer may have.
WriterTypes == [pc : {"idle", "waiting", "read"}, op : Ops \cup {None}, seen : ProperTexts]

\* A writer that is at work has a call; one that has read holds the lock, and
\* has read what the document is, unless a text was saved since.
WriterOK(w) ==
    /\ writer[w].pc # "idle" => writer[w].op \in Ops
    /\ writer[w].pc = "read" => lock = w /\ (w \notin passed => writer[w].seen = doc)

\* The other variables.
RestOK ==
    /\ sidecar \subseteq Keys \X Seq(Nat)
    /\ lock \in Writers \cup {None}
    /\ runPc \in {"idle", "starting", "working", "filling"} /\ todo \subseteq Required
    /\ writes \in 0 .. MaxWrites /\ saves \in 0 .. MaxSaves
    /\ passed \subseteq Writers /\ raced \in Nat

\* All of it; a run has nothing to write before it fills what was left empty.
KnowledgeInv ==
    /\ doc \in ProperTexts
    /\ draft = None \/ draft \in [text : ProperTexts]
    /\ writer \in [Writers -> WriterTypes]
    /\ \A w \in Writers : WriterOK(w)
    /\ runPc # "filling" => writer[run].pc = "idle"
    /\ RestOK

\* The invariant holds at first.
LEMMA KnowledgeInvInit == KnowledgeInit => KnowledgeInv
<1> SUFFICES ASSUME KnowledgeInit PROVE KnowledgeInv
  OBVIOUS
<1>1. doc \in ProperTexts /\ NotWriting \in WriterTypes
  BY Starting DEF KnowledgeInit, NotWriting, WriterTypes
<1>2. writer \in [Writers -> WriterTypes] /\ \A w \in Writers : writer[w].pc = "idle"
  BY <1>1 DEF KnowledgeInit, NotWriting
<1>3. \A w \in Writers : WriterOK(w)
  BY <1>2 DEF WriterOK
<1>4. RestOK
  BY KnowledgeAssumption DEF KnowledgeInit, RestOK
<1>5. run \in Writers /\ draft = None
  BY DEF Writers, KnowledgeInit
<1> QED BY <1>1, <1>2, <1>3, <1>4, <1>5 DEF KnowledgeInv

\* A writer that begins a call.
LEMMA BeginKeeps ==
    ASSUME KnowledgeInv, NEW w \in Writers, NEW op \in Ops, Begin(w, op), writer[w].pc = "idle",
           doc' = doc, draft' = draft, lock' = lock, runPc' = runPc, passed' = passed,
           w = run => runPc = "filling", RestOK'
    PROVE  KnowledgeInv'
<1>1. [pc |-> "waiting", op |-> op, seen |-> NoText] \in WriterTypes
  BY Starting DEF WriterTypes
<1>2. writer' \in [Writers -> WriterTypes]
  BY <1>1 DEF KnowledgeInv, Begin
<1>3. /\ writer'[w].pc = "waiting" /\ writer'[w].op = op
      /\ \A v \in Writers \ {w} : writer'[v] = writer[v]
  BY DEF KnowledgeInv, Begin
<1>4. ASSUME NEW v \in Writers PROVE WriterOK(v)'
  BY <1>3 DEF KnowledgeInv, WriterOK
<1>5. run \in Writers
  BY DEF Writers
<1>6. runPc' # "filling" => writer'[run].pc = "idle"
  BY <1>3, <1>5 DEF KnowledgeInv
<1> QED BY <1>2, <1>4, <1>6 DEF KnowledgeInv

\* A writer that is done.
LEMMA EndKeeps ==
    ASSUME KnowledgeInv, NEW w \in Writers, writer' = [writer EXCEPT ![w] = NotWriting],
           lock' = lock \/ (lock = w /\ lock' = None), doc' = doc \/ writer[w].pc = "read",
           doc' \in ProperTexts, draft' = draft, runPc' = runPc, passed' = passed, RestOK'
    PROVE  KnowledgeInv'
<1>1. NotWriting \in WriterTypes /\ NotWriting.pc = "idle"
  BY Starting DEF WriterTypes, NotWriting
<1>2. writer' \in [Writers -> WriterTypes]
  BY <1>1 DEF KnowledgeInv
<1>3. writer'[w].pc = "idle" /\ \A v \in Writers \ {w} : writer'[v] = writer[v]
  BY <1>1 DEF KnowledgeInv
<1>4. ASSUME NEW v \in Writers PROVE WriterOK(v)'
  <2>1. CASE v = w
    BY <1>3, <2>1 DEF WriterOK
  <2>2. CASE v # w
    <3>1. writer'[v] = writer[v] /\ WriterOK(v) /\ WriterOK(w)
      BY <1>3, <2>2 DEF KnowledgeInv
    <3> QED BY <2>2, <3>1 DEF WriterOK
  <2> QED BY <2>1, <2>2
<1>5. run \in Writers
  BY DEF Writers
<1>6. runPc' # "filling" => writer'[run].pc = "idle"
  BY <1>3, <1>5 DEF KnowledgeInv
<1> QED BY <1>2, <1>4, <1>6 DEF KnowledgeInv

\* A call of an agent or a route.
LEMMA CallsToolKeeps ==
    ASSUME KnowledgeInv, NEW w \in Agents, CallsTool(w) PROVE KnowledgeInv'
<1>1. PICK op \in Updates \cup Additions : Begin(w, op)
  BY DEF CallsTool
<1>2. op \in Ops
  <2>1. Texts \subseteq Contents
    BY TextsAre
  <2> QED BY <2>1 DEF Ops, Updates, Additions
<1>3. w \in Writers /\ w # run
  BY KnowledgeAssumption DEF Writers
<1>4. RestOK'
  BY KnowledgeAssumption DEF KnowledgeInv, RestOK, CallsTool
<1> QED BY <1>1, <1>2, <1>3, <1>4, BeginKeeps DEF CallsTool

\* A writer that gets the lock and reads.
LEMMA LoadKeeps ==
    ASSUME KnowledgeInv, NEW w \in Writers, Load(w) PROVE KnowledgeInv'
<1>1. /\ writer[w].pc = "waiting" /\ lock = None /\ lock' = w /\ doc' = doc
      /\ writer[w] \in WriterTypes /\ doc \in ProperTexts
  BY DEF Load, Granted, KnowledgeInv
<1>2. writer' \in [Writers -> WriterTypes]
  BY <1>1 DEF KnowledgeInv, Load, WriterTypes
<1>3. /\ writer'[w].pc = "read" /\ writer'[w].op = writer[w].op /\ writer'[w].seen = doc
      /\ \A v \in Writers \ {w} : writer'[v] = writer[v]
  BY <1>1 DEF KnowledgeInv, Load, WriterTypes
<1>4. ASSUME NEW v \in Writers PROVE WriterOK(v)'
  <2>1. WriterOK(v) /\ None \notin Writers
    BY KnowledgeAssumption DEF KnowledgeInv
  <2>2. CASE v = w
    BY <1>1, <1>3, <2>1, <2>2 DEF WriterOK
  <2>3. CASE v # w
    <3>1. writer'[v] = writer[v] /\ writer[v].pc # "read"
      BY <1>1, <1>3, <2>1, <2>3 DEF WriterOK
    <3> QED BY <2>1, <3>1 DEF WriterOK
  <2> QED BY <2>2, <2>3
<1>5. runPc' # "filling" => writer'[run].pc = "idle"
  BY <1>1, <1>3 DEF KnowledgeInv, Load, Writers
<1>6. RestOK'
  BY DEF KnowledgeInv, RestOK, Load
<1> QED BY <1>1, <1>2, <1>4, <1>5, <1>6 DEF KnowledgeInv, Load

\* What a call notes beside the text are keys of sections and subsections.
LEMMA NotedTypes ==
    ASSUME NEW text \in ProperTexts, NEW op \in Ops
    PROVE  Noted(text, op) \subseteq Keys \X Seq(Nat)
<1>1. op.key \in Keys /\ <<>> \in Seq(Nat)
  BY MadeIs
<1>2. ASSUME op.what = "add" PROVE Slug(op.title, SubKeys(FirstOf(text, op.key))) \in Seq(Nat)
  <2>1. op.title \in SubTitles /\ NextContent(text, op) \in Contents
    BY <1>2, MadeIs
  <2>2. FirstOf(text, op.key) \in SectionTypes
    BY <1>1, FirstIs DEF ProperTexts, TextTypes
  <2> QED BY <2>1, <2>2, WithSubIs
<1>3. PICK slug : slug = Slug(op.title, SubKeys(FirstOf(text, op.key)))
  OBVIOUS
<1>4. Noted(text, op) = {<<op.key, <<>>>>} \cup (IF op.what = "add" THEN {<<op.key, slug>>} ELSE {})
  BY <1>3 DEF Noted
<1>5. PICK e : e = <<>>
  OBVIOUS
<1>6. e \in Seq(Nat) /\ (op.what = "add" => slug \in Seq(Nat))
  BY <1>1, <1>2, <1>3, <1>5
<1>7. {<<op.key, e>>} \subseteq Keys \X Seq(Nat) /\ (op.what = "add" => {<<op.key, slug>>} \subseteq Keys \X Seq(Nat))
  BY <1>1, <1>6
<1> QED BY <1>4, <1>5, <1>7

\* A call that is stored.
LEMMA StoreKeeps ==
    ASSUME KnowledgeInv, NEW w \in Writers, Store(w)
    PROVE  KnowledgeInv' /\ (w \notin passed => Map!MapNext) /\ (w \in passed => raced' # raced)
<1> DEFINE op == writer[w].op
           text == writer[w].seen
<1>1. /\ writer[w].pc = "read" /\ op \in Ops /\ text \in ProperTexts /\ lock = w
      /\ w \notin passed => text = doc
      /\ doc \in ProperTexts
  BY DEF Store, KnowledgeInv, WriterOK, WriterTypes
<1>2. /\ doc' = Written(text, op) /\ sidecar' = sidecar \cup Noted(text, op)
      /\ raced' = IF w \in passed THEN raced + 1 ELSE raced
      /\ lock' = None /\ writer' = [writer EXCEPT ![w] = NotWriting]
      /\ UNCHANGED <<runPc, todo, draft, writes, saves, passed>>
  BY DEF Store
<1>3. doc' \in ProperTexts
  BY <1>1, <1>2, WrittenIs
<1>4. RestOK'
  BY <1>1, <1>2, NotedTypes DEF KnowledgeInv, RestOK
<1>5. KnowledgeInv'
  BY <1>1, <1>2, <1>3, <1>4, EndKeeps
<1>6. w \notin passed => Map!MapNext
  BY <1>1, <1>2, StoreIsStep
<1>7. w \in passed => raced' # raced
  BY <1>2 DEF KnowledgeInv, RestOK
<1> QED BY <1>5, <1>6, <1>7

\* A call that fails.
LEMMA FailsKeeps ==
    ASSUME KnowledgeInv, NEW w \in Writers, Fails(w) PROVE KnowledgeInv'
<1>1. RestOK' /\ doc' \in ProperTexts
  BY DEF KnowledgeInv, RestOK, Fails
<1> QED BY <1>1, EndKeeps DEF Fails

\* A run that looks at the document when it starts.
LEMMA LooksAtStartKeeps ==
    ASSUME KnowledgeInv, LooksAtStart PROVE KnowledgeInv'
<1>1. runPc = "idle" /\ runPc' \in {"starting", "working"} /\ passed' = passed \ {run} /\ writer[run].pc = "idle"
  BY DEF LooksAtStart, KnowledgeInv
<1>2. ASSUME NEW v \in Writers PROVE WriterOK(v)'
  <2>1. WriterOK(v)
    BY DEF KnowledgeInv
  <2> QED BY <1>1, <2>1 DEF WriterOK, LooksAtStart
<1>3. RestOK'
  BY <1>1 DEF KnowledgeInv, RestOK, LooksAtStart
<1> QED BY <1>1, <1>2, <1>3 DEF KnowledgeInv, LooksAtStart

\* A run that starts the document.
LEMMA StartsKeeps ==
    ASSUME KnowledgeInv, Starts
    PROVE  KnowledgeInv' /\ (raced' = raced => SectionsRead' = SectionsRead)
<1>1. doc' = EmptyKnowledgeDoc /\ lock = None /\ runPc = "starting" /\ runPc' = "working"
  BY DEF Starts
<1>2. ASSUME NEW v \in Writers PROVE WriterOK(v)'
  <2>1. WriterOK(v) /\ None \notin Writers
    BY KnowledgeAssumption DEF KnowledgeInv
  <2>2. writer[v].pc # "read"
    BY <1>1, <2>1 DEF WriterOK
  <2> QED BY <2>1, <2>2 DEF WriterOK, Starts
<1>3. RestOK'
  BY <1>1 DEF KnowledgeInv, RestOK, Starts
<1>4. KnowledgeInv'
  BY <1>1, <1>2, <1>3, Starting DEF KnowledgeInv, Starts
<1>5. ASSUME raced' = raced PROVE SectionsRead' = SectionsRead
  <2>1. doc \in {NoText, EmptyKnowledgeDoc}
    BY <1>5 DEF Starts, KnowledgeInv, RestOK
  <2>2. \A j \in Keys : FirstOf(doc', j) = FirstOf(doc, j)
    BY <1>1, <2>1, Starting
  <2> QED BY <2>2, MapSame
<1> QED BY <1>4, <1>5

\* A run that looks for the sections that are empty.
LEMMA LooksAtEndKeeps ==
    ASSUME KnowledgeInv, LooksAtEnd PROVE KnowledgeInv'
<1>1. ASSUME NEW v \in Writers PROVE WriterOK(v)'
  <2>1. WriterOK(v)
    BY DEF KnowledgeInv
  <2> QED BY <2>1 DEF WriterOK, LooksAtEnd
<1>2. RestOK'
  BY DEF KnowledgeInv, RestOK, LooksAtEnd
<1> QED BY <1>1, <1>2 DEF KnowledgeInv, LooksAtEnd

\* A run that begins to fill a section.
LEMMA FillsKeeps ==
    ASSUME KnowledgeInv, Fills PROVE KnowledgeInv'
<1>1. PICK k \in todo : Begin(run, [what |-> "replace", key |-> k, text |-> <<Marker>>])
  BY DEF Fills
<1>2. [what |-> "replace", key |-> k, text |-> <<Marker>>] \in Ops
  <2>1. k \in Keys
    BY KnowledgeAssumption DEF KnowledgeInv, RestOK
  <2>2. <<Marker>> \in Contents
    BY DEF Contents, PlainLines
  <2> QED BY <2>1, <2>2 DEF Ops
<1>3. RestOK'
  BY DEF KnowledgeInv, RestOK, Fills
<1>4. run \in Writers
  BY DEF Writers
<1> QED BY <1>1, <1>2, <1>3, <1>4, BeginKeeps DEF Fills

\* An operator who opens the document.
LEMMA OpensEditorKeeps ==
    ASSUME KnowledgeInv, OpensEditor PROVE KnowledgeInv'
<1>1. ASSUME NEW v \in Writers PROVE WriterOK(v)'
  <2>1. WriterOK(v)
    BY DEF KnowledgeInv
  <2> QED BY <2>1 DEF WriterOK, OpensEditor
<1>2. RestOK'
  BY KnowledgeAssumption DEF KnowledgeInv, RestOK, OpensEditor
<1>3. draft' \in [text : ProperTexts]
  BY DEF KnowledgeInv, OpensEditor
<1> QED BY <1>1, <1>2, <1>3 DEF KnowledgeInv, OpensEditor

\* A text that is saved whole.
LEMMA SavesTextKeeps ==
    ASSUME KnowledgeInv, SavesText
    PROVE  KnowledgeInv' /\ (raced' = raced => SectionsRead' = SectionsRead \/ Map!MapNext \/ doc' = doc)
<1>1. PICK text : text = draft.text
  OBVIOUS
<1>2. text \in ProperTexts /\ doc \in ProperTexts
  BY <1>1 DEF SavesText, KnowledgeInv
<1>3. PICK lines \in Texts :
         \/ doc' = TypedFreely(text, lines) \/ doc' = RunAdded(text, lines)
         \/ \E k \in Keys : doc' = SectionEdited(text, k, lines)
  BY <1>1 DEF SavesText
<1>4. doc' \in ProperTexts
  BY <1>2, <1>3, TypedIs, RunAddedIs, EditedIs
<1>5. ASSUME NEW v \in Writers PROVE WriterOK(v)'
  <2>1. WriterOK(v)
    BY DEF KnowledgeInv
  <2> QED BY <2>1 DEF WriterOK, SavesText
<1>6. RestOK'
  BY DEF KnowledgeInv, RestOK, SavesText
<1>7. KnowledgeInv'
  BY <1>4, <1>5, <1>6 DEF KnowledgeInv, SavesText
<1>8. ASSUME raced' = raced PROVE SectionsRead' = SectionsRead \/ Map!MapNext
  <2>1. doc = text
    BY <1>1, <1>8 DEF SavesText, KnowledgeInv, RestOK
  <2>2. CASE \E k \in Keys : doc' = SectionEdited(text, k, lines)
    BY <1>2, <2>1, <2>2, SaveIsStep
  <2>3. CASE doc' = TypedFreely(text, lines) \/ doc' = RunAdded(text, lines)
    BY <1>2, <2>1, <2>3, TypedIs, RunAddedIs, MapSame
  <2> QED BY <1>3, <2>2, <2>3
<1> QED BY <1>7, <1>8

\* The step is that of the map, or is counted, or changes nothing that is read.
LEMMA KnowledgeStep ==
    ASSUME KnowledgeInv, [KnowledgeNext]_kdVars
    PROVE  /\ KnowledgeInv'
           /\ doc' = doc \/ raced' # raced \/ Map!MapNext \/ SectionsRead' = SectionsRead
<1>1. CASE UNCHANGED kdVars
  <2>1. /\ doc' = doc /\ draft' = draft /\ writer' = writer /\ lock' = lock /\ passed' = passed
        /\ runPc' = runPc /\ RestOK'
    BY <1>1 DEF kdVars, KnowledgeInv, RestOK
  <2>2. ASSUME NEW v \in Writers PROVE WriterOK(v)'
    BY <2>1 DEF KnowledgeInv, WriterOK
  <2> QED BY <2>1, <2>2 DEF KnowledgeInv
<1>2. ASSUME NEW w \in Agents, CallsTool(w)
      PROVE  KnowledgeInv' /\ doc' = doc
  BY <1>2, CallsToolKeeps DEF CallsTool
<1>3. ASSUME NEW w \in Writers, Load(w) \/ Fails(w)
      PROVE  KnowledgeInv' /\ doc' = doc
  BY <1>3, LoadKeeps, FailsKeeps DEF Load, Fails
<1>4. ASSUME NEW w \in Writers, Store(w)
      PROVE  KnowledgeInv' /\ (raced' # raced \/ Map!MapNext)
  BY <1>4, StoreKeeps
<1>5. ASSUME LooksAtStart \/ LooksAtEnd \/ Fills \/ OpensEditor
      PROVE  KnowledgeInv' /\ doc' = doc
  BY <1>5, LooksAtStartKeeps, LooksAtEndKeeps, FillsKeeps, OpensEditorKeeps
     DEF LooksAtStart, LooksAtEnd, Fills, OpensEditor
<1>6. CASE Starts
  BY <1>6, StartsKeeps
<1>7. CASE SavesText
  BY <1>7, SavesTextKeeps
<1> QED BY <1>1, <1>2, <1>3, <1>4, <1>5, <1>6, <1>7 DEF KnowledgeNext

-----------------------------------------------------------------------------
(* What readers of the document can rely on *)

\* Whatever calls overlap, a step changes one section or adds one subsection
\* under a key of its own, and leaves all others, for any template, texts, titles,
\* agents, operators and number of calls; the exceptions are counted.
THEOREM KnowledgeIsKept == KnowledgeSpec => KnowledgeKept
<1>1. KnowledgeInit => KnowledgeInv
  BY KnowledgeInvInit
<1>2. KnowledgeInv /\ [KnowledgeNext]_kdVars
        => KnowledgeInv' /\ [doc' = doc \/ raced' # raced \/ Map!MapNext]_SectionsRead
  BY KnowledgeStep
<1>3. KnowledgeInit => Map!MapInit
  <2> SUFFICES ASSUME KnowledgeInit PROVE Map!MapInit
    OBVIOUS
  <2>1. \A k \in Keys : FirstOf(doc, k) = Section(k)
    BY Starting DEF KnowledgeInit
  <2> QED BY <2>1 DEF Map!MapInit, Map!Blank, SectionsRead, Section
<1> QED BY <1>1, <1>2, <1>3, PTL DEF KnowledgeSpec, KnowledgeKept

\* The variables of the knowledge document keep their types.
THEOREM KnowledgeTypes == KnowledgeSpec => []KnowledgeTypeOK
<1>1. KnowledgeInv => KnowledgeTypeOK
  <2> SUFFICES ASSUME KnowledgeInv PROVE KnowledgeTypeOK
    OBVIOUS
  <2>1. doc.buffer \in Seq(UNION {ToSet(text) : text \in Texts}) /\ doc.secs \in Seq(SectionTypes)
    BY DEF KnowledgeInv, ProperTexts, TextTypes, TypedLines
  <2>2. \A i \in DOMAIN doc.secs : doc.secs[i].key \in Keys \cup {AnalysisRun}
    BY <2>1 DEF SectionTypes
  <2>3. \A w \in Writers : writer[w].pc \in {"idle", "waiting", "read"}
    BY DEF KnowledgeInv, WriterTypes
  <2>4. draft = None \/ DOMAIN draft = {"text"}
    BY DEF KnowledgeInv
  <2> QED BY <2>1, <2>2, <2>3, <2>4 DEF KnowledgeInv, RestOK, KnowledgeTypeOK
<1>2. KnowledgeInv /\ [KnowledgeNext]_kdVars => KnowledgeInv'
  BY KnowledgeStep
<1> QED BY <1>1, <1>2, KnowledgeInvInit, PTL DEF KnowledgeSpec

-----------------------------------------------------------------------------
(***************************************************************************)
(* The five components together                                            *)
(***************************************************************************)

\* Whatever the five do, each does what it does alone.
LEMMA EachAlone == RecordsSpec => Spec /\ KnowledgeSpec /\ InvoicesSpec /\ SlackSpec /\ RequestsSpec
<1>1. RecordsInit => Init /\ KnowledgeInit /\ InvoicesInit /\ SlackInit /\ RequestsInit
  BY DEF RecordsInit
<1>2. [RecordsNext]_recordVars => [Next]_vars
  BY DEF RecordsNext, recordVars
<1>3. [RecordsNext]_recordVars => [KnowledgeNext]_kdVars
  BY DEF RecordsNext, recordVars
<1>4. [RecordsNext]_recordVars => [InvoicesNext]_invoiceVars
  BY DEF RecordsNext, recordVars
<1>5. [RecordsNext]_recordVars => [SlackNext]_slackVars
  BY DEF RecordsNext, recordVars
<1>6. [RecordsNext]_recordVars => [RequestsNext]_requestVars
  BY DEF RecordsNext, recordVars, RequestsStep
<1> QED BY <1>1, <1>2, <1>3, <1>4, <1>5, <1>6, PTL
        DEF RecordsSpec, Spec, KnowledgeSpec, InvoicesSpec, SlackSpec, RequestsSpec

\* Every variable of the five keeps its type.
THEOREM RecordTypes == RecordsSpec => []RecordsTypeOK
<1>1. TypeOK /\ KnowledgeTypeOK /\ InvoicesTypeOK /\ SlackTypeOK /\ RequestsTypeOK => RecordsTypeOK
  BY DEF RecordsTypeOK
<1> QED BY <1>1, EachAlone, TypeInvariance, KnowledgeTypes, InvoiceTypes, SlackTypes, RequestTypes, PTL

\* What each component promises, it keeps beside the others.
THEOREM RecordsKept ==
    RecordsSpec => /\ []MailAccounted /\ LedgerHolds /\ KnowledgeKept
                   /\ []InvoicesFiled /\ []BilledOnce /\ []ConnectionsOnRecord /\ []RowsTellTheTruth
  BY EachAlone, MailsAreAccounted, LedgerImplemented, KnowledgeIsKept, InvoicesAreFiled, BilledOnceHolds,
     ConnectionsAreOnRecord, RowsAreTrue, PTL

=============================================================================
