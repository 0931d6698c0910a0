--------------------------- MODULE PipelineProofs ---------------------------
(***************************************************************************)
(* What holds of CrawlPipeline for every set of crawls, sources, monitors, *)
(* URLs and responses, for texts and redirects of every length and for any *)
(* patterns and limits of the extraction; and of the graph over the rows.  *)
(***************************************************************************)
EXTENDS IntelligenceGraph, FiniteSetTheorems, SequenceTheorems, TLAPS

-----------------------------------------------------------------------------
(* Induction, from the library's well-founded order on Nat *)

LEMMA NatMin ==
    ASSUME NEW T \in SUBSET Nat, T # {}
    PROVE  \E x \in T : \A y \in T : x <= y
  <1> DEFINE R == {ss \in Nat \X Nat : ss[1] < ss[2]}
  <1>1. IsWellFoundedOn(R, Nat)
    BY NatLessThanWellFounded DEF OpToRel
  <1> HIDE DEF R
  <1>2. PICK x \in T : \A y \in T : ~(<<y, x>> \in R)
    BY <1>1, WFMin
  <1>3. \A y \in T : ~(y < x)
    BY <1>2 DEF R
  <1> QED BY <1>3

LEMMA UpTo ==
    ASSUME NEW n \in Nat, NEW T, 0 \in T, \A i \in 1..n : i - 1 \in T => i \in T
    PROVE  0..n \subseteq T
  <1> SUFFICES ASSUME (0..n) \ T # {} PROVE FALSE
    OBVIOUS
  <1>0. (0..n) \ T \in SUBSET Nat
    OBVIOUS
  <1>1. PICK x \in (0..n) \ T : \A y \in (0..n) \ T : x <= y
    BY <1>0, NatMin
  <1>2. x \in 1..n /\ x - 1 \in 0..n
    BY <1>1
  <1>3. x - 1 \in T
    BY <1>1, <1>2
  <1> QED BY <1>1, <1>2, <1>3

\* f is what n steps make of base.
Steps(f, n, S, base, step) ==
    /\ f \in [0..n -> S] /\ f[0] = base
    /\ \A i \in 1..n : f[i] = step[i][f[i - 1]]

LEMMA Recursion ==
    ASSUME NEW n \in Nat, NEW S, NEW base \in S, NEW step \in [1..n -> [S -> S]]
    PROVE  \E f : Steps(f, n, S, base, step)
  <1> DEFINE Upto(m, g) == /\ g \in [0..m -> S] /\ g[0] = base
                           /\ \A i \in 1..m : g[i] = step[i][g[i - 1]]
             T == {m \in 0..n : \E g : Upto(m, g)}
  <1>1. 0 \in T
    <2>1. PICK g : g = [i \in 0..0 |-> base]
      OBVIOUS
    <2>2. g \in [0..0 -> S] /\ g[0] = base /\ 1..0 = {}
      BY <2>1
    <2>3. Upto(0, g)
      BY <2>2
    <2> QED BY <2>3
  <1>2. ASSUME NEW m \in 1..n, m - 1 \in T PROVE m \in T
    <2>1. PICK g : Upto(m - 1, g)
      BY <1>2
    <2> DEFINE h == [i \in 0..m |-> IF i = m THEN step[m][g[m - 1]] ELSE g[i]]
    <2>2. /\ m \in Nat \ {0} /\ m - 1 \in 0..(m - 1) /\ step[m] \in [S -> S]
          /\ \A i \in 0..m : i # m => i \in 0..(m - 1)
      OBVIOUS
    <2>3. h \in [0..m -> S] /\ h[0] = base
      BY <2>1, <2>2
    <2>4. ASSUME NEW i \in 1..m PROVE h[i] = step[i][h[i - 1]]
      <3>1. i - 1 \in 0..m /\ i - 1 # m /\ i \in 0..m
        OBVIOUS
      <3>2. h[i - 1] = g[i - 1]
        BY <3>1
      <3>3. CASE i = m
        BY <3>1, <3>2, <3>3
      <3>4. CASE i # m
        <4>1. i \in 1..(m - 1)
          BY <3>4
        <4>2. h[i] = g[i]
          BY <3>1, <3>4
        <4>3. g[i] = step[i][g[i - 1]]
          BY <2>1, <4>1
        <4> QED BY <3>2, <4>2, <4>3
      <3> QED BY <3>3, <3>4
    <2>4a. \A i \in 1..m : h[i] = step[i][h[i - 1]]
      BY <2>4
    <2> HIDE DEF h
    <2>5. Upto(m, h)
      BY <2>3, <2>4a
    <2> QED BY <2>2, <2>5
  <1>3. n \in T
    <2> HIDE DEF T
    <2>1. \A m \in 1..n : m - 1 \in T => m \in T
      BY <1>2
    <2>2. 0..n \subseteq T
      BY <1>1, <2>1, UpTo
    <2> QED BY <2>2
  <1> QED BY <1>3 DEF Steps

-----------------------------------------------------------------------------
(* PageText *)

Extracting == [ignored : Nat, text : Seq(Words)]

LEMMA HandleKeeps ==
    ASSUME NEW st \in Extracting, NEW token \in Event
    PROVE  Handle(st, token) \in Extracting
  <1>1. CASE token.is = "start"
    BY <1>1 DEF Handle, HandleStart, Extracting
  <1>2. CASE token.is = "end"
    <2>1. st.ignored > 0 => st.ignored - 1 \in Nat
      BY DEF Extracting
    <2> QED BY <1>2, <2>1 DEF Handle, HandleEnd, Extracting
  <1>3. CASE token.is = "data"
    <2>1. token.what \in Words
      BY <1>3 DEF Event
    <2>2. Append(st.text, token.what) \in Seq(Words)
      BY <2>1 DEF Extracting
    <2> QED BY <1>3, <2>2 DEF Handle, HandleData, Extracting
  <1> QED BY <1>1, <1>2, <1>3 DEF Event

\* What an extractor holds changes event by event.
LEMMA ExtractorSteps ==
    ASSUME NEW page \in Seq(Event)
    PROVE  /\ Extractor(page) \in [0..Len(page) -> Extracting]
           /\ Extractor(page)[0] = [ignored |-> 0, text |-> <<>>]
           /\ \A i \in 1..Len(page) :
                 Extractor(page)[i] = Handle(Extractor(page)[i - 1], page[i])
  <1> DEFINE n == Len(page)
             base == [ignored |-> 0, text |-> <<>>]
             step == [i \in 1..n |-> [x \in Extracting |-> Handle(x, page[i])]]
             IsIt(f) == f = [i \in 0..n |-> IF i = 0 THEN base ELSE Handle(f[i - 1], page[i])]
  <1>1. n \in Nat /\ base \in Extracting /\ \A i \in 1..n : page[i] \in Event
    BY EmptySeq DEF Extracting
  <1>2. step \in [1..n -> [Extracting -> Extracting]]
    BY <1>1, HandleKeeps
  <1>3. PICK g : Steps(g, n, Extracting, base, step)
    <2>1. n \in Nat /\ base \in Extracting
      BY <1>1
    <2> HIDE DEF n, base, step
    <2> QED BY <1>2, <2>1, Recursion
  <1>4. IsIt(g)
    <2>1. \A i \in 0..n : i # 0 => i - 1 \in 0..n /\ i \in 1..n
      BY <1>1
    <2>2. \A i \in 0..n : g[i] = IF i = 0 THEN base ELSE Handle(g[i - 1], page[i])
      BY <1>3, <2>1 DEF Steps
    <2> QED BY <1>3, <2>2 DEF Steps
  <1>5. Extractor(page) = CHOOSE f : IsIt(f)
    BY DEF Extractor
  <1>6. IsIt(Extractor(page))
    <2> HIDE DEF IsIt
    <2> QED BY <1>4, <1>5
  <1>7. PICK f : f = Extractor(page)
    OBVIOUS
  <1>8. /\ DOMAIN f = 0..n /\ f[0] = base
        /\ \A i \in 1..n : f[i] = Handle(f[i - 1], page[i])
    BY <1>1, <1>6, <1>7
  <1>9. \A i \in 0..n : f[i] \in Extracting
    <2> DEFINE T == {i \in 0..n : f[i] \in Extracting}
    <2>1. 0 \in T
      BY <1>1, <1>8
    <2>2. \A i \in 1..n : i - 1 \in T => i \in T
      BY <1>1, <1>8, HandleKeeps
    <2> HIDE DEF T
    <2>3. 0..n \subseteq T
      BY <1>1, <2>1, <2>2, UpTo
    <2> QED BY <2>3 DEF T
  <1>10. f = [i \in 0..n |-> f[i]]
    BY <1>6, <1>7
  <1> QED BY <1>7, <1>8, <1>9, <1>10

LEMMA PageTextType ==
    ASSUME NEW page \in Seq(Event)
    PROVE  NormalizeHtml(page) \in Seq(Words)
  <1>1. Len(page) \in 0..Len(page)
    OBVIOUS
  <1>2. Extractor(page)[Len(page)] \in Extracting
    BY <1>1, ExtractorSteps
  <1> QED BY <1>2 DEF NormalizeHtml, Extracting

Item == [title : Seq(Words), page : Seq(Event)]

\* A text grows entry by entry.
LEMMA TextSteps ==
    ASSUME NEW items \in Seq(Item)
    PROVE  /\ TextOf(items) \in [0..Len(items) -> Seq(Words)]
           /\ TextOf(items)[0] = <<>>
           /\ \A i \in 1..Len(items) :
                 TextOf(items)[i] =
                    TextOf(items)[i - 1] \o items[i].title \o NormalizeHtml(items[i].page)
  <1> DEFINE n == Len(items)
             With(t, i) == t \o items[i].title \o NormalizeHtml(items[i].page)
             step == [i \in 1..n |-> [t \in Seq(Words) |-> With(t, i)]]
             IsIt(f) == f = [i \in 0..n |-> IF i = 0 THEN <<>> ELSE With(f[i - 1], i)]
  <1>1. n \in Nat /\ <<>> \in Seq(Words)
    BY EmptySeq
  <1>2. ASSUME NEW i \in 1..n, NEW t \in Seq(Words) PROVE With(t, i) \in Seq(Words)
    <2>0. items[i] \in Item
      BY ElementOfSeq
    <2>1. items[i].title \in Seq(Words) /\ items[i].page \in Seq(Event)
      BY <2>0 DEF Item
    <2>2. NormalizeHtml(items[i].page) \in Seq(Words)
      BY <2>1, PageTextType
    <2>3. t \o items[i].title \in Seq(Words)
      BY <2>1
    <2> QED BY <2>2, <2>3
  <1> HIDE DEF With
  <1>3. step \in [1..n -> [Seq(Words) -> Seq(Words)]]
    BY <1>2
  <1>4. PICK g : Steps(g, n, Seq(Words), <<>>, step)
    <2> HIDE DEF n, step
    <2> QED BY <1>1, <1>3, Recursion
  <1>5. IsIt(g)
    <2>1. \A i \in 0..n : i # 0 => i - 1 \in 0..n /\ i \in 1..n
      BY <1>1
    <2>2. \A i \in 0..n : g[i] = IF i = 0 THEN <<>> ELSE With(g[i - 1], i)
      BY <1>4, <2>1 DEF Steps
    <2> QED BY <1>4, <2>2 DEF Steps
  <1>6. TextOf(items) = CHOOSE f : IsIt(f)
    BY DEF TextOf, With
  <1>7. IsIt(TextOf(items))
    <2> HIDE DEF IsIt
    <2> QED BY <1>5, <1>6
  <1>8. PICK f : f = TextOf(items)
    OBVIOUS
  <1>9. /\ DOMAIN f = 0..n /\ f[0] = <<>> /\ f = [i \in 0..n |-> f[i]]
        /\ \A i \in 1..n : f[i] = With(f[i - 1], i)
    BY <1>1, <1>7, <1>8
  <1>10. \A i \in 0..n : f[i] \in Seq(Words)
    <2> DEFINE T == {i \in 0..n : f[i] \in Seq(Words)}
    <2>1. 0 \in T
      BY <1>1, <1>9
    <2>2. ASSUME NEW i \in 1..n, i - 1 \in T PROVE i \in T
      <3>1. f[i - 1] \in Seq(Words) /\ i \in 0..n
        BY <1>1, <2>2
      <3> QED BY <1>2, <1>9, <3>1
    <2> HIDE DEF T
    <2>3. 0..n \subseteq T
      BY <1>1, <2>1, <2>2, UpTo
    <2> QED BY <2>3 DEF T
  <1> QED BY <1>8, <1>9, <1>10 DEF With

LEMMA TextType ==
    ASSUME NEW r \in Response
    PROVE  r.items \in Seq(Item) /\ Text(r) \in Seq(Words)
  <1>1. r.items \in Seq(Item)
    BY DEF Response, Item
  <1>2. Len(r.items) \in 0..Len(r.items)
    BY <1>1
  <1> QED BY <1>1, <1>2, TextSteps DEF Text

\* A word holds finitely many values, so a text does.
LEMMA SpelledFinite ==
    ASSUME NEW text \in Seq(Words), NEW kind
    PROVE  IsFiniteSet(Spelled(text, kind))
  <1> DEFINE Of(i) == {v \in Spellings : <<kind, v>> \in Finds[text[i]]}
             All == {Of(i) : i \in 1..Len(text)}
  <1>1. ASSUME NEW i \in 1..Len(text) PROVE IsFiniteSet(Of(i))
    <2>1. text[i] \in Words
      BY ElementOfSeq
    <2>2. IsFiniteSet(Finds[text[i]])
      BY <2>1, PageTextAssumption
    <2> DEFINE f == [v \in Of(i) |-> <<kind, v>>]
    <2>3. f \in Injection(Of(i), Finds[text[i]])
      BY DEF Injection, IsInjective
    <2> HIDE DEF f, Of
    <2> QED BY <2>2, <2>3, FS_Injection
  <1>2. IsFiniteSet(All)
    <2>1. Len(text) \in Nat
      OBVIOUS
    <2>2. IsFiniteSet(1..Len(text))
      BY <2>1, FS_Interval
    <2> DEFINE g == [i \in 1..Len(text) |-> Of(i)]
    <2>3. g \in Surjection(1..Len(text), All)
      BY DEF Surjection
    <2> HIDE DEF g, All
    <2> QED BY <2>2, <2>3, FS_Surjection
  <1>3. \A S \in All : IsFiniteSet(S)
    BY <1>1
  <1>4. IsFiniteSet(UNION All)
    <2> HIDE DEF All
    <2> QED BY <1>2, <1>3, FS_UNION
  <1>5. Spelled(text, kind) \in SUBSET UNION All
    BY DEF Spelled
  <1> QED BY <1>4, <1>5, FS_Subset

LEMMA OfKindIsASequence ==
    ASSUME NEW text \in Seq(Words), NEW kind
    PROVE  \E n \in Nat : OfKind(text, kind) = [i \in 1..n |-> OfKind(text, kind)[i]]
  <1> DEFINE kept == {v \in Spelled(text, kind) : Rank(Spelled(text, kind), v) < MaxPerKind}
  <1>1. kept \in SUBSET Spelled(text, kind)
    OBVIOUS
  <1>2. IsFiniteSet(kept)
    <2> HIDE DEF kept
    <2> QED BY <1>1, SpelledFinite, FS_Subset
  <1>3. Cardinality(kept) \in Nat
    BY <1>2, FS_CardinalityType
  <1>4. OfKind(text, kind) = [i \in 1..Cardinality(kept) |->
            [kind |-> kind, value |-> CHOOSE v \in kept : Rank(kept, v) = i - 1]]
    BY DEF OfKind
  <1> QED BY <1>3, <1>4

\* The values of a text are a sequence.
LEMMA ExtractType ==
    ASSUME NEW text \in Seq(Words)
    PROVE  \E S : Extract(text) \in Seq(S)
  <1> DEFINE n == Len(Kinds)
             S == {OfKind(text, Kinds[j])[i] : j \in 1..n, i \in Nat}
             With(t, i) == t \o OfKind(text, Kinds[i])
             step == [i \in 1..n |-> [t \in Seq(S) |-> With(t, i)]]
             IsIt(f) == f = [i \in 0..n |-> IF i = 0 THEN <<>> ELSE With(f[i - 1], i)]
  <1>1. n \in Nat /\ <<>> \in Seq(S)
    BY PageTextAssumption, EmptySeq
  <1>2. ASSUME NEW j \in 1..n PROVE OfKind(text, Kinds[j]) \in Seq(S)
    <2>0. PICK q : q = OfKind(text, Kinds[j])
      OBVIOUS
    <2>1. PICK m \in Nat : q = [i \in 1..m |-> q[i]]
      BY <2>0, OfKindIsASequence
    <2>2. \A i \in 1..m : q[i] \in S
      BY <2>0, <2>1
    <2> HIDE DEF S
    <2>3. q \in [1..m -> S]
      BY <2>1, <2>2
    <2>4. q \in Seq(S)
      BY <2>3
    <2> QED BY <2>0, <2>4
  <1> HIDE DEF S
  <1>3. ASSUME NEW i \in 1..n, NEW t \in Seq(S) PROVE With(t, i) \in Seq(S)
    <2>1. PICK q \in Seq(S) : q = OfKind(text, Kinds[i])
      BY <1>2
    <2>2. t \o q \in Seq(S)
      OBVIOUS
    <2> QED BY <2>1, <2>2
  <1> HIDE DEF With
  <1>4. step \in [1..n -> [Seq(S) -> Seq(S)]]
    BY <1>3
  <1>5. PICK g : Steps(g, n, Seq(S), <<>>, step)
    <2> HIDE DEF n, step
    <2> QED BY <1>1, <1>4, Recursion
  <1>6. IsIt(g)
    <2>1. \A i \in 0..n : i # 0 => i - 1 \in 0..n /\ i \in 1..n
      BY <1>1
    <2>2. \A i \in 0..n : g[i] = IF i = 0 THEN <<>> ELSE With(g[i - 1], i)
      BY <1>5, <2>1 DEF Steps
    <2> QED BY <1>5, <2>2 DEF Steps
  <1>7. OfKinds(text) = CHOOSE f : IsIt(f)
    BY DEF OfKinds, With
  <1>8. IsIt(OfKinds(text))
    <2> HIDE DEF IsIt
    <2> QED BY <1>6, <1>7
  <1>9. PICK f : f = OfKinds(text)
    OBVIOUS
  <1>10. DOMAIN f = 0..n /\ f[0] = <<>> /\ \A i \in 1..n : f[i] = With(f[i - 1], i)
    BY <1>1, <1>8, <1>9
  <1>11. \A i \in 0..n : f[i] \in Seq(S)
    <2> DEFINE T == {i \in 0..n : f[i] \in Seq(S)}
    <2>1. 0 \in T
      BY <1>1, <1>10
    <2>2. ASSUME NEW i \in 1..n, i - 1 \in T PROVE i \in T
      <3>1. f[i - 1] \in Seq(S) /\ i \in 0..n
        BY <1>1, <2>2
      <3>2. With(f[i - 1], i) \in Seq(S)
        BY <1>3, <3>1
      <3> QED BY <1>10, <3>1, <3>2
    <2> HIDE DEF T
    <2>3. 0..n \subseteq T
      BY <1>1, <2>1, <2>2, UpTo
    <2> QED BY <2>3 DEF T
  <1>12. n \in 0..n
    BY <1>1
  <1>13. Extract(text) \in Seq(S)
    BY <1>9, <1>11, <1>12 DEF Extract
  <1> QED BY <1>13

\* What a crawl makes of a response: a text that is one, and a sequence of values.
LEMMA ReadingType ==
    ASSUME NEW r \in DOMAIN Reading
    PROVE  /\ r \in Response /\ Reading[r].text = Text(r) /\ Reading[r].text \in Seq(Words)
           /\ \E S : Reading[r].values \in Seq(S)
  <1>1. r \in Response
    BY CrawlPipelineAssumption DEF Reading
  <1>2. Reading[r].text = Text(r) /\ Reading[r].values = Extract(Text(r))
    BY DEF Reading
  <1> QED BY <1>1, <1>2, TextType, ExtractType

-----------------------------------------------------------------------------
(* What the extractor drops *)

\* A start tag opens one more element, an end tag closes at most the innermost.
LEMMA NestKeeps ==
    ASSUME NEW open \in Seq(Ignored), NEW token \in Event
    PROVE  /\ Nest(open, token) \in Seq(Ignored)
           /\ Len(Nest(open, token)) =
                 IF token.is = "start" /\ token.what \in Ignored THEN Len(open) + 1
                 ELSE IF Closes(open, token) THEN Len(open) - 1 ELSE Len(open)
  <1>1. CASE token.is = "start" /\ token.what \in Ignored
    <2>1. Append(open, token.what) \in Seq(Ignored) /\ Len(Append(open, token.what)) = Len(open) + 1
      BY <1>1, AppendProperties
    <2> QED BY <1>1, <2>1 DEF Nest
  <1>2. CASE ~(token.is = "start" /\ token.what \in Ignored) /\ Closes(open, token)
    <2>1. open # <<>> /\ Len(open) \in Nat /\ Len(open) # 0
      BY <1>2, EmptySeq DEF Closes
    <2> DEFINE m == Len(open) - 1
    <2>2. m \in Nat /\ m <= Len(open)
      BY <2>1
    <2>3. SubSeq(open, 1, m) \in Seq(Ignored) /\ Len(SubSeq(open, 1, m)) = m
      <3>1. ASSUME NEW i \in 1..m PROVE open[i] \in Ignored
        <4>1. i \in 1..Len(open)
          BY <2>1, <2>2
        <4> QED BY <4>1, ElementOfSeq
      <3> HIDE DEF m
      <3>2. 1 \in Int /\ m \in Int
        BY <2>2
      <3>3. PICK h : h = SubSeq(open, 1, m)
        OBVIOUS
      <3>4. h \in Seq(Ignored) /\ Len(h) = IF 1 <= m THEN m - 1 + 1 ELSE 0
        BY <3>1, <3>2, <3>3, SubSeqProperties
      <3>5. Len(h) = m
        BY <2>2, <3>4
      <3> QED BY <3>3, <3>4, <3>5
    <2> QED BY <1>2, <2>2, <2>3 DEF Nest, Front
  <1>3. CASE ~(token.is = "start" /\ token.what \in Ignored) /\ ~Closes(open, token)
    BY <1>3 DEF Nest
  <1> QED BY <1>1, <1>2, <1>3

LEMMA OpenElementsSteps ==
    ASSUME NEW page \in Seq(Event)
    PROVE  /\ OpenElements(page) \in [0..Len(page) -> Seq(Ignored)]
           /\ OpenElements(page)[0] = <<>>
           /\ \A i \in 1..Len(page) :
                 OpenElements(page)[i] = Nest(OpenElements(page)[i - 1], page[i])
  <1> DEFINE n == Len(page)
             S == Seq(Ignored)
             step == [i \in 1..n |-> [x \in S |-> Nest(x, page[i])]]
             IsIt(f) == f = [i \in 0..n |-> IF i = 0 THEN <<>> ELSE Nest(f[i - 1], page[i])]
  <1>1. n \in Nat /\ <<>> \in S /\ \A i \in 1..n : page[i] \in Event
    BY EmptySeq
  <1>2. step \in [1..n -> [S -> S]]
    BY <1>1, NestKeeps
  <1>3. PICK g : Steps(g, n, S, <<>>, step)
    <2> HIDE DEF n, S, step
    <2> QED BY <1>1, <1>2, Recursion
  <1>4. IsIt(g)
    <2>1. \A i \in 0..n : i # 0 => i - 1 \in 0..n /\ i \in 1..n
      BY <1>1
    <2>2. \A i \in 0..n : g[i] = IF i = 0 THEN <<>> ELSE Nest(g[i - 1], page[i])
      BY <1>3, <2>1 DEF Steps
    <2> QED BY <1>3, <2>2 DEF Steps
  <1>5. OpenElements(page) = CHOOSE f : IsIt(f)
    BY DEF OpenElements
  <1>6. IsIt(OpenElements(page))
    <2> HIDE DEF IsIt
    <2> QED BY <1>4, <1>5
  <1>7. PICK f : f = OpenElements(page)
    OBVIOUS
  <1>8. /\ DOMAIN f = 0..n /\ f[0] = <<>>
        /\ \A i \in 1..n : f[i] = Nest(f[i - 1], page[i])
    BY <1>1, <1>6, <1>7
  <1>9. \A i \in 0..n : f[i] \in S
    <2> DEFINE T == {i \in 0..n : f[i] \in S}
    <2>1. 0 \in 0..n /\ \A i \in 1..n : i \in 0..n /\ i - 1 \in 0..n
      BY <1>1
    <2>2. \A i \in 1..n : f[i - 1] \in S => Nest(f[i - 1], page[i]) \in S
      BY <1>1, NestKeeps
    <2> HIDE DEF S, n
    <2>3. 0 \in T
      BY <1>1, <1>8, <2>1
    <2>4. \A i \in 1..n : i - 1 \in T => i \in T
      BY <1>8, <2>1, <2>2
    <2> HIDE DEF T
    <2>5. 0..n \subseteq T
      BY <1>1, <2>3, <2>4, UpTo
    <2> QED BY <2>5 DEF T
  <1>10. f = [i \in 0..n |-> f[i]]
    BY <1>6, <1>7
  <1> QED BY <1>7, <1>8, <1>9, <1>10

\* How an event changes the depth.
LEMMA DepthSteps ==
    ASSUME NEW st \in Extracting, NEW token \in Event
    PROVE  Handle(st, token).ignored =
              IF token.is = "start" /\ token.what \in Ignored THEN st.ignored + 1
              ELSE IF token.is = "end" /\ token.what \in Ignored /\ st.ignored > 0
                   THEN st.ignored - 1 ELSE st.ignored
  <1>1. CASE token.is = "start"
    BY <1>1 DEF Handle, HandleStart, Extracting
  <1>2. CASE token.is = "end"
    BY <1>2 DEF Handle, HandleEnd, Extracting
  <1>3. CASE token.is = "data"
    BY <1>3 DEF Handle, HandleData, Extracting
  <1> QED BY <1>1, <1>2, <1>3 DEF Event

\* Until an end tag is misplaced the extractor is as deep as there are elements open,
\* however they are nested and whether or not they are ever closed.
LEMMA DepthIsOpen ==
    ASSUME NEW page \in Seq(Event)
    PROVE  \A k \in 0..Len(page) :
              \/ \E m \in 1..k : Misplaced(page, m)
              \/ Extractor(page)[k].ignored = Len(OpenElements(page)[k])
  <1>1. PICK e, o : e = Extractor(page) /\ o = OpenElements(page)
    OBVIOUS
  <1>2. /\ \A k \in 0..Len(page) : e[k] \in Extracting
        /\ e[0] = [ignored |-> 0, text |-> <<>>]
        /\ \A k \in 1..Len(page) : e[k] = Handle(e[k - 1], page[k]) /\ page[k] \in Event
    BY <1>1, ExtractorSteps, ElementOfSeq
  <1>3. /\ \A k \in 0..Len(page) : o[k] \in Seq(Ignored)
        /\ o[0] = <<>>
        /\ \A k \in 1..Len(page) : o[k] = Nest(o[k - 1], page[k])
    BY <1>1, OpenElementsSteps
  <1> DEFINE astray(k) == \E m \in 1..k : Misplaced(page, m)
             T == {k \in 0..Len(page) : astray(k) \/ e[k].ignored = Len(o[k])}
  <1>4. Len(page) \in Nat
    OBVIOUS
  <1>5. 0 \in T
    BY <1>2, <1>3, <1>4
  <1>6. ASSUME NEW k \in 1..Len(page), k - 1 \in T PROVE k \in T
    <2>1. k \in 0..Len(page) /\ k - 1 \in 0..Len(page)
      BY <1>4
    <2>2. CASE astray(k - 1)
      BY <2>1, <2>2
    <2>3. CASE Misplaced(page, k)
      BY <2>1, <2>3
    <2>4. CASE ~astray(k - 1) /\ ~Misplaced(page, k)
      <3>1. PICK st \in Extracting, open \in Seq(Ignored), token \in Event :
               /\ st = e[k - 1] /\ open = o[k - 1] /\ token = page[k]
               /\ e[k] = Handle(st, token) /\ o[k] = Nest(open, token)
        BY <1>2, <1>3, <2>1
      <3>2. st.ignored = Len(open) /\ Len(open) \in Nat
        BY <1>6, <2>4, <3>1
      <3>3. open = <<>> <=> Len(open) = 0
        BY EmptySeq
      <3>4. token.is = "end" /\ token.what \in Ignored /\ Len(open) # 0 => Closes(open, token)
        BY <1>1, <2>4, <3>1, <3>3 DEF Misplaced
      <3>5. Closes(open, token) => token.is = "end" /\ token.what \in Ignored /\ Len(open) # 0
        <4>1. open # <<>> => Last(open) \in Ignored
          BY <3>2, <3>3, ElementOfSeq DEF Last
        <4> QED BY <3>3, <4>1 DEF Closes
      <3>6. e[k].ignored = Len(o[k])
        <4>1. PICK d \in Nat, l \in Nat : d = st.ignored /\ l = Len(open) /\ d = l
          BY <3>2
        <4>2. e[k].ignored = IF token.is = "start" /\ token.what \in Ignored THEN d + 1
                             ELSE IF token.is = "end" /\ token.what \in Ignored /\ d > 0
                                  THEN d - 1 ELSE d
          BY <3>1, <4>1, DepthSteps
        <4>3. Len(o[k]) = IF token.is = "start" /\ token.what \in Ignored THEN l + 1
                          ELSE IF Closes(open, token) THEN l - 1 ELSE l
          BY <3>1, <4>1, NestKeeps
        <4>4. Closes(open, token) <=> token.is = "end" /\ token.what \in Ignored /\ d > 0
          BY <3>4, <3>5, <4>1
        <4> QED BY <4>1, <4>2, <4>3, <4>4
      <3> QED BY <2>1, <3>6
    <2> QED BY <2>2, <2>3, <2>4
  <1>7. 0..Len(page) \subseteq T
    <2> HIDE DEF T
    <2> QED BY <1>4, <1>5, <1>6, UpTo
  <1> QED BY <1>1, <1>7

LEMMA AppendedSet ==
    ASSUME NEW t \in Seq(Words), NEW word \in Words
    PROVE  ToSet(Append(t, word)) = ToSet(t) \cup {word}
  <1>1. /\ Len(t) \in Nat /\ DOMAIN t = 1..Len(t) /\ DOMAIN Append(t, word) = 1..(Len(t) + 1)
        /\ \A i \in 1..Len(t) : Append(t, word)[i] = t[i]
        /\ Append(t, word)[Len(t) + 1] = word
    OBVIOUS
  <1> QED BY <1>1 DEF ToSet

LEMMA ConcatSet ==
    ASSUME NEW t \in Seq(Words), NEW u \in Seq(Words)
    PROVE  ToSet(t \o u) = ToSet(t) \cup ToSet(u)
  <1>1. /\ Len(t) \in Nat /\ DOMAIN t = 1..Len(t) /\ Len(u) \in Nat /\ DOMAIN u = 1..Len(u)
        /\ DOMAIN (t \o u) = 1..(Len(t) + Len(u))
        /\ \A i \in 1..(Len(t) + Len(u)) :
              (t \o u)[i] = IF i <= Len(t) THEN t[i] ELSE u[i - Len(t)]
    OBVIOUS
  <1>2. ToSet(t \o u) \subseteq ToSet(t) \cup ToSet(u)
    BY <1>1 DEF ToSet
  <1>3. ToSet(t) \subseteq ToSet(t \o u)
    BY <1>1 DEF ToSet
  <1>4. ASSUME NEW i \in 1..Len(u) PROVE u[i] \in ToSet(t \o u)
    <2>1. /\ Len(t) + i \in 1..(Len(t) + Len(u)) /\ ~(Len(t) + i <= Len(t))
          /\ (Len(t) + i) - Len(t) = i
      BY <1>1
    <2>2. (t \o u)[Len(t) + i] = u[i]
      BY <1>1, <2>1
    <2> QED BY <1>1, <2>1, <2>2 DEF ToSet
  <1>5. ToSet(u) \subseteq ToSet(t \o u)
    BY <1>1, <1>4 DEF ToSet
  <1> QED BY <1>2, <1>3, <1>5

Shown(page) == Seen(page) \cup Behind(page)

\* The extractor keeps only what is not hidden, or stands behind a misplaced end tag.
LEMMA PageShowsText ==
    ASSUME NEW page \in Seq(Event)
    PROVE  ToSet(NormalizeHtml(page)) \subseteq Shown(page)
  <1>1. PICK e : e = Extractor(page)
    OBVIOUS
  <1>2. /\ \A k \in 0..Len(page) : e[k] \in Extracting
        /\ e[0] = [ignored |-> 0, text |-> <<>>]
        /\ \A k \in 1..Len(page) : e[k] = Handle(e[k - 1], page[k]) /\ page[k] \in Event
    BY <1>1, ExtractorSteps, ElementOfSeq
  <1> DEFINE T == {k \in 0..Len(page) : ToSet(e[k].text) \subseteq Shown(page)}
  <1>3. Len(page) \in Nat
    OBVIOUS
  <1>4. 0 \in T
    BY <1>2, <1>3 DEF ToSet
  <1>5. ASSUME NEW k \in 1..Len(page), k - 1 \in T PROVE k \in T
    <2>1. k \in 0..Len(page) /\ k - 1 \in 0..Len(page)
      BY <1>3
    <2>2. PICK st \in Extracting : st = e[k - 1] /\ e[k] = Handle(st, page[k]) /\ page[k] \in Event
      BY <1>2, <2>1
    <2>3. ToSet(st.text) \subseteq Shown(page) /\ st.text \in Seq(Words) /\ st.ignored \in Nat
      BY <1>5, <2>2 DEF Extracting
    <2>4. \/ e[k].text = st.text
          \/ /\ ToSet(e[k].text) = ToSet(st.text) \cup {page[k].what}
             /\ page[k].is = "data" /\ st.ignored = 0
      <3>1. CASE page[k].is = "start"
        <4>1. e[k].text = st.text
          BY <2>2, <3>1 DEF Handle, HandleStart, Extracting
        <4> QED BY <4>1
      <3>2. CASE page[k].is = "end"
        <4>1. e[k].text = st.text
          BY <2>2, <3>2 DEF Handle, HandleEnd, Extracting
        <4> QED BY <4>1
      <3>3. CASE page[k].is = "data"
        <4>1. page[k].what \in Words
          BY <2>2, <3>3 DEF Event
        <4>2. st.ignored = 0 => e[k].text = Append(st.text, page[k].what)
          BY <2>2, <2>3, <3>3 DEF Handle, HandleData, Extracting
        <4>3. st.ignored # 0 => e[k].text = st.text
          BY <2>2, <2>3, <3>3 DEF Handle, HandleData, Extracting
        <4>4. ToSet(Append(st.text, page[k].what)) = ToSet(st.text) \cup {page[k].what}
          BY <2>3, <4>1, AppendedSet
        <4>5. CASE st.ignored = 0
          BY <3>3, <4>2, <4>4, <4>5
        <4>6. CASE st.ignored # 0
          BY <4>3, <4>6
        <4> QED BY <4>5, <4>6
      <3> QED BY <2>2, <3>1, <3>2, <3>3 DEF Event
    <2>5. st.ignored = 0 => ~Hidden(page, k) \/ \E m \in 1..(k - 1) : Misplaced(page, m)
      <3>1. \/ \E m \in 1..(k - 1) : Misplaced(page, m)
            \/ st.ignored = Len(OpenElements(page)[k - 1])
        BY <1>1, <2>1, <2>2, DepthIsOpen
      <3>2. Len(OpenElements(page)[k - 1]) = 0 => OpenElements(page)[k - 1] = <<>>
        BY <2>1, OpenElementsSteps, EmptySeq
      <3> QED BY <3>1, <3>2 DEF Hidden
    <2>6. page[k].is = "data" /\ st.ignored = 0 => page[k].what \in Shown(page)
      BY <2>5 DEF Shown, Seen, Behind
    <2> QED BY <2>1, <2>3, <2>4, <2>6
  <1>6. Len(page) \in T
    <2> HIDE DEF T
    <2>1. 0..Len(page) \subseteq T
      BY <1>3, <1>4, <1>5, UpTo
    <2> QED BY <1>3, <2>1
  <1> QED BY <1>1, <1>6 DEF NormalizeHtml

\* So does the text of a response.
LEMMA TextIsVisible ==
    ASSUME NEW r \in Response
    PROVE  ToSet(Text(r)) \subseteq Visible(r) \cup Disputed(r)
  <1>1. PICK items \in Seq(Item) : items = r.items
    BY TextType
  <1>2. PICK f : f = TextOf(items)
    OBVIOUS
  <1>3. /\ Len(items) \in Nat /\ DOMAIN items = 1..Len(items)
        /\ \A k \in 0..Len(items) : f[k] \in Seq(Words)
        /\ f[0] = <<>>
        /\ \A k \in 1..Len(items) :
              f[k] = f[k - 1] \o items[k].title \o NormalizeHtml(items[k].page)
    <2>1. Len(items) \in Nat /\ DOMAIN items = 1..Len(items)
      BY LenProperties
    <2>2. /\ TextOf(items) \in [0..Len(items) -> Seq(Words)]
          /\ TextOf(items)[0] = <<>>
          /\ \A k \in 1..Len(items) :
                TextOf(items)[k] =
                   TextOf(items)[k - 1] \o items[k].title \o NormalizeHtml(items[k].page)
      BY TextSteps
    <2> QED BY <1>2, <2>1, <2>2
  <1> DEFINE T == {k \in 0..Len(items) : ToSet(f[k]) \subseteq Visible(r) \cup Disputed(r)}
  <1>4. 0 \in T
    <2>1. ToSet(<<>>) = {}
      BY DEF ToSet
    <2>2. ToSet(f[0]) = {}
      BY <1>3, <2>1
    <2> QED BY <1>3, <2>2
  <1>5. ASSUME NEW k \in 1..Len(items), k - 1 \in T PROVE k \in T
    <2>1. k \in 0..Len(items) /\ k - 1 \in 0..Len(items)
      BY <1>3
    <2>2. PICK item \in Item : item = items[k]
      BY ElementOfSeq
    <2>3. item.title \in Seq(Words) /\ item.page \in Seq(Event)
      BY <2>2 DEF Item
    <2>4. NormalizeHtml(item.page) \in Seq(Words)
      BY <2>3, PageTextType
    <2>5. PICK t \in Seq(Words), u \in Seq(Words), w \in Seq(Words) :
             t = f[k - 1] /\ u = item.title /\ w = NormalizeHtml(item.page)
      BY <1>3, <2>1, <2>3, <2>4
    <2>6. f[k] = (t \o u) \o w /\ t \o u \in Seq(Words)
      <3>1. f[k] = f[k - 1] \o items[k].title \o NormalizeHtml(items[k].page)
        BY <1>3
      <3> QED BY <2>2, <2>5, <3>1
    <2>7. ToSet(f[k]) = ToSet(t) \cup ToSet(u) \cup ToSet(w)
      BY <2>6, ConcatSet
    <2>8. ToSet(w) \subseteq Shown(item.page)
      BY <2>3, <2>5, PageShowsText
    <2>9. item \in ToSet(r.items)
      BY <1>1, <1>3, <2>2 DEF ToSet
    <2>10. ToSet(item.title) \cup Shown(item.page) \subseteq Visible(r) \cup Disputed(r)
      BY <2>9 DEF Visible, Disputed, Shown
    <2>11. ToSet(t) \subseteq Visible(r) \cup Disputed(r)
      BY <1>5, <2>5
    <2> QED BY <2>1, <2>5, <2>7, <2>8, <2>10, <2>11
  <1>6. Len(items) \in T
    <2> HIDE DEF T
    <2>1. 0..Len(items) \subseteq T
      BY <1>3, <1>4, <1>5, UpTo
    <2> QED BY <1>3, <2>1
  <1> QED BY <1>1, <1>2, <1>6 DEF Text

\* A request ends at the end of a chain of permitted redirects.
LEMMA AnswersAreReached ==
    ASSUME NEW u \in DOMAIN Serves
    PROVE  Answers[u] \subseteq Reached[u]
  <1> DEFINE After(S) == {v \in DOMAIN Serves : \E w \in S : Follows(w, v)}
             h0 == {u} \cap Public
             h1 == After(h0)
             h2 == After(h1)
             h3 == After(h2)
             IsIt(f) == f = [n \in 0..MaxRedirects |->
                               IF n = 0 THEN {u} \cap Public ELSE After(f[n - 1])]
             Chains == {c \in UNION {[1..n -> Public] : n \in 1..4} :
                          /\ c[1] = u
                          /\ \A i \in 1..(Len(c) - 1) :
                                /\ c[i] \in Secure => c[i + 1] \in Secure
                                /\ \E a \in Serves[c[i]] : a.redirect /\ a.to = c[i + 1]}
  <1>1. Hops(u) = CHOOSE f : IsIt(f)
    BY DEF Hops
  <1>2. \E f : IsIt(f)
    <2>1. PICK g : g = [n \in 0..3 |-> IF n = 0 THEN h0 ELSE IF n = 1 THEN h1
                                       ELSE IF n = 2 THEN h2 ELSE h3]
      OBVIOUS
    <2>2. g[0] = h0 /\ g[1] = h1 /\ g[2] = h2 /\ g[3] = h3
      <3> HIDE DEF h0, h1, h2, h3
      <3> QED BY <2>1
    <2> HIDE DEF After
    <2>3. \A n \in 0..3 : g[n] = IF n = 0 THEN {u} \cap Public ELSE After(g[n - 1])
      BY <2>2
    <2>4. IsIt(g)
      BY <2>1, <2>3 DEF MaxRedirects
    <2> QED BY <2>4
  <1>3. IsIt(Hops(u))
    <2> HIDE DEF IsIt
    <2> QED BY <1>1, <1>2
  <1>4. PICK h : h = Hops(u)
    OBVIOUS
  <1>5. h[0] = {u} \cap Public /\ \A n \in 1..3 : h[n] = After(h[n - 1])
    BY <1>3, <1>4 DEF MaxRedirects
  <1> HIDE DEF h0, h1, h2, h3, IsIt
  <1> DEFINE Chain(c, n, v) ==
                /\ c \in [1..(n + 1) -> Public] /\ c[1] = u /\ c[n + 1] = v
                /\ \A i \in 1..n : /\ c[i] \in Secure => c[i + 1] \in Secure
                                   /\ \E a \in Serves[c[i]] : a.redirect /\ a.to = c[i + 1]
             T == {n \in 0..3 : \A v \in h[n] : \E c : Chain(c, n, v)}
  <1>6. 0 \in T
    <2>1. ASSUME NEW v \in h[0] PROVE \E c : Chain(c, 0, v)
      <3>1. v = u /\ u \in Public
        BY <1>5
      <3>2. PICK c : c = [i \in 1..1 |-> u]
        OBVIOUS
      <3>3. Chain(c, 0, v)
        BY <3>1, <3>2
      <3> QED BY <3>3
    <2> QED BY <2>1
  <1>7. ASSUME NEW n \in 1..3, n - 1 \in T PROVE n \in T
    <2>1. ASSUME NEW v \in h[n] PROVE \E c : Chain(c, n, v)
      <3>1. PICK w \in h[n - 1] : Follows(w, v)
        BY <1>5, <2>1
      <3>2. PICK c : Chain(c, n - 1, w)
        BY <1>7, <3>1
      <3>3. (n - 1) + 1 = n /\ n + 1 \in Int
        OBVIOUS
      <3>4. /\ c \in [1..n -> Public] /\ c[1] = u /\ c[n] = w
            /\ \A i \in 1..(n - 1) :
                  /\ c[i] \in Secure => c[i + 1] \in Secure
                  /\ \E a \in Serves[c[i]] : a.redirect /\ a.to = c[i + 1]
        BY <3>2, <3>3
      <3>5. /\ v \in Public
            /\ w \in Secure => v \in Secure
            /\ \E a \in Serves[w] : a.redirect /\ a.to = v
        BY <3>1 DEF Follows
      <3>6. PICK d : d = [i \in 1..(n + 1) |-> IF i = n + 1 THEN v ELSE c[i]]
        OBVIOUS
      <3>7. /\ d \in [1..(n + 1) -> Public] /\ d[n + 1] = v
            /\ \A i \in 1..n : d[i] = c[i]
        BY <3>4, <3>5, <3>6
      <3>8. d[1] = u
        BY <3>4, <3>7
      <3>9. ASSUME NEW i \in 1..n
            PROVE  /\ d[i] \in Secure => d[i + 1] \in Secure
                   /\ \E a \in Serves[d[i]] : a.redirect /\ a.to = d[i + 1]
        <4>1. CASE i = n
          <5>1. d[i] = w /\ d[i + 1] = v
            BY <3>4, <3>7, <4>1
          <5> QED BY <3>5, <5>1
        <4>2. CASE i # n
          <5>1. i \in 1..(n - 1) /\ i + 1 \in 1..n
            BY <4>2
          <5>2. d[i] = c[i] /\ d[i + 1] = c[i + 1]
            BY <3>7, <5>1
          <5> QED BY <3>4, <5>1, <5>2
        <4> QED BY <4>1, <4>2
      <3>10. Chain(d, n, v)
        BY <3>7, <3>8, <3>9
      <3> QED BY <3>10
    <2> QED BY <2>1
  <1>8. 0..3 \subseteq T
    <2> HIDE DEF T
    <2> QED BY <1>6, <1>7, UpTo
  <1>9. ASSUME NEW n \in 0..3, NEW v \in h[n] PROVE ResponsesAt(v) \subseteq Reached[u]
    <2>1. PICK c : Chain(c, n, v)
      BY <1>8
    <2>2. Len(c) = n + 1 /\ n + 1 \in 1..4 /\ (n + 1) - 1 = n
      BY <2>1
    <2>3. c \in Chains
      BY <2>1, <2>2
    <2>4. Reached[u] = UNION {ResponsesAt(chain[Len(chain)]) : chain \in Chains}
      BY DEF Reached
    <2> HIDE DEF Chains
    <2> QED BY <2>1, <2>2, <2>3, <2>4
  <1>10. Answers[u] = UNION {ResponsesAt(v) : v \in UNION {h[n] : n \in 0..3}}
    BY <1>4 DEF Answers, MaxRedirects
  <1> QED BY <1>9, <1>10

-----------------------------------------------------------------------------
(* The invariant *)

Texts == {<<>>} \cup {Reading[r].text : r \in DOMAIN Reading}
ValuesOfTexts == {<<>>} \cup {Reading[r].values : r \in DOMAIN Reading}

\* The rows a crawl of s may write that read this text and these values.
RowsFor(s, text, values) ==
    DocumentRows(s, text, values) \cup UNION {AlertRows(s, text, m) : m \in Monitors}
RowsOf(q) == RowsFor(q.source, q.text, q.values)
Key == UNION {UNION {UNION {RowsFor(s, text, values) : values \in ValuesOfTexts} :
                     text \in Texts} : s \in Sources}

Crawl == [at : Stages, source : Sources \cup {NoUrl}, url : DOMAIN Serves \cup {NoUrl},
          read : SUBSET DOMAIN Reading, text : Texts, values : ValuesOfTexts, next : Nat,
          found : BOOLEAN, new : SUBSET Key, locks : SUBSET Key, steady : SUBSET Monitors]

\* A crawl has a job; it runs until its crawl completes it or is over.
JobOf(c, q) ==
    /\ q.at = "idle" => jobs[c].status = "none"
    /\ q.at \notin {"idle", "ended"} =>
          /\ jobs[c].status = "running"
          /\ q.source \in Sources /\ q.url \in DOMAIN Serves
          /\ q.steady \subseteq enabled
    /\ jobs[c].status = "completed" => q.at = "ended"

\* From the transaction on it has read one response that its URL may lead to.
ReadOf(c, q) ==
    q.at \in InTransaction \/ jobs[c].status = "completed" =>
        /\ q.source \in Sources /\ q.url \in DOMAIN Serves
        /\ \E r \in Answers[q.url] \cap DOMAIN Reading :
              q.read = {r} /\ q.text = Reading[r].text /\ q.values = Reading[r].values

Writing == {"entity", "insert", "commit"}
Held(q) == q.new \cup q.locks

\* Once it has written the document, the rows of a crawl are its own or committed, up to
\* the value it stands at, and the document's row is its own or locked.
WorkOf(q) ==
    LET have == DOMAIN rows \cup q.new
    IN  /\ q.at \notin Writing => Held(q) = {}
        /\ q.at \notin Writing \cup {"ended"} => q.next = 1
        /\ q.at \in {"document"} \cup Writing /\ q.found => DocumentKey(q.text) \in DOMAIN rows
        /\ q.at \in Writing =>
              /\ DocumentKey(q.text) \in (IF q.found THEN q.locks ELSE q.new)
              /\ \A i \in 1..(q.next - 1) :
                    {EntityKey(EntityId(q.values[i]))}
                        \cup EntityRows(q.source, EntityId(q.values[i]), q.text) \subseteq have
              /\ q.new \subseteq RowsOf(q)
              /\ \A k \in q.locks : k.is \in {"document", "entity"}
        /\ q.at = "insert" => q.next <= Len(q.values)
        /\ q.at = "commit" =>
              /\ q.next > Len(q.values)
              /\ \A m \in q.steady :
                    Matches(q.text, m) => AlertRows(q.source, q.text, m) \subseteq have
        /\ q.new \cap DOMAIN rows = {}
        /\ q.next \in 1..(Len(q.values) + 1)

\* A completed crawl has left everything.
DoneOf(c, q) ==
    jobs[c].status = "completed" =>
        /\ DocumentRows(q.source, q.text, q.values) \subseteq DOMAIN rows
        /\ \A m \in q.steady :
              Matches(q.text, m) => AlertRows(q.source, q.text, m) \subseteq DOMAIN rows
        /\ jobs[c].duplicates = 1 <=> rows[DocumentKey(q.text)].by # c

Good(c, q) == JobOf(c, q) /\ ReadOf(c, q) /\ WorkOf(q) /\ DoneOf(c, q)

Types ==
    /\ sources \in [Sources -> DOMAIN Serves \cup {NoUrl}]
    /\ enabled \subseteq Monitors
    /\ jobs \in [Crawls -> [status : {"none", "running", "completed", "failed"}, duplicates : 0..1]]
    /\ edits \in 0..MaxEdits
    /\ tx \in [Crawls -> Crawl]
CrawlsInv == \A c \in Crawls : Good(c, tx[c])

\* A committed row names a completed crawl that may have written it, and its URL.
RowsInv ==
    \A k \in DOMAIN rows :
        /\ rows[k].by \in Crawls /\ jobs[rows[k].by].status = "completed"
        /\ rows[k].url = tx[rows[k].by].url /\ rows[k] \in [by : Crawls, url : DOMAIN Serves]
        /\ k \in RowsOf(tx[rows[k].by])

\* No row is held by two crawls.
Apart == \A c, d \in Crawls : c # d => Held(tx[c]) \cap Held(tx[d]) = {}

IInv == Types /\ CrawlsInv /\ RowsInv /\ Apart

-----------------------------------------------------------------------------
(* Lemmas *)

LEMMA Lengths ==
    ASSUME NEW values \in ValuesOfTexts
    PROVE  Len(values) \in Nat /\ DOMAIN values = 1..Len(values)
  <1>1. \E S : values \in Seq(S)
    <2>1. <<>> \in Seq({})
      BY EmptySeq
    <2> QED BY <2>1, ReadingType DEF ValuesOfTexts
  <1> QED BY <1>1, LenProperties

\* The key of every row but an entity's names the text.
LEMMA KeyKinds ==
    /\ \A text : DocumentKey(text).is = "document" /\ DocumentKey(text).text = text
    /\ \A id : EntityKey(id).is = "entity"
    /\ \A s, id, text : \A k \in EntityRows(s, id, text) :
          k.is \in {"observation", "event"} /\ k.text = text
    /\ \A s, text, m : \A k \in AlertRows(s, text, m) :
          k.is \in {"match", "alert"} /\ k.text = text
  BY DEF DocumentKey, EntityKey, EntityRows, ObservationKey, EventKey, AlertRows, MatchKey, AlertKey

LEMMA RowsNameText ==
    ASSUME NEW q, NEW k \in RowsOf(q), k.is # "entity"
    PROVE  k.text = q.text
  <1>1. CASE k \in DocumentRows(q.source, q.text, q.values)
    <2>1. \/ k = DocumentKey(q.text)
          \/ \E v \in ToSet(q.values) : \/ k = EntityKey(EntityId(v))
                                        \/ k \in EntityRows(q.source, EntityId(v), q.text)
      BY <1>1 DEF DocumentRows
    <2> QED BY <2>1, KeyKinds
  <1>2. CASE \E m \in Monitors : k \in AlertRows(q.source, q.text, m)
    BY <1>2, KeyKinds
  <1> QED BY <1>1, <1>2 DEF RowsOf, RowsFor

LEMMA RowsAreKeys ==
    ASSUME NEW q \in Crawl, q.source \in Sources
    PROVE  RowsOf(q) \subseteq Key
  BY DEF Crawl, RowsOf, Key

\* What a crawl holds and has done stays, whoever commits what it does not hold.
LEMMA GoodStays ==
    ASSUME NEW c, NEW q \in Crawl, Good(c, q), jobs'[c] = jobs[c], enabled' = enabled,
           DOMAIN rows \subseteq DOMAIN rows', \A k \in DOMAIN rows : rows'[k] = rows[k],
           q.new \cap DOMAIN rows' = {}
    PROVE  Good(c, q)'
  <1>1. JobOf(c, q)' /\ ReadOf(c, q)'
    BY DEF Good, JobOf, ReadOf
  <1>2. WorkOf(q)'
    BY DEF Good, WorkOf
  <1>3. DoneOf(c, q)'
    <2> SUFFICES ASSUME jobs[c].status = "completed" PROVE DoneOf(c, q)'
      BY DEF DoneOf
    <2>1. DocumentKey(q.text) \in DOMAIN rows
      BY DEF Good, DoneOf, DocumentRows
    <2> QED BY <2>1 DEF Good, DoneOf
  <1> QED BY <1>1, <1>2, <1>3 DEF Good

\* The job of a crawl that is over is failed by the next crawl of its source.
LEMMA GoodReaped ==
    ASSUME NEW c, NEW q \in Crawl, Good(c, q), q.at = "ended", jobs'[c].status = "failed",
           UNCHANGED <<enabled, rows>>
    PROVE  Good(c, q)'
  <1>1. JobOf(c, q)' /\ ReadOf(c, q)' /\ DoneOf(c, q)'
    BY DEF JobOf, ReadOf, DoneOf, InTransaction
  <1>2. WorkOf(q)'
    BY DEF Good, WorkOf
  <1> QED BY <1>1, <1>2 DEF Good

\* A crawl takes a step and commits nothing.
LEMMA StepInv ==
    ASSUME IInv, NEW c \in Crawls, NEW q \in Crawl, tx' = [tx EXCEPT ![c] = q],
           UNCHANGED <<sources, enabled, rows, edits>>,
           jobs' \in [Crawls -> [status : {"none", "running", "completed", "failed"},
                                 duplicates : 0..1]],
           \A d \in Crawls \ {c} :
              \/ jobs'[d] = jobs[d]
              \/ /\ tx[d].at = "ended" /\ jobs[d].status = "running"
                 /\ jobs'[d].status = "failed",
           jobs[c].status # "completed", Good(c, q)',
           \A d \in Crawls \ {c} : Held(q) \cap Held(tx[d]) = {}
    PROVE  IInv'
  <1>1. tx'[c] = q /\ \A d \in Crawls \ {c} : tx'[d] = tx[d]
    BY DEF IInv, Types
  <1>2. Types'
    BY DEF IInv, Types
  <1>3. CrawlsInv'
    <2> SUFFICES ASSUME NEW d \in Crawls, d # c PROVE Good(d, tx[d])'
      BY <1>1 DEF CrawlsInv
    <2>1. PICK o \in Crawl : o = tx[d]
      BY DEF IInv, Types
    <2>2. Good(d, o) /\ o.new \cap DOMAIN rows = {}
      BY <2>1 DEF IInv, CrawlsInv, Good, WorkOf
    <2>3. Good(d, o)'
      <3>1. CASE jobs'[d] = jobs[d]
        BY <2>2, <3>1, GoodStays
      <3>2. CASE tx[d].at = "ended" /\ jobs'[d].status = "failed"
        BY <2>1, <2>2, <3>2, GoodReaped
      <3> QED BY <3>1, <3>2
    <2> QED BY <1>1, <2>1, <2>3
  <1>4. RowsInv'
    <2> SUFFICES ASSUME NEW k \in DOMAIN rows
                 PROVE  /\ jobs'[rows[k].by].status = "completed"
                        /\ tx'[rows[k].by] = tx[rows[k].by]
      BY DEF IInv, RowsInv, RowsOf
    <2>1. /\ rows[k].by \in Crawls /\ jobs[rows[k].by].status = "completed"
          /\ rows[k].by # c
      BY DEF IInv, RowsInv
    <2> QED BY <1>1, <2>1
  <1>5. Apart'
    <2>1. \A d, e \in Crawls : d # e => Held(tx'[d]) \cap Held(tx'[e]) = {}
      BY <1>1 DEF IInv, Apart
    <2> QED BY <2>1 DEF Apart, Held
  <1> QED BY <1>2, <1>3, <1>4, <1>5 DEF IInv

LEMMA InitInv ==
    ASSUME Init
    PROVE  IInv
  <1>1. Idle \in Crawl
    <2>1. <<>> \in Texts /\ <<>> \in ValuesOfTexts /\ "idle" \in Stages
      BY DEF Texts, ValuesOfTexts, Stages
    <2> QED BY <2>1 DEF Idle, Crawl
  <1>2. /\ Idle.at = "idle" /\ Idle.new = {} /\ Idle.locks = {} /\ Idle.next = 1
        /\ Idle.values = <<>>
    BY DEF Idle
  <1>3. \A c \in Crawls : tx[c] = Idle /\ jobs[c].status = "none"
    BY DEF Init
  <1>4. Types
    BY <1>1, CrawlPipelineAssumption DEF Init, Types
  <1>5. CrawlsInv
    <2> SUFFICES ASSUME NEW c \in Crawls PROVE Good(c, Idle)
      BY <1>3 DEF CrawlsInv
    <2>1. JobOf(c, Idle) /\ ReadOf(c, Idle) /\ DoneOf(c, Idle)
      BY <1>2, <1>3 DEF JobOf, ReadOf, DoneOf, InTransaction
    <2>2. WorkOf(Idle)
      BY <1>2 DEF WorkOf, Writing, Held
    <2> QED BY <2>1, <2>2 DEF Good
  <1>6. RowsInv
    BY DEF Init, RowsInv
  <1>7. Apart
    BY <1>2, <1>3 DEF Apart, Held
  <1> QED BY <1>4, <1>5, <1>6, <1>7 DEF IInv

-----------------------------------------------------------------------------
(* Up to the transaction *)

LEMMA LiveRuns ==
    ASSUME IInv, NEW c \in Crawls, Live(c)
    PROVE  jobs[c].status = "running"
  BY DEF IInv, CrawlsInv, Good, JobOf, Live

LEMMA StartInv ==
    ASSUME IInv, NEW c \in Crawls, NEW s \in Sources, Start(c, s)
    PROVE  IInv'
  <1>1. PICK url : url = sources[s]
    OBVIOUS
  <1>2. PICK steady : steady = enabled
    OBVIOUS
  <1>3. PICK q : q = [Idle EXCEPT !.at = "fetch", !.source = s, !.url = url, !.steady = steady]
    OBVIOUS
  <1>4. /\ tx' = [tx EXCEPT ![c] = q] /\ UNCHANGED <<sources, enabled, rows, edits>>
        /\ tx[c].at = "idle" /\ url \in DOMAIN Serves
    BY <1>1, <1>2, <1>3 DEF Start, IInv, Types
  <1>5. /\ q \in Crawl /\ q.at = "fetch" /\ q.source = s /\ q.url = url /\ q.new = {}
        /\ q.locks = {} /\ q.next = 1 /\ q.values = <<>> /\ q.steady = steady
    <2>1. <<>> \in Texts /\ <<>> \in ValuesOfTexts /\ "fetch" \in Stages
      BY DEF Texts, ValuesOfTexts, Stages
    <2>2. steady \subseteq Monitors
      BY <1>2 DEF IInv, Types
    <2> QED BY <1>3, <1>4, <2>1, <2>2 DEF Idle, Crawl
  <1>6. PICK reaped : reaped = Reaped(s)
    OBVIOUS
  <1>7. ASSUME NEW d \in Crawls
        PROVE  /\ reaped[d] \in [status : {"none", "running", "completed", "failed"},
                                 duplicates : 0..1]
               /\ \/ reaped[d] = jobs[d]
                  \/ /\ jobs[d].status = "running" /\ tx[d].source = s
                     /\ reaped[d].status = "failed"
    BY <1>6 DEF Reaped, IInv, Types
  <1>8. /\ jobs' = [reaped EXCEPT ![c].status = "running"]
        /\ reaped = [d \in Crawls |-> reaped[d]]
    BY <1>6 DEF Start, Reaped
  <1>9. /\ jobs' \in [Crawls -> [status : {"none", "running", "completed", "failed"},
                                 duplicates : 0..1]]
        /\ jobs'[c].status = "running" /\ \A d \in Crawls \ {c} : jobs'[d] = reaped[d]
    BY <1>7, <1>8
  <1>10. ASSUME NEW d \in Crawls \ {c}
         PROVE  \/ jobs'[d] = jobs[d]
                \/ /\ tx[d].at = "ended" /\ jobs[d].status = "running"
                   /\ jobs'[d].status = "failed"
    <2>1. tx[d].source = s => tx[d].at \in {"idle", "ended"}
      BY DEF Start, Live
    <2>2. tx[d].at = "idle" => jobs[d].status = "none"
      BY DEF IInv, CrawlsInv, Good, JobOf
    <2> QED BY <1>7, <1>9, <2>1, <2>2
  <1>11. Good(c, q)'
    <2>1. JobOf(c, q)' /\ ReadOf(c, q)' /\ DoneOf(c, q)'
      BY <1>2, <1>4, <1>5, <1>9 DEF JobOf, ReadOf, DoneOf, InTransaction
    <2>2. WorkOf(q)'
      BY <1>5 DEF WorkOf, Writing, Held
    <2> QED BY <2>1, <2>2 DEF Good
  <1>12. jobs[c].status = "none"
    BY <1>4 DEF IInv, CrawlsInv, Good, JobOf
  <1> QED BY <1>4, <1>5, <1>9, <1>10, <1>11, <1>12, StepInv DEF Held

LEMMA FetchInv ==
    ASSUME IInv, NEW c \in Crawls, Fetch(c)
    PROVE  IInv'
  <1>1. PICK o \in Crawl : o = tx[c]
    BY DEF IInv, Types
  <1>2. PICK r \in Answers[o.url] \cap DOMAIN Reading :
           tx' = [tx EXCEPT ![c].at = "look", ![c].read = {r}, ![c].text = Reading[r].text,
                            ![c].values = Reading[r].values]
    BY <1>1 DEF Fetch
  <1>3. PICK text \in Texts : text = Reading[r].text
    BY DEF Texts
  <1>4. PICK values \in ValuesOfTexts : values = Reading[r].values
    BY DEF ValuesOfTexts
  <1>5. PICK q : q = [o EXCEPT !.at = "look", !.read = {r}, !.text = text, !.values = values]
    OBVIOUS
  <1>6. /\ tx' = [tx EXCEPT ![c] = q] /\ o.at = "fetch" /\ Good(c, o)
        /\ UNCHANGED <<sources, enabled, jobs, rows, edits>>
    BY <1>1, <1>2, <1>3, <1>4, <1>5 DEF Fetch, IInv, CrawlsInv, Types
  <1>7. /\ q \in Crawl /\ q.at = "look" /\ q.source = o.source /\ q.url = o.url
        /\ q.read = {r} /\ q.text = text /\ q.values = values /\ q.next = o.next
        /\ q.found = o.found /\ q.new = o.new /\ q.locks = o.locks /\ q.steady = o.steady
    BY <1>5 DEF Crawl, Stages, InTransaction
  <1>8. jobs[c].status = "running"
    BY <1>6 DEF Good, JobOf
  <1>9. Held(q) = {}
    BY <1>6, <1>7 DEF Good, WorkOf, Writing, Held
  <1>10. Good(c, q)
    <2>1. JobOf(c, q) /\ DoneOf(c, q)
      BY <1>6, <1>7, <1>8 DEF Good, JobOf, DoneOf
    <2>2. ReadOf(c, q)
      BY <1>3, <1>4, <1>6, <1>7 DEF Good, JobOf, ReadOf
    <2>3. WorkOf(q)
      <3>1. Len(q.values) \in Nat /\ q.next = 1
        BY <1>6, <1>7, Lengths DEF Good, WorkOf, Writing
      <3> QED BY <1>7, <1>9, <3>1 DEF WorkOf, Writing, Held
    <2> QED BY <2>1, <2>2, <2>3 DEF Good
  <1>11. Good(c, q)'
    BY <1>6, <1>7, <1>9, <1>10, GoodStays DEF Held
  <1> QED BY <1>6, <1>7, <1>8, <1>9, <1>11, StepInv DEF IInv, Types

LEMMA FetchFailsInv ==
    ASSUME IInv, NEW c \in Crawls, FetchFails(c)
    PROVE  IInv'
  <1>1. PICK o \in Crawl : o = tx[c]
    BY DEF IInv, Types
  <1>2. PICK q : q = [o EXCEPT !.at = "ended"]
    OBVIOUS
  <1>3. PICK j \in [status : {"none", "running", "completed", "failed"}, duplicates : 0..1] :
           j = [jobs[c] EXCEPT !.status = "failed"]
    BY DEF IInv, Types
  <1>4. /\ tx' = [tx EXCEPT ![c] = q] /\ jobs' = [jobs EXCEPT ![c] = j] /\ j.status = "failed"
        /\ o.at = "fetch" /\ Good(c, o) /\ UNCHANGED <<sources, enabled, rows, edits>>
    BY <1>1, <1>2, <1>3 DEF FetchFails, IInv, CrawlsInv, Types
  <1>5. /\ q \in Crawl /\ q.at = "ended" /\ q.values = o.values /\ q.next = o.next
        /\ q.new = o.new /\ q.locks = o.locks
    BY <1>2 DEF Crawl, Stages
  <1>6. Held(q) = {} /\ jobs[c].status = "running"
    BY <1>4, <1>5 DEF Good, JobOf, WorkOf, Writing, Held
  <1>7. /\ jobs' \in [Crawls -> [status : {"none", "running", "completed", "failed"},
                                 duplicates : 0..1]]
        /\ jobs'[c] = j /\ \A d \in Crawls \ {c} : jobs'[d] = jobs[d]
    BY <1>4 DEF IInv, Types
  <1>8. Good(c, q)'
    <2>1. JobOf(c, q)' /\ ReadOf(c, q)' /\ DoneOf(c, q)'
      BY <1>4, <1>5, <1>7 DEF JobOf, ReadOf, DoneOf, InTransaction
    <2>2. WorkOf(q)'
      BY <1>4, <1>5, <1>6 DEF Good, WorkOf, Writing, Held
    <2> QED BY <2>1, <2>2 DEF Good
  <1> QED BY <1>4, <1>5, <1>6, <1>7, <1>8, StepInv

-----------------------------------------------------------------------------
(* The transaction *)

\* A live crawl goes on in its transaction with what nobody else holds.
LEMMA WriteInv ==
    ASSUME IInv, NEW c \in Crawls, NEW o \in Crawl, o = tx[c], o.at \in InTransaction,
           NEW q \in Crawl, tx' = [tx EXCEPT ![c] = q], q.at \in InTransaction,
           UNCHANGED <<sources, enabled, jobs, rows, edits>>,
           q.source = o.source, q.url = o.url, q.read = o.read, q.text = o.text,
           q.values = o.values, q.steady = o.steady, WorkOf(q),
           \A d \in Crawls \ {c} : Held(q) \cap Held(tx[d]) = {}
    PROVE  IInv'
  <1>1. Good(c, o)
    BY DEF IInv, CrawlsInv
  <1>2. jobs[c].status = "running"
    BY <1>1 DEF Good, JobOf, InTransaction
  <1>3. Good(c, q)
    <2>1. JobOf(c, q) /\ DoneOf(c, q)
      BY <1>1, <1>2 DEF Good, JobOf, DoneOf, InTransaction
    <2>2. ReadOf(c, q)
      BY <1>1 DEF Good, ReadOf
    <2> QED BY <2>1, <2>2 DEF Good
  <1>4. Good(c, q)'
    BY <1>3, GoodStays DEF Good, WorkOf
  <1> QED BY <1>2, <1>4, StepInv DEF IInv, Types

LEMMA LookForDocumentInv ==
    ASSUME IInv, NEW c \in Crawls, LookForDocument(c)
    PROVE  IInv'
  <1>1. PICK o \in Crawl : o = tx[c]
    BY DEF IInv, Types
  <1>2. PICK found \in BOOLEAN : found <=> DocumentKey(o.text) \in DOMAIN rows
    <2>1. (DocumentKey(o.text) \in DOMAIN rows) \in BOOLEAN
      OBVIOUS
    <2> QED BY <2>1
  <1>3. PICK q : q = [o EXCEPT !.at = "document", !.found = found]
    OBVIOUS
  <1>4. /\ tx' = [tx EXCEPT ![c] = q] /\ o.at = "look" /\ WorkOf(o)
        /\ UNCHANGED <<sources, enabled, jobs, rows, edits>>
    BY <1>1, <1>2, <1>3 DEF LookForDocument, IInv, CrawlsInv, Good, Types
  <1>5. /\ q \in Crawl /\ q.at = "document" /\ q.source = o.source /\ q.url = o.url
        /\ q.read = o.read /\ q.text = o.text /\ q.values = o.values /\ q.next = o.next
        /\ q.found = found /\ q.new = o.new /\ q.locks = o.locks /\ q.steady = o.steady
    BY <1>3 DEF Crawl, Stages, InTransaction
  <1>6. Held(q) = {}
    BY <1>4, <1>5 DEF WorkOf, Writing, Held
  <1>7. WorkOf(q)
    BY <1>2, <1>4, <1>5, <1>6 DEF WorkOf, Writing, Held
  <1> QED BY <1>1, <1>4, <1>5, <1>6, <1>7, WriteInv DEF InTransaction

LEMMA WriteDocumentInv ==
    ASSUME IInv, NEW c \in Crawls, WriteDocument(c)
    PROVE  IInv'
  <1>1. PICK o \in Crawl : o = tx[c]
    BY DEF IInv, Types
  <1> DEFINE key == DocumentKey(o.text)
  <1>2. PICK locks : locks = IF o.found THEN {key} ELSE {}
    OBVIOUS
  <1>3. PICK new : new = IF o.found THEN {} ELSE {key}
    OBVIOUS
  <1>4. PICK q : q = [o EXCEPT !.at = "entity", !.locks = locks, !.new = new]
    OBVIOUS
  <1>5. o.at = "document" /\ Wanted(c) = {key}
    BY <1>1 DEF WriteDocument, Wanted
  <1>6. /\ tx' = [tx EXCEPT ![c] = q] /\ Good(c, o) /\ Holders(c) = {}
        /\ o.found \/ key \notin DOMAIN rows
        /\ UNCHANGED <<sources, enabled, jobs, rows, edits>>
    BY <1>1, <1>2, <1>3, <1>4, <1>5 DEF WriteDocument, IInv, CrawlsInv, Types
  <1>7. key \in RowsOf(o) /\ o.source \in Sources
    BY <1>5, <1>6 DEF Good, JobOf, RowsOf, RowsFor, DocumentRows
  <1>8. key \in Key
    BY <1>7, RowsAreKeys
  <1>9. /\ q \in Crawl /\ q.at = "entity" /\ q.source = o.source /\ q.url = o.url
        /\ q.read = o.read /\ q.text = o.text /\ q.values = o.values /\ q.next = o.next
        /\ q.found = o.found /\ q.new = new /\ q.locks = locks /\ q.steady = o.steady
    BY <1>2, <1>3, <1>4, <1>8 DEF Crawl, Stages, InTransaction
  <1>10. WorkOf(q)
    <2>1. q.next = 1 /\ q.next \in 1..(Len(q.values) + 1)
      BY <1>5, <1>6, <1>9 DEF Good, WorkOf, Writing
    <2>2. RowsOf(q) = RowsOf(o) /\ key.is = "document"
      BY <1>9, KeyKinds DEF RowsOf
    <2>3. o.found => key \in DOMAIN rows
      BY <1>5, <1>6 DEF Good, WorkOf
    <2> HIDE DEF key
    <2> QED BY <1>2, <1>3, <1>6, <1>7, <1>9, <2>1, <2>2, <2>3 DEF WorkOf, Writing, key
  <1>11. \A d \in Crawls \ {c} : key \notin Held(tx[d])
    BY <1>5, <1>6 DEF Holders, Held
  <1>12. Held(q) = {key}
    BY <1>2, <1>3, <1>9 DEF Held
  <1>13. \A d \in Crawls \ {c} : Held(q) \cap Held(tx[d]) = {}
    BY <1>11, <1>12
  <1> HIDE DEF key
  <1> QED BY <1>1, <1>5, <1>6, <1>9, <1>10, <1>13, WriteInv DEF InTransaction

\* Two crawls that have written the document have read different texts.
LEMMA TextsApart ==
    ASSUME IInv, NEW c \in Crawls, NEW d \in Crawls, c # d,
           tx[c].at \in Writing, tx[d].at \in Writing
    PROVE  tx[c].text # tx[d].text
  <1>1. \A e \in Crawls : tx[e].at \in Writing => DocumentKey(tx[e].text) \in Held(tx[e])
    BY DEF IInv, CrawlsInv, Good, WorkOf, Held
  <1> QED BY <1>1 DEF IInv, Apart

\* The rows that name its text nobody else holds.
LEMMA OwnText ==
    ASSUME IInv, NEW c \in Crawls, NEW d \in Crawls \ {c}, tx[c].at \in Writing,
           NEW k, k.is \notin {"document", "entity"}, k.text = tx[c].text
    PROVE  k \notin Held(tx[d])
  <1> SUFFICES ASSUME k \in Held(tx[d]) PROVE FALSE
    OBVIOUS
  <1>1. WorkOf(tx[d])
    BY DEF IInv, CrawlsInv, Good
  <1>2. tx[d].at \in Writing
    BY <1>1 DEF WorkOf
  <1>3. k \in tx[d].new /\ tx[d].new \subseteq RowsOf(tx[d])
    BY <1>1, <1>2 DEF WorkOf, Held
  <1>4. k.text = tx[d].text
    BY <1>3, RowsNameText
  <1> QED BY <1>2, <1>4, TextsApart

\* The rows of the value at which a crawl stands.
LEMMA RowsOfValue ==
    ASSUME NEW q \in Crawl, NEW i \in 1..Len(q.values)
    PROVE  /\ EntityKey(EntityId(q.values[i])) \in RowsOf(q)
           /\ EntityRows(q.source, EntityId(q.values[i]), q.text) \subseteq RowsOf(q)
  <1>1. q.values \in ValuesOfTexts
    BY DEF Crawl
  <1>2. q.values[i] \in ToSet(q.values)
    BY <1>1, Lengths DEF ToSet
  <1> QED BY <1>2 DEF RowsOf, RowsFor, DocumentRows

\* A crawl is done with a value: its entity is locked or written, its rows are there.
LEMMA NotedInv ==
    ASSUME IInv, NEW c \in Crawls, NEW o \in Crawl, o = tx[c], o.at \in {"entity", "insert"},
           o.next <= Len(o.values),
           NEW id, id = EntityId(o.values[o.next]), NEW locks, NEW new,
           locks \subseteq {EntityKey(id)},
           EntityRows(o.source, id, o.text) \ DOMAIN rows \subseteq new,
           new \subseteq {EntityKey(id)} \cup EntityRows(o.source, id, o.text),
           new \cap DOMAIN rows = {},
           EntityKey(id) \in DOMAIN rows \cup o.new \cup new,
           \A d \in Crawls \ {c} : (locks \cup new) \cap {EntityKey(id)} \cap Held(tx[d]) = {},
           NEW p, p = [o EXCEPT !.at = "entity", !.next = o.next + 1,
                                !.locks = o.locks \cup locks, !.new = o.new \cup new],
           tx' = [tx EXCEPT ![c] = p],
           UNCHANGED <<sources, enabled, jobs, rows, edits>>
    PROVE  IInv'
  <1>1. Good(c, o) /\ o.source \in Sources /\ Len(o.values) \in Nat /\ o.next \in Nat \ {0}
    <2>1. Good(c, o)
      BY DEF IInv, CrawlsInv
    <2> QED BY <2>1, Lengths DEF Good, JobOf, WorkOf, Crawl
  <1>2. /\ EntityKey(id) \in RowsOf(o)
        /\ EntityRows(o.source, id, o.text) \subseteq RowsOf(o)
    BY <1>1, RowsOfValue
  <1>3. locks \subseteq Key /\ new \subseteq Key /\ new \subseteq RowsOf(o)
    BY <1>1, <1>2, RowsAreKeys
  <1>4. PICK q : q = p
    OBVIOUS
  <1>5. /\ q \in Crawl /\ q.at = "entity" /\ q.source = o.source /\ q.url = o.url
        /\ q.read = o.read /\ q.text = o.text /\ q.values = o.values /\ q.next = o.next + 1
        /\ q.found = o.found /\ q.new = o.new \cup new /\ q.locks = o.locks \cup locks
        /\ q.steady = o.steady
    <2>1. /\ o.new \cup new \in SUBSET Key /\ o.locks \cup locks \in SUBSET Key
          /\ o.next + 1 \in Nat /\ "entity" \in Stages
      BY <1>1, <1>3 DEF Crawl, Stages, InTransaction
    <2> QED BY <1>4, <2>1 DEF Crawl
  <1>6. WorkOf(q)
    <2>1. WorkOf(o) /\ o.at \in Writing
      BY <1>1 DEF Good, Writing
    <2>2. RowsOf(q) = RowsOf(o)
      BY <1>5 DEF RowsOf
    <2>3. \A k \in q.locks : k.is \in {"document", "entity"}
      BY <1>5, <2>1, KeyKinds DEF WorkOf
    <2>4. ASSUME NEW i \in 1..(q.next - 1)
          PROVE  {EntityKey(EntityId(q.values[i]))}
                    \cup EntityRows(q.source, EntityId(q.values[i]), q.text)
                    \subseteq DOMAIN rows \cup q.new
      <3>1. CASE i = o.next
        BY <1>5, <3>1
      <3>2. CASE i # o.next
        <4>1. i \in 1..(o.next - 1)
          BY <1>1, <1>5, <3>2
        <4> QED BY <1>5, <2>1, <4>1 DEF WorkOf
      <3> QED BY <3>1, <3>2
    <2>5. q.new \subseteq RowsOf(q) /\ q.new \cap DOMAIN rows = {}
      BY <1>3, <1>5, <2>1, <2>2 DEF WorkOf
    <2>6. DocumentKey(q.text) \in (IF q.found THEN q.locks ELSE q.new)
      BY <1>5, <2>1 DEF WorkOf
    <2>7. q.found => DocumentKey(q.text) \in DOMAIN rows
      BY <1>5, <2>1 DEF WorkOf
    <2>8. q.next \in 1..(Len(q.values) + 1)
      BY <1>1, <1>5
    <2> QED BY <1>5, <2>3, <2>4, <2>5, <2>6, <2>7, <2>8 DEF WorkOf, Writing
  <1>7. ASSUME NEW d \in Crawls \ {c}
        PROVE  Held(q) \cap Held(tx[d]) = {}
    <2>1. Held(o) \cap Held(tx[d]) = {}
      BY DEF IInv, Apart
    <2>2. \A k \in EntityRows(o.source, id, o.text) : k \notin Held(tx[d])
      BY OwnText, KeyKinds DEF Writing
    <2>3. Held(q) \subseteq Held(o) \cup locks \cup new
      BY <1>5 DEF Held
    <2>4. (locks \cup new) \cap Held(tx[d]) = {}
      BY <2>2
    <2> QED BY <2>1, <2>3, <2>4
  <1>8. tx' = [tx EXCEPT ![c] = q] /\ o.at \in InTransaction /\ q.at \in InTransaction
    BY <1>4, <1>5 DEF InTransaction
  <1> QED BY <1>5, <1>6, <1>7, <1>8, WriteInv

LEMMA KnownEntityInv ==
    ASSUME IInv, NEW c \in Crawls, KnownEntity(c)
    PROVE  IInv'
  <1>1. PICK o \in Crawl : o = tx[c]
    BY DEF IInv, Types
  <1>2. PICK id : id = EntityId(o.values[o.next])
    OBVIOUS
  <1>3. PICK locks : locks = Wanted(c)
    OBVIOUS
  <1>4. PICK new : new = Noted(c)
    OBVIOUS
  <1>5. /\ o.at = "entity" /\ o.next <= Len(o.values) /\ Holders(c) = {}
        /\ EntityKey(id) \in DOMAIN rows \cup o.new
        /\ UNCHANGED <<sources, enabled, jobs, rows, edits>>
    BY <1>1, <1>2 DEF KnownEntity, NextId
  <1>6. /\ locks = {EntityKey(id)} \cap DOMAIN rows
        /\ new = EntityRows(o.source, id, o.text) \ DOMAIN rows
    BY <1>1, <1>2, <1>3, <1>4, <1>5 DEF Wanted, Noted, NextId
  <1> DEFINE q == [o EXCEPT !.at = "entity", !.next = o.next + 1,
                            !.locks = o.locks \cup locks, !.new = o.new \cup new]
  <1>7. tx' = [tx EXCEPT ![c] = q]
    <2>1. tx' = [tx EXCEPT ![c] = [o EXCEPT !.next = o.next + 1,
                                            !.locks = o.locks \cup locks,
                                            !.new = o.new \cup new]]
      BY <1>1, <1>3, <1>4 DEF KnownEntity, IInv, Types
    <2>2. o = [o EXCEPT !.at = "entity"]
      BY <1>5 DEF Crawl
    <2> QED BY <2>1, <2>2
  <1>8. \A d \in Crawls \ {c} : locks \cap Held(tx[d]) = {}
    BY <1>3, <1>5 DEF Holders, Held
  <1>9. EntityKey(id) \notin new
    BY <1>6, KeyKinds
  <1>10. /\ locks \subseteq {EntityKey(id)}
         /\ EntityRows(o.source, id, o.text) \ DOMAIN rows \subseteq new
         /\ new \subseteq {EntityKey(id)} \cup EntityRows(o.source, id, o.text)
         /\ new \cap DOMAIN rows = {}
         /\ EntityKey(id) \in DOMAIN rows \cup o.new \cup new
         /\ \A d \in Crawls \ {c} : (locks \cup new) \cap {EntityKey(id)} \cap Held(tx[d]) = {}
    BY <1>5, <1>6, <1>8, <1>9
  <1>11. o.at \in {"entity", "insert"}
    BY <1>5
  <1>12. PICK p : p = q
    OBVIOUS
  <1>13. tx' = [tx EXCEPT ![c] = p]
    BY <1>7, <1>12
  <1> QED BY <1>1, <1>2, <1>5, <1>10, <1>11, <1>12, <1>13, NotedInv

LEMMA InsertEntityInv ==
    ASSUME IInv, NEW c \in Crawls, InsertEntity(c)
    PROVE  IInv'
  <1>1. PICK o \in Crawl : o = tx[c]
    BY DEF IInv, Types
  <1>2. PICK id : id = EntityId(o.values[o.next])
    OBVIOUS
  <1>3. PICK new : new = Noted(c)
    OBVIOUS
  <1>4. /\ o.at = "insert" /\ o.next <= Len(o.values) /\ Holders(c) = {}
        /\ EntityKey(id) \notin DOMAIN rows
        /\ UNCHANGED <<sources, enabled, jobs, rows, edits>>
    BY <1>1, <1>2 DEF InsertEntity, NextId, IInv, CrawlsInv, Good, WorkOf
  <1>5. /\ Wanted(c) = {EntityKey(id)}
        /\ new = {EntityKey(id)} \cup (EntityRows(o.source, id, o.text) \ DOMAIN rows)
    BY <1>1, <1>2, <1>3, <1>4 DEF Wanted, Noted, NextId
  <1>6. tx' = [tx EXCEPT ![c] = [o EXCEPT !.at = "entity", !.next = o.next + 1,
                                          !.locks = o.locks \cup {}, !.new = o.new \cup new]]
    <2>1. tx' = [tx EXCEPT ![c] = [o EXCEPT !.at = "entity", !.next = o.next + 1,
                                            !.new = o.new \cup new]]
      BY <1>1, <1>3 DEF InsertEntity, IInv, Types
    <2>2. [o EXCEPT !.at = "entity", !.next = o.next + 1, !.new = o.new \cup new] =
             [o EXCEPT !.at = "entity", !.next = o.next + 1, !.locks = o.locks \cup {},
                       !.new = o.new \cup new]
      BY DEF Crawl
    <2> QED BY <2>1, <2>2
  <1>7. \A d \in Crawls \ {c} : EntityKey(id) \notin Held(tx[d])
    BY <1>4, <1>5 DEF Holders, Held
  <1>8. PICK locks : locks = {}
    OBVIOUS
  <1>9. /\ locks \subseteq {EntityKey(id)}
        /\ EntityRows(o.source, id, o.text) \ DOMAIN rows \subseteq new
        /\ new \subseteq {EntityKey(id)} \cup EntityRows(o.source, id, o.text)
        /\ EntityKey(id) \in DOMAIN rows \cup o.new \cup new
        /\ new \cap DOMAIN rows = {}
        /\ \A d \in Crawls \ {c} : (locks \cup new) \cap {EntityKey(id)} \cap Held(tx[d]) = {}
    BY <1>4, <1>5, <1>7, <1>8
  <1>10. o.at \in {"entity", "insert"}
    BY <1>4
  <1>11. PICK p : p = [o EXCEPT !.at = "entity", !.next = o.next + 1,
                                !.locks = o.locks \cup locks, !.new = o.new \cup new]
    OBVIOUS
  <1>12. tx' = [tx EXCEPT ![c] = p]
    BY <1>6, <1>8, <1>11
  <1> QED BY <1>1, <1>2, <1>4, <1>9, <1>10, <1>11, <1>12, NotedInv

LEMMA UnknownEntityInv ==
    ASSUME IInv, NEW c \in Crawls, UnknownEntity(c)
    PROVE  IInv'
  <1>1. PICK o \in Crawl : o = tx[c]
    BY DEF IInv, Types
  <1>2. PICK q : q = [o EXCEPT !.at = "insert"]
    OBVIOUS
  <1>3. /\ tx' = [tx EXCEPT ![c] = q] /\ o.at = "entity" /\ o.next <= Len(o.values)
        /\ WorkOf(o) /\ UNCHANGED <<sources, enabled, jobs, rows, edits>>
    BY <1>1, <1>2 DEF UnknownEntity, IInv, CrawlsInv, Good, Types
  <1>4. /\ q \in Crawl /\ q.at = "insert" /\ q.source = o.source /\ q.url = o.url
        /\ q.read = o.read /\ q.text = o.text /\ q.values = o.values /\ q.next = o.next
        /\ q.found = o.found /\ q.new = o.new /\ q.locks = o.locks /\ q.steady = o.steady
    BY <1>2 DEF Crawl, Stages, InTransaction
  <1>5. RowsOf(q) = RowsOf(o) /\ Held(q) = Held(o)
    BY <1>4 DEF RowsOf, Held
  <1>6. WorkOf(q)
    BY <1>3, <1>4, <1>5 DEF WorkOf, Writing
  <1>7. \A d \in Crawls \ {c} : Held(q) \cap Held(tx[d]) = {}
    BY <1>1, <1>5 DEF IInv, Apart
  <1> QED BY <1>1, <1>3, <1>4, <1>6, <1>7, WriteInv DEF InTransaction

LEMMA MatchMonitorsInv ==
    ASSUME IInv, NEW c \in Crawls, MatchMonitors(c)
    PROVE  IInv'
  <1>1. PICK o \in Crawl : o = tx[c]
    BY DEF IInv, Types
  <1>2. PICK new : new = Alerted(c) \ DOMAIN rows
    OBVIOUS
  <1>3. PICK q : q = [o EXCEPT !.at = "commit", !.new = o.new \cup new]
    OBVIOUS
  <1>4. /\ tx' = [tx EXCEPT ![c] = q] /\ o.at = "entity" /\ o.next > Len(o.values)
        /\ Good(c, o) /\ UNCHANGED <<sources, enabled, jobs, rows, edits>>
    BY <1>1, <1>2, <1>3 DEF MatchMonitors, IInv, CrawlsInv, Types
  <1>5. o.source \in Sources /\ o.steady \subseteq enabled /\ enabled \subseteq Monitors
    BY <1>4 DEF Good, JobOf, IInv, Types
  <1>6. \A k \in new : \E m \in Monitors : k \in AlertRows(o.source, o.text, m)
    BY <1>1, <1>2, <1>5 DEF Alerted
  <1>7. new \subseteq RowsOf(o) /\ new \subseteq Key /\ new \cap DOMAIN rows = {}
    <2>1. new \subseteq RowsOf(o)
      BY <1>6 DEF RowsOf, RowsFor
    <2> QED BY <1>2, <1>5, <2>1, RowsAreKeys
  <1>8. /\ q \in Crawl /\ q.at = "commit" /\ q.source = o.source /\ q.url = o.url
        /\ q.read = o.read /\ q.text = o.text /\ q.values = o.values /\ q.next = o.next
        /\ q.found = o.found /\ q.new = o.new \cup new /\ q.locks = o.locks
        /\ q.steady = o.steady
    BY <1>3, <1>7 DEF Crawl, Stages, InTransaction
  <1>9. WorkOf(q)
    <2>1. WorkOf(o) /\ RowsOf(q) = RowsOf(o)
      BY <1>4, <1>8 DEF Good, RowsOf
    <2>2. ASSUME NEW m \in q.steady, Matches(q.text, m)
          PROVE  AlertRows(q.source, q.text, m) \subseteq DOMAIN rows \cup q.new
      <3>1. AlertRows(o.source, o.text, m) \subseteq Alerted(c)
        BY <1>1, <1>5, <1>8, <2>2 DEF Alerted
      <3> QED BY <1>2, <1>8, <3>1
    <2>3. q.new \subseteq RowsOf(q) /\ q.new \cap DOMAIN rows = {}
      BY <1>4, <1>7, <1>8, <2>1 DEF WorkOf, Writing
    <2> QED BY <1>4, <1>8, <2>1, <2>2, <2>3 DEF WorkOf, Writing
  <1>10. ASSUME NEW d \in Crawls \ {c}
         PROVE  Held(q) \cap Held(tx[d]) = {}
    <2>1. Held(o) \cap Held(tx[d]) = {}
      BY <1>1 DEF IInv, Apart
    <2>2. \A k \in new : k \notin Held(tx[d])
      BY <1>1, <1>4, <1>6, OwnText, KeyKinds DEF Writing
    <2>3. Held(q) = Held(o) \cup new
      BY <1>8 DEF Held
    <2> QED BY <2>1, <2>2, <2>3
  <1> QED BY <1>1, <1>4, <1>8, <1>9, <1>10, WriteInv DEF InTransaction

\* The commit adds what the transaction holds: what it wrote nobody else has committed,
\* and nobody else is about to.
LEMMA CommitInv ==
    ASSUME IInv, NEW c \in Crawls, Commit(c)
    PROVE  IInv' /\ \A k \in DOMAIN rows : k \in DOMAIN rows' /\ rows'[k] = rows[k]
  <1>1. PICK o \in Crawl : o = tx[c]
    BY DEF IInv, Types
  <1>2. PICK q : q = [o EXCEPT !.at = "ended", !.new = {}, !.locks = {}]
    OBVIOUS
  <1>3. PICK j : j = [status |-> "completed", duplicates |-> IF o.found THEN 1 ELSE 0]
    OBVIOUS
  <1>4. /\ tx' = [tx EXCEPT ![c] = q] /\ jobs' = [jobs EXCEPT ![c] = j]
        /\ o.at = "commit" /\ Good(c, o) /\ UNCHANGED <<sources, enabled, edits>>
    BY <1>1, <1>2, <1>3 DEF Commit, Duplicates, IInv, CrawlsInv, Types
  <1>5. /\ q \in Crawl /\ q.at = "ended" /\ q.source = o.source /\ q.url = o.url
        /\ q.read = o.read /\ q.text = o.text /\ q.values = o.values /\ q.next = o.next
        /\ q.new = {} /\ q.locks = {} /\ q.steady = o.steady
    BY <1>2 DEF Crawl, Stages
  <1>6. /\ j \in [status : {"none", "running", "completed", "failed"}, duplicates : 0..1]
        /\ j.status = "completed" /\ (j.duplicates = 1 <=> o.found)
    BY <1>3 DEF Crawl
  <1>7. /\ DOMAIN rows' = DOMAIN rows \cup o.new /\ o.new \cap DOMAIN rows = {}
        /\ \A k \in DOMAIN rows : rows'[k] = rows[k]
        /\ \A k \in o.new : rows'[k] = [by |-> c, url |-> o.url]
    <2>1. o.new \cap DOMAIN rows = {}
      BY <1>4 DEF Good, WorkOf
    <2>2. rows' = [k \in DOMAIN rows \cup o.new |->
                     IF k \in o.new THEN [by |-> c, url |-> o.url] ELSE rows[k]]
      BY <1>1 DEF Commit, WithRows, CrawledUrl
    <2> QED BY <2>1, <2>2
  <1>8. jobs[c].status = "running" /\ WorkOf(o) /\ o.url \in DOMAIN Serves
    BY <1>4 DEF Good, JobOf
  <1>9. tx'[c] = q /\ \A d \in Crawls \ {c} : tx'[d] = tx[d]
    BY <1>4 DEF IInv, Types
  <1>10. jobs'[c] = j /\ \A d \in Crawls \ {c} : jobs'[d] = jobs[d]
    BY <1>4 DEF IInv, Types
  <1>11. Types'
    BY <1>4, <1>5, <1>6 DEF IInv, Types
  <1>12. \A k \in DOMAIN rows : rows[k].by \in Crawls \ {c}
    BY <1>8 DEF IInv, RowsInv
  <1>13. Good(c, q)'
    <2>1. JobOf(c, q)' /\ ReadOf(c, q)'
      BY <1>4, <1>5, <1>6, <1>10 DEF Good, JobOf, ReadOf, InTransaction
    <2>2. WorkOf(q)'
      BY <1>5, <1>8 DEF WorkOf, Writing, Held
    <2>3. DocumentRows(q.source, q.text, q.values) \subseteq DOMAIN rows'
      <3> SUFFICES ASSUME NEW k \in DocumentRows(o.source, o.text, o.values)
                   PROVE  k \in DOMAIN rows \cup o.new
        BY <1>5, <1>7
      <3>1. CASE k = DocumentKey(o.text)
        BY <1>4, <1>8, <3>1 DEF WorkOf, Writing
      <3>2. CASE \E v \in ToSet(o.values) :
                    k \in {EntityKey(EntityId(v))} \cup EntityRows(o.source, EntityId(v), o.text)
        <4>1. PICK v \in ToSet(o.values) :
                    k \in {EntityKey(EntityId(v))} \cup EntityRows(o.source, EntityId(v), o.text)
          BY <3>2
        <4>2. PICK i \in 1..Len(o.values) : v = o.values[i]
          <5>1. DOMAIN o.values = 1..Len(o.values)
            BY Lengths DEF Crawl
          <5> QED BY <5>1 DEF ToSet
        <4>3. i \in 1..(o.next - 1)
          <5>1. Len(o.values) \in Nat /\ o.next \in Nat /\ o.next > Len(o.values)
            BY <1>4, <1>8, Lengths DEF WorkOf, Crawl
          <5> QED BY <5>1
        <4> QED BY <1>4, <1>8, <4>1, <4>2, <4>3 DEF WorkOf, Writing
      <3> QED BY <3>1, <3>2 DEF DocumentRows
    <2>4. \A m \in q.steady :
             Matches(q.text, m) => AlertRows(q.source, q.text, m) \subseteq DOMAIN rows'
      BY <1>4, <1>5, <1>7, <1>8 DEF WorkOf
    <2>5. j.duplicates = 1 <=> rows'[DocumentKey(q.text)].by # c
      <3>1. CASE o.found
        <4>1. DocumentKey(q.text) \in DOMAIN rows
          BY <1>4, <1>5, <1>8, <3>1 DEF WorkOf, Writing
        <4> QED BY <1>6, <1>7, <1>12, <3>1, <4>1
      <3>2. CASE ~o.found
        <4>1. DocumentKey(q.text) \in o.new
          BY <1>4, <1>5, <1>8, <3>2 DEF WorkOf, Writing
        <4> QED BY <1>6, <1>7, <3>2, <4>1
      <3> QED BY <3>1, <3>2
    <2>6. DoneOf(c, q)'
      BY <1>10, <2>3, <2>4, <2>5 DEF DoneOf
    <2> QED BY <2>1, <2>2, <2>6 DEF Good
  <1>14. CrawlsInv'
    <2> SUFFICES ASSUME NEW d \in Crawls, d # c PROVE Good(d, tx[d])'
      BY <1>9, <1>13 DEF CrawlsInv
    <2>1. PICK p \in Crawl : p = tx[d]
      BY DEF IInv, Types
    <2>2. Good(d, p)
      BY <2>1 DEF IInv, CrawlsInv
    <2>3. p.new \cap DOMAIN rows' = {}
      <3>1. p.new \cap o.new = {}
        BY <1>1, <2>1 DEF IInv, Apart, Held
      <3>2. p.new \cap DOMAIN rows = {}
        BY <2>2 DEF Good, WorkOf
      <3> QED BY <1>7, <3>1, <3>2
    <2>4. Good(d, p)'
      BY <1>4, <1>7, <1>10, <2>2, <2>3, GoodStays
    <2> QED BY <1>9, <2>1, <2>4
  <1>15. RowsInv'
    <2> SUFFICES ASSUME NEW k \in DOMAIN rows'
                 PROVE  /\ rows'[k].by \in Crawls /\ jobs'[rows'[k].by].status = "completed"
                        /\ rows'[k].url = tx'[rows'[k].by].url
                        /\ rows'[k] \in [by : Crawls, url : DOMAIN Serves]
                        /\ k \in RowsOf(tx'[rows'[k].by])
      BY DEF RowsInv, RowsOf
    <2>1. CASE k \in o.new
      <3>1. rows'[k] = [by |-> c, url |-> o.url]
        BY <1>7, <2>1
      <3>2. k \in RowsOf(q)
        BY <1>4, <1>5, <1>8, <2>1 DEF WorkOf, Writing, RowsOf
      <3> QED BY <1>5, <1>6, <1>8, <1>9, <1>10, <3>1, <3>2
    <2>2. CASE k \in DOMAIN rows
      BY <1>7, <1>9, <1>10, <1>12, <2>2 DEF IInv, RowsInv
    <2> QED BY <1>7, <2>1, <2>2
  <1>16. Apart'
    <2>1. Held(q) = {}
      BY <1>5 DEF Held
    <2>2. \A d, e \in Crawls : d # e => Held(tx'[d]) \cap Held(tx'[e]) = {}
      BY <1>9, <2>1 DEF IInv, Apart
    <2> QED BY <2>2 DEF Apart, Held
  <1> QED BY <1>7, <1>11, <1>14, <1>15, <1>16 DEF IInv

-----------------------------------------------------------------------------
(* Failures; sources and monitors *)

\* A rollback gives back what was held, and leaves the job as it is.
LEMMA OverInv ==
    ASSUME IInv, NEW c \in Crawls, Live(c), tx' = RolledBack(c),
           UNCHANGED <<sources, enabled, jobs, rows, edits>>
    PROVE  IInv'
  <1>1. PICK o \in Crawl : o = tx[c]
    BY DEF IInv, Types
  <1>2. PICK q : q = [o EXCEPT !.at = "ended", !.new = {}, !.locks = {}]
    OBVIOUS
  <1>3. tx' = [tx EXCEPT ![c] = q] /\ Good(c, o) /\ jobs[c].status = "running"
    BY <1>1, <1>2, LiveRuns DEF RolledBack, IInv, CrawlsInv, Types
  <1>4. /\ q \in Crawl /\ q.at = "ended" /\ q.new = {} /\ q.locks = {} /\ q.next = o.next
        /\ q.values = o.values
    BY <1>2 DEF Crawl, Stages
  <1>5. Held(q) = {}
    BY <1>4 DEF Held
  <1>6. Good(c, q)'
    <2>1. JobOf(c, q)' /\ ReadOf(c, q)' /\ DoneOf(c, q)'
      BY <1>3, <1>4 DEF JobOf, ReadOf, DoneOf, InTransaction
    <2>2. WorkOf(q)'
      BY <1>3, <1>4, <1>5 DEF Good, WorkOf, Writing, Held
    <2> QED BY <2>1, <2>2 DEF Good
  <1> QED BY <1>3, <1>4, <1>5, <1>6, StepInv DEF IInv, Types

LEMMA FailureInv ==
    ASSUME IInv, NEW c \in Crawls, DatabaseError(c) \/ Victim(c) \/ Interrupt(c)
    PROVE  IInv'
  <1>1. tx' = RolledBack(c) /\ UNCHANGED <<sources, enabled, jobs, rows, edits>>
    BY DEF DatabaseError, Victim, Interrupt
  <1>2. Live(c)
    <2>1. CASE DatabaseError(c)
      BY <2>1 DEF DatabaseError, Live
    <2>2. CASE Victim(c)
      <3>1. Wanted(c) # {}
        BY <2>2 DEF Victim, Holders
      <3> QED BY <3>1 DEF Wanted, Live
    <2>3. CASE Interrupt(c)
      BY <2>3 DEF Interrupt
    <2> QED BY <2>1, <2>2, <2>3
  <1> QED BY <1>1, <1>2, OverInv

LEMMA SaveInv ==
    ASSUME IInv, NEW s \in Sources, NEW spelling \in DOMAIN Canonical, Save(s, spelling)
    PROVE  IInv'
  <1>1. /\ sources' \in [Sources -> DOMAIN Serves \cup {NoUrl}] /\ edits' \in 0..MaxEdits
        /\ UNCHANGED <<enabled, jobs, rows, tx>>
    BY CrawlPipelineAssumption DEF Save, Canonicalize, IInv, Types
  <1>2. Types' /\ RowsInv' /\ Apart'
    BY <1>1 DEF IInv, Types, RowsInv, RowsOf, Apart, Held
  <1>3. CrawlsInv'
    <2> SUFFICES ASSUME NEW c \in Crawls PROVE Good(c, tx[c])'
      BY DEF CrawlsInv
    <2>1. PICK o \in Crawl : o = tx[c]
      BY DEF IInv, Types
    <2>2. Good(c, o) /\ o.new \cap DOMAIN rows = {}
      BY <2>1 DEF IInv, CrawlsInv, Good, WorkOf
    <2>3. Good(c, o)'
      BY <1>1, <2>2, GoodStays
    <2> QED BY <1>1, <2>1, <2>3
  <1> QED BY <1>2, <1>3 DEF IInv

\* A monitor that is switched off has not been enabled all the while.
LEMMA SetMonitorInv ==
    ASSUME IInv, NEW m \in Monitors, SetMonitor(m)
    PROVE  IInv'
  <1>1. /\ tx' = [c \in Crawls |-> [tx[c] EXCEPT !.steady = @ \ {m}]]
        /\ enabled' \subseteq Monitors /\ enabled \ {m} \subseteq enabled'
        /\ edits' \in 0..MaxEdits /\ UNCHANGED <<sources, jobs, rows>>
    BY CrawlPipelineAssumption DEF SetMonitor, IInv, Types
  <1>2. ASSUME NEW c \in Crawls
        PROVE  \E q \in Crawl :
                  /\ q = tx'[c] /\ Good(c, q)'
                  /\ Held(q) = Held(tx[c]) /\ RowsOf(q) = RowsOf(tx[c]) /\ q.url = tx[c].url
    <2>1. PICK o \in Crawl : o = tx[c]
      BY DEF IInv, Types
    <2>2. PICK q : q = [o EXCEPT !.steady = o.steady \ {m}]
      OBVIOUS
    <2>3. tx'[c] = q /\ Good(c, o)
      BY <1>1, <2>1, <2>2 DEF IInv, CrawlsInv
    <2>4. /\ q \in Crawl /\ q.at = o.at /\ q.source = o.source /\ q.url = o.url
          /\ q.read = o.read /\ q.text = o.text /\ q.values = o.values /\ q.next = o.next
          /\ q.found = o.found /\ q.new = o.new /\ q.locks = o.locks
          /\ q.steady = o.steady \ {m}
      BY <2>2 DEF Crawl
    <2>5. Held(q) = Held(o) /\ RowsOf(q) = RowsOf(o)
      BY <2>4 DEF Held, RowsOf
    <2>6. JobOf(c, q)' /\ ReadOf(c, q)'
      BY <1>1, <2>3, <2>4 DEF Good, JobOf, ReadOf
    <2>7. WorkOf(q)'
      <3>1. WorkOf(o)
        BY <2>3 DEF Good
      <3> QED BY <1>1, <2>4, <2>5, <3>1 DEF WorkOf, Held
    <2>8. DoneOf(c, q)'
      BY <1>1, <2>3, <2>4 DEF Good, DoneOf
    <2> QED BY <2>1, <2>3, <2>4, <2>5, <2>6, <2>7, <2>8 DEF Good
  <1>3. Types'
    BY <1>1, <1>2 DEF IInv, Types
  <1>4. CrawlsInv'
    <2> SUFFICES ASSUME NEW c \in Crawls PROVE Good(c, tx[c])'
      BY DEF CrawlsInv
    <2>1. PICK q : q = tx'[c] /\ Good(c, q)'
      BY <1>2
    <2> QED BY <2>1
  <1>5. RowsInv'
    <2> SUFFICES ASSUME NEW k \in DOMAIN rows
                 PROVE  /\ tx'[rows[k].by].url = tx[rows[k].by].url
                        /\ RowsOf(tx'[rows[k].by]) = RowsOf(tx[rows[k].by])
      BY <1>1 DEF IInv, RowsInv, RowsOf
    <2> QED BY <1>2 DEF IInv, RowsInv
  <1>6. Apart'
    <2>1. \A d, e \in Crawls : d # e => Held(tx'[d]) \cap Held(tx'[e]) = {}
      BY <1>2 DEF IInv, Apart
    <2> QED BY <2>1 DEF Apart, Held
  <1> QED BY <1>3, <1>4, <1>5, <1>6 DEF IInv

\* No step but a commit touches the rows.
LEMMA NextInv ==
    ASSUME IInv, [Next]_vars
    PROVE  IInv' /\ \A k \in DOMAIN rows : k \in DOMAIN rows' /\ rows'[k] = rows[k]
  <1>1. ASSUME NEW s \in Sources, NEW spelling \in DOMAIN Canonical, Save(s, spelling)
        PROVE  IInv' /\ rows' = rows
    BY <1>1, SaveInv DEF Save
  <1>2. ASSUME NEW m \in Monitors, SetMonitor(m)
        PROVE  IInv' /\ rows' = rows
    BY <1>2, SetMonitorInv DEF SetMonitor
  <1>3. ASSUME NEW c \in Crawls, NEW s \in Sources, Start(c, s)
        PROVE  IInv' /\ rows' = rows
    BY <1>3, StartInv DEF Start
  <1>4. ASSUME NEW c \in Crawls, Fetch(c) \/ FetchFails(c)
        PROVE  IInv' /\ rows' = rows
    BY <1>4, FetchInv, FetchFailsInv DEF Fetch, FetchFails
  <1>5. ASSUME NEW c \in Crawls, LookForDocument(c) \/ WriteDocument(c)
        PROVE  IInv' /\ rows' = rows
    BY <1>5, LookForDocumentInv, WriteDocumentInv DEF LookForDocument, WriteDocument
  <1>6. ASSUME NEW c \in Crawls, KnownEntity(c) \/ UnknownEntity(c) \/ InsertEntity(c)
        PROVE  IInv' /\ rows' = rows
    BY <1>6, KnownEntityInv, UnknownEntityInv, InsertEntityInv
       DEF KnownEntity, UnknownEntity, InsertEntity
  <1>7. ASSUME NEW c \in Crawls, MatchMonitors(c)
        PROVE  IInv' /\ rows' = rows
    BY <1>7, MatchMonitorsInv DEF MatchMonitors
  <1>8. ASSUME NEW c \in Crawls, Commit(c)
        PROVE  IInv' /\ \A k \in DOMAIN rows : k \in DOMAIN rows' /\ rows'[k] = rows[k]
    BY <1>8, CommitInv
  <1>9. ASSUME NEW c \in Crawls, DatabaseError(c) \/ Victim(c) \/ Interrupt(c)
        PROVE  IInv' /\ rows' = rows
    BY <1>9, FailureInv DEF DatabaseError, Victim, Interrupt
  <1>10. CASE UNCHANGED vars
    <2>1. UNCHANGED <<sources, enabled, jobs, rows, tx, edits>>
      BY <1>10 DEF vars
    <2>2. Types' /\ RowsInv' /\ Apart'
      BY <2>1 DEF IInv, Types, RowsInv, RowsOf, Apart, Held
    <2>3. CrawlsInv'
      BY <2>1 DEF IInv, CrawlsInv, Good, JobOf, ReadOf, WorkOf, DoneOf
    <2> QED BY <2>1, <2>2, <2>3 DEF IInv
  <1> QED
    BY <1>1, <1>2, <1>3, <1>4, <1>5, <1>6, <1>7, <1>8, <1>9, <1>10 DEF Next, Step

LEMMA Invariant == Spec => []IInv
  <1>1. Init => IInv
    BY InitInv
  <1>2. IInv /\ [Next]_vars => IInv'
    BY NextInv
  <1> QED BY <1>1, <1>2, PTL DEF Spec

-----------------------------------------------------------------------------
(* Theorems *)

\* Whatever fails and whoever else crawls, a crawl stores all it found or nothing: _crawl()
\* commits document, entities, observations, events and alerts in one transaction.
THEOREM StoredWhole == Spec => []WholeOrNothing
  <1>1. IInv => WholeOrNothing
    <2> SUFFICES ASSUME IInv PROVE WholeOrNothing
      OBVIOUS
    <2>1. ASSUME NEW k \in DOMAIN rows
          PROVE  /\ rows[k].by \in Completed
                 /\ \/ k \in DocumentRows(tx[rows[k].by].source, tx[rows[k].by].text,
                                          tx[rows[k].by].values)
                    \/ \E m \in Monitors :
                          k \in AlertRows(tx[rows[k].by].source, tx[rows[k].by].text, m)
      BY DEF IInv, RowsInv, RowsOf, RowsFor, Completed
    <2>2. ASSUME NEW c \in Completed
          PROVE  DocumentRows(tx[c].source, tx[c].text, tx[c].values) \subseteq DOMAIN rows
      BY DEF IInv, CrawlsInv, Good, DoneOf, Completed
    <2> QED BY <2>1, <2>2 DEF WholeOrNothing
  <1> QED BY <1>1, Invariant, PTL

\* A completed crawl leaves no match of a monitor that was enabled all the while without
\* alert, also when another crawl has written the document.
THEOREM AlertedWhole == Spec => []MatchesAlerted
  <1>1. IInv => MatchesAlerted
    BY DEF IInv, CrawlsInv, Good, DoneOf, Completed, MatchesAlerted
  <1> QED BY <1>1, Invariant, PTL

\* A committed row stays, and stays that of the crawl that wrote it first: a later crawl
\* that finds the same text updates last_seen only.
THEOREM FirstWriterKept == Spec => ProvenanceKept
  <1> DEFINE Kept == \A k \in DOMAIN rows : k \in DOMAIN rows' /\ rows'[k] = rows[k]
  <1>1. IInv /\ [Next]_vars => [Kept]_rows
    BY NextInv
  <1> HIDE DEF Kept
  <1>2. Spec => [][Kept]_rows
    BY <1>1, Invariant, PTL DEF Spec
  <1> QED BY <1>2 DEF ProvenanceKept, Kept

\* What is stored can be traced to the crawl that stored it first, by a chain of permitted
\* redirects to the URL it names, and to words a reader of that response sees, of every page
\* up to the first end tag that names another ignored element than the one it stands in.
THEOREM StoredTraceable == Spec => []Traceable
  <1>1. IInv => TypeOK
    <2> SUFFICES ASSUME IInv PROVE TypeOK
      OBVIOUS
    <2>1. ASSUME NEW c \in Crawls
          PROVE  /\ tx[c].at \in Stages /\ tx[c].source \in Sources \cup {NoUrl}
                 /\ tx[c].next \in 1..(Len(tx[c].values) + 1)
                 /\ tx[c].at \notin InTransaction => tx[c].new = {} /\ tx[c].locks = {}
                 /\ \A d \in Crawls \ {c} : tx[c].new \cap tx[d].new = {}
      <3>1. PICK q \in Crawl : q = tx[c] /\ WorkOf(q)
        BY DEF IInv, Types, CrawlsInv, Good
      <3>2. q.at \in Stages /\ q.source \in Sources \cup {NoUrl}
        BY DEF Crawl
      <3>3. q.next \in 1..(Len(q.values) + 1) /\ (q.at \notin Writing => Held(q) = {})
        BY <3>1 DEF WorkOf
      <3>4. q.at \notin InTransaction => q.new = {} /\ q.locks = {}
        BY <3>3 DEF Held, Writing, InTransaction
      <3>5. \A d \in Crawls \ {c} : tx[c].new \cap tx[d].new = {}
        BY DEF IInv, Apart, Held
      <3> QED BY <3>1, <3>2, <3>3, <3>4, <3>5
    <2>2. \A k \in DOMAIN rows : rows[k] \in [by : Crawls, url : DOMAIN Serves]
      BY DEF IInv, RowsInv
    <2> QED BY <2>1, <2>2 DEF TypeOK, IInv, Types
  <1>2. IInv => DuplicatesCounted
    BY DEF IInv, CrawlsInv, Good, DoneOf, Completed, DuplicatesCounted
  <1>3. IInv => FromItsUrl
    <2> SUFFICES ASSUME IInv, NEW k \in DOMAIN rows
                 PROVE  tx[rows[k].by].read \subseteq Reached[rows[k].url]
      BY DEF FromItsUrl
    <2>1. PICK c \in Crawls : /\ c = rows[k].by /\ jobs[c].status = "completed"
                              /\ rows[k].url = tx[c].url
      BY DEF IInv, RowsInv
    <2>2. tx[c].url \in DOMAIN Serves /\ \E r \in Answers[tx[c].url] : tx[c].read = {r}
      BY <2>1 DEF IInv, CrawlsInv, Good, ReadOf
    <2>3. Answers[tx[c].url] \subseteq Reached[tx[c].url]
      BY <2>2, AnswersAreReached
    <2> QED BY <2>1, <2>2, <2>3
  <1>4. IInv => OnlyVisible
    <2> SUFFICES ASSUME IInv, NEW c \in Crawls, NEW r \in tx[c].read, tx[c].at = "look"
                 PROVE  ToSet(tx[c].text) \subseteq Visible(r) \cup Disputed(r)
      BY DEF OnlyVisible
    <2>1. r \in DOMAIN Reading /\ tx[c].text = Reading[r].text
      BY DEF IInv, CrawlsInv, Good, ReadOf, InTransaction
    <2> QED BY <2>1, ReadingType, TextIsVisible
  <1> QED BY <1>1, <1>2, <1>3, <1>4, Invariant, PTL DEF Traceable

-----------------------------------------------------------------------------
(* The graph *)

\* The event an alert names is stored with it, if it was not before.
Named(keys, have) == \A k \in keys : k.is = "alert" => MatchOf(k) \in have
NamedInv ==
    /\ Named(DOMAIN rows, DOMAIN rows)
    /\ \A c \in Crawls : Named(tx[c].new, DOMAIN rows \cup tx[c].new)

\* A crawl whose step is no commit adds no alert without its event to what it holds.
Adds(c) ==
    \/ tx'[c].new = {}
    \/ tx[c].new \subseteq tx'[c].new
       /\ Named(tx'[c].new \ tx[c].new, DOMAIN rows \cup tx'[c].new)

LEMMA AddsNamed ==
    ASSUME NamedInv, \A c \in Crawls : Adds(c), rows' = rows
    PROVE  NamedInv'
  BY DEF NamedInv, Adds, Named

LEMMA AlertRowsNamed ==
    ASSUME NEW s, NEW text, NEW m, NEW k \in AlertRows(s, text, m), k.is = "alert"
    PROVE  k = AlertKey(s, text, m) /\ MatchOf(k) = MatchKey(s, text, m)
  <1>1. MatchKey(s, text, m).is = "match"
    BY DEF MatchKey
  <1>2. k = AlertKey(s, text, m)
    BY <1>1 DEF AlertRows
  <1>3. k.source = s /\ k.text = text /\ k.monitor = m
    BY <1>2 DEF AlertKey
  <1> QED BY <1>2, <1>3 DEF MatchOf

LEMMA NotedNoAlert ==
    ASSUME NEW c, NEW k \in Noted(c)
    PROVE  k.is # "alert"
  <1>1. k = EntityKey(NextId(c)) \/ k \in EntityRows(tx[c].source, NextId(c), tx[c].text)
    BY DEF Noted
  <1> QED BY <1>1, KeyKinds

LEMMA AddsOfStep ==
    ASSUME IInv, NEW c \in Crawls, Step(c) \/ Interrupt(c), ~Commit(c)
    PROVE  (\A d \in Crawls : Adds(d)) /\ rows' = rows
  <1> USE DEF IInv, Types
  <1>1. PICK o \in Crawl : o = tx[c] /\ Good(c, o)
    BY DEF CrawlsInv
  <1>3. CASE Fetch(c) \/ FetchFails(c) \/ LookForDocument(c) \/ UnknownEntity(c)
    <2>1. \A d \in Crawls : tx'[d].new = tx[d].new
      <3>1. CASE Fetch(c)
        BY <1>1, <3>1 DEF Fetch, Crawl
      <3>2. CASE FetchFails(c)
        BY <1>1, <3>2 DEF FetchFails, Crawl
      <3>3. CASE LookForDocument(c)
        BY <1>1, <3>3 DEF LookForDocument, Crawl
      <3>4. CASE UnknownEntity(c)
        BY <1>1, <3>4 DEF UnknownEntity, Crawl
      <3> QED BY <1>3, <3>1, <3>2, <3>3, <3>4
    <2> QED BY <1>3, <2>1 DEF Adds, Named, Fetch, FetchFails, LookForDocument, UnknownEntity
  <1>4. CASE WriteDocument(c)
    <2>1. PICK new : new = IF tx[c].found THEN {} ELSE Wanted(c)
      OBVIOUS
    <2>2. \A k \in new : k.is # "alert"
      BY <1>4, <2>1, KeyKinds DEF WriteDocument, Wanted
    <2>3. o.new = {}
      BY <1>1, <1>4 DEF WriteDocument, Good, WorkOf, Writing, Held
    <2>4. \A d \in Crawls : tx'[d].new = IF d = c THEN new ELSE tx[d].new
      BY <1>4, <2>1 DEF WriteDocument, Crawl
    <2> QED BY <1>1, <1>4, <2>2, <2>3, <2>4 DEF Adds, Named, WriteDocument
  <1>5. CASE KnownEntity(c) \/ InsertEntity(c)
    <2>1. PICK new : new = Noted(c)
      OBVIOUS
    <2>2. \A d \in Crawls : tx'[d].new = IF d = c THEN tx[c].new \cup new ELSE tx[d].new
      <3>1. CASE KnownEntity(c)
        BY <1>1, <2>1, <3>1 DEF KnownEntity, Crawl
      <3>2. CASE InsertEntity(c)
        BY <1>1, <2>1, <3>2 DEF InsertEntity, Crawl
      <3> QED BY <1>5, <3>1, <3>2
    <2>3. \A k \in new : k.is # "alert"
      BY <2>1, NotedNoAlert
    <2> QED BY <1>5, <2>2, <2>3 DEF Adds, Named, KnownEntity, InsertEntity
  <1>6. CASE MatchMonitors(c)
    <2>1. PICK new : new = Alerted(c) \ DOMAIN rows
      OBVIOUS
    <2>2. \A d \in Crawls : tx'[d].new = IF d = c THEN tx[c].new \cup new ELSE tx[d].new
      BY <1>6, <2>1 DEF MatchMonitors, Crawl
    <2>3. ASSUME NEW k \in new, k.is = "alert"
          PROVE  MatchOf(k) \in DOMAIN rows \cup new
      <3>1. PICK m \in enabled : /\ Matches(tx[c].text, m)
                                 /\ k \in AlertRows(tx[c].source, tx[c].text, m)
        BY <2>1, <2>3 DEF Alerted
      <3>2. MatchOf(k) = MatchKey(tx[c].source, tx[c].text, m)
        BY <2>3, <3>1, AlertRowsNamed
      <3>3. MatchOf(k) \in Alerted(c)
        BY <3>1, <3>2 DEF Alerted, AlertRows
      <3> QED BY <2>1, <3>3
    <2>4. Named(tx'[c].new \ tx[c].new, DOMAIN rows \cup tx'[c].new)
      BY <2>2, <2>3 DEF Named
    <2>5. \A d \in Crawls : Adds(d)
      BY <2>2, <2>4 DEF Adds, Named
    <2> QED BY <1>6, <2>5 DEF MatchMonitors
  <1>7. CASE DatabaseError(c) \/ Victim(c) \/ Interrupt(c)
    <2>1. tx' = RolledBack(c) /\ rows' = rows
      BY <1>7 DEF DatabaseError, Victim, Interrupt
    <2>2. \A d \in Crawls : tx'[d].new = IF d = c THEN {} ELSE tx[d].new
      BY <2>1 DEF RolledBack, Crawl
    <2> QED BY <2>1, <2>2 DEF Adds, Named
  <1> QED BY <1>3, <1>4, <1>5, <1>6, <1>7 DEF Step

LEMMA CommitNamed ==
    ASSUME IInv, NamedInv, NEW c \in Crawls, Commit(c)
    PROVE  NamedInv'
  <1>1. DOMAIN rows' = DOMAIN rows \cup tx[c].new
    BY DEF Commit, WithRows
  <1>2. \A d \in Crawls : tx'[d].new = IF d = c THEN {} ELSE tx[d].new
    BY DEF Commit, IInv, Types, Crawl
  <1> QED BY <1>1, <1>2 DEF NamedInv, Named

LEMMA NamedAlways == Spec => [](IInv /\ NamedInv)
  <1>1. Init => NamedInv
    BY DEF Init, NamedInv, Named, Idle
  <1>2. IInv /\ NamedInv /\ [Next]_vars => NamedInv'
    <2> SUFFICES ASSUME IInv, NamedInv, [Next]_vars PROVE NamedInv'
      OBVIOUS
    <2>1. ASSUME \A c \in Crawls : tx'[c].new = tx[c].new, rows' = rows
          PROVE  NamedInv'
      BY <2>1 DEF NamedInv, Named
    <2>2. CASE UNCHANGED vars
      BY <2>1, <2>2 DEF vars
    <2>3. ASSUME NEW s \in Sources, NEW spelling \in DOMAIN Canonical, Save(s, spelling)
          PROVE  NamedInv'
      BY <2>1, <2>3 DEF Save
    <2>4. ASSUME NEW m \in Monitors, SetMonitor(m)
          PROVE  NamedInv'
      BY <2>1, <2>4 DEF SetMonitor, IInv, Types, Crawl
    <2>5. ASSUME NEW c \in Crawls, NEW s \in Sources, Start(c, s)
          PROVE  NamedInv'
      <3>1. \A d \in Crawls : tx'[d].new = IF d = c THEN {} ELSE tx[d].new
        BY <2>5 DEF Start, IInv, Types, Crawl, Idle
      <3> QED BY <2>5, <3>1 DEF Start, NamedInv, Named
    <2>6. ASSUME NEW c \in Crawls, Step(c) \/ Interrupt(c)
          PROVE  NamedInv'
      BY <2>6, AddsOfStep, AddsNamed, CommitNamed
    <2> QED BY <2>2, <2>3, <2>4, <2>5, <2>6 DEF Next
  <1> QED BY <1>1, <1>2, Invariant, PTL DEF Spec

\* No edge of the graph hangs in the air, whichever rows it is made of.
LEMMA GraphClosed ==
    ASSUME NEW observations, NEW events, NEW alerts
    PROVE  Closed(Graph(observations, events, alerts))
  <1> DEFINE joined == Joined(observations)
             shown == ShownEvents(events, observations)
             shownAlerts == ShownAlerts(alerts, shown)
             nodes == Graph(observations, events, alerts).nodes
  <1>1. nodes = IndexNodes
                   \cup {DocumentNode(o) : o \in joined} \cup {EntityNode(o.id) : o \in joined}
                   \cup {EventNode(k) : k \in shown} \cup {AlertNode(k) : k \in shownAlerts}
    BY DEF Graph
  <1>2. ASSUME NEW edge \in IndexEdges
        PROVE  edge[1] \in IndexNodes /\ edge[2] \in IndexNodes
    <2>1. CASE \E i \in Iocs : \E t \in i.tags : edge = << <<"ioc", i.id>>, <<"tag", t>> >>
      BY <2>1 DEF IndexNodes
    <2>2. CASE \E a \in Actors : \E t \in a.techniques :
                  edge = << <<"actor", a.id>>, <<"technique", t>> >>
      BY <2>2 DEF IndexNodes
    <2>3. CASE edge \in UNION {{<< <<"ioc", i.id>>, <<"tag", t>> >> : t \in i.tags} : i \in Iocs}
      BY <2>1, <2>3, Zenon
    <2>4. CASE edge \in UNION {{<< <<"actor", a.id>>, <<"technique", t>> >> : t \in a.techniques}
                                : a \in Actors}
      BY <2>2, <2>4, Zenon
    <2> QED BY <2>3, <2>4, Zenon DEF IndexEdges
  <1>3. ASSUME NEW k \in shown, NEW id \in EntityOf(k)
        PROVE  EntityNode(id) \in nodes
    <2>1. PICK o \in joined : o.id \in EntityOf(k)
      BY DEF ShownEvents
    <2>2. o.id = id
      BY <2>1 DEF EntityOf
    <2> QED BY <1>1, <2>1, <2>2
  <1>4. ASSUME NEW k \in shownAlerts
        PROVE  EventNode(MatchOf(k)) \in nodes
    <2>1. MatchOf(k) \in shown
      BY DEF ShownAlerts
    <2> QED BY <1>1, <2>1
  <1>5. ASSUME NEW edge \in Graph(observations, events, alerts).edges
        PROVE  \/ edge \in IndexEdges
               \/ \E o \in joined : edge = <<DocumentNode(o), EntityNode(o.id)>>
               \/ \E k \in shown : \E id \in EntityOf(k) : edge = <<EventNode(k), EntityNode(id)>>
               \/ \E k \in shownAlerts : edge = <<AlertNode(k), EventNode(MatchOf(k))>>
    <2>1. Graph(observations, events, alerts).edges =
             IndexEdges \cup {<<DocumentNode(o), EntityNode(o.id)>> : o \in joined}
               \cup (UNION {{<<EventNode(k), EntityNode(id)>> : id \in EntityOf(k)} : k \in shown})
               \cup {<<AlertNode(k), EventNode(MatchOf(k))>> : k \in shownAlerts}
      BY DEF Graph
    <2> HIDE DEF joined, shown, shownAlerts
    <2>2. CASE edge \in UNION {{<<EventNode(k), EntityNode(id)>> : id \in EntityOf(k)} : k \in shown}
      BY <2>2, Zenon
    <2>3. CASE edge \in {<<DocumentNode(o), EntityNode(o.id)>> : o \in joined}
      BY <2>3, Zenon
    <2>4. CASE edge \in {<<AlertNode(k), EventNode(MatchOf(k))>> : k \in shownAlerts}
      BY <2>4, Zenon
    <2> QED BY <2>1, <2>2, <2>3, <2>4, Zenon
  <1> HIDE DEF nodes, joined, shown, shownAlerts
  <1>6. ASSUME NEW edge \in Graph(observations, events, alerts).edges
        PROVE  edge[1] \in nodes /\ edge[2] \in nodes
    <2>1. CASE edge \in IndexEdges
      BY <1>1, <1>2, <2>1
    <2>2. CASE \E o \in joined : edge = <<DocumentNode(o), EntityNode(o.id)>>
      BY <1>1, <2>2
    <2>3. CASE \E k \in shown : \E id \in EntityOf(k) : edge = <<EventNode(k), EntityNode(id)>>
      BY <1>1, <1>3, <2>3
    <2>4. CASE \E k \in shownAlerts : edge = <<AlertNode(k), EventNode(MatchOf(k))>>
      BY <1>1, <1>4, <2>4
    <2> QED BY <1>5, <2>1, <2>2, <2>3, <2>4
  <1> QED BY <1>6 DEF Closed, nodes

\* The match of an alert is of a completed crawl, which left the document, its first entity
\* and the observation of it.
LEMMA AlertTraced ==
    ASSUME IInv, NamedInv, NEW k \in Stored("alert"), EntityOf(MatchOf(k)) # {}
    PROVE  \E id \in EntityOf(MatchOf(k)) :
              /\ MatchOf(k) \in Stored("match")
              /\ ObservationKey(id, k.text) \in Joined(Stored("observation"))
  <1>1. MatchOf(k) \in DOMAIN rows /\ MatchOf(k).is = "match" /\ MatchOf(k).text = k.text
    BY DEF NamedInv, Named, Stored, MatchOf, MatchKey
  <1>2. PICK c \in Crawls : /\ c = rows[MatchOf(k)].by /\ jobs[c].status = "completed"
                            /\ MatchOf(k) \in RowsOf(tx[c])
    BY <1>1 DEF IInv, RowsInv
  <1>3. PICK q \in Crawl : q = tx[c] /\ Good(c, q)
    BY DEF IInv, Types, CrawlsInv
  <1>4. q.text = k.text
    BY <1>1, <1>2, <1>3, RowsNameText
  <1>5. q.values # <<>> /\ EntityOf(MatchOf(k)) = {EntityId(q.values[1])}
    BY <1>1, <1>2, <1>3 DEF EntityOf
  <1>6. q.values[1] \in ToSet(q.values)
    <2>1. DOMAIN q.values = 1..Len(q.values) /\ Len(q.values) \in Nat
      BY Lengths DEF Crawl
    <2>2. 1 \in DOMAIN q.values
      BY <1>5, <2>1
    <2> QED BY <2>2 DEF ToSet
  <1>7. DocumentRows(q.source, q.text, q.values) \subseteq DOMAIN rows
    BY <1>2, <1>3 DEF Good, DoneOf
  <1> DEFINE id == EntityId(q.values[1])
  <1>8. /\ DocumentKey(k.text) \in DOMAIN rows /\ EntityKey(id) \in DOMAIN rows
        /\ ObservationKey(id, k.text) \in DOMAIN rows
    BY <1>4, <1>6, <1>7 DEF DocumentRows, EntityRows
  <1>9. /\ ObservationKey(id, k.text).is = "observation" /\ ObservationKey(id, k.text).id = id
        /\ ObservationKey(id, k.text).text = k.text
    BY DEF ObservationKey
  <1> HIDE DEF id
  <1>10. ObservationKey(id, k.text) \in Joined(Stored("observation"))
    BY <1>8, <1>9 DEF Joined, Stored
  <1> QED BY <1>1, <1>5, <1>10 DEF Stored, id

\* What graph() shows of the stored rows can be traced, whichever rows its limits cut off.
THEOREM GraphCanBeTraced == Spec => []GraphTraceable
  <1>1. IInv /\ NamedInv => GraphTraceable
    <2> SUFFICES ASSUME IInv, NamedInv, NEW k \in Stored("alert"), EntityOf(MatchOf(k)) # {}
                 PROVE  LET full == Graph(Stored("observation"),
                                          Stored("event") \cup Stored("match"), Stored("alert"))
                        IN  \E id \in EntityOf(MatchOf(k)) :
                               /\ AlertNode(k) \in full.nodes
                               /\ <<EventNode(MatchOf(k)), EntityNode(id)>> \in full.edges
                               /\ <<DocumentNode(k), EntityNode(id)>> \in full.edges
      BY GraphClosed DEF GraphTraceable
    <2>1. PICK id \in EntityOf(MatchOf(k)) :
             /\ MatchOf(k) \in Stored("match")
             /\ ObservationKey(id, k.text) \in Joined(Stored("observation"))
      BY AlertTraced
    <2>2. ObservationKey(id, k.text).id = id /\ ObservationKey(id, k.text).text = k.text
      BY DEF ObservationKey
    <2>3. MatchOf(k) \in ShownEvents(Stored("event") \cup Stored("match"), Stored("observation"))
      BY <2>1, <2>2 DEF ShownEvents
    <2>4. k \in ShownAlerts(Stored("alert"),
                            ShownEvents(Stored("event") \cup Stored("match"), Stored("observation")))
      BY <2>3 DEF ShownAlerts
    <2>5. DocumentNode(ObservationKey(id, k.text)) = DocumentNode(k)
      BY <2>2 DEF DocumentNode
    <2> DEFINE joined == Joined(Stored("observation"))
               shown == ShownEvents(Stored("event") \cup Stored("match"), Stored("observation"))
               shownAlerts == ShownAlerts(Stored("alert"), shown)
               full == Graph(Stored("observation"), Stored("event") \cup Stored("match"),
                             Stored("alert"))
    <2>6. /\ {AlertNode(i) : i \in shownAlerts} \subseteq full.nodes
          /\ {<<DocumentNode(o), EntityNode(o.id)>> : o \in joined} \subseteq full.edges
          /\ UNION {{<<EventNode(i), EntityNode(e)>> : e \in EntityOf(i)} : i \in shown}
                \subseteq full.edges
      BY DEF Graph
    <2>7. <<EventNode(MatchOf(k)), EntityNode(id)>> \in full.edges
      BY <2>1, <2>3, <2>6
    <2>8. <<DocumentNode(k), EntityNode(id)>> \in full.edges
      BY <2>1, <2>2, <2>5, <2>6
    <2>9. AlertNode(k) \in full.nodes
      BY <2>4, <2>6
    <2> QED BY <2>7, <2>8, <2>9
  <1> QED BY <1>1, NamedAlways, PTL
=============================================================================
