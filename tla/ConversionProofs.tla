-------------------------- MODULE ConversionProofs --------------------------
(* Proofs that a client of the adapter can follow every stream it writes,   *)
(* for every conversion and every answer of the upstream.                   *)
EXTENDS StreamConversion, FiniteSetTheorems, SequenceTheorems, WellFoundedInduction, NaturalsInduction, TLAPS

-----------------------------------------------------------------------------
(* Numbers and sequences.                                                   *)

\* A sequence, of whatever it is.
IsSeq(s) == \E S : s \in Seq(S)

(* Of some numbers one is the least.                                        *)
LEMMA LeastNumber ==
  ASSUME NEW N \in SUBSET Nat, N # {}
  PROVE  \E n \in N : \A m \in N : n <= m
<1> DEFINE R == {p \in Nat \X Nat : p[1] < p[2]}
<1>1. IsWellFoundedOn(R, Nat)
  BY NatLessThanWellFounded DEF OpToRel
<1>2. \A m, n \in Nat : m < n => <<m, n>> \in R
  OBVIOUS
<1> HIDE DEF R
<1>3. PICK n \in N : \A m \in N : <<m, n>> \notin R
  BY <1>1, WFMin
<1>4. ASSUME NEW m \in N PROVE n <= m
  <2>1. ~(m < n)
    BY <1>2, <1>3
  <2> QED BY <2>1
<1> QED BY <1>4

(* What holds at the start of a loop and is kept by each of its steps holds *)
(* after all of them.                                                       *)
LEMMA Climb ==
  ASSUME NEW n \in Nat, NEW Good, 0 \in Good, \A i \in 1..n : i - 1 \in Good => i \in Good
  PROVE  \A i \in 0..n : i \in Good
<1> DEFINE Bad == {i \in 0..n : i \notin Good}
<1>1. ASSUME NEW i \in Bad, \A j \in Bad : i <= j PROVE FALSE
  <2>1. i \in 1..n /\ i - 1 \in 0..n
    BY <1>1
  <2>2. i - 1 \notin Bad
    BY <1>1, <2>1
  <2> QED BY <1>1, <2>1, <2>2
<1>2. Bad \in SUBSET Nat
  OBVIOUS
<1>3. Bad = {}
  <2> HIDE DEF Bad
  <2> QED BY <1>1, <1>2, LeastNumber
<1> QED BY <1>3

(* A nonempty set of places has a last one, which Max chooses.              *)
LEMMA MaxIsLast ==
  ASSUME NEW n \in Nat, NEW U \in SUBSET (1..n), U # {}
  PROVE  Max(U) \in U /\ \A m \in U : m <= Max(U)
<1> DEFINE N == {n - m : m \in U}
<1>1. N \in SUBSET Nat /\ N # {}
  <2>1. \A m \in U : n - m \in Nat
    OBVIOUS
  <2> QED BY <2>1
<1>2. PICK l \in N : \A m \in N : l <= m
  <2> HIDE DEF N
  <2> QED BY <1>1, LeastNumber
<1>3. PICK x \in U : l = n - x
  BY <1>2
<1>4. \A m \in U : x >= m
  <2> SUFFICES ASSUME NEW m \in U PROVE x >= m
    OBVIOUS
  <2>1. n - x <= n - m
    BY <1>2, <1>3
  <2> QED BY <2>1
<1> QED BY <1>3, <1>4 DEF Max

(* The greatest of the first n numbers is n.                                *)
LEMMA MaxOfAll ==
  ASSUME NEW n \in Nat \ {0}
  PROVE  Max(1..n) = n
<1>1. 1..n \in SUBSET (1..n) /\ 1..n # {}
  OBVIOUS
<1>2. Max(1..n) \in 1..n /\ \A m \in 1..n : m <= Max(1..n)
  BY <1>1, MaxIsLast
<1>3. n <= Max(1..n) /\ Max(1..n) <= n
  BY <1>2
<1> QED BY <1>2, <1>3

(* The first i places without the last are the first i - 1.                 *)
LEMMA Prefix ==
  ASSUME NEW n \in Nat, NEW i \in 1..n
  PROVE  (1..i) \ {i} = 1..(i - 1) /\ 1..i # {} /\ 1..i \in SUBSET (1..n)
<1>1. (1..i) \ {i} = 1..(i - 1)
  OBVIOUS
<1>2. 1..i # {} /\ 1..i \in SUBSET (1..n)
  OBVIOUS
<1> QED BY <1>1, <1>2

(* ... and a first one, which Min chooses.                                  *)
LEMMA MinIsFirst ==
  ASSUME NEW U \in SUBSET Nat, U # {}
  PROVE  Min(U) \in U
<1>1. PICK l \in U : \A m \in U : l <= m
  BY LeastNumber
<1> QED BY <1>1 DEF Min

(* A sequence is a function on its places.                                  *)
LEMMA SeqFacts ==
  ASSUME NEW s, IsSeq(s)
  PROVE  Len(s) \in Nat /\ DOMAIN s = 1..Len(s)
<1>1. PICK S : s \in Seq(S)
  BY DEF IsSeq
<1> QED BY <1>1, LenProperties

(* The empty sequence is one.                                               *)
LEMMA EmptyIsSeq == IsSeq(<<>>) /\ Len(<<>>) = 0
<1>1. <<>> \in Seq({})
  OBVIOUS
<1> QED BY <1>1 DEF IsSeq

(* So is a sequence of one entry.                                           *)
LEMMA OneIsSeq ==
  ASSUME NEW e
  PROVE  IsSeq(<<e>>) /\ Len(<<e>>) = 1 /\ <<e>>[1] = e
<1>1. <<e>> \in Seq({e})
  OBVIOUS
<1> QED BY <1>1 DEF IsSeq

(* What appending an entry does to the places of a sequence.                *)
LEMMA Appended ==
  ASSUME NEW s, IsSeq(s), NEW e
  PROVE  /\ IsSeq(Append(s, e))
         /\ Len(Append(s, e)) = Len(s) + 1
         /\ Append(s, e)[Len(s) + 1] = e
         /\ \A i \in 1..Len(s) : Append(s, e)[i] = s[i]
<1>1. PICK S : s \in Seq(S)
  BY DEF IsSeq
<1> DEFINE T == S \cup {e}
<1>2. s \in Seq(T) /\ e \in T
  <2>1. S \subseteq T
    OBVIOUS
  <2> QED BY <1>1, <2>1, SeqMonotonic
<1> HIDE DEF T
<1>3. Append(s, e) \in Seq(T)
  BY <1>2, AppendProperties
<1> QED BY <1>2, <1>3, AppendProperties DEF IsSeq

(* What replacing an entry does to the places of a sequence.                *)
LEMMA Replaced ==
  ASSUME NEW s, IsSeq(s), NEW i \in 1..Len(s), NEW e
  PROVE  /\ IsSeq([s EXCEPT ![i] = e])
         /\ Len([s EXCEPT ![i] = e]) = Len(s)
         /\ [s EXCEPT ![i] = e][i] = e
         /\ \A j \in 1..Len(s) : j # i => [s EXCEPT ![i] = e][j] = s[j]
<1>1. PICK S : s \in Seq(S)
  BY DEF IsSeq
<1> DEFINE T == S \cup {e}
<1>2. s \in Seq(T) /\ e \in T
  <2>1. S \subseteq T
    OBVIOUS
  <2> QED BY <1>1, <2>1, SeqMonotonic
<1> HIDE DEF T
<1>3. [s EXCEPT ![i] = e] \in Seq(T) /\ Len([s EXCEPT ![i] = e]) = Len(s)
  BY <1>2, ExceptSeq
<1>4. DOMAIN s = 1..Len(s)
  BY SeqFacts
<1> QED BY <1>3, <1>4 DEF IsSeq

-----------------------------------------------------------------------------
(* Loops.                                                                   *)

\* The bodies of the loops of the model, by name: p is what a body knows
\* beside its two arguments.
Body(loop, p, b, x) ==
  CASE loop = "receive" -> Receive(b, x)
    [] loop = "closeTool" -> CloseTool(b, x)
    [] loop = "closeToolBlock" -> CloseToolBlock(b, x)
    [] loop = "closing" -> Write(b, Done(x - 1, Unclaimed))
    [] loop = "searched" -> IF b.searches[x].added THEN CompleteSearch(b, x) ELSE b
    [] loop = "new" -> IF x \in p THEN b ELSE AnnotationDelta(b, x)
    [] loop = "tool" -> ToolDelta(b, x)
    [] loop = "search" -> SearchEvent(b, x)

\* The table of the library's fold over the places of s that are in T.
IsTable(g, loop, p, base, s, T) ==
  g = [U \in SUBSET T |-> IF U = {} THEN base ELSE Body(loop, p, g[U \ {Max(U)}], s[Max(U)])]

\* g is what the loop has made of base after each of its steps.
IsRun(g, loop, p, base, s) ==
  g[0] = base /\ \A i \in 1..Len(s) : g[i] = Body(loop, p, g[i - 1], s[i])

(* A table of a loop over the smaller sets of places extends to the next    *)
(* set.                                                                     *)
LEMMA TableGrows ==
  ASSUME NEW n \in Nat, NEW loop, NEW p, NEW base, NEW s,
         NEW T \in SUBSET (1..n), T # {}, NEW g, IsTable(g, loop, p, base, s, T \ {Max(T)})
  PROVE  \E h : IsTable(h, loop, p, base, s, T)
<1> DEFINE x == Max(T)
           h == [U \in SUBSET T |-> IF x \in U THEN Body(loop, p, g[U \ {x}], s[x]) ELSE g[U]]
<1>1. x \in T /\ \A m \in T : m <= x
  BY MaxIsLast
<1>2. \A U \in SUBSET T : U \ {x} \in SUBSET (T \ {x}) /\ (x \notin U => U \in SUBSET (T \ {x}))
  OBVIOUS
<1>3. ASSUME NEW U \in SUBSET T, x \in U PROVE Max(U) = x
  <2>1. Max(U) \in U /\ \A m \in U : m <= Max(U)
    BY <1>3, MaxIsLast
  <2>2. x <= Max(U) /\ Max(U) <= x
    BY <1>1, <1>3, <2>1
  <2>3. x \in 1..n /\ Max(U) \in 1..n
    BY <1>1, <2>1, Zenon
  <2> QED BY <2>2, <2>3
<1> HIDE DEF x
<1>4. ASSUME NEW U \in SUBSET T
      PROVE  h[U] = IF U = {} THEN base ELSE Body(loop, p, h[U \ {Max(U)}], s[Max(U)])
  <2>1. CASE x \in U
    <3>1. h[U] = Body(loop, p, g[U \ {x}], s[x]) /\ U \ {x} \in SUBSET T /\ h[U \ {x}] = g[U \ {x}]
      BY <2>1
    <3> QED BY <1>3, <2>1, <3>1
  <2>2. CASE x \notin U
    <3>1. U \in SUBSET (T \ {x}) /\ h[U] = g[U]
      BY <1>2, <2>2
    <3>2. U \ {Max(U)} \in SUBSET T /\ h[U \ {Max(U)}] = g[U \ {Max(U)}]
      BY <2>2
    <3>3. g[U] = IF U = {} THEN base ELSE Body(loop, p, g[U \ {Max(U)}], s[Max(U)])
      BY <3>1 DEF IsTable, x
    <3> HIDE DEF h
    <3> QED BY <3>1, <3>2, <3>3
  <2> QED BY <2>1, <2>2
<1>5. h = [U \in SUBSET T |-> h[U]]
  OBVIOUS
<1> HIDE DEF h
<1>6. IsTable(h, loop, p, base, s, T)
  BY <1>4, <1>5 DEF IsTable
<1> QED BY <1>6

(* The table of a fold exists.                                              *)
LEMMA TableExists ==
  ASSUME NEW n \in Nat, NEW loop, NEW p, NEW base, NEW s
  PROVE  \E g : IsTable(g, loop, p, base, s, 1..n)
<1> DEFINE Good == {k \in 0..n : \E g : IsTable(g, loop, p, base, s, 1..k)}
<1>1. 0 \in Good
  <2> DEFINE g == [U \in SUBSET (1..0) |-> base]
  <2>1. IsTable(g, loop, p, base, s, 1..0)
    <3>1. \A U \in SUBSET (1..0) : U = {}
      OBVIOUS
    <3> QED BY <3>1 DEF IsTable
  <2> QED BY <2>1
<1>2. ASSUME NEW k \in 1..n, k - 1 \in Good PROVE k \in Good
  <2>1. Max(1..k) = k
    <3> QED BY MaxOfAll
  <2>2. (1..k) \ {k} = 1..(k - 1) /\ k \in 1..k
    OBVIOUS
  <2>3. PICK g : IsTable(g, loop, p, base, s, (1..k) \ {Max(1..k)})
    BY <1>2, <2>1, <2>2
  <2>4. \E h : IsTable(h, loop, p, base, s, 1..k)
    <3>1. 1..k \in SUBSET (1..n) /\ 1..k # {}
      BY <2>2
    <3> QED BY <2>3, <3>1, TableGrows
  <2> QED BY <2>4
<1>3. n \in Good
  <2> HIDE DEF Good
  <2> QED BY <1>1, <1>2, Climb
<1> QED BY <1>3

(* A table of the fold is a run of the loop.                                *)
LEMMA TableIsRun ==
  ASSUME NEW s, Len(s) \in Nat, NEW loop, NEW p, NEW base,
         NEW g, IsTable(g, loop, p, base, s, 1..Len(s))
  PROVE  \E h : IsRun(h, loop, p, base, s) /\ h[Len(s)] = g[1..Len(s)]
<1> DEFINE n == Len(s)
           h == [i \in 0..n |-> g[1..i]]
<1>1. h[0] = base
  <2>1. 1..0 = {} /\ 1..0 \in SUBSET (1..n) /\ 0 \in 0..n
    OBVIOUS
  <2> QED BY <2>1 DEF IsTable
<1>2. ASSUME NEW i \in 1..n PROVE h[i] = Body(loop, p, h[i - 1], s[i])
  <2>1. i \in Nat \ {0} /\ i \in 0..n /\ i - 1 \in 0..n
    OBVIOUS
  <2>2. Max(1..i) = i
    BY <2>1, MaxOfAll
  <2>3. (1..i) \ {i} = 1..(i - 1) /\ 1..i # {} /\ 1..i \in SUBSET (1..n)
    <3> HIDE DEF h
    <3> QED BY <2>1, Prefix
  <2>4. g[1..i] = Body(loop, p, g[(1..i) \ {Max(1..i)}], s[Max(1..i)])
    BY <2>3 DEF IsTable
  <2> QED BY <2>1, <2>2, <2>3, <2>4
<1>3. h[n] = g[1..n]
  OBVIOUS
<1> HIDE DEF h
<1> QED BY <1>1, <1>2, <1>3 DEF IsRun

(* Two runs of a loop over the same elements agree.                         *)
LEMMA RunsAgree ==
  ASSUME NEW s, Len(s) \in Nat, NEW loop, NEW p, NEW base, NEW g, IsRun(g, loop, p, base, s),
         NEW t, NEW h, IsRun(h, loop, p, base, t), Len(t) \in Nat, Len(s) <= Len(t),
         \A i \in 1..Len(s) : s[i] = t[i]
  PROVE  g[Len(s)] = h[Len(s)]
<1> DEFINE Good == {i \in 0..Len(s) : g[i] = h[i]}
<1>1. 0 \in Good
  BY DEF IsRun
<1>2. ASSUME NEW i \in 1..Len(s), i - 1 \in Good PROVE i \in Good
  <2>1. g[i] = Body(loop, p, g[i - 1], s[i])
    BY DEF IsRun
  <2>2. h[i] = Body(loop, p, h[i - 1], t[i])
    <3>1. i \in 1..Len(t)
      OBVIOUS
    <3> QED BY <3>1 DEF IsRun
  <2> QED BY <1>2, <2>1, <2>2
<1>3. \A i \in 0..Len(s) : i \in Good
  <2> HIDE DEF Good
  <2> QED BY <1>1, <1>2, Climb
<1> QED BY <1>3

Reading(c, s) == FoldLeft(Receive, c, s)

(* The client reads the events one by one.                                  *)
LEMMA ReadingIsRun ==
  ASSUME NEW s, IsSeq(s), NEW c
  PROVE  \E g : IsRun(g, "receive", 0, c, s) /\ Reading(c, s) = g[Len(s)]
<1> DEFINE IsLoop(h) == h = [U \in SUBSET (1..Len(s)) |->
                               IF U = {} THEN c ELSE Receive(h[U \ {Max(U)}], s[Max(U)])]
           h == CHOOSE loop : IsLoop(loop)
<1>1. Len(s) \in Nat /\ DOMAIN s = 1..Len(s)
  BY SeqFacts
<1>2. Reading(c, s) = h[1..Len(s)]
  BY <1>1 DEF Reading, FoldLeft, MapThenFoldSet
<1>3. \A f : IsLoop(f) <=> IsTable(f, "receive", 0, c, s, 1..Len(s))
  BY DEF IsTable, Body
<1>4. PICK f : IsTable(f, "receive", 0, c, s, 1..Len(s))
  BY <1>1, TableExists
<1>5. IsLoop(h)
  <2> HIDE DEF IsLoop
  <2>1. IsLoop(f)
    BY <1>3, <1>4
  <2> QED BY <2>1
<1>6. IsTable(h, "receive", 0, c, s, 1..Len(s))
  <2> HIDE DEF IsLoop, h
  <2> QED BY <1>3, <1>5
<1> HIDE DEF IsLoop, h
<1> QED BY <1>1, <1>2, <1>6, TableIsRun

(* One more event is read after all that were written before.               *)
LEMMA ReadingGrows ==
  ASSUME NEW s, IsSeq(s), NEW c, NEW e
  PROVE  Reading(c, Append(s, e)) = Receive(Reading(c, s), e)
<1> DEFINE t == Append(s, e)
<1>1. IsSeq(t) /\ Len(s) \in Nat /\ Len(t) = Len(s) + 1 /\ t[Len(s) + 1] = e /\ \A i \in 1..Len(s) : s[i] = t[i]
  BY Appended, SeqFacts
<1> HIDE DEF t
<1>2. PICK g : IsRun(g, "receive", 0, c, s) /\ Reading(c, s) = g[Len(s)]
  BY ReadingIsRun
<1>3. PICK h : IsRun(h, "receive", 0, c, t) /\ Reading(c, t) = h[Len(t)]
  BY <1>1, ReadingIsRun
<1>4. h[Len(s)] = g[Len(s)]
  <2>1. Len(t) \in Nat /\ Len(s) <= Len(t)
    BY <1>1
  <2> QED BY <1>1, <1>2, <1>3, <2>1, RunsAgree
<1>5. h[Len(t)] = Body("receive", 0, h[Len(s)], e)
  <2>1. Len(t) \in 1..Len(t) /\ Len(t) - 1 = Len(s)
    BY <1>1
  <2> QED BY <1>1, <1>3, <2>1 DEF IsRun
<1>6. h[Len(t)] = Receive(h[Len(s)], e)
  BY <1>5 DEF Body
<1> QED BY <1>2, <1>3, <1>4, <1>6 DEF t

(* A client that reads nothing stays as it is.                              *)
LEMMA ReadingNothing ==
  ASSUME NEW c
  PROVE  Reading(c, <<>>) = c
<1>1. PICK g : IsRun(g, "receive", 0, c, <<>>) /\ Reading(c, <<>>) = g[Len(<<>>)]
  BY EmptyIsSeq, ReadingIsRun
<1> QED BY <1>1, EmptyIsSeq DEF IsRun

\* The loops of the model that have no name there.
ClosingAll(a, s) == FoldLeft(LAMBDA b, i : Write(b, Done(i - 1, Unclaimed)), a, s)
SearchedAll(a, s) == FoldLeft(LAMBDA b, i : IF b.searches[i].added THEN CompleteSearch(b, i) ELSE b, a, s)
CitedAll(a, s, known) == FoldLeft(LAMBDA b, note : IF note \in known THEN b ELSE AnnotationDelta(b, note), a, s)

(* Closing the calls of a Responses answer is a loop.                       *)
LEMMA CloseToolsIsRun ==
  ASSUME NEW a, NEW s, IsSeq(s)
  PROVE  \E g : IsRun(g, "closeTool", 0, a, s) /\ FoldLeft(CloseTool, a, s) = g[Len(s)]
<1> DEFINE IsLoop(h) == h = [U \in SUBSET (1..Len(s)) |->
                   IF U = {} THEN a
                   ELSE CloseTool(h[U \ {Max(U)}], s[Max(U)])]
           h == CHOOSE loop : IsLoop(loop)
<1>1. Len(s) \in Nat /\ DOMAIN s = 1..Len(s)
  BY SeqFacts
<1>2. FoldLeft(CloseTool, a, s) = h[1..Len(s)]
  BY <1>1 DEF FoldLeft, MapThenFoldSet
<1>3. \A f : IsLoop(f) <=> IsTable(f, "closeTool", 0, a, s, 1..Len(s))
  BY DEF IsTable, Body
<1>4. PICK f : IsTable(f, "closeTool", 0, a, s, 1..Len(s))
  BY <1>1, TableExists
<1>5. IsLoop(h)
  <2> HIDE DEF IsLoop
  <2>1. IsLoop(f)
    BY <1>3, <1>4
  <2> QED BY <2>1
<1>6. IsTable(h, "closeTool", 0, a, s, 1..Len(s))
  <2> HIDE DEF IsLoop, h
  <2> QED BY <1>3, <1>5
<1> HIDE DEF IsLoop, h
<1> QED BY <1>1, <1>2, <1>6, TableIsRun

(* Closing the blocks of the calls of a Messages answer is a loop.          *)
LEMMA CloseToolBlocksIsRun ==
  ASSUME NEW a, NEW s, IsSeq(s)
  PROVE  \E g : IsRun(g, "closeToolBlock", 0, a, s) /\ FoldLeft(CloseToolBlock, a, s) = g[Len(s)]
<1> DEFINE IsLoop(h) == h = [U \in SUBSET (1..Len(s)) |->
                   IF U = {} THEN a
                   ELSE CloseToolBlock(h[U \ {Max(U)}], s[Max(U)])]
           h == CHOOSE loop : IsLoop(loop)
<1>1. Len(s) \in Nat /\ DOMAIN s = 1..Len(s)
  BY SeqFacts
<1>2. FoldLeft(CloseToolBlock, a, s) = h[1..Len(s)]
  BY <1>1 DEF FoldLeft, MapThenFoldSet
<1>3. \A f : IsLoop(f) <=> IsTable(f, "closeToolBlock", 0, a, s, 1..Len(s))
  BY DEF IsTable, Body
<1>4. PICK f : IsTable(f, "closeToolBlock", 0, a, s, 1..Len(s))
  BY <1>1, TableExists
<1>5. IsLoop(h)
  <2> HIDE DEF IsLoop
  <2>1. IsLoop(f)
    BY <1>3, <1>4
  <2> QED BY <2>1
<1>6. IsTable(h, "closeToolBlock", 0, a, s, 1..Len(s))
  <2> HIDE DEF IsLoop, h
  <2> QED BY <1>3, <1>5
<1> HIDE DEF IsLoop, h
<1> QED BY <1>1, <1>2, <1>6, TableIsRun

(* Closing the calls of a chat answer is a loop.                            *)
LEMMA ClosingIsRun ==
  ASSUME NEW a, NEW s, IsSeq(s)
  PROVE  \E g : IsRun(g, "closing", 0, a, s) /\ ClosingAll(a, s) = g[Len(s)]
<1> DEFINE IsLoop(h) == h = [U \in SUBSET (1..Len(s)) |->
                   IF U = {} THEN a
                   ELSE Write(h[U \ {Max(U)}], Done(s[Max(U)] - 1, Unclaimed))]
           h == CHOOSE loop : IsLoop(loop)
<1>1. Len(s) \in Nat /\ DOMAIN s = 1..Len(s)
  BY SeqFacts
<1>2. ClosingAll(a, s) = h[1..Len(s)]
  BY <1>1 DEF FoldLeft, MapThenFoldSet, ClosingAll
<1>3. \A f : IsLoop(f) <=> IsTable(f, "closing", 0, a, s, 1..Len(s))
  BY DEF IsTable, Body
<1>4. PICK f : IsTable(f, "closing", 0, a, s, 1..Len(s))
  BY <1>1, TableExists
<1>5. IsLoop(h)
  <2> HIDE DEF IsLoop
  <2>1. IsLoop(f)
    BY <1>3, <1>4
  <2> QED BY <2>1
<1>6. IsTable(h, "closing", 0, a, s, 1..Len(s))
  <2> HIDE DEF IsLoop, h
  <2> QED BY <1>3, <1>5
<1> HIDE DEF IsLoop, h
<1> QED BY <1>1, <1>2, <1>6, TableIsRun

(* Completing the searches of a Responses answer is a loop.                 *)
LEMMA SearchedIsRun ==
  ASSUME NEW a, NEW s, IsSeq(s)
  PROVE  \E g : IsRun(g, "searched", 0, a, s) /\ SearchedAll(a, s) = g[Len(s)]
<1> DEFINE IsLoop(h) == h = [U \in SUBSET (1..Len(s)) |->
                   IF U = {} THEN a
                   ELSE IF h[U \ {Max(U)}].searches[s[Max(U)]].added
                        THEN CompleteSearch(h[U \ {Max(U)}], s[Max(U)])
                        ELSE h[U \ {Max(U)}]]
           h == CHOOSE loop : IsLoop(loop)
<1>1. Len(s) \in Nat /\ DOMAIN s = 1..Len(s)
  BY SeqFacts
<1>2. SearchedAll(a, s) = h[1..Len(s)]
  BY <1>1 DEF FoldLeft, MapThenFoldSet, SearchedAll
<1>3. \A f : IsLoop(f) <=> IsTable(f, "searched", 0, a, s, 1..Len(s))
  BY DEF IsTable, Body
<1>4. PICK f : IsTable(f, "searched", 0, a, s, 1..Len(s))
  BY <1>1, TableExists
<1>5. IsLoop(h)
  <2> HIDE DEF IsLoop
  <2>1. IsLoop(f)
    BY <1>3, <1>4
  <2> QED BY <2>1
<1>6. IsTable(h, "searched", 0, a, s, 1..Len(s))
  <2> HIDE DEF IsLoop, h
  <2> QED BY <1>3, <1>5
<1> HIDE DEF IsLoop, h
<1> QED BY <1>1, <1>2, <1>6, TableIsRun

(* Writing the citations of a delta is a loop.                              *)
LEMMA CitedIsRun ==
  ASSUME NEW a, NEW s, IsSeq(s), NEW known
  PROVE  \E g : IsRun(g, "new", known, a, s) /\ CitedAll(a, s, known) = g[Len(s)]
<1> DEFINE IsLoop(h) == h = [U \in SUBSET (1..Len(s)) |->
                   IF U = {} THEN a
                   ELSE IF s[Max(U)] \in known
                        THEN h[U \ {Max(U)}]
                        ELSE AnnotationDelta(h[U \ {Max(U)}], s[Max(U)])]
           h == CHOOSE loop : IsLoop(loop)
<1>1. Len(s) \in Nat /\ DOMAIN s = 1..Len(s)
  BY SeqFacts
<1>2. CitedAll(a, s, known) = h[1..Len(s)]
  BY <1>1 DEF FoldLeft, MapThenFoldSet, CitedAll
<1>3. \A f : IsLoop(f) <=> IsTable(f, "new", known, a, s, 1..Len(s))
  BY DEF IsTable, Body
<1>4. PICK f : IsTable(f, "new", known, a, s, 1..Len(s))
  BY <1>1, TableExists
<1>5. IsLoop(h)
  <2> HIDE DEF IsLoop
  <2>1. IsLoop(f)
    BY <1>3, <1>4
  <2> QED BY <2>1
<1>6. IsTable(h, "new", known, a, s, 1..Len(s))
  <2> HIDE DEF IsLoop, h
  <2> QED BY <1>3, <1>5
<1> HIDE DEF IsLoop, h
<1> QED BY <1>1, <1>2, <1>6, TableIsRun

(* Writing the calls of a delta is a loop.                                  *)
LEMMA ToolDeltasIsRun ==
  ASSUME NEW a, NEW s, IsSeq(s)
  PROVE  \E g : IsRun(g, "tool", 0, a, s) /\ FoldLeft(ToolDelta, a, s) = g[Len(s)]
<1> DEFINE IsLoop(h) == h = [U \in SUBSET (1..Len(s)) |->
                   IF U = {} THEN a
                   ELSE ToolDelta(h[U \ {Max(U)}], s[Max(U)])]
           h == CHOOSE loop : IsLoop(loop)
<1>1. Len(s) \in Nat /\ DOMAIN s = 1..Len(s)
  BY SeqFacts
<1>2. FoldLeft(ToolDelta, a, s) = h[1..Len(s)]
  BY <1>1 DEF FoldLeft, MapThenFoldSet
<1>3. \A f : IsLoop(f) <=> IsTable(f, "tool", 0, a, s, 1..Len(s))
  BY DEF IsTable, Body
<1>4. PICK f : IsTable(f, "tool", 0, a, s, 1..Len(s))
  BY <1>1, TableExists
<1>5. IsLoop(h)
  <2> HIDE DEF IsLoop
  <2>1. IsLoop(f)
    BY <1>3, <1>4
  <2> QED BY <2>1
<1>6. IsTable(h, "tool", 0, a, s, 1..Len(s))
  <2> HIDE DEF IsLoop, h
  <2> QED BY <1>3, <1>5
<1> HIDE DEF IsLoop, h
<1> QED BY <1>1, <1>2, <1>6, TableIsRun

(* Writing the searches of a delta is a loop.                               *)
LEMMA SearchEventsIsRun ==
  ASSUME NEW a, NEW s, IsSeq(s)
  PROVE  \E g : IsRun(g, "search", 0, a, s) /\ FoldLeft(SearchEvent, a, s) = g[Len(s)]
<1> DEFINE IsLoop(h) == h = [U \in SUBSET (1..Len(s)) |->
                   IF U = {} THEN a
                   ELSE SearchEvent(h[U \ {Max(U)}], s[Max(U)])]
           h == CHOOSE loop : IsLoop(loop)
<1>1. Len(s) \in Nat /\ DOMAIN s = 1..Len(s)
  BY SeqFacts
<1>2. FoldLeft(SearchEvent, a, s) = h[1..Len(s)]
  BY <1>1 DEF FoldLeft, MapThenFoldSet
<1>3. \A f : IsLoop(f) <=> IsTable(f, "search", 0, a, s, 1..Len(s))
  BY DEF IsTable, Body
<1>4. PICK f : IsTable(f, "search", 0, a, s, 1..Len(s))
  BY <1>1, TableExists
<1>5. IsLoop(h)
  <2> HIDE DEF IsLoop
  <2>1. IsLoop(f)
    BY <1>3, <1>4
  <2> QED BY <2>1
<1>6. IsTable(h, "search", 0, a, s, 1..Len(s))
  <2> HIDE DEF IsLoop, h
  <2> QED BY <1>3, <1>5
<1> HIDE DEF IsLoop, h
<1> QED BY <1>1, <1>2, <1>6, TableIsRun

(* The end of a chat answer: its calls are closed, then the terminal        *)
(* event is written.                                                        *)
LEMMA ChatDoneIs ==
  ASSUME NEW a, a.target = "chat_completions"
  PROVE WriteDone(a) = Write(ClosingAll(a, [i \in 1..Len(a.tools) + 1 |-> i]), Terminal(<<>>))
  BY DEF WriteDone, ClosingAll
(* The end of a Responses answer: reasoning, message, calls and searches    *)
(* are closed before it.                                                    *)
LEMMA ResponsesDoneIs ==
  ASSUME NEW a, a.target = "responses",
         NEW b, b = SearchedAll(CloseTools(CloseMessage(CloseReasoning(a))), [i \in DOMAIN a.searches |-> i])
  PROVE WriteDone(a) = Write(b, Terminal(Output(b)))
  BY DEF WriteDone, SearchedAll, FoldLeftDomain

-----------------------------------------------------------------------------
(* The client.                                                              *)

ItemFields == {"kind", "key", "parts", "open"}
PartFields == {"kind", "data", "notes"}
ClientFields == {"phase", "items", "misplaced", "output"}

AreParts(parts) == IsSeq(parts) /\ \A j \in 1..Len(parts) : DOMAIN parts[j] = PartFields
IsItem(item) == DOMAIN item = ItemFields /\ AreParts(item.parts)

\* What is excepted from the order of a stream.
Exempt == {"reasoning", "number"}

\* A client that follows a stream which goes on.
Follows(c) ==
  /\ DOMAIN c = ClientFields
  /\ c.phase = "open"
  /\ c.misplaced \subseteq Exempt
  /\ IsSeq(c.items)
  /\ \A k \in 1..Len(c.items) : IsItem(c.items[k])

\* From c to d, item n has become what item is; the others are as they were.
Turned(c, d, n, item) ==
  /\ Follows(d)
  /\ Len(d.items) = Len(c.items)
  /\ d.items[n + 1] = item
  /\ \A k \in 1..Len(c.items) : k # n + 1 => d.items[k] = c.items[k]

\* An item more.
Grown(c, d, item) ==
  /\ Follows(d)
  /\ Len(d.items) = Len(c.items) + 1
  /\ d.items[Len(c.items) + 1] = item
  /\ \A k \in 1..Len(c.items) : d.items[k] = c.items[k]

(* A client that reads of an item at the next index has that item more.     *)
LEMMA ReadAdded ==
  ASSUME NEW c, Follows(c), NEW kind, NEW key, NEW parts, AreParts(parts)
  PROVE  Grown(c, Receive(c, Added(Len(c.items), kind, key, parts)), Item(kind, key, parts, TRUE))
<1> DEFINE item == Item(kind, key, parts, TRUE)
           d == [c EXCEPT !.items = Append(@, item)]
<1>1. Receive(c, Added(Len(c.items), kind, key, parts)) = d
  BY DEF Receive, Added, Follows
<1>2. IsItem(item)
  BY DEF Item, IsItem, ItemFields
<1> HIDE DEF item
<1>3. d.items = Append(c.items, item) /\ DOMAIN d = DOMAIN c /\ d.phase = c.phase /\ d.misplaced = c.misplaced
  BY DEF Follows, ClientFields
<1>4. Len(c.items) \in Nat
  BY SeqFacts DEF Follows
<1> HIDE DEF d
<1>5. Grown(c, d, item)
  <2>1. /\ IsSeq(d.items) /\ Len(d.items) = Len(c.items) + 1 /\ d.items[Len(c.items) + 1] = item
        /\ \A k \in 1..Len(c.items) : d.items[k] = c.items[k]
    BY <1>3, Appended DEF Follows
  <2>2. \A k \in 1..Len(d.items) : IsItem(d.items[k])
    <3> SUFFICES ASSUME NEW k \in 1..Len(d.items) PROVE IsItem(d.items[k])
      OBVIOUS
    <3>1. k \in 1..Len(c.items) \/ k = Len(c.items) + 1
      BY <1>4, <2>1
    <3> QED BY <1>2, <2>1, <3>1 DEF Follows
  <2> QED BY <1>3, <2>1, <2>2 DEF Grown, Follows
<1> QED BY <1>1, <1>5 DEF item

\* An item of the stream that is open.
OpenAt(c, n) == n \in Nat /\ n < Len(c.items) /\ c.items[n + 1].open

(* What is read of an open item changes that item only.                     *)
LEMMA ItemTurned ==
  ASSUME NEW c, Follows(c), NEW n \in Nat, n < Len(c.items), NEW item, IsItem(item)
  PROVE  Turned(c, [c EXCEPT !.items[n + 1] = item], n, item)
<1> DEFINE d == [c EXCEPT !.items[n + 1] = item]
<1>1. /\ d.items = [c.items EXCEPT ![n + 1] = item] /\ DOMAIN d = DOMAIN c /\ d.phase = c.phase
      /\ d.misplaced = c.misplaced
  BY DEF Follows, ClientFields
<1>2. Len(c.items) \in Nat /\ n + 1 \in 1..Len(c.items)
  BY SeqFacts DEF Follows
<1> HIDE DEF d
<1>3. /\ IsSeq(d.items) /\ Len(d.items) = Len(c.items) /\ d.items[n + 1] = item
      /\ \A k \in 1..Len(c.items) : k # n + 1 => d.items[k] = c.items[k]
  BY <1>1, <1>2, Replaced DEF Follows
<1>4. \A k \in 1..Len(d.items) : IsItem(d.items[k])
  BY <1>3 DEF Follows
<1>5. Turned(c, d, n, item)
  BY <1>1, <1>3, <1>4 DEF Turned, Follows
<1> QED BY <1>5 DEF d

\* The item with another part p.
Filled(item, p, part) == [item EXCEPT !.parts = [item.parts EXCEPT ![p] = part]]

(* An item one of whose parts is replaced has its kind and is open or       *)
(* closed as before.                                                        *)
LEMMA FilledIsItem ==
  ASSUME NEW item, IsItem(item), NEW p \in 1..Len(item.parts), NEW part, DOMAIN part = PartFields
  PROVE  /\ IsItem(Filled(item, p, part))
         /\ Filled(item, p, part).parts = [item.parts EXCEPT ![p] = part]
         /\ Filled(item, p, part).kind = item.kind
         /\ Filled(item, p, part).open = item.open
<1> DEFINE parts == [item.parts EXCEPT ![p] = part]
           b == [item EXCEPT !.parts = parts]
<1>1. b.parts = parts /\ b.kind = item.kind /\ b.open = item.open /\ DOMAIN b = ItemFields
  <2> HIDE DEF parts
  <2> QED BY DEF IsItem, ItemFields
<1>2. IsSeq(parts) /\ Len(parts) = Len(item.parts) /\ \A j \in 1..Len(parts) : DOMAIN parts[j] = PartFields
  BY Replaced DEF IsItem, AreParts
<1> HIDE DEF parts, b
<1>3. IsItem(b)
  BY <1>1, <1>2 DEF IsItem, AreParts
<1> QED BY <1>1, <1>3 DEF Filled, parts, b

(* An event that fits an open item and is numbered in order changes that    *)
(* item only.                                                               *)
LEMMA ReadItem ==
  ASSUME NEW c, Follows(c), NEW n, OpenAt(c, n), NEW e, e.index = n,
         e.type \in {"part", "delta", "note", "stage", "done"}, Fits(c.items[n + 1], e), Numbering(c, e) = c,
         IsItem(Extended(c.items[n + 1], e))
  PROVE  Turned(c, Receive(c, e), n, Extended(c.items[n + 1], e))
<1>1. n \in Nat /\ Len(c.items) \in Nat /\ n < Len(c.items)
  BY SeqFacts DEF Follows, OpenAt
<1>2. Receive(c, e) = ReceivePart(c, e)
  BY DEF Receive, Follows
<1>3. ReceivePart(c, e) = [c EXCEPT !.items[n + 1] = Extended(@, e)]
  BY <1>1 DEF ReceivePart
<1> QED BY <1>1, <1>2, <1>3, ItemTurned

(* A delta on a part that is open is appended to what the client has of     *)
(* it.                                                                      *)
LEMMA ReadDelta ==
  ASSUME NEW c, Follows(c), NEW n, OpenAt(c, n), NEW p \in Nat, p < Len(c.items[n + 1].parts),
         NEW kind, c.items[n + 1].parts[p + 1].kind = kind, NEW data
  PROVE  LET old == c.items[n + 1].parts[p + 1]
         IN  /\ Turned(c, Receive(c, Delta(n, p, kind, data)), n,
                       Filled(c.items[n + 1], p + 1, [old EXCEPT !.data = @ \o data]))
             /\ DOMAIN [old EXCEPT !.data = @ \o data] = PartFields
             /\ p + 1 \in 1..Len(c.items[n + 1].parts)
<1> DEFINE old == c.items[n + 1]
           part == [old.parts[p + 1] EXCEPT !.data = @ \o data]
           e == Delta(n, p, kind, data)
<1>1. n \in Nat /\ Len(c.items) \in Nat /\ n + 1 \in 1..Len(c.items) /\ IsItem(old)
  BY SeqFacts DEF Follows, OpenAt
<1>2. e.type = "delta" /\ e.index = n /\ e.part = p /\ e.kind = kind /\ e.data = data
  BY DEF Delta
<1>3. p + 1 \in 1..Len(old.parts) /\ DOMAIN part = PartFields
  BY <1>1, SeqFacts DEF IsItem, AreParts
<1>4. Extended(old, e) = Filled(old, p + 1, part)
  <2> HIDE DEF e
  <2> QED BY <1>2 DEF Extended, Filled
<1>5. Numbering(c, e) = c /\ Fits(old, e)
  <2> HIDE DEF e
  <2> QED BY <1>2 DEF Fits, Numbering, OpenAt
<1> HIDE DEF e, part
<1>6. Turned(c, Receive(c, e), n, Filled(old, p + 1, part))
  <2>1. IsItem(Filled(old, p + 1, part))
    BY <1>1, <1>3, FilledIsItem
  <2> QED BY <1>2, <1>4, <1>5, <2>1, ReadItem
<1> QED BY <1>3, <1>6 DEF e, part

\* Citations whose number is wrong are excepted.
LEMMA ReadNote ==
  ASSUME NEW c, Follows(c), NEW n, OpenAt(c, n), NEW p \in Nat, p < Len(c.items[n + 1].parts),
         NEW number, NEW data
  PROVE  LET old == c.items[n + 1].parts[p + 1]
         IN  /\ Turned(c, Receive(c, Note(n, p, number, data)), n,
                       Filled(c.items[n + 1], p + 1, [old EXCEPT !.notes = Append(@, data)]))
             /\ DOMAIN [old EXCEPT !.notes = Append(@, data)] = PartFields
             /\ p + 1 \in 1..Len(c.items[n + 1].parts)
<1> DEFINE old == c.items[n + 1]
           part == [old.parts[p + 1] EXCEPT !.notes = Append(@, data)]
           e == Note(n, p, number, data)
           f == Numbering(c, e)
<1>1. n \in Nat /\ Len(c.items) \in Nat /\ n + 1 \in 1..Len(c.items) /\ IsItem(old) /\ n < Len(c.items)
  BY SeqFacts DEF Follows, OpenAt
<1>2. e.type = "note" /\ e.index = n /\ e.part = p /\ e.number = number /\ e.data = data
  BY DEF Note
<1>3. p + 1 \in 1..Len(old.parts) /\ DOMAIN part = PartFields
  BY <1>1, SeqFacts DEF IsItem, AreParts
<1>4. Extended(old, e) = Filled(old, p + 1, part)
  <2> HIDE DEF e
  <2> QED BY <1>2 DEF Extended, Filled
<1>5. Follows(f) /\ f.items = c.items
  <2> HIDE DEF e
  <2>1. f = c \/ f = [c EXCEPT !.misplaced = @ \cup {"number"}]
    BY DEF Numbering, Misplaced
  <2> HIDE DEF f
  <2> QED BY <2>1 DEF Follows, ClientFields, Exempt
<1>6. Fits(old, e)
  <2> HIDE DEF e
  <2> QED BY <1>2 DEF Fits, OpenAt
<1>7. Receive(c, e) = [f EXCEPT !.items[n + 1] = Filled(old, p + 1, part)]
  <2> HIDE DEF e, part, f
  <2>1. Receive(c, e) = ReceivePart(c, e)
    BY <1>2 DEF Receive, Follows
  <2>2. ReceivePart(c, e) = [f EXCEPT !.items[n + 1] = Extended(@, e)]
    BY <1>1, <1>2, <1>6 DEF ReceivePart, f
  <2> QED BY <1>4, <1>5, <2>1, <2>2
<1> HIDE DEF e, part, f
<1>8. IsItem(Filled(old, p + 1, part))
  BY <1>1, <1>3, FilledIsItem
<1>9. Turned(f, Receive(c, e), n, Filled(old, p + 1, part))
  BY <1>1, <1>5, <1>7, <1>8, ItemTurned
<1> QED BY <1>3, <1>5, <1>9 DEF e, part, Turned

(* A part at the next place of an open item is added to the item.           *)
LEMMA ReadPart ==
  ASSUME NEW c, Follows(c), NEW n, OpenAt(c, n), NEW kind
  PROVE  LET item == c.items[n + 1]
         IN  Turned(c, Receive(c, PartAdded(n, Len(item.parts), kind)), n,
                    [item EXCEPT !.parts = Append(@, Part(kind, <<>>))])
<1> DEFINE old == c.items[n + 1]
           parts == Append(old.parts, Part(kind, <<>>))
           item == [old EXCEPT !.parts = parts]
           e == PartAdded(n, Len(old.parts), kind)
<1>1. n \in Nat /\ Len(c.items) \in Nat /\ n + 1 \in 1..Len(c.items) /\ IsItem(old)
  BY SeqFacts DEF Follows, OpenAt
<1>2. e.type = "part" /\ e.index = n /\ e.part = Len(old.parts) /\ e.kind = kind
  BY DEF PartAdded
<1>3. Extended(old, e) = item
  <2> HIDE DEF e
  <2> QED BY <1>2 DEF Extended
<1>4. Numbering(c, e) = c /\ Fits(old, e)
  <2> HIDE DEF e
  <2> QED BY <1>2 DEF Fits, Numbering, OpenAt
<1>5. AreParts(parts)
  <2> DEFINE p == Part(kind, <<>>)
  <2>1. DOMAIN p = PartFields
    BY DEF Part, PartFields
  <2> HIDE DEF p
  <2>2. /\ IsSeq(Append(old.parts, p)) /\ Len(old.parts) \in Nat
        /\ Len(Append(old.parts, p)) = Len(old.parts) + 1 /\ Append(old.parts, p)[Len(old.parts) + 1] = p
        /\ \A j \in 1..Len(old.parts) : Append(old.parts, p)[j] = old.parts[j]
    BY <1>1, Appended, SeqFacts DEF IsItem, AreParts
  <2>3. AreParts(Append(old.parts, p))
    <3> DEFINE q == Append(old.parts, p)
    <3> HIDE DEF q
    <3> SUFFICES ASSUME NEW j \in 1..Len(q) PROVE DOMAIN q[j] = PartFields
      BY <2>2 DEF AreParts, q
    <3>1. j \in 1..Len(old.parts) \/ j = Len(old.parts) + 1
      BY <2>2 DEF q
    <3> QED BY <1>1, <2>1, <2>2, <3>1 DEF IsItem, AreParts, q
  <2> QED BY <2>3 DEF p
<1> HIDE DEF parts
<1>6. IsItem(item)
  BY <1>1, <1>5 DEF IsItem, ItemFields
<1> HIDE DEF e, item
<1>7. Turned(c, Receive(c, e), n, item)
  BY <1>1, <1>2, <1>3, <1>4, <1>6, ReadItem
<1> QED BY <1>7 DEF e, item, parts

(* A stage of a search on an open item leaves the item as it is.            *)
LEMMA ReadStage ==
  ASSUME NEW c, Follows(c), NEW n, OpenAt(c, n)
  PROVE  Turned(c, Receive(c, Stage(n)), n, c.items[n + 1])
<1> DEFINE e == Stage(n)
<1>1. IsItem(c.items[n + 1])
  BY SeqFacts DEF Follows, OpenAt
<1>2. e.type = "stage" /\ e.index = n
  BY DEF Stage
<1> HIDE DEF e
<1>3. Extended(c.items[n + 1], e) = c.items[n + 1] /\ Numbering(c, e) = c /\ Fits(c.items[n + 1], e)
  BY <1>2 DEF Fits, Numbering, Extended, OpenAt
<1>4. Turned(c, Receive(c, e), n, c.items[n + 1])
  BY <1>1, <1>2, <1>3, ReadItem
<1> QED BY <1>4 DEF e

(* An item closed with no content, or with the content the client has, is   *)
(* closed and nothing is misplaced.                                         *)
LEMMA ReadDone ==
  ASSUME NEW c, Follows(c), NEW n, OpenAt(c, n), NEW parts, parts \in {Unclaimed, c.items[n + 1].parts}
  PROVE  Turned(c, Receive(c, Done(n, parts)), n, [c.items[n + 1] EXCEPT !.open = FALSE])
<1> DEFINE e == Done(n, parts)
           old == c.items[n + 1]
           item == [old EXCEPT !.open = FALSE]
<1>1. IsItem(old)
  BY SeqFacts DEF Follows, OpenAt
<1>2. e.type = "done" /\ e.index = n /\ e.parts = parts
  BY DEF Done
<1> HIDE DEF e
<1>3. Extended(old, e) = item /\ Numbering(c, e) = c /\ Fits(old, e)
  BY <1>2 DEF Fits, Numbering, Extended, OpenAt
<1>4. IsItem(item)
  BY <1>1 DEF IsItem, ItemFields
<1> HIDE DEF item
<1>5. Turned(c, Receive(c, e), n, item)
  BY <1>1, <1>2, <1>3, <1>4, ReadItem
<1> QED BY <1>5 DEF e, item

(* Reasoning that comes out of order is excepted.                           *)
LEMMA ReadLateReasoning ==
  ASSUME NEW c, Follows(c), NEW n \in Nat, n < Len(c.items), c.items[n + 1].kind = "reasoning",
         ~c.items[n + 1].open, NEW data
  PROVE  LET d == Receive(c, Delta(n, 0, "reasoning", data)) IN Follows(d) /\ d.items = c.items
<1> DEFINE e == Delta(n, 0, "reasoning", data)
<1>1. e.type = "delta" /\ e.index = n
  BY DEF Delta
<1> HIDE DEF e
<1>2. ~Fits(c.items[n + 1], e) /\ Len(c.items) \in Nat
  BY SeqFacts DEF Fits, Follows
<1>3. Receive(c, e) = ReceivePart(c, e)
  BY <1>1 DEF Receive, Follows
<1>4. ReceivePart(c, e) = [c EXCEPT !.misplaced = @ \cup {"reasoning"}]
  <2>1. ~(n >= Len(c.items))
    BY <1>2
  <2>2. ReceivePart(c, e) = Misplaced(c, c.items[n + 1].kind)
    BY <1>1, <1>2, <2>1 DEF ReceivePart
  <2> QED BY <2>2 DEF Misplaced
<1>5. Follows(Receive(c, e)) /\ Receive(c, e).items = c.items
  BY <1>3, <1>4 DEF Follows, ClientFields, Exempt
<1> QED BY <1>5 DEF e

(* A stream ends when everything is closed.                                 *)
LEMMA ReadEnd ==
  ASSUME NEW c, Follows(c), \A k \in 1..Len(c.items) : ~c.items[k].open, NEW output
  PROVE  LET d == Receive(c, Terminal(output)) IN d.phase = "done" /\ d.misplaced \subseteq Exempt
<1> DEFINE e == Terminal(output)
<1>1. e.type = "end" /\ e.output = output
  BY DEF Terminal
<1> HIDE DEF e
<1>2. ~\E i \in DOMAIN c.items : c.items[i].open
  BY SeqFacts DEF Follows
<1>3. Receive(c, e) = [c EXCEPT !.phase = "done", !.output = output]
  BY <1>1, <1>2 DEF Receive, Follows
<1>4. Receive(c, e).phase = "done" /\ Receive(c, e).misplaced \subseteq Exempt
  BY <1>3 DEF Follows, ClientFields
<1> QED BY <1>4 DEF e

(* A failure ends a stream wherever it is.                                  *)
LEMMA ReadFailure ==
  ASSUME NEW c, DOMAIN c = ClientFields, c.phase \in {"new", "open"}, c.misplaced \subseteq Exempt
  PROVE  Receive(c, Failure).phase = "failed" /\ Receive(c, Failure).misplaced \subseteq Exempt
<1>1. Receive(c, Failure) = [c EXCEPT !.phase = "failed"]
  BY DEF Receive, Failure
<1> QED BY <1>1 DEF ClientFields

(* A client that reads the first event has the items with which that        *)
(* event opens.                                                             *)
LEMMA ReadStart ==
  ASSUME NEW items, IsSeq(items), \A k \in 1..Len(items) : IsItem(items[k])
  PROVE  Follows(Receive(NewClient, Started(items))) /\ Receive(NewClient, Started(items)).items = items
<1>1. Receive(NewClient, Started(items)) = [NewClient EXCEPT !.phase = "open", !.items = items]
  BY DEF Receive, Started, NewClient
<1>2. [NewClient EXCEPT !.phase = "open", !.items = items].items = items
  BY DEF NewClient
<1>3. Follows([NewClient EXCEPT !.phase = "open", !.items = items])
  BY <1>2 DEF Follows, NewClient, ClientFields
<1> QED BY <1>1, <1>2, <1>3

-----------------------------------------------------------------------------
(* The adapter.                                                             *)

AdapterFields ==
  {"source", "target", "started", "finished", "out", "text", "refusal", "reasoning", "noted", "emitted",
   "tools", "searches", "parts", "nextIndex", "thought", "message", "textOpen", "blockIndex", "blockOpened",
   "sent", "committed"}
ToolFields == {"key", "id", "committed", "args", "shown", "open", "index"}
SearchFields == {"key", "added", "searching", "completed", "index"}

IsTool(tool) == DOMAIN tool = ToolFields /\ IsSeq(tool.args)

IsAdapter(a) ==
  /\ DOMAIN a = AdapterFields
  /\ IsSeq(a.out)
  /\ IsSeq(a.tools) /\ \A i \in 1..Len(a.tools) : IsTool(a.tools[i])
  /\ IsSeq(a.searches) /\ \A i \in 1..Len(a.searches) : DOMAIN a.searches[i] = SearchFields
  /\ DOMAIN a.thought = {"started", "done", "index"}
  /\ DOMAIN a.message = {"started", "done", "index", "content"} /\ AreParts(a.message.content)

\* From a to b no other field changes.
Only(a, b, fields) == DOMAIN b = DOMAIN a /\ \A f \in DOMAIN a \ fields : b[f] = a[f]

\* What a client who was at c has made of what the adapter has written since.
Seen(c, a) == Reading(c, a.out)

(* What leaves all but some fields alone leaves all but more fields         *)
(* alone.                                                                   *)
LEMMA OnlyMore ==
  ASSUME NEW a, NEW b, NEW S, NEW T, Only(a, b, S), S \subseteq T
  PROVE  Only(a, b, T)
BY DEF Only

(* An adapter that stays as it is leaves all its fields alone.              *)
LEMMA OnlySelf ==
  ASSUME NEW a, NEW S
  PROVE  Only(a, a, S)
BY DEF Only

(* Writing an event changes what is written and what the client sees, by    *)
(* that event.                                                              *)
LEMMA Writes ==
  ASSUME NEW a, IsAdapter(a), NEW e, NEW c
  PROVE  /\ IsAdapter(Write(a, e))
         /\ Only(a, Write(a, e), {"out"})
         /\ Seen(c, Write(a, e)) = Receive(Seen(c, a), e)
<1>1. Only(a, Write(a, e), {"out"})
  BY DEF Only, Write
<1>2. Write(a, e).out = Append(a.out, e) /\ IsSeq(Append(a.out, e))
  BY Appended DEF IsAdapter, Write, AdapterFields
<1>3. IsAdapter(Write(a, e))
  <2> DEFINE b == Write(a, e)
  <2> HIDE DEF b
  <2>1. b.tools = a.tools /\ b.searches = a.searches /\ b.thought = a.thought /\ b.message = a.message
    BY <1>1 DEF IsAdapter, Only, AdapterFields, b
  <2> QED BY <1>1, <1>2, <2>1 DEF IsAdapter, Only, b
<1>4. Seen(c, Write(a, e)) = Receive(Seen(c, a), e)
  BY <1>2, ReadingGrows DEF Seen, IsAdapter
<1> QED BY <1>1, <1>3, <1>4

(* An adapter that is changed in fields of no importance to what it is.     *)
LEMMA StaysAdapter ==
  ASSUME NEW a, IsAdapter(a), NEW b,
         Only(a, b, AdapterFields \ {"out", "tools", "searches", "thought", "message"})
  PROVE  /\ IsAdapter(b) /\ \A c : Seen(c, b) = Seen(c, a)
         /\ b.tools = a.tools /\ b.searches = a.searches /\ b.thought = a.thought /\ b.message = a.message
<1>1. /\ b.tools = a.tools /\ b.searches = a.searches /\ b.thought = a.thought
      /\ b.message = a.message /\ b.out = a.out
  BY DEF IsAdapter, Only, AdapterFields
<1> QED BY <1>1 DEF IsAdapter, Only, Seen

\* The same calls, but for which of them are open.
SameCalls(a, b) ==
  /\ Len(b.tools) = Len(a.tools)
  /\ \A i \in 1..Len(a.tools) : Only(a.tools[i], b.tools[i], {"open"})

OpenTools(a) == {i \in 1..Len(a.tools) : a.tools[i].open}

(* Closing a call leaves the other calls and the rest of the adapter        *)
(* alone.                                                                   *)
LEMMA CallShut ==
  ASSUME NEW a, IsAdapter(a), NEW i \in 1..Len(a.tools), NEW b, b = [a EXCEPT !.tools[i].open = FALSE]
  PROVE  /\ IsAdapter(b) /\ Only(a, b, {"tools"}) /\ \A c : Seen(c, b) = Seen(c, a)
         /\ SameCalls(a, b)
         /\ OpenTools(b) = OpenTools(a) \ {i}
<1> DEFINE tool == [a.tools[i] EXCEPT !.open = FALSE]
           tools == [a.tools EXCEPT ![i] = tool]
<1>1. Only(a, b, {"tools"})
  BY DEF Only
<1>2. b.tools = tools
  BY DEF IsAdapter, AdapterFields
<1>3. IsTool(tool) /\ ~tool.open /\ Only(a.tools[i], tool, {"open"})
  BY DEF IsAdapter, IsTool, ToolFields, Only
<1>4. \A j \in 1..Len(a.tools) : Only(a.tools[j], a.tools[j], {"open"})
  BY DEF Only
<1> HIDE DEF tool
<1>6. /\ IsSeq(tools) /\ Len(tools) = Len(a.tools) /\ tools[i] = tool
      /\ \A j \in 1..Len(a.tools) : j # i => tools[j] = a.tools[j]
  BY Replaced DEF IsAdapter
<1> HIDE DEF tools
<1>7. b.out = a.out /\ b.searches = a.searches /\ b.thought = a.thought /\ b.message = a.message
  BY <1>1 DEF Only, IsAdapter, AdapterFields
<1>8. IsAdapter(b)
  BY <1>1, <1>2, <1>3, <1>6, <1>7 DEF IsAdapter, Only
<1>9. SameCalls(a, b)
  BY <1>2, <1>3, <1>4, <1>6 DEF SameCalls
<1>10. OpenTools(b) = OpenTools(a) \ {i}
  BY <1>2, <1>3, <1>6 DEF OpenTools
<1> QED BY <1>1, <1>7, <1>8, <1>9, <1>10 DEF Seen

(* Of the same calls only whether they are open may differ.                 *)
LEMMA CallFields ==
  ASSUME NEW a, IsAdapter(a), NEW b, SameCalls(a, b), NEW i \in 1..Len(a.tools)
  PROVE  /\ b.tools[i].key = a.tools[i].key /\ b.tools[i].id = a.tools[i].id
         /\ b.tools[i].committed = a.tools[i].committed /\ b.tools[i].args = a.tools[i].args
         /\ b.tools[i].shown = a.tools[i].shown /\ b.tools[i].index = a.tools[i].index
BY DEF SameCalls, IsAdapter, IsTool, ToolFields, Only

(* Steps that keep the calls compose.                                       *)
LEMMA SameCallsTwice ==
  ASSUME NEW a, NEW b, NEW c, SameCalls(a, b), SameCalls(b, c)
  PROVE  SameCalls(a, c)
BY DEF SameCalls, Only

(* The sequence of the first n numbers, over which the calls and searches   *)
(* are closed.                                                              *)
LEMMA Places ==
  ASSUME NEW n \in Nat
  PROVE  /\ IsSeq([i \in 1..n |-> i]) /\ Len([i \in 1..n |-> i]) = n
         /\ \A i \in 1..n : [j \in 1..n |-> j][i] = i
<1>1. [i \in 1..n |-> i] \in Seq(1..n)
  BY IsASeq
<1>2. DOMAIN [i \in 1..n |-> i] = 1..n
  OBVIOUS
<1> HIDE DEF IsSeq
<1>3. Len([i \in 1..n |-> i]) = n
  BY <1>1, <1>2, LenProperties
<1> QED BY <1>1, <1>3 DEF IsSeq

-----------------------------------------------------------------------------
(* The adapter and the client.                                              *)

OnePart(item, kind) == Len(item.parts) = 1 /\ item.parts[1].kind = kind

\* Messages: what the client has open is the block of text or a call.
MessagesLink(a, c) ==
  /\ Follows(c)
  /\ a.blockIndex \in Nat
  /\ ~a.blockOpened => a.blockIndex = 0
  /\ Len(c.items) = IF a.blockOpened THEN a.blockIndex + 1 ELSE 0
  /\ a.textOpen => OpenAt(c, a.blockIndex) /\ OnePart(c.items[a.blockIndex + 1], "text")
  /\ \A i \in OpenTools(a) : OpenAt(c, a.tools[i].index) /\ OnePart(c.items[a.tools[i].index + 1], "arguments")
  /\ \A i, j \in OpenTools(a) : a.tools[i].index = a.tools[j].index => i = j
  /\ \A k \in 1..Len(c.items) :
       c.items[k].open => \/ a.textOpen /\ k = a.blockIndex + 1
                          \/ \E i \in OpenTools(a) : k = a.tools[i].index + 1

\* Chat: the message and its n calls are all open.
ChatLink(a, c, n) ==
  /\ Follows(c)
  /\ Len(c.items) = n + 1
  /\ \A k \in 1..(n + 1) : c.items[k].open
  /\ Len(c.items[1].parts) = 3
  /\ c.items[1].parts[1].kind = "reasoning" /\ c.items[1].parts[2].kind = "text"
  /\ c.items[1].parts[3].kind = "refusal"
  /\ \A i \in 1..n : a.tools[i].index = i /\ OnePart(c.items[i + 1], "arguments")

Thinking(a) == a.thought.started /\ ~a.thought.done
Speaking(a) == a.message.started /\ ~a.message.done
LiveSearches(a) == {i \in 1..Len(a.searches) : a.searches[i].added /\ ~a.searches[i].completed}

\* Of call x the client has not yet been given the arguments in told.
Given(tool, parts, late, told) ==
  IF late THEN \E data : IsSeq(data) /\ parts = <<Part("arguments", data)>> /\ tool.args = data \o told
  ELSE parts = <<Part("arguments", tool.args)>>

\* Responses: what the client has open is the reasoning it has heard, the
\* message, a call or a search, each as the adapter will close it.
ResponsesLink(a, c, heard, x, told) ==
  /\ Follows(c)
  /\ a.nextIndex = Len(c.items)
  /\ IsSeq(heard)
  /\ ~a.thought.started => heard = <<>>
  /\ a.thought.started =>
       a.thought.index \in 0..(Len(c.items) - 1) /\ c.items[a.thought.index + 1].kind = "reasoning"
  /\ Thinking(a) => OpenAt(c, a.thought.index) /\ c.items[a.thought.index + 1].parts = <<Part("reasoning", heard)>>
  /\ Speaking(a) => /\ OpenAt(c, a.message.index)
                    /\ c.items[a.message.index + 1].kind = "message"
                    /\ c.items[a.message.index + 1].parts = a.message.content
  /\ \A i \in OpenTools(a) :
       /\ OpenAt(c, a.tools[i].index)
       /\ c.items[a.tools[i].index + 1].kind = "tool"
       /\ Given(a.tools[i], c.items[a.tools[i].index + 1].parts, i = x, told)
  /\ \A i, j \in OpenTools(a) : a.tools[i].index = a.tools[j].index => i = j
  /\ \A i \in LiveSearches(a) :
       OpenAt(c, a.searches[i].index) /\ c.items[a.searches[i].index + 1].kind = "search"
  /\ \A i, j \in LiveSearches(a) : a.searches[i].index = a.searches[j].index => i = j
  /\ \A i \in 1..Len(a.searches) : a.searches[i].completed => a.searches[i].searching /\ a.searches[i].added
  /\ \A k \in 1..Len(c.items) :
       c.items[k].open => \/ Thinking(a) /\ k = a.thought.index + 1
                          \/ Speaking(a) /\ k = a.message.index + 1
                          \/ \E i \in OpenTools(a) : k = a.tools[i].index + 1
                          \/ \E i \in LiveSearches(a) : k = a.searches[i].index + 1

StreamLink(a, c) ==
  CASE a.target = "chat_completions" -> ChatLink(a, c, Len(a.tools))
    [] a.target = "messages" -> MessagesLink(a, c)
    [] a.target = "responses" -> ResponsesLink(a, c, a.reasoning, 0, <<>>)

Ended(c) == c.phase \in {"done", "failed"} /\ c.misplaced \subseteq Exempt

AdapterLink(a, c) ==
  IF a.finished THEN Ended(c)
  ELSE IF a.started THEN StreamLink(a, c)
  ELSE a = NewAdapter(<<a.source, a.target>>) /\ c = NewClient

UpstreamFields == {"sparse", "greeted", "stopped", "over", "blocks", "block", "silent", "run", "late", "said"}
SaidFields == {"reasoning", "text", "refusal", "notes", "tools", "searches"}

IsUpstream(u) ==
  /\ DOMAIN u = UpstreamFields
  /\ DOMAIN u.late = {"text", "searches"} /\ IsSeq(u.late.searches)
  /\ DOMAIN u.said = SaidFields
  /\ IsSeq(u.said.tools) /\ \A i \in 1..Len(u.said.tools) : DOMAIN u.said.tools[i] = {"key", "id", "args"}
  /\ u.blocks \in Nat /\ u.run \in Nat \ {0}

\* The calls of the adapter are those of the upstream, and one that the
\* upstream may still fill is open.
UpstreamLink(u, a) ==
  /\ u.over <=> a.finished
  /\ Len(a.tools) = Len(u.said.tools)
  /\ \A i \in 1..Len(a.tools) : a.tools[i].key = u.said.tools[i].key /\ a.tools[i].shown
  /\ a.source = "chat_completions" =>
       /\ \A i \in 1..Len(a.tools) : a.tools[i].key = i
       /\ ~u.over => \A i \in u.run..Len(a.tools) : i \in OpenTools(a)
  /\ a.source # "chat_completions" =>
       /\ \A i \in 1..Len(a.tools) : a.tools[i].key \in 0..(u.blocks - 1)
       /\ \A i, j \in 1..Len(a.tools) : a.tools[i].key = a.tools[j].key => i = j
       /\ ~u.over /\ u.block = "tool" =>
            Len(a.tools) > 0 /\ (a.target # "chat_completions" => Len(a.tools) \in OpenTools(a))

ConversionInv ==
  /\ IsUpstream(up)
  /\ IsAdapter(adapter)
  /\ <<adapter.source, adapter.target>> \in Conversions
  /\ adapter.out = <<>>
  /\ AdapterLink(adapter, client)
  /\ UpstreamLink(up, adapter)

-----------------------------------------------------------------------------
(* Messages.                                                                *)

InMessages(c, a) == IsAdapter(a) /\ a.target = "messages" /\ MessagesLink(a, Seen(c, a))

(* The relation with a Messages client depends on the calls and the open    *)
(* block only.                                                              *)
LEMMA MessagesLinkSame ==
  ASSUME NEW a, DOMAIN a = AdapterFields, NEW b,
         Only(a, b, AdapterFields \ {"tools", "textOpen", "blockIndex", "blockOpened"}), NEW c, MessagesLink(a, c)
  PROVE  MessagesLink(b, c)
<1>1. /\ b.tools = a.tools /\ b.textOpen = a.textOpen /\ b.blockIndex = a.blockIndex
      /\ b.blockOpened = a.blockOpened
  BY DEF Only, AdapterFields
<1> QED BY <1>1 DEF MessagesLink, OpenTools

(* An item that is closed: what is open beside it stays as it was.           *)
LEMMA ShutMessages ==
  ASSUME NEW a, NEW c, MessagesLink(a, c), NEW n, OpenAt(c, n), NEW d,
         Turned(c, d, n, [c.items[n + 1] EXCEPT !.open = FALSE]),
         NEW b, b.blockIndex = a.blockIndex, b.blockOpened = a.blockOpened,
         \/ /\ a.textOpen /\ n = a.blockIndex /\ ~b.textOpen
            /\ b.tools = a.tools
         \/ /\ b.textOpen = a.textOpen /\ SameCalls(a, b)
            /\ \E i \in OpenTools(a) : n = a.tools[i].index /\ OpenTools(b) = OpenTools(a) \ {i},
         IsAdapter(a)
  PROVE  MessagesLink(b, d)
<1>1. n \in Nat /\ Len(c.items) \in Nat /\ n + 1 \in 1..Len(c.items) /\ IsItem(c.items[n + 1])
  BY SeqFacts DEF OpenAt, MessagesLink, Follows
<1>2. ~d.items[n + 1].open /\ Follows(d) /\ Len(d.items) = Len(c.items)
  BY <1>1 DEF Turned, IsItem, ItemFields
<1>3. \A m : m # n /\ OpenAt(c, m) => OpenAt(d, m) /\ d.items[m + 1] = c.items[m + 1]
  <2> SUFFICES ASSUME NEW m, m # n, OpenAt(c, m) PROVE OpenAt(d, m) /\ d.items[m + 1] = c.items[m + 1]
    OBVIOUS
  <2>1. m \in Nat /\ m + 1 \in 1..Len(c.items) /\ m + 1 # n + 1
    BY <1>1 DEF OpenAt
  <2> QED BY <1>2, <2>1 DEF Turned, OpenAt
<1>4. OpenTools(b) \subseteq OpenTools(a) /\ \A i \in OpenTools(b) : b.tools[i].index = a.tools[i].index
  <2>1. CASE b.tools = a.tools
    BY <2>1 DEF OpenTools
  <2>2. CASE SameCalls(a, b)
    BY <2>2, CallFields DEF OpenTools, SameCalls
  <2> QED BY <2>1, <2>2
<1>5. \A i \in OpenTools(b) : a.tools[i].index # n
  <2>1. CASE a.textOpen /\ n = a.blockIndex
    BY <1>4, <2>1 DEF MessagesLink, OnePart
  <2>2. CASE \E i \in OpenTools(a) : n = a.tools[i].index /\ OpenTools(b) = OpenTools(a) \ {i}
    BY <1>4, <2>2 DEF MessagesLink
  <2> QED BY <2>1, <2>2
<1>6. b.textOpen => a.textOpen /\ a.blockIndex # n
  BY DEF MessagesLink, OnePart
<1>7. \A i \in OpenTools(b) : OpenAt(d, b.tools[i].index) /\ OnePart(d.items[b.tools[i].index + 1], "arguments")
  BY <1>3, <1>4, <1>5 DEF MessagesLink
<1>8. b.textOpen => OpenAt(d, b.blockIndex) /\ OnePart(d.items[b.blockIndex + 1], "text")
  BY <1>3, <1>6 DEF MessagesLink
<1>9. ASSUME NEW k \in 1..Len(d.items), d.items[k].open
      PROVE  (b.textOpen /\ k = b.blockIndex + 1) \/ \E i \in OpenTools(b) : k = b.tools[i].index + 1
  <2>1. k # n + 1 /\ k \in 1..Len(c.items) /\ c.items[k].open
    BY <1>2, <1>9 DEF Turned
  <2>2. CASE a.textOpen /\ k = a.blockIndex + 1
    BY <2>1, <2>2
  <2>3. ASSUME NEW i \in OpenTools(a), k = a.tools[i].index + 1
        PROVE  \E j \in OpenTools(b) : k = b.tools[j].index + 1
    <3>1. i \in OpenTools(b)
      <4>1. CASE b.tools = a.tools
        BY <4>1 DEF OpenTools
      <4>2. CASE b.tools # a.tools
        BY <2>1, <2>3, <4>2
      <4> QED BY <4>1, <4>2
    <3> QED BY <1>4, <2>3, <3>1
  <2> QED BY <2>1, <2>2, <2>3 DEF MessagesLink
<1>10. \A i, j \in OpenTools(b) : b.tools[i].index = b.tools[j].index => i = j
  BY <1>4 DEF MessagesLink
<1> QED BY <1>2, <1>7, <1>8, <1>9, <1>10 DEF MessagesLink

(* The open text block, if there is one, is closed and the client           *)
(* follows.                                                                 *)
LEMMA CloseBlockFacts ==
  ASSUME NEW c, NEW a, InMessages(c, a)
  PROVE  InMessages(c, CloseBlock(a)) /\ ~CloseBlock(a).textOpen /\ Only(a, CloseBlock(a), {"out", "textOpen"})
<1>1. CASE ~a.textOpen
  BY <1>1 DEF CloseBlock, Only
<1>2. CASE a.textOpen
  <2> DEFINE e == Done(a.blockIndex, Unclaimed)
             w == Write(a, e)
             b == [w EXCEPT !.textOpen = FALSE]
             s == Seen(c, a)
  <2>1. CloseBlock(a) = b
    BY <1>2 DEF CloseBlock
  <2>2. IsAdapter(w) /\ Only(a, w, {"out"}) /\ Seen(c, w) = Receive(s, e)
    BY Writes DEF InMessages
  <2> HIDE DEF w
  <2>3. IsAdapter(b) /\ Seen(c, b) = Seen(c, w) /\ Only(w, b, {"textOpen"}) /\ ~b.textOpen /\ b.tools = w.tools
    <3>1. Only(w, b, {"textOpen"}) /\ ~b.textOpen
      BY <2>2 DEF Only, IsAdapter, AdapterFields
    <3>2. Only(w, b, AdapterFields \ {"out", "tools", "searches", "thought", "message"})
      BY <3>1, OnlyMore DEF AdapterFields
    <3> HIDE DEF b
    <3> QED BY <2>2, <3>1, <3>2, StaysAdapter
  <2> HIDE DEF b
  <2>4. Only(a, b, {"out", "textOpen"})
    BY <2>2, <2>3 DEF Only
  <2>5. OpenAt(s, a.blockIndex) /\ MessagesLink(a, s) /\ Follows(s)
    BY <1>2 DEF InMessages, MessagesLink
  <2>6. Turned(s, Receive(s, e), a.blockIndex, [s.items[a.blockIndex + 1] EXCEPT !.open = FALSE])
    <3> HIDE DEF s
    <3> QED BY <2>5, ReadDone
  <2>7. b.blockIndex = a.blockIndex /\ b.blockOpened = a.blockOpened /\ b.tools = a.tools /\ b.target = a.target
    BY <2>4 DEF InMessages, IsAdapter, Only, AdapterFields
  <2>8. MessagesLink(b, Receive(s, e))
    <3> HIDE DEF s, e
    <3> QED BY <1>2, <2>3, <2>5, <2>6, <2>7, ShutMessages DEF InMessages
  <2> QED BY <2>1, <2>2, <2>3, <2>4, <2>7, <2>8 DEF InMessages
<1> QED BY <1>1, <1>2

(* What an open block is given changes nothing of what is open.             *)
LEMMA FillMessages ==
  ASSUME NEW a, NEW c, MessagesLink(a, c), NEW n, OpenAt(c, n), NEW kind, OnePart(c.items[n + 1], kind),
         NEW part, DOMAIN part = PartFields, part.kind = kind, NEW d,
         Turned(c, d, n, Filled(c.items[n + 1], 1, part))
  PROVE  MessagesLink(a, d)
<1> DEFINE old == c.items[n + 1]
           item == Filled(old, 1, part)
<1>1. n \in Nat /\ Len(c.items) \in Nat /\ n + 1 \in 1..Len(c.items) /\ IsItem(old) /\ old.open
  BY SeqFacts DEF OpenAt, MessagesLink, Follows
<1>2. item.open /\ OnePart(item, kind)
  <2>1. 1 \in 1..Len(old.parts)
    BY DEF OnePart
  <2>2. item.parts = [old.parts EXCEPT ![1] = part] /\ item.open = old.open
    BY <1>1 DEF Filled, IsItem, ItemFields
  <2>3. Len(item.parts) = Len(old.parts) /\ item.parts[1] = part
    BY <1>1, <2>1, <2>2, Replaced DEF IsItem, AreParts
  <2> HIDE DEF item
  <2> QED BY <1>1, <2>2, <2>3 DEF OnePart
<1> HIDE DEF item
<1>3. Follows(d) /\ Len(d.items) = Len(c.items) /\ d.items[n + 1] = item
  BY DEF Turned, item
<1>4. \A k \in 1..Len(c.items) : d.items[k].open <=> c.items[k].open
  BY <1>1, <1>2, <1>3 DEF Turned
<1>5. \A m, any : OpenAt(c, m) /\ OnePart(c.items[m + 1], any) => OpenAt(d, m) /\ OnePart(d.items[m + 1], any)
  <2> SUFFICES ASSUME NEW m, NEW any, OpenAt(c, m), OnePart(c.items[m + 1], any)
               PROVE  OpenAt(d, m) /\ OnePart(d.items[m + 1], any)
    OBVIOUS
  <2>1. m \in Nat /\ m + 1 \in 1..Len(c.items)
    BY <1>1 DEF OpenAt
  <2>2. CASE m = n
    <3>1. kind = any
      BY <2>2 DEF OnePart
    <3> QED BY <1>2, <1>3, <2>2, <3>1 DEF OpenAt
  <2>3. CASE m # n
    BY <1>3, <2>1, <2>3 DEF Turned, OpenAt
  <2> QED BY <2>2, <2>3
<1>6. a.textOpen => OpenAt(d, a.blockIndex) /\ OnePart(d.items[a.blockIndex + 1], "text")
  BY <1>5 DEF MessagesLink
<1>7. \A i \in OpenTools(a) : /\ OpenAt(d, a.tools[i].index)
                             /\ OnePart(d.items[a.tools[i].index + 1], "arguments")
  BY <1>5 DEF MessagesLink
<1>8. \A k \in 1..Len(d.items) :
        d.items[k].open => \/ a.textOpen /\ k = a.blockIndex + 1
                           \/ \E i \in OpenTools(a) : k = a.tools[i].index + 1
  BY <1>3, <1>4 DEF MessagesLink
<1> QED BY <1>3, <1>6, <1>7, <1>8 DEF MessagesLink

(* A delta in an open block of a Messages client reaches it.                *)
LEMMA DeltaMessages ==
  ASSUME NEW c, NEW a, InMessages(c, a), NEW n, OpenAt(Seen(c, a), n), NEW kind,
         OnePart(Seen(c, a).items[n + 1], kind), NEW data
  PROVE  LET b == Write(a, Delta(n, 0, kind, data))
         IN  /\ InMessages(c, b) /\ Only(a, b, {"out"})
             /\ OpenAt(Seen(c, b), n)
             /\ Len(Seen(c, b).items) = Len(Seen(c, a).items)
<1> DEFINE s == Seen(c, a)
           e == Delta(n, 0, kind, data)
           b == Write(a, e)
           old == s.items[n + 1].parts[1]
           part == [old EXCEPT !.data = @ \o data]
<1>1. /\ OpenAt(s, n) /\ MessagesLink(a, s) /\ Follows(s) /\ 0 < Len(s.items[n + 1].parts)
      /\ 0 + 1 = 1 /\ old.kind = kind
  <2>1. MessagesLink(a, s)
    BY DEF InMessages
  <2> HIDE DEF s
  <2>2. Follows(s) /\ OpenAt(s, n) /\ OnePart(s.items[n + 1], kind)
    <3>1. OpenAt(s, n) /\ OnePart(s.items[n + 1], kind)
      BY DEF s
    <3> QED BY <2>1, <3>1 DEF MessagesLink
  <2> QED BY <2>1, <2>2 DEF OnePart
<1>2. /\ Turned(s, Receive(s, e), n, Filled(s.items[n + 1], 1, part)) /\ DOMAIN part = PartFields
      /\ 1 \in 1..Len(s.items[n + 1].parts)
  <2> HIDE DEF s
  <2>1. PICK p \in Nat : p = 0 /\ p + 1 = 1
    OBVIOUS
  <2>2. p < Len(s.items[n + 1].parts) /\ s.items[n + 1].parts[p + 1].kind = kind
    BY <1>1, <2>1
  <2>3. /\ Turned(s, Receive(s, Delta(n, p, kind, data)), n,
                  Filled(s.items[n + 1], p + 1, [s.items[n + 1].parts[p + 1] EXCEPT !.data = @ \o data]))
        /\ DOMAIN [s.items[n + 1].parts[p + 1] EXCEPT !.data = @ \o data] = PartFields
        /\ p + 1 \in 1..Len(s.items[n + 1].parts)
    BY <1>1, <2>2, ReadDelta
  <2> QED BY <2>1, <2>3
<1>3. part.kind = kind
  <2>1. DOMAIN old = PartFields
    <3>1. n + 1 \in 1..Len(s.items)
      BY <1>1, SeqFacts DEF OpenAt, Follows
    <3> HIDE DEF s
    <3> QED BY <1>1, <1>2, <3>1 DEF Follows, IsItem, AreParts
  <2> HIDE DEF old
  <2> QED BY <1>1, <2>1 DEF PartFields
<1>4. IsAdapter(b) /\ Only(a, b, {"out"}) /\ Seen(c, b) = Receive(s, e)
  BY Writes DEF InMessages
<1> HIDE DEF s, part, e
<1>5. Turned(s, Receive(s, e), n, Filled(s.items[n + 1], 1, part))
  BY <1>2
<1>6. MessagesLink(a, Receive(s, e))
  BY <1>1, <1>2, <1>3, <1>5, FillMessages DEF s
<1> HIDE DEF b
<1>7. MessagesLink(b, Receive(s, e))
  <2>1. Only(a, b, AdapterFields \ {"tools", "textOpen", "blockIndex", "blockOpened"})
    BY <1>4, OnlyMore DEF AdapterFields
  <2> QED BY <1>6, <2>1, MessagesLinkSame DEF InMessages, IsAdapter
<1>8. b.target = "messages"
  BY <1>4 DEF Only, InMessages, IsAdapter, AdapterFields
<1>9. OpenAt(Receive(s, e), n) /\ Len(Receive(s, e).items) = Len(s.items)
  <2>1. IsItem(s.items[n + 1])
    <3>1. n + 1 \in 1..Len(s.items)
      BY <1>1, SeqFacts DEF OpenAt, Follows, s
    <3> QED BY <1>1, <3>1 DEF Follows
  <2>2. Filled(s.items[n + 1], 1, part).open
    BY <1>2, <2>1, FilledIsItem DEF OpenAt, s
  <2> QED BY <1>5, <2>2 DEF Turned, OpenAt, s
<1> QED BY <1>4, <1>7, <1>8, <1>9 DEF InMessages, b, s, e

(* A citation in the open block of a Messages client reaches it.            *)
LEMMA NoteMessages ==
  ASSUME NEW c, NEW a, InMessages(c, a), a.textOpen, NEW data
  PROVE  LET b == Write(a, Note(a.blockIndex, 0, Unnumbered, data))
         IN  InMessages(c, b) /\ Only(a, b, {"out"})
<1> DEFINE s == Seen(c, a)
           n == a.blockIndex
           e == Note(n, 0, Unnumbered, data)
           b == Write(a, e)
           old == s.items[n + 1].parts[1]
           part == [old EXCEPT !.notes = Append(@, data)]
<1>1. /\ MessagesLink(a, s) /\ Follows(s) /\ 0 < Len(s.items[n + 1].parts) /\ 0 + 1 = 1 /\ old.kind = "text"
      /\ OpenAt(s, n) /\ OnePart(s.items[n + 1], "text")
  <2>1. MessagesLink(a, s)
    BY DEF InMessages
  <2> HIDE DEF s
  <2>2. Follows(s) /\ OpenAt(s, n) /\ OnePart(s.items[n + 1], "text")
    BY <2>1 DEF MessagesLink
  <2> QED BY <2>1, <2>2 DEF OnePart
<1>2. /\ Turned(s, Receive(s, e), n, Filled(s.items[n + 1], 1, part)) /\ DOMAIN part = PartFields
      /\ 1 \in 1..Len(s.items[n + 1].parts)
  <2> HIDE DEF s, n
  <2>1. PICK p \in Nat : p = 0 /\ p + 1 = 1
    OBVIOUS
  <2>2. p < Len(s.items[n + 1].parts) /\ s.items[n + 1].parts[p + 1].kind = "text"
    BY <1>1, <2>1
  <2>3. /\ Turned(s, Receive(s, Note(n, p, Unnumbered, data)), n,
                  Filled(s.items[n + 1], p + 1, [s.items[n + 1].parts[p + 1] EXCEPT !.notes = Append(@, data)]))
        /\ DOMAIN [s.items[n + 1].parts[p + 1] EXCEPT !.notes = Append(@, data)] = PartFields
        /\ p + 1 \in 1..Len(s.items[n + 1].parts)
    BY <1>1, <2>2, ReadNote
  <2> QED BY <2>1, <2>3
<1>3. part.kind = "text"
  <2>1. DOMAIN old = PartFields
    <3>1. n + 1 \in 1..Len(s.items)
      BY <1>1, SeqFacts DEF OpenAt, Follows
    <3> HIDE DEF s, n
    <3> QED BY <1>1, <1>2, <3>1 DEF Follows, IsItem, AreParts
  <2> HIDE DEF old
  <2> QED BY <1>1, <2>1 DEF PartFields
<1>4. IsAdapter(b) /\ Only(a, b, {"out"}) /\ Seen(c, b) = Receive(s, e)
  BY Writes DEF InMessages
<1> HIDE DEF s, part, e, n
<1>5. Turned(s, Receive(s, e), n, Filled(s.items[n + 1], 1, part))
  BY <1>2
<1>6. MessagesLink(a, Receive(s, e))
  BY <1>1, <1>2, <1>3, <1>5, FillMessages
<1> HIDE DEF b
<1>7. MessagesLink(b, Receive(s, e))
  <2>1. Only(a, b, AdapterFields \ {"tools", "textOpen", "blockIndex", "blockOpened"})
    BY <1>4, OnlyMore DEF AdapterFields
  <2> QED BY <1>6, <2>1, MessagesLinkSame DEF InMessages, IsAdapter
<1>8. b.target = "messages"
  BY <1>4 DEF Only, InMessages, IsAdapter, AdapterFields
<1> QED BY <1>4, <1>7, <1>8 DEF InMessages, b, s, e, n

(* The block of one call is closed, the other calls stay as they are.       *)
LEMMA CloseToolBlockFacts ==
  ASSUME NEW c, NEW a, InMessages(c, a), NEW i \in 1..Len(a.tools)
  PROVE  LET b == CloseToolBlock(a, i)
         IN  /\ InMessages(c, b) /\ Only(a, b, {"out", "tools"})
             /\ SameCalls(a, b) /\ OpenTools(b) = OpenTools(a) \ {i}
<1> DEFINE n == a.tools[i].index
<1>1. CASE ~a.tools[i].open
  <2>1. CloseToolBlock(a, i) = a
    BY <1>1 DEF CloseToolBlock
  <2> QED BY <1>1, <2>1, OnlySelf DEF SameCalls, OpenTools
<1>2. CASE a.tools[i].open
  <2> DEFINE whole == IF a.tools[i].args # <<>> THEN a ELSE Write(a, Delta(n, 0, "arguments", NoArguments))
             e == Done(n, Unclaimed)
             w == Write(whole, e)
             b == [w EXCEPT !.tools[i].open = FALSE]
             s == Seen(c, whole)
  <2>1. CloseToolBlock(a, i) = b
    BY <1>2 DEF CloseToolBlock
  <2>2. OpenAt(Seen(c, a), n) /\ OnePart(Seen(c, a).items[n + 1], "arguments") /\ i \in OpenTools(a)
    BY <1>2 DEF InMessages, MessagesLink, OpenTools
  <2>3. InMessages(c, whole) /\ Only(a, whole, {"out"}) /\ OpenAt(s, n)
    <3>1. CASE a.tools[i].args # <<>>
      BY <2>2, <3>1, OnlySelf
    <3>2. CASE a.tools[i].args = <<>>
      BY <2>2, <3>2, DeltaMessages
    <3> QED BY <3>1, <3>2
  <2>4. whole.tools = a.tools /\ whole.target = a.target
    <3> HIDE DEF whole
    <3> QED BY <2>3 DEF Only, InMessages, IsAdapter, AdapterFields
  <2> HIDE DEF whole
  <2>5. IsAdapter(w) /\ Only(whole, w, {"out"}) /\ Seen(c, w) = Receive(s, e)
    BY <2>3, Writes DEF InMessages
  <2> HIDE DEF w
  <2>6. w.tools = a.tools
    BY <2>3, <2>4, <2>5 DEF Only, InMessages, IsAdapter, AdapterFields
  <2>7. /\ IsAdapter(b) /\ Only(w, b, {"tools"}) /\ Seen(c, b) = Seen(c, w)
        /\ SameCalls(w, b) /\ OpenTools(b) = OpenTools(w) \ {i}
    BY <2>5, <2>6, CallShut
  <2> HIDE DEF b
  <2>8. Only(a, b, {"out", "tools"}) /\ Only(whole, b, {"out", "tools"})
    BY <2>3, <2>5, <2>7 DEF Only
  <2>9. /\ SameCalls(whole, b) /\ SameCalls(a, b) /\ OpenTools(b) = OpenTools(a) \ {i}
        /\ OpenTools(whole) = OpenTools(a)
    BY <2>4, <2>6, <2>7 DEF SameCalls, OpenTools
  <2>10. Turned(s, Receive(s, e), n, [s.items[n + 1] EXCEPT !.open = FALSE])
    <3>1. Follows(s)
      BY <2>3 DEF InMessages, MessagesLink
    <3> HIDE DEF s
    <3> QED BY <2>3, <3>1, ReadDone
  <2>11. /\ b.blockIndex = whole.blockIndex /\ b.blockOpened = whole.blockOpened
         /\ b.textOpen = whole.textOpen /\ b.target = "messages"
    BY <2>3, <2>8 DEF InMessages, IsAdapter, Only, AdapterFields
  <2>12. MessagesLink(b, Receive(s, e))
    <3>1. MessagesLink(whole, s) /\ IsAdapter(whole)
      BY <2>3 DEF InMessages
    <3>2. \E j \in OpenTools(whole) : n = whole.tools[j].index /\ OpenTools(b) = OpenTools(whole) \ {j}
      BY <2>2, <2>4, <2>9
    <3> HIDE DEF s, e, n
    <3> QED BY <2>3, <2>9, <2>10, <2>11, <3>1, <3>2, ShutMessages
  <2> QED BY <2>1, <2>5, <2>7, <2>8, <2>9, <2>11, <2>12 DEF InMessages
<1> QED BY <1>1, <1>2

(* Closing all blocks of calls leaves no call open.                         *)
LEMMA CloseToolBlocksFacts ==
  ASSUME NEW c, NEW a, InMessages(c, a)
  PROVE  LET b == CloseToolBlocks(a)
         IN  InMessages(c, b) /\ Only(a, b, {"out", "tools"}) /\ SameCalls(a, b) /\ OpenTools(b) = {}
<1> DEFINE n == Len(a.tools)
           s == [i \in 1..n |-> i]
<1>1. n \in Nat /\ DOMAIN a.tools = 1..n
  BY SeqFacts DEF InMessages, IsAdapter
<1>2. IsSeq(s) /\ Len(s) = n /\ \A i \in 1..n : s[i] = i
  BY <1>1, Places
<1>3. CloseToolBlocks(a) = FoldLeft(CloseToolBlock, a, s)
  BY <1>1 DEF CloseToolBlocks, FoldLeftDomain
<1> HIDE DEF n, s
<1>4. PICK g : IsRun(g, "closeToolBlock", 0, a, s) /\ FoldLeft(CloseToolBlock, a, s) = g[Len(s)]
  BY <1>2, CloseToolBlocksIsRun
<1> DEFINE Goes(i) == /\ InMessages(c, g[i]) /\ Only(a, g[i], {"out", "tools"}) /\ SameCalls(a, g[i])
                      /\ OpenTools(g[i]) = OpenTools(a) \ (1..i)
           Good == {i \in 0..n : Goes(i)}
<1>5. 0 \in Good
  <2>1. g[0] = a
    BY <1>4 DEF IsRun
  <2>2. SameCalls(a, a)
    BY DEF SameCalls, Only
  <2>3. Goes(0)
    BY <2>1, <2>2, OnlySelf
  <2> QED BY <1>1, <2>3
<1>6. ASSUME NEW i \in 1..n, i - 1 \in Good PROVE i \in Good
  <2> DEFINE p == g[i - 1]
  <2>1. Goes(i - 1)
    BY <1>6
  <2>2. g[i] = CloseToolBlock(p, i)
    BY <1>2, <1>4 DEF IsRun, Body
  <2>3. i \in 1..Len(p.tools)
    BY <2>1 DEF SameCalls, n
  <2> HIDE DEF p
  <2>4. /\ InMessages(c, g[i]) /\ Only(p, g[i], {"out", "tools"})
        /\ SameCalls(p, g[i]) /\ OpenTools(g[i]) = OpenTools(p) \ {i}
    BY <2>1, <2>2, <2>3, CloseToolBlockFacts DEF p
  <2>5. Only(a, g[i], {"out", "tools"}) /\ SameCalls(a, g[i])
    BY <2>1, <2>4, SameCallsTwice DEF p, Only
  <2>6. OpenTools(g[i]) = OpenTools(a) \ (1..i)
    BY <1>1, <2>1, <2>4 DEF p
  <2> QED BY <1>1, <2>4, <2>5, <2>6
<1>7. n \in Good
  <2> HIDE DEF Good
  <2> QED BY <1>1, <1>5, <1>6, Climb
<1>8. OpenTools(a) \ (1..n) = {}
  BY DEF OpenTools, n
<1> QED BY <1>2, <1>3, <1>4, <1>7, <1>8

(* The next block is at the index the client expects.                       *)
LEMMA NextBlockFacts ==
  ASSUME NEW c, NEW a, InMessages(c, a)
  PROVE  LET b == NextBlock(a)
         IN  /\ IsAdapter(b) /\ Only(a, b, {"blockIndex", "blockOpened"}) /\ Seen(c, b) = Seen(c, a)
             /\ b.blockOpened /\ b.blockIndex = Len(Seen(c, a).items)
<1> DEFINE b == NextBlock(a)
<1>1. Only(a, b, {"blockIndex", "blockOpened"}) /\ b.blockOpened
  BY DEF InMessages, IsAdapter, AdapterFields, NextBlock, Only
<1>2. b.blockIndex = IF a.blockOpened THEN a.blockIndex + 1 ELSE a.blockIndex
  BY DEF InMessages, IsAdapter, AdapterFields, NextBlock
<1> HIDE DEF b
<1>3. Only(a, b, AdapterFields \ {"out", "tools", "searches", "thought", "message"})
  BY <1>1, OnlyMore DEF AdapterFields
<1>4. IsAdapter(b) /\ Seen(c, b) = Seen(c, a)
  BY <1>3, StaysAdapter DEF InMessages
<1>5. b.blockIndex = Len(Seen(c, a).items)
  BY <1>2 DEF InMessages, MessagesLink
<1> QED BY <1>1, <1>4, <1>5 DEF b

(* Another block is open.                                                   *)
LEMMA OpenMessages ==
  ASSUME NEW a, NEW c, MessagesLink(a, c), ~a.textOpen, NEW d, NEW item, item.open, Grown(c, d, item),
         NEW b, b.blockIndex = Len(c.items), b.blockOpened,
         \/ /\ b.textOpen /\ OnePart(item, "text")
            /\ b.tools = a.tools
         \/ /\ ~b.textOpen /\ OnePart(item, "arguments")
            /\ \A j \in OpenTools(a) : b.tools[j].index = a.tools[j].index
            /\ \E i : /\ OpenTools(b) = OpenTools(a) \cup {i} /\ b.tools[i].index = Len(c.items)
  PROVE  MessagesLink(b, d)
<1> DEFINE n == Len(c.items)
<1>1. n \in Nat /\ Follows(d) /\ Len(d.items) = n + 1 /\ d.items[n + 1] = item
  BY SeqFacts DEF MessagesLink, Follows, Grown
<1>2. \A m : OpenAt(c, m) => OpenAt(d, m) /\ d.items[m + 1] = c.items[m + 1] /\ m # n
  <2> SUFFICES ASSUME NEW m, OpenAt(c, m) PROVE OpenAt(d, m) /\ d.items[m + 1] = c.items[m + 1] /\ m # n
    OBVIOUS
  <2>1. m \in Nat /\ m + 1 \in 1..Len(c.items) /\ m # n
    BY <1>1 DEF OpenAt
  <2> QED BY <1>1, <2>1 DEF Grown, OpenAt
<1>3. OpenAt(d, n)
  BY <1>1 DEF OpenAt
<1>4. \A k \in 1..Len(d.items) : d.items[k].open => k = n + 1 \/ \E i \in OpenTools(a) : k = a.tools[i].index + 1
  <2> SUFFICES ASSUME NEW k \in 1..Len(d.items), d.items[k].open, k # n + 1
               PROVE  \E i \in OpenTools(a) : k = a.tools[i].index + 1
    OBVIOUS
  <2>1. k \in 1..Len(c.items)
    BY <1>1
  <2> QED BY <2>1 DEF Grown, MessagesLink
<1>5. CASE b.textOpen /\ OnePart(item, "text") /\ b.tools = a.tools
  <2>1. OpenTools(b) = OpenTools(a)
    BY <1>5 DEF OpenTools
  <2>2. /\ \A i \in OpenTools(b) : OpenAt(d, b.tools[i].index) /\ OnePart(d.items[b.tools[i].index + 1], "arguments")
        /\ \A i, j \in OpenTools(b) : b.tools[i].index = b.tools[j].index => i = j
    BY <1>2, <1>5, <2>1 DEF MessagesLink
  <2> HIDE DEF n
  <2> QED BY <1>1, <1>3, <1>4, <1>5, <2>1, <2>2 DEF MessagesLink, n
<1>6. ASSUME ~b.textOpen /\ OnePart(item, "arguments"), \A j \in OpenTools(a) : b.tools[j].index = a.tools[j].index,
             NEW i, OpenTools(b) = OpenTools(a) \cup {i}, b.tools[i].index = n
      PROVE  MessagesLink(b, d)
  <2>1. \A j \in OpenTools(b) : OpenAt(d, b.tools[j].index) /\ OnePart(d.items[b.tools[j].index + 1], "arguments")
    BY <1>1, <1>2, <1>3, <1>6 DEF MessagesLink
  <2>2. \A j, k \in OpenTools(b) : b.tools[j].index = b.tools[k].index => j = k
    BY <1>2, <1>6 DEF MessagesLink
  <2>3. \A k \in 1..Len(d.items) : d.items[k].open => \E j \in OpenTools(b) : k = b.tools[j].index + 1
    BY <1>4, <1>6
  <2> HIDE DEF n
  <2> QED BY <1>1, <1>6, <2>1, <2>2, <2>3 DEF MessagesLink, n
<1> QED BY <1>5, <1>6

(* A new item of one empty part, as blocks and calls are when they open.    *)
LEMMA OnePartOf ==
  ASSUME NEW kind, NEW key, NEW of
  PROVE  LET item == Item(kind, key, <<Part(of, <<>>)>>, TRUE)
         IN  item.open /\ item.kind = kind /\ item.parts = <<Part(of, <<>>)>> /\ OnePart(item, of) /\ AreParts(item.parts)
<1> DEFINE p == Part(of, <<>>)
<1>1. p.kind = of /\ DOMAIN p = PartFields
  BY DEF Part, PartFields
<1> HIDE DEF p
<1>2. IsSeq(<<p>>) /\ Len(<<p>>) = 1 /\ <<p>>[1] = p
  BY OneIsSeq
<1>3. AreParts(<<p>>)
  BY <1>1, <1>2 DEF AreParts
<1>4. /\ Item(kind, key, <<p>>, TRUE).open /\ Item(kind, key, <<p>>, TRUE).kind = kind
      /\ Item(kind, key, <<p>>, TRUE).parts = <<p>>
  BY DEF Item
<1> HIDE DEF Item
<1> QED BY <1>1, <1>2, <1>3, <1>4 DEF OnePart, p

(* Afterwards a text block is open, at the index the adapter has for it.    *)
LEMMA EnsureBlockFacts ==
  ASSUME NEW c, NEW a, InMessages(c, a)
  PROVE  LET b == EnsureBlock(a)
         IN  /\ InMessages(c, b) /\ b.textOpen /\ SameCalls(a, b)
             /\ Only(a, b, {"out", "tools", "textOpen", "blockIndex", "blockOpened"})
<1>1. CASE a.textOpen
  BY <1>1, OnlySelf DEF EnsureBlock, SameCalls, Only
<1>2. CASE ~a.textOpen
  <2> DEFINE p == CloseBlock(a)
             q == CloseToolBlocks(p)
             r == NextBlock(q)
             t == [r EXCEPT !.textOpen = TRUE]
             parts == <<Part("text", <<>>)>>
             e == Added(r.blockIndex, "text", 0, parts)
             b == Write(t, e)
             s == Seen(c, q)
  <2>1. EnsureBlock(a) = b
    BY <1>2 DEF EnsureBlock, OpenBlock
  <2>2. InMessages(c, p) /\ ~p.textOpen /\ Only(a, p, {"out", "textOpen"})
    BY CloseBlockFacts
  <2> HIDE DEF p
  <2>3. InMessages(c, q) /\ Only(p, q, {"out", "tools"}) /\ SameCalls(p, q)
    BY <2>2, CloseToolBlocksFacts
  <2> HIDE DEF q
  <2>4. p.tools = a.tools /\ ~q.textOpen
    BY <2>2, <2>3 DEF Only, InMessages, IsAdapter, AdapterFields
  <2>5. /\ IsAdapter(r) /\ Only(q, r, {"blockIndex", "blockOpened"}) /\ Seen(c, r) = s
        /\ r.blockOpened /\ r.blockIndex = Len(s.items)
    BY <2>3, NextBlockFacts
  <2> HIDE DEF r
  <2>6. Only(r, t, {"textOpen"}) /\ t.textOpen
    BY <2>5 DEF Only, IsAdapter, AdapterFields
  <2> HIDE DEF t
  <2>7. IsAdapter(t) /\ Seen(c, t) = s
    <3>1. Only(r, t, AdapterFields \ {"out", "tools", "searches", "thought", "message"})
      BY <2>6, OnlyMore DEF AdapterFields
    <3> QED BY <2>5, <3>1, StaysAdapter
  <2>8. IsAdapter(b) /\ Only(t, b, {"out"}) /\ Seen(c, b) = Receive(s, e)
    BY <2>7, Writes
  <2> HIDE DEF b
  <2>9. Only(q, b, {"out", "textOpen", "blockIndex", "blockOpened"})
    BY <2>5, <2>6, <2>8 DEF Only
  <2>10. b.tools = q.tools /\ b.target = "messages"
    BY <2>3, <2>9 DEF Only, InMessages, IsAdapter, AdapterFields
  <2>11. b.textOpen /\ b.blockOpened /\ b.blockIndex = Len(s.items)
    BY <2>5, <2>6, <2>8 DEF Only, IsAdapter, AdapterFields
  <2>12. Grown(s, Receive(s, e), Item("text", 0, parts, TRUE)) /\ OnePart(Item("text", 0, parts, TRUE), "text")
         /\ Item("text", 0, parts, TRUE).open
    <3>1. AreParts(parts) /\ OnePart(Item("text", 0, parts, TRUE), "text") /\ Item("text", 0, parts, TRUE).open
      <4>1. Item("text", 0, parts, TRUE).parts = parts
        BY DEF Item
      <4> QED BY <4>1, OnePartOf
    <3>2. Follows(s)
      BY <2>3 DEF InMessages, MessagesLink
    <3> HIDE DEF parts, s
    <3> QED BY <2>5, <3>1, <3>2, ReadAdded
  <2>13. MessagesLink(b, Receive(s, e))
    <3>1. MessagesLink(q, s)
      BY <2>3 DEF InMessages
    <3> HIDE DEF s, e, parts
    <3> QED BY <2>4, <2>10, <2>11, <2>12, <3>1, OpenMessages
  <2>14. SameCalls(a, b)
    BY <2>3, <2>4, <2>10 DEF SameCalls
  <2>15. Only(a, b, {"out", "tools", "textOpen", "blockIndex", "blockOpened"})
    BY <2>2, <2>3, <2>9 DEF Only
  <2> QED BY <2>1, <2>8, <2>10, <2>11, <2>13, <2>14, <2>15 DEF InMessages
<1> QED BY <1>1, <1>2

(* A block that is closed as soon as it is open.                            *)
LEMMA BoxFacts ==
  ASSUME NEW c, NEW a, InMessages(c, a), ~a.textOpen, NEW kind, NEW key
  PROVE  LET b == Box(a, kind, key)
         IN  InMessages(c, b) /\ ~b.textOpen /\ Only(a, b, {"out", "blockIndex", "blockOpened"})
<1> DEFINE r == NextBlock(a)
           s == Seen(c, a)
           n == r.blockIndex
           e == Added(n, kind, key, <<>>)
           f == Done(n, Unclaimed)
           w == Write(r, e)
           b == Write(w, f)
           t == Receive(s, e)
           d == Receive(t, f)
           item == Item(kind, key, <<>>, TRUE)
<1>1. Box(a, kind, key) = b
  BY DEF Box
<1>2. /\ IsAdapter(r) /\ Only(a, r, {"blockIndex", "blockOpened"}) /\ Seen(c, r) = s
      /\ r.blockOpened /\ n = Len(s.items)
  BY NextBlockFacts
<1>3. IsAdapter(w) /\ Only(r, w, {"out"}) /\ Seen(c, w) = t
  BY <1>2, Writes
<1>4. IsAdapter(b) /\ Only(w, b, {"out"}) /\ Seen(c, b) = d
  <2> HIDE DEF w
  <2> QED BY <1>3, Writes
<1>5. MessagesLink(a, s) /\ Follows(s) /\ n \in Nat
  BY <1>2, SeqFacts DEF InMessages, MessagesLink, Follows
<1>6. Grown(s, t, item) /\ item.open
  <2>1. AreParts(<<>>)
    BY EmptyIsSeq DEF AreParts
  <2>2. item.open
    BY DEF Item
  <2> HIDE DEF s, item
  <2> QED BY <1>2, <1>5, <2>1, <2>2, ReadAdded DEF item
<1> HIDE DEF b, w, r, s, item, e, f, t
<1>7. Follows(t) /\ OpenAt(t, n) /\ t.items[n + 1] = item /\ Len(t.items) = n + 1
  BY <1>2, <1>5, <1>6 DEF Grown, OpenAt
<1>8. Turned(t, d, n, [item EXCEPT !.open = FALSE])
  BY <1>7, ReadDone DEF f
<1> HIDE DEF d
<1>9. Only(a, b, {"out", "blockIndex", "blockOpened"})
  BY <1>2, <1>3, <1>4 DEF Only
<1>10. /\ b.tools = a.tools /\ b.textOpen = a.textOpen /\ b.target = "messages"
       /\ b.blockIndex = n /\ b.blockOpened
  <2>1. b.tools = a.tools /\ b.textOpen = a.textOpen /\ b.target = "messages"
    BY <1>9 DEF Only, InMessages, IsAdapter, AdapterFields
  <2> QED BY <1>2, <1>3, <1>4, <2>1 DEF Only, IsAdapter, AdapterFields
<1>11. /\ Follows(d) /\ Len(d.items) = n + 1 /\ ~d.items[n + 1].open
       /\ \A k \in 1..n : d.items[k] = s.items[k]
  <2>1. DOMAIN item = ItemFields
    BY DEF Item, item, ItemFields
  <2> QED BY <1>2, <1>5, <1>6, <1>7, <1>8, <2>1 DEF Turned, Grown, ItemFields
<1>12. MessagesLink(b, d)
  <2>1. OpenTools(b) = OpenTools(a)
    BY <1>10 DEF OpenTools
  <2>2. \A m : OpenAt(s, m) => OpenAt(d, m) /\ d.items[m + 1] = s.items[m + 1]
    <3> SUFFICES ASSUME NEW m, OpenAt(s, m) PROVE OpenAt(d, m) /\ d.items[m + 1] = s.items[m + 1]
      OBVIOUS
    <3>1. m \in Nat /\ m < n /\ m + 1 \in 1..n /\ n \in Nat
      BY <1>2, <1>5 DEF OpenAt
    <3>2. d.items[m + 1] = s.items[m + 1]
      BY <1>11, <3>1
    <3> QED BY <1>11, <3>1, <3>2 DEF OpenAt
  <2>3. \A i \in OpenTools(b) : OpenAt(d, b.tools[i].index) /\ OnePart(d.items[b.tools[i].index + 1], "arguments")
    BY <1>5, <1>10, <2>1, <2>2 DEF MessagesLink
  <2>4. \A k \in 1..Len(d.items) : d.items[k].open => \E i \in OpenTools(b) : k = b.tools[i].index + 1
    <3> SUFFICES ASSUME NEW k \in 1..Len(d.items), d.items[k].open PROVE \E i \in OpenTools(b) : k = b.tools[i].index + 1
      OBVIOUS
    <3>1. k \in 1..n
      BY <1>5, <1>11
    <3>2. k \in 1..Len(s.items) /\ s.items[k].open
      BY <1>2, <1>11, <3>1
    <3> QED BY <1>5, <1>10, <2>1, <3>2 DEF MessagesLink
  <2>5. \A i, j \in OpenTools(b) : b.tools[i].index = b.tools[j].index => i = j
    BY <1>5, <1>10, <2>1 DEF MessagesLink
  <2> QED BY <1>5, <1>10, <1>11, <2>3, <2>4, <2>5 DEF MessagesLink
<1> QED BY <1>1, <1>4, <1>9, <1>10, <1>12 DEF InMessages, b

-----------------------------------------------------------------------------
(* A delta of a call.                                                       *)

(* The search for a key in a list finds an entry with the key, or there     *)
(* is none.                                                                 *)
LEMMA PositionFacts ==
  ASSUME NEW seq, IsSeq(seq), NEW key
  PROVE  \/ Position(seq, key) = 0 /\ \A i \in 1..Len(seq) : seq[i].key # key
         \/ Position(seq, key) \in 1..Len(seq) /\ seq[Position(seq, key)].key = key
<1> DEFINE I == {i \in 1..Len(seq) : seq[i].key = key}
<1>1. Position(seq, key) = IF I # {} THEN Min(I) ELSE 0
  BY DEF Position, SelectInSeq
<1>2. I # {} => Min(I) \in I
  <2>1. I \in SUBSET Nat
    OBVIOUS
  <2> HIDE DEF I
  <2> QED BY <2>1, MinIsFirst
<1> QED BY <1>1, <1>2

(* Sequences put one behind the other.                                      *)
LEMMA Concatenated ==
  ASSUME NEW s, IsSeq(s), NEW t, IsSeq(t)
  PROVE  IsSeq(s \o t) /\ s \o <<>> = s /\ <<>> \o t = t
<1>1. PICK S : s \in Seq(S)
  BY DEF IsSeq
<1>2. PICK T : t \in Seq(T)
  BY DEF IsSeq
<1> DEFINE U == S \cup T
<1>3. S \subseteq U /\ T \subseteq U
  OBVIOUS
<1> HIDE DEF U
<1>4. s \in Seq(U) /\ t \in Seq(U)
  BY <1>1, <1>2, <1>3, SeqMonotonic
<1>5. s \o t \in Seq(U)
  BY <1>4, ConcatProperties
<1> QED BY <1>4, <1>5, ConcatEmptySeq DEF IsSeq

\* No two calls have the same key.
KeysDiffer(a) == \A i, j \in 1..Len(a.tools) : a.tools[i].key = a.tools[j].key => i = j

\* From a to b the delta t of call i has been merged.
Merged(a, b, i, t) ==
  /\ IsAdapter(b) /\ Only(a, b, {"tools"}) /\ \A c : Seen(c, b) = Seen(c, a)
  /\ i \in 1..Len(b.tools) /\ b.tools[i].key = t.key
  /\ \A j \in 1..Len(a.tools) : j # i => b.tools[j] = a.tools[j]
  /\ \/ /\ i \in 1..Len(a.tools) /\ a.tools[i].key = t.key /\ Len(b.tools) = Len(a.tools)
        /\ b.tools[i].args = a.tools[i].args \o t.args
        /\ b.tools[i].shown = a.tools[i].shown /\ b.tools[i].open = a.tools[i].open
        /\ b.tools[i].index = a.tools[i].index
     \/ /\ \A j \in 1..Len(a.tools) : a.tools[j].key # t.key
        /\ i = Len(a.tools) + 1 /\ Len(b.tools) = i
        /\ b.tools[i].args = t.args
        /\ ~b.tools[i].shown /\ ~b.tools[i].open

NewTool(t) == [key |-> t.key, id |-> t.id, committed |-> FALSE, args |-> <<>>, shown |-> FALSE, open |-> FALSE, index |-> 0]

\* The calls with another identifier and more arguments of call j.
LEMMA MergeToolFacts ==
  ASSUME NEW a, IsAdapter(a), KeysDiffer(a), NEW t, IsSeq(t.args)
  PROVE  \E i : Merged(a, MergeTool(a, t), i, t)
<1> DEFINE p == Position(a.tools, t.key)
           known == IF p # 0 THEN a.tools ELSE Append(a.tools, NewTool(t))
           j == Position(known, t.key)
           id == IF t.id # NoId /\ ~known[j].committed THEN t.id ELSE known[j].id
           tool == [known[j] EXCEPT !.id = id, !.args = @ \o t.args]
           tools == [known EXCEPT ![j] = tool]
           b == MergeTool(a, t)
<1>1. b = [a EXCEPT !.tools = [known EXCEPT ![j].id = id, ![j].args = @ \o t.args]]
  BY DEF MergeTool, NewTool
<1>2. DOMAIN NewTool(t) = ToolFields /\ IsTool(NewTool(t)) /\ NewTool(t).key = t.key /\ NewTool(t).args = <<>>
      /\ ~NewTool(t).shown /\ ~NewTool(t).open
  BY EmptyIsSeq DEF NewTool, IsTool, ToolFields
<1> HIDE DEF tools, b
<1>3. /\ IsSeq(known) /\ \A k \in 1..Len(known) : IsTool(known[k])
      /\ \A k \in 1..Len(a.tools) : known[k] = a.tools[k]
      /\ j \in 1..Len(known) /\ known[j].key = t.key
      /\ \/ /\ j \in 1..Len(a.tools) /\ Len(known) = Len(a.tools)
         \/ /\ \A k \in 1..Len(a.tools) : a.tools[k].key # t.key
            /\ j = Len(a.tools) + 1 /\ Len(known) = j /\ known[j] = NewTool(t)
  <2>1. CASE p # 0
    <3>1. known = a.tools /\ j = p
      BY <2>1
    <3>2. p \in 1..Len(a.tools) /\ a.tools[p].key = t.key
      BY <2>1, PositionFacts DEF IsAdapter
    <3> HIDE DEF known, j, p
    <3> QED BY <3>1, <3>2 DEF IsAdapter
  <2>2. CASE p = 0
    <3>1. known = Append(a.tools, NewTool(t))
      BY <2>2
    <3>2. \A k \in 1..Len(a.tools) : a.tools[k].key # t.key
      BY <2>2, PositionFacts, SeqFacts DEF IsAdapter
    <3>3. /\ IsSeq(known) /\ Len(known) = Len(a.tools) + 1 /\ known[Len(a.tools) + 1] = NewTool(t)
          /\ \A k \in 1..Len(a.tools) : known[k] = a.tools[k]
      BY <3>1, Appended DEF IsAdapter
    <3>4. Len(a.tools) \in Nat
      BY SeqFacts DEF IsAdapter
    <3> HIDE DEF known
    <3>5. j \in 1..Len(known) /\ known[j].key = t.key
      <4>1. Len(a.tools) + 1 \in 1..Len(known) /\ known[Len(a.tools) + 1].key = t.key
        BY <1>2, <3>3, <3>4
      <4> QED BY <3>3, <4>1, PositionFacts
    <3> HIDE DEF j
    <3>6. j = Len(a.tools) + 1
      BY <3>2, <3>3, <3>4, <3>5
    <3>7. \A k \in 1..Len(known) : IsTool(known[k])
      <4> SUFFICES ASSUME NEW k \in 1..Len(known) PROVE IsTool(known[k])
        OBVIOUS
      <4>1. k \in 1..Len(a.tools) \/ k = Len(a.tools) + 1
        BY <3>3, <3>4
      <4> QED BY <1>2, <3>3, <4>1 DEF IsAdapter
    <3> QED BY <3>2, <3>3, <3>5, <3>6, <3>7
  <2> HIDE DEF p
  <2> QED BY <2>1, <2>2
<1> HIDE DEF known, j, id, p
<1>4. /\ IsTool(tool) /\ tool.key = t.key /\ tool.args = known[j].args \o t.args
      /\ tool.shown = known[j].shown /\ tool.open = known[j].open /\ tool.index = known[j].index
  <2>1. DOMAIN known[j] = ToolFields /\ IsSeq(known[j].args)
    BY <1>3 DEF IsTool
  <2>2. /\ DOMAIN tool = ToolFields /\ tool.key = known[j].key /\ tool.args = known[j].args \o t.args
        /\ tool.shown = known[j].shown /\ tool.open = known[j].open /\ tool.index = known[j].index
    BY <2>1 DEF ToolFields
  <2>3. IsSeq(known[j].args \o t.args)
    BY <2>1, Concatenated
  <2> HIDE DEF tool
  <2> QED BY <1>3, <2>2, <2>3 DEF IsTool
<1>12. tools = [known EXCEPT ![j].id = id, ![j].args = @ \o t.args]
  <2>1. DOMAIN known = 1..Len(known) /\ DOMAIN known[j] = ToolFields
    BY <1>3, SeqFacts DEF IsTool
  <2> QED BY <1>3, <2>1 DEF tools, ToolFields
<1> HIDE DEF tool
<1>5. /\ IsSeq(tools) /\ Len(tools) = Len(known) /\ tools[j] = tool
      /\ \A k \in 1..Len(known) : k # j => tools[k] = known[k]
  BY <1>3, Replaced DEF tools
<1>6. Only(a, b, {"tools"}) /\ b.tools = tools
  BY <1>1, <1>12 DEF Only, IsAdapter, AdapterFields
<1>7. b.out = a.out /\ b.searches = a.searches /\ b.thought = a.thought /\ b.message = a.message
  BY <1>6 DEF Only, IsAdapter, AdapterFields
<1>8. IsAdapter(b) /\ \A c : Seen(c, b) = Seen(c, a)
  BY <1>3, <1>4, <1>5, <1>6, <1>7 DEF IsAdapter, Only, Seen
<1>9. Len(a.tools) \in Nat /\ \A k \in 1..Len(a.tools) : k # j => b.tools[k] = a.tools[k]
  <2>1. Len(a.tools) \in Nat
    BY SeqFacts DEF IsAdapter
  <2>2. \A k \in 1..Len(a.tools) : k \in 1..Len(known)
    BY <1>3, <2>1
  <2> QED BY <1>3, <1>5, <1>6, <2>1, <2>2
<1>10. <<>> \o t.args = t.args
  BY EmptyIsSeq, Concatenated
<1>11. Merged(a, b, j, t)
  <2>1. CASE j \in 1..Len(a.tools) /\ Len(known) = Len(a.tools)
    BY <1>3, <1>4, <1>5, <1>6, <1>8, <1>9, <2>1 DEF Merged
  <2>2. CASE /\ \A k \in 1..Len(a.tools) : a.tools[k].key # t.key
             /\ j = Len(a.tools) + 1 /\ Len(known) = j /\ known[j] = NewTool(t)
    BY <1>2, <1>3, <1>4, <1>5, <1>6, <1>8, <1>9, <1>10, <2>2 DEF Merged
  <2> QED BY <1>3, <2>1, <2>2
<1> QED BY <1>11 DEF b

\* An identifier of its own changes nothing else of a call.
LEMMA ToolIdentityFacts ==
  ASSUME NEW a, IsAdapter(a), NEW i \in 1..Len(a.tools)
  PROVE  LET b == ToolIdentity(a, i)
         IN  /\ IsAdapter(b) /\ Only(a, b, {"tools"}) /\ \A c : Seen(c, b) = Seen(c, a)
             /\ Len(b.tools) = Len(a.tools)
             /\ \A j \in 1..Len(a.tools) : j # i => b.tools[j] = a.tools[j]
             /\ Only(a.tools[i], b.tools[i], {"id", "committed"})
<1> DEFINE b == ToolIdentity(a, i)
<1>1. CASE a.tools[i].committed
  <2>1. b = a
    BY <1>1 DEF ToolIdentity
  <2> QED BY <2>1, OnlySelf
<1>2. CASE ~a.tools[i].committed
  <2> DEFINE id == a.tools[i].id
             taken == {a.tools[j].id : j \in {j \in DOMAIN a.tools : a.tools[j].committed}}
             new == IF id \in taken \cup {NoId} THEN <<"novro", i>> ELSE id
             tool == [a.tools[i] EXCEPT !.committed = TRUE, !.id = new]
             tools == [a.tools EXCEPT ![i] = tool]
  <2>1. b = [a EXCEPT !.tools[i].committed = TRUE, !.tools[i].id = new]
    BY <1>2 DEF ToolIdentity
  <2> HIDE DEF new, b
  <2>2. Only(a, b, {"tools"}) /\ b.tools = tools
    <3>1. DOMAIN a.tools = 1..Len(a.tools)
      BY SeqFacts DEF IsAdapter
    <3> QED BY <2>1, <3>1 DEF Only, IsAdapter, AdapterFields
  <2>3. IsTool(a.tools[i])
    BY DEF IsAdapter
  <2>4. Only(a.tools[i], tool, {"id", "committed"}) /\ IsTool(tool)
    BY <2>3 DEF Only, IsTool, ToolFields
  <2> HIDE DEF tool
  <2>5. /\ IsSeq(tools) /\ Len(tools) = Len(a.tools) /\ tools[i] = tool
        /\ \A j \in 1..Len(a.tools) : j # i => tools[j] = a.tools[j]
    BY Replaced DEF IsAdapter
  <2> HIDE DEF tools
  <2>6. b.out = a.out /\ b.searches = a.searches /\ b.thought = a.thought /\ b.message = a.message
    BY <2>2 DEF Only, IsAdapter, AdapterFields
  <2>7. IsAdapter(b) /\ \A c : Seen(c, b) = Seen(c, a)
    BY <2>2, <2>4, <2>5, <2>6 DEF IsAdapter, Only, Seen
  <2> QED BY <2>2, <2>4, <2>5, <2>7 DEF b
<1> QED BY <1>1, <1>2

(* A delta is merged to the call that has its key, or to a new one, and     *)
(* then written.                                                            *)
LEMMA ToolDeltaFacts ==
  ASSUME NEW a, IsAdapter(a), KeysDiffer(a), NEW t, IsSeq(t.args)
  PROVE  \E b, i : Merged(a, b, i, t) /\ ToolDelta(a, t) = WriteTool(b, i, t)
<1> DEFINE m == MergeTool(a, t)
<1>1. PICK i : Merged(a, m, i, t)
  BY MergeToolFacts
<1>2. ToolDelta(a, t) = WriteTool(ToolIdentity(m, Position(m.tools, t.key)), Position(m.tools, t.key), t)
  BY DEF ToolDelta
<1> HIDE DEF m
<1>9. /\ Len(a.tools) \in Nat
      /\ \A k \in 1..Len(m.tools) : k # i => k \in 1..Len(a.tools)
      /\ \A k \in 1..Len(a.tools) : k \in 1..Len(m.tools)
  <2>1. Len(a.tools) \in Nat
    BY SeqFacts DEF IsAdapter
  <2>2. Len(m.tools) = Len(a.tools) \/ (i = Len(a.tools) + 1 /\ Len(m.tools) = i)
    BY <1>1 DEF Merged
  <2> QED BY <2>1, <2>2
<1>3. Position(m.tools, t.key) = i
  <2>1. \A k \in 1..Len(m.tools) : m.tools[k].key = t.key => k = i
    <3> SUFFICES ASSUME NEW k \in 1..Len(m.tools), m.tools[k].key = t.key, k # i PROVE FALSE
      OBVIOUS
    <3>1. k \in 1..Len(a.tools) /\ m.tools[k] = a.tools[k]
      BY <1>1, <1>9 DEF Merged
    <3> QED BY <1>1, <3>1 DEF Merged, KeysDiffer
  <2>2. IsSeq(m.tools) /\ i \in 1..Len(m.tools) /\ m.tools[i].key = t.key
    BY <1>1 DEF Merged, IsAdapter
  <2> QED BY <2>1, <2>2, PositionFacts
<1> DEFINE b == ToolIdentity(m, i)
<1>4. /\ IsAdapter(b) /\ Only(m, b, {"tools"}) /\ \A c : Seen(c, b) = Seen(c, m)
      /\ Len(b.tools) = Len(m.tools)
      /\ \A j \in 1..Len(m.tools) : j # i => b.tools[j] = m.tools[j]
      /\ Only(m.tools[i], b.tools[i], {"id", "committed"})
  BY <1>1, ToolIdentityFacts DEF Merged
<1> HIDE DEF b
<1>5. /\ b.tools[i].key = m.tools[i].key /\ b.tools[i].args = m.tools[i].args
      /\ b.tools[i].shown = m.tools[i].shown
      /\ b.tools[i].open = m.tools[i].open /\ b.tools[i].index = m.tools[i].index
  <2>1. IsTool(m.tools[i])
    BY <1>1 DEF Merged, IsAdapter
  <2>2. DOMAIN m.tools[i] = {"key", "id", "committed", "args", "shown", "open", "index"}
    BY <2>1 DEF IsTool, ToolFields
  <2>3. Only(m.tools[i], b.tools[i], {"id", "committed"})
    BY <1>4
  <2> QED BY <2>2, <2>3 DEF Only
<1>6. Only(a, b, {"tools"}) /\ \A c : Seen(c, b) = Seen(c, a)
  BY <1>1, <1>4 DEF Only, Merged
<1>7. \A j \in 1..Len(a.tools) : j # i => b.tools[j] = a.tools[j]
  BY <1>1, <1>4, <1>9 DEF Merged
<1>8. Merged(a, b, i, t)
  <2>1. IsAdapter(b) /\ i \in 1..Len(b.tools) /\ b.tools[i].key = t.key
    BY <1>1, <1>4, <1>5 DEF Merged
  <2> QED BY <1>1, <1>4, <1>5, <1>6, <1>7, <2>1 DEF Merged
<1> QED BY <1>2, <1>3, <1>8 DEF b

-----------------------------------------------------------------------------
(* Messages: what a delta does.                                             *)

MessagesFields == {"out", "tools", "searches", "textOpen", "blockIndex", "blockOpened", "sent", "committed"}

\* The calls are the same, though some may be closed.
MessagesStep(c, a, b) == InMessages(c, b) /\ Only(a, b, MessagesFields) /\ SameCalls(a, b)

(* An adapter with the same calls has the same calls open.                  *)
LEMMA SameCallsSelf ==
  ASSUME NEW a, NEW b, b.tools = a.tools
  PROVE  SameCalls(a, b)
BY DEF SameCalls, Only

(* Steps that a Messages client follows compose.                            *)
LEMMA MessagesStepTwice ==
  ASSUME NEW c, NEW a, NEW b, NEW d, MessagesStep(c, a, b), MessagesStep(c, b, d)
  PROVE  MessagesStep(c, a, d)
<1>1. Only(a, d, MessagesFields)
  BY DEF MessagesStep, Only
<1> QED BY <1>1, SameCallsTwice DEF MessagesStep

(* One delta of content: reasoning is not shown to a Messages client, the   *)
(* rest goes to a text block.                                               *)
LEMMA MessagesDeltaFacts ==
  ASSUME NEW c, NEW a, InMessages(c, a), NEW kind, NEW data
  PROVE  /\ MessagesStep(c, a, MessagesDelta(a, kind, data))
         /\ kind = "reasoning" => MessagesDelta(a, kind, data) = a
<1>1. CASE kind = "reasoning"
  BY <1>1, OnlySelf, SameCallsSelf DEF MessagesDelta, MessagesStep
<1>2. CASE kind # "reasoning"
  <2> DEFINE p == EnsureBlock(a)
             b == Write(p, Delta(p.blockIndex, 0, "text", data))
  <2>1. MessagesDelta(a, kind, data) = b
    BY <1>2 DEF MessagesDelta
  <2>2. /\ InMessages(c, p) /\ p.textOpen /\ SameCalls(a, p)
        /\ Only(a, p, {"out", "tools", "textOpen", "blockIndex", "blockOpened"})
    BY EnsureBlockFacts
  <2> HIDE DEF p
  <2>3. OpenAt(Seen(c, p), p.blockIndex) /\ OnePart(Seen(c, p).items[p.blockIndex + 1], "text")
    BY <2>2 DEF InMessages, MessagesLink
  <2>4. InMessages(c, b) /\ Only(p, b, {"out"})
    BY <2>2, <2>3, DeltaMessages
  <2> HIDE DEF b
  <2>5. b.tools = p.tools
    BY <2>2, <2>4 DEF Only, InMessages, IsAdapter, AdapterFields
  <2>6. Only(a, b, MessagesFields)
    BY <2>2, <2>4 DEF Only, MessagesFields
  <2>7. SameCalls(a, b)
    BY <2>2, <2>5 DEF SameCalls
  <2> QED BY <1>2, <2>1, <2>4, <2>6, <2>7 DEF MessagesStep
<1> QED BY <1>1, <1>2

(* Text that is sent is remembered as sent.                                 *)
LEMMA SendTextFacts ==
  ASSUME NEW c, NEW a, InMessages(c, a), NEW data
  PROVE  MessagesStep(c, a, SendText(a, data))
<1> DEFINE p == MessagesDelta(a, "text", data)
           b == SendText(a, data)
<1>1. b = [p EXCEPT !.sent = Len(a.text), !.committed = TRUE]
  BY DEF SendText, ContentDelta, InMessages
<1>2. MessagesStep(c, a, p)
  BY MessagesDeltaFacts
<1> HIDE DEF p, b
<1>3. Only(p, b, {"sent", "committed"})
  BY <1>1 DEF Only
<1>4. IsAdapter(b) /\ Seen(c, b) = Seen(c, p) /\ b.tools = p.tools
  <2>1. Only(p, b, AdapterFields \ {"out", "tools", "searches", "thought", "message"})
    BY <1>3, OnlyMore DEF AdapterFields
  <2> QED BY <1>2, <2>1, StaysAdapter DEF MessagesStep, InMessages
<1>5. MessagesLink(b, Seen(c, b))
  <2>1. Only(p, b, AdapterFields \ {"tools", "textOpen", "blockIndex", "blockOpened"})
    BY <1>3, OnlyMore DEF AdapterFields
  <2> QED BY <1>2, <1>4, <2>1, MessagesLinkSame DEF MessagesStep, InMessages, IsAdapter
<1>6. b.target = "messages"
  BY <1>2, <1>3 DEF Only, MessagesStep, InMessages, IsAdapter, AdapterFields
<1>7. Only(a, b, MessagesFields)
  BY <1>2, <1>3 DEF Only, MessagesStep, MessagesFields
<1>8. SameCalls(a, b)
  BY <1>2, <1>4 DEF SameCalls, MessagesStep
<1> QED BY <1>4, <1>5, <1>6, <1>7, <1>8 DEF MessagesStep, InMessages, b

(* No step is one.                                                          *)
LEMMA MessagesSelf ==
  ASSUME NEW c, NEW a, InMessages(c, a)
  PROVE  MessagesStep(c, a, a)
BY OnlySelf, SameCallsSelf DEF MessagesStep

(* The client follows whether text is sent, held back or released, and      *)
(* also when it is released at the end.                                     *)
LEMMA MessagesTextFacts ==
  ASSUME NEW c, NEW a, InMessages(c, a), NEW data
  PROVE  MessagesStep(c, a, MessagesText(a, data)) /\ MessagesStep(c, a, FlushMessagesText(a))
BY SendTextFacts, MessagesSelf DEF MessagesText, FlushMessagesText

(* A citation opens a block where there is none and is written to it.       *)
LEMMA MessagesCites ==
  ASSUME NEW c, NEW a, InMessages(c, a), NEW note
  PROVE  MessagesStep(c, a, AnnotationDelta(a, note))
<1> DEFINE p == EnsureBlock(a)
           b == Write(p, Note(p.blockIndex, 0, Unnumbered, note))
<1>1. AnnotationDelta(a, note) = b
  BY DEF AnnotationDelta, InMessages
<1>2. /\ InMessages(c, p) /\ p.textOpen /\ SameCalls(a, p)
      /\ Only(a, p, {"out", "tools", "textOpen", "blockIndex", "blockOpened"})
  BY EnsureBlockFacts
<1> HIDE DEF p
<1>3. InMessages(c, b) /\ Only(p, b, {"out"})
  BY <1>2, NoteMessages
<1> HIDE DEF b
<1>4. b.tools = p.tools
  BY <1>2, <1>3 DEF Only, InMessages, IsAdapter, AdapterFields
<1>5. Only(a, b, MessagesFields)
  BY <1>2, <1>3 DEF Only, MessagesFields
<1>6. SameCalls(a, b)
  BY <1>2, <1>4 DEF SameCalls
<1> QED BY <1>1, <1>3, <1>5, <1>6 DEF MessagesStep

\* From a to b call i is shown at index.
Shown(a, b, i, index) ==
  /\ Len(b.tools) = Len(a.tools)
  /\ \A j \in 1..Len(a.tools) : j # i => b.tools[j] = a.tools[j]
  /\ b.tools[i].key = a.tools[i].key /\ b.tools[i].args = a.tools[i].args
  /\ b.tools[i].shown /\ b.tools[i].open /\ b.tools[i].index = index

(* A call is told to the client at an index with no arguments yet.          *)
LEMMA ShowToolFacts ==
  ASSUME NEW c, NEW a, IsAdapter(a), NEW i \in 1..Len(a.tools), NEW index
  PROVE  LET b == ShowTool(a, i, index)
         IN  /\ IsAdapter(b) /\ Only(a, b, {"out", "tools"}) /\ Shown(a, b, i, index)
             /\ Seen(c, b) = Receive(Seen(c, a), Added(index, "tool", a.tools[i].id, <<Part("arguments", <<>>)>>))
<1> DEFINE tool == [a.tools[i] EXCEPT !.shown = TRUE, !.open = TRUE, !.index = index]
           tools == [a.tools EXCEPT ![i] = tool]
           w == [a EXCEPT !.tools[i].shown = TRUE, !.tools[i].open = TRUE, !.tools[i].index = index]
           e == Added(index, "tool", a.tools[i].id, <<Part("arguments", <<>>)>>)
           b == Write(w, e)
<1>1. ShowTool(a, i, index) = b
  BY DEF ShowTool
<1>2. DOMAIN a.tools = 1..Len(a.tools) /\ DOMAIN a = AdapterFields /\ IsTool(a.tools[i])
  BY SeqFacts DEF IsAdapter
<1>3. Only(a, w, {"tools"}) /\ w.tools = tools
  BY <1>2 DEF Only, AdapterFields
<1>4. /\ IsTool(tool) /\ tool.key = a.tools[i].key /\ tool.args = a.tools[i].args
      /\ tool.shown /\ tool.open /\ tool.index = index
  BY <1>2 DEF IsTool, ToolFields
<1> HIDE DEF w, tool
<1>5. /\ IsSeq(tools) /\ Len(tools) = Len(a.tools) /\ tools[i] = tool
      /\ \A j \in 1..Len(a.tools) : j # i => tools[j] = a.tools[j]
  BY Replaced DEF IsAdapter
<1> HIDE DEF tools
<1>6. w.out = a.out /\ w.searches = a.searches /\ w.thought = a.thought /\ w.message = a.message
  BY <1>3 DEF Only, IsAdapter, AdapterFields
<1>7. IsAdapter(w) /\ Seen(c, w) = Seen(c, a)
  BY <1>3, <1>4, <1>5, <1>6 DEF IsAdapter, Only, Seen
<1>8. IsAdapter(b) /\ Only(w, b, {"out"}) /\ Seen(c, b) = Receive(Seen(c, a), e)
  BY <1>7, Writes
<1> HIDE DEF b, e
<1>9. b.tools = w.tools
  BY <1>7, <1>8 DEF Only, IsAdapter, AdapterFields
<1>10. Only(a, b, {"out", "tools"})
  BY <1>3, <1>8 DEF Only
<1>11. Shown(a, b, i, index)
  BY <1>3, <1>4, <1>5, <1>9 DEF Shown
<1> QED BY <1>1, <1>8, <1>10, <1>11 DEF e

\* The calls are the same, and call i is shown and open.
CallOpen(a, b, i) ==
  /\ Len(b.tools) = Len(a.tools)
  /\ \A j \in 1..Len(a.tools) : j # i => b.tools[j] = a.tools[j]
  /\ b.tools[i].key = a.tools[i].key
  /\ b.tools[i].shown /\ b.tools[i].open

(* A call of a Messages client: shown once, and its arguments are passed    *)
(* on while it is open.                                                     *)
LEMMA MessagesToolFacts ==
  ASSUME NEW c, NEW a, InMessages(c, a), NEW i \in 1..Len(a.tools), NEW t,
         a.tools[i].shown <=> i \in OpenTools(a)
  PROVE  LET b == MessagesTool(a, i, t)
         IN  InMessages(c, b) /\ Only(a, b, MessagesFields) /\ CallOpen(a, b, i)
<1> DEFINE p == CloseBlock(a)
           q == NextBlock(p)
           n == q.blockIndex
           show == ShowTool(q, i, n)
           r == IF a.tools[i].shown THEN a ELSE show
           b == FillTool(r, i, t.args)
           s == Seen(c, p)
<1>1. MessagesTool(a, i, t) = b
  BY DEF MessagesTool
<1>2. InMessages(c, r) /\ Only(a, r, MessagesFields) /\ CallOpen(a, r, i) /\ i \in OpenTools(r)
  <2>1. CASE a.tools[i].shown
    <3>1. r = a
      BY <2>1
    <3> HIDE DEF r
    <3> QED BY <2>1, <3>1, OnlySelf DEF CallOpen, OpenTools
  <2>2. CASE ~a.tools[i].shown
    <3> DEFINE parts == <<Part("arguments", <<>>)>>
               item == Item("tool", q.tools[i].id, parts, TRUE)
               e == Added(n, "tool", q.tools[i].id, parts)
    <3>1. InMessages(c, p) /\ ~p.textOpen /\ Only(a, p, {"out", "textOpen"})
      BY CloseBlockFacts
    <3> HIDE DEF p
    <3>2. /\ IsAdapter(q) /\ Only(p, q, {"blockIndex", "blockOpened"}) /\ Seen(c, q) = s
          /\ q.blockOpened /\ n = Len(s.items)
      BY <3>1, NextBlockFacts
    <3> HIDE DEF q
    <3>3. q.tools = a.tools /\ p.tools = a.tools /\ q.textOpen = p.textOpen
      BY <3>1, <3>2 DEF Only, InMessages, IsAdapter, AdapterFields
    <3>4. /\ IsAdapter(show) /\ Only(q, show, {"out", "tools"}) /\ Shown(q, show, i, n)
          /\ Seen(c, show) = Receive(s, e)
      BY <3>2, <3>3, ShowToolFacts
    <3> HIDE DEF show
    <3>5. /\ show.target = "messages" /\ ~show.textOpen /\ show.blockOpened /\ show.blockIndex = n
      BY <3>1, <3>2, <3>3, <3>4 DEF Only, InMessages, IsAdapter, AdapterFields
    <3>6. Only(a, show, MessagesFields)
      BY <3>1, <3>2, <3>4 DEF Only, MessagesFields
    <3>7. CallOpen(a, show, i)
      BY <3>3, <3>4 DEF CallOpen, Shown
    <3>8. Grown(s, Receive(s, e), item) /\ item.open /\ OnePart(item, "arguments")
      <4>1. item.parts = parts
        BY DEF Item
      <4>2. item.open /\ OnePart(item, "arguments") /\ AreParts(parts)
        BY <4>1, OnePartOf
      <4>3. Follows(s)
        BY <3>1 DEF InMessages, MessagesLink
      <4> HIDE DEF parts, s
      <4> QED BY <3>2, <4>2, <4>3, ReadAdded
    <3>9. /\ OpenTools(show) = OpenTools(p) \cup {i}
          /\ \A j \in OpenTools(p) : show.tools[j].index = p.tools[j].index
      <4>1. i \notin OpenTools(p)
        BY <2>2, <3>3 DEF OpenTools
      <4> QED BY <3>3, <3>4, <4>1 DEF Shown, OpenTools
    <3>10. show.tools[i].index = Len(s.items)
      BY <3>2, <3>4 DEF Shown
    <3>11. MessagesLink(show, Receive(s, e))
      <4>1. MessagesLink(p, s)
        BY <3>1 DEF InMessages
      <4> HIDE DEF s, e, item, n
      <4> QED BY <3>1, <3>2, <3>5, <3>8, <3>9, <3>10, <4>1, OpenMessages
    <3>12. r = show
      BY <2>2
    <3> HIDE DEF r
    <3> QED BY <3>4, <3>5, <3>6, <3>7, <3>9, <3>11, <3>12 DEF InMessages
  <2> QED BY <2>1, <2>2
<1> HIDE DEF r
<1>3. CASE t.args = <<>>
  <2>1. b = r
    BY <1>3 DEF FillTool
  <2> QED BY <1>1, <1>2, <2>1
<1>4. CASE t.args # <<>>
  <2> DEFINE m == r.tools[i].index
  <2>1. b = Write(r, Delta(m, 0, "arguments", t.args))
    BY <1>4 DEF FillTool
  <2>2. OpenAt(Seen(c, r), m) /\ OnePart(Seen(c, r).items[m + 1], "arguments")
    BY <1>2 DEF InMessages, MessagesLink
  <2>3. InMessages(c, b) /\ Only(r, b, {"out"})
    <3> HIDE DEF m, b
    <3> QED BY <1>2, <2>1, <2>2, DeltaMessages
  <2> HIDE DEF b
  <2>4. b.tools = r.tools
    BY <1>2, <2>3 DEF Only, InMessages, IsAdapter, AdapterFields
  <2>5. Only(a, b, MessagesFields) /\ CallOpen(a, b, i)
    BY <1>2, <2>3, <2>4 DEF Only, MessagesFields, CallOpen
  <2> QED BY <1>1, <2>3, <2>5
<1> QED BY <1>3, <1>4

-----------------------------------------------------------------------------
(* An event of a search.                                                    *)

\* Other searches.
LEMMA SearchesChange ==
  ASSUME NEW a, IsAdapter(a), NEW searches, IsSeq(searches),
         \A i \in 1..Len(searches) : DOMAIN searches[i] = SearchFields,
         NEW b, Only(a, b, {"searches"}), b.searches = searches
  PROVE  IsAdapter(b) /\ \A c : Seen(c, b) = Seen(c, a)
<1>1. b.out = a.out /\ b.tools = a.tools /\ b.thought = a.thought /\ b.message = a.message
  BY DEF Only, IsAdapter, AdapterFields
<1> QED BY <1>1 DEF IsAdapter, Only, Seen

(* The row of one search is replaced, nothing else.                         *)
LEMMA SearchChanges ==
  ASSUME NEW a, IsAdapter(a), NEW i \in 1..Len(a.searches), NEW row, DOMAIN row = SearchFields,
         NEW b, b = [a EXCEPT !.searches = [a.searches EXCEPT ![i] = row]]
  PROVE  /\ IsAdapter(b) /\ Only(a, b, {"searches"}) /\ \A c : Seen(c, b) = Seen(c, a)
         /\ Len(b.searches) = Len(a.searches) /\ b.searches[i] = row
         /\ \A j \in 1..Len(a.searches) : j # i => b.searches[j] = a.searches[j]
<1> DEFINE searches == [a.searches EXCEPT ![i] = row]
<1>1. Only(a, b, {"searches"}) /\ b.searches = searches
  BY DEF Only, IsAdapter, AdapterFields
<1>2. /\ IsSeq(searches) /\ Len(searches) = Len(a.searches) /\ searches[i] = row
      /\ \A j \in 1..Len(a.searches) : j # i => searches[j] = a.searches[j]
  BY Replaced DEF IsAdapter
<1> HIDE DEF searches
<1>3. \A j \in 1..Len(searches) : DOMAIN searches[j] = SearchFields
  BY <1>2 DEF IsAdapter
<1> QED BY <1>1, <1>2, <1>3, SearchesChange

\* From a to b the search of key is at i, and a new one is at its beginning.
SearchKnown(a, b, i, key) ==
  /\ IsAdapter(b) /\ Only(a, b, {"searches"}) /\ \A c : Seen(c, b) = Seen(c, a)
  /\ i \in 1..Len(b.searches)
  /\ \A j \in 1..Len(a.searches) : b.searches[j] = a.searches[j]
  /\ \/ b.searches = a.searches
     \/ /\ Len(b.searches) = Len(a.searches) + 1
        /\ ~b.searches[Len(b.searches)].added /\ ~b.searches[Len(b.searches)].completed

(* Afterwards the search has a row, the one its key finds.                  *)
LEMMA EnsureSearchFacts ==
  ASSUME NEW a, IsAdapter(a), NEW s
  PROVE  LET b == EnsureSearch(a, s) IN SearchKnown(a, b, Position(b.searches, s.key), s.key)
<1> DEFINE b == EnsureSearch(a, s)
           i == Position(b.searches, s.key)
           row == [key |-> s.key, added |-> FALSE, searching |-> FALSE, completed |-> FALSE, index |-> 0]
           searches == Append(a.searches, row)
<1>1. CASE Position(a.searches, s.key) # 0
  <2>1. b = a
    BY <1>1 DEF EnsureSearch
  <2> HIDE DEF b
  <2>2. i \in 1..Len(a.searches)
    BY <1>1, <2>1, PositionFacts DEF IsAdapter
  <2> HIDE DEF i
  <2>3. SearchKnown(a, b, i, s.key)
    BY <2>1, <2>2, OnlySelf DEF SearchKnown
  <2> QED BY <2>3 DEF b, i
<1>2. CASE Position(a.searches, s.key) = 0
  <2>1. b = [a EXCEPT !.searches = searches]
    BY <1>2 DEF EnsureSearch
  <2>2. DOMAIN row = SearchFields /\ row.key = s.key /\ ~row.added /\ ~row.completed
    BY DEF SearchFields
  <2> HIDE DEF row, b
  <2>3. Only(a, b, {"searches"}) /\ b.searches = searches
    BY <2>1 DEF Only, IsAdapter, AdapterFields
  <2>4. /\ IsSeq(searches) /\ Len(searches) = Len(a.searches) + 1 /\ searches[Len(a.searches) + 1] = row
        /\ \A j \in 1..Len(a.searches) : searches[j] = a.searches[j]
    BY Appended DEF IsAdapter
  <2>5. Len(a.searches) \in Nat
    BY SeqFacts DEF IsAdapter
  <2> HIDE DEF searches
  <2>6. \A j \in 1..Len(searches) : DOMAIN searches[j] = SearchFields
    <3> SUFFICES ASSUME NEW j \in 1..Len(searches) PROVE DOMAIN searches[j] = SearchFields
      OBVIOUS
    <3>1. j \in 1..Len(a.searches) \/ j = Len(a.searches) + 1
      BY <2>4, <2>5
    <3> QED BY <2>2, <2>4, <3>1 DEF IsAdapter
  <2>7. IsAdapter(b) /\ \A c : Seen(c, b) = Seen(c, a)
    BY <2>3, <2>4, <2>6, SearchesChange
  <2>8. i \in 1..Len(searches)
    <3>1. Len(a.searches) + 1 \in 1..Len(searches) /\ searches[Len(a.searches) + 1].key = s.key
      BY <2>2, <2>4, <2>5
    <3> QED BY <2>3, <2>4, <3>1, PositionFacts
  <2> HIDE DEF i
  <2>9. SearchKnown(a, b, i, s.key)
    BY <2>2, <2>3, <2>4, <2>5, <2>7, <2>8 DEF SearchKnown
  <2> QED BY <2>9 DEF b, i
<1> QED BY <1>1, <1>2

(* A search in a Messages stream: two blocks, each opened and closed,       *)
(* behind what was open.                                                    *)
LEMMA MessagesSearchFacts ==
  ASSUME NEW c, NEW a, InMessages(c, a), NEW i \in 1..Len(a.searches)
  PROVE  MessagesStep(c, a, MessagesSearch(a, i))
<1>1. CASE a.searches[i].completed
  BY <1>1, MessagesSelf DEF MessagesSearch
<1>2. CASE ~a.searches[i].completed
  <2> DEFINE key == a.searches[i].key
             p == CloseBlock(a)
             q == CloseToolBlocks(p)
             x == Box(q, "search", key)
             y == Box(x, "result", key)
             row == [y.searches[i] EXCEPT !.completed = TRUE]
             w == [y EXCEPT !.searches[i].completed = TRUE]
             b == [y EXCEPT !.searches = [y.searches EXCEPT ![i] = row]]
  <2>1. MessagesSearch(a, i) = w
    BY <1>2 DEF MessagesSearch
  <2> HIDE DEF key
  <2>2. InMessages(c, p) /\ ~p.textOpen /\ Only(a, p, {"out", "textOpen"})
    BY CloseBlockFacts
  <2> HIDE DEF p
  <2>3. InMessages(c, q) /\ Only(p, q, {"out", "tools"}) /\ SameCalls(p, q)
    BY <2>2, CloseToolBlocksFacts
  <2> HIDE DEF q
  <2>4. p.tools = a.tools /\ ~q.textOpen
    BY <2>2, <2>3 DEF Only, InMessages, IsAdapter, AdapterFields
  <2>5. InMessages(c, x) /\ ~x.textOpen /\ Only(q, x, {"out", "blockIndex", "blockOpened"})
    BY <2>3, <2>4, BoxFacts
  <2> HIDE DEF x
  <2>6. InMessages(c, y) /\ ~y.textOpen /\ Only(x, y, {"out", "blockIndex", "blockOpened"})
    BY <2>5, BoxFacts
  <2> HIDE DEF y
  <2>7. y.tools = q.tools /\ y.searches = a.searches
    BY <2>2, <2>3, <2>5, <2>6 DEF Only, InMessages, IsAdapter, AdapterFields
  <2>8. w = b
    OBVIOUS
  <2>9. DOMAIN row = SearchFields
    BY <2>6, <2>7 DEF InMessages, IsAdapter
  <2> HIDE DEF w, row
  <2>10. IsAdapter(b) /\ Only(y, b, {"searches"}) /\ Seen(c, b) = Seen(c, y)
    BY <2>6, <2>7, <2>9, SearchChanges DEF InMessages
  <2> HIDE DEF b
  <2>11. MessagesLink(b, Seen(c, b))
    <3>1. Only(y, b, AdapterFields \ {"tools", "textOpen", "blockIndex", "blockOpened"})
      BY <2>10, OnlyMore DEF AdapterFields
    <3> QED BY <2>6, <2>10, <3>1, MessagesLinkSame DEF InMessages, IsAdapter
  <2>12. b.target = "messages" /\ b.tools = y.tools
    BY <2>6, <2>10 DEF Only, InMessages, IsAdapter, AdapterFields
  <2>13. Only(a, b, MessagesFields)
    BY <2>2, <2>3, <2>5, <2>6, <2>10 DEF Only, MessagesFields
  <2>14. SameCalls(a, b)
    BY <2>3, <2>4, <2>7, <2>12 DEF SameCalls
  <2> QED BY <2>1, <2>8, <2>10, <2>11, <2>12, <2>13, <2>14 DEF MessagesStep, InMessages
<1> QED BY <1>1, <1>2

(* An event of a search is one a Messages client follows.                   *)
LEMMA MessagesSearches ==
  ASSUME NEW c, NEW a, InMessages(c, a), NEW s
  PROVE  MessagesStep(c, a, SearchEvent(a, s))
<1> DEFINE p == EnsureSearch(a, s)
           i == Position(p.searches, s.key)
<1>1. SearchEvent(a, s) = CASE p.target = "messages" /\ s.stage = "done" -> MessagesSearch(p, i)
                            [] p.target = "responses" -> ResponsesSearch(p, i, s.stage)
                            [] OTHER -> p
  BY DEF SearchEvent
<1>2. SearchKnown(a, p, i, s.key)
  BY EnsureSearchFacts DEF InMessages
<1> HIDE DEF p, i
<1>3. MessagesStep(c, a, p)
  <2>1. IsAdapter(p) /\ Seen(c, p) = Seen(c, a) /\ Only(a, p, {"searches"})
    BY <1>2 DEF SearchKnown
  <2>2. MessagesLink(p, Seen(c, p))
    <3>1. Only(a, p, AdapterFields \ {"tools", "textOpen", "blockIndex", "blockOpened"})
      BY <2>1, OnlyMore DEF AdapterFields
    <3> QED BY <2>1, <3>1, MessagesLinkSame DEF InMessages, IsAdapter
  <2>3. p.target = "messages" /\ p.tools = a.tools
    BY <2>1 DEF Only, InMessages, IsAdapter, AdapterFields
  <2>4. Only(a, p, MessagesFields)
    BY <2>1, OnlyMore DEF MessagesFields
  <2> QED BY <2>1, <2>2, <2>3, <2>4, SameCallsSelf DEF MessagesStep, InMessages
<1>4. SearchEvent(a, s) = IF s.stage = "done" THEN MessagesSearch(p, i) ELSE p
  BY <1>1, <1>3 DEF MessagesStep, InMessages
<1>5. MessagesStep(c, p, MessagesSearch(p, i))
  BY <1>2, <1>3, MessagesSearchFacts DEF SearchKnown, MessagesStep
<1> QED BY <1>3, <1>4, <1>5, MessagesStepTwice

(* The end of the stream.                                                   *)
LEMMA MessagesEnd ==
  ASSUME NEW c, NEW a, InMessages(c, a)
  PROVE  LET b == WriteDone(a)
         IN  IsAdapter(b) /\ Ended(Seen(c, b)) /\ Only(a, b, MessagesFields) /\ SameCalls(a, b)
<1> DEFINE p == CloseBlock(a)
           q == CloseToolBlocks(p)
           b == Write(q, Terminal(<<>>))
           s == Seen(c, q)
<1>1. WriteDone(a) = b
  BY DEF WriteDone, InMessages
<1>2. InMessages(c, p) /\ ~p.textOpen /\ Only(a, p, {"out", "textOpen"})
  BY CloseBlockFacts
<1> HIDE DEF p
<1>3. InMessages(c, q) /\ Only(p, q, {"out", "tools"}) /\ SameCalls(p, q) /\ OpenTools(q) = {}
  BY <1>2, CloseToolBlocksFacts
<1> HIDE DEF q
<1>4. p.tools = a.tools /\ ~q.textOpen
  BY <1>2, <1>3 DEF Only, InMessages, IsAdapter, AdapterFields
<1>5. Follows(s) /\ \A k \in 1..Len(s.items) : ~s.items[k].open
  BY <1>3, <1>4 DEF InMessages, MessagesLink
<1>6. IsAdapter(b) /\ Only(q, b, {"out"}) /\ Seen(c, b) = Receive(s, Terminal(<<>>))
  BY <1>3, Writes DEF InMessages
<1>7. Ended(Receive(s, Terminal(<<>>)))
  <2> HIDE DEF s
  <2> QED BY <1>5, ReadEnd DEF Ended
<1> HIDE DEF b, s
<1>8. Only(a, b, MessagesFields)
  BY <1>2, <1>3, <1>6 DEF Only, MessagesFields
<1>9. SameCalls(a, b)
  <2>1. b.tools = q.tools
    BY <1>3, <1>6 DEF Only, InMessages, IsAdapter, AdapterFields
  <2> QED BY <1>3, <1>4, <2>1 DEF SameCalls
<1> QED BY <1>1, <1>6, <1>7, <1>8, <1>9

-----------------------------------------------------------------------------
(* Responses.                                                               *)

\* From c to d nothing changes but item n, which may be new.
MovedAt(c, d, n) ==
  /\ Follows(d)
  /\ n \in Nat /\ n < Len(d.items) /\ n <= Len(c.items)
  /\ Len(c.items) <= Len(d.items)
  /\ \A k \in 1..Len(d.items) : k # n + 1 => k \in 1..Len(c.items) /\ d.items[k] = c.items[k]
  /\ n < Len(c.items) => d.items[n + 1].kind = c.items[n + 1].kind

\* What a holds open at another index than n is what b does.
ThoughtElsewhere(a, b, n) ==
  /\ Thinking(b) /\ b.thought.index # n => Thinking(a) /\ b.thought = a.thought
  /\ Thinking(a) /\ a.thought.index # n => Thinking(b) /\ b.thought = a.thought
MessageElsewhere(a, b, n) ==
  /\ Speaking(b) /\ b.message.index # n => Speaking(a) /\ b.message = a.message
  /\ Speaking(a) /\ a.message.index # n => Speaking(b) /\ b.message = a.message
ToolsElsewhere(a, b, n) ==
  /\ \A i \in OpenTools(b) : b.tools[i].index # n =>
       i \in OpenTools(a) /\ b.tools[i].index = a.tools[i].index /\ b.tools[i].args = a.tools[i].args
  /\ \A i \in OpenTools(a) : a.tools[i].index # n => i \in OpenTools(b) /\ b.tools[i].index = a.tools[i].index
SearchesElsewhere(a, b, n) ==
  /\ \A i \in LiveSearches(b) : b.searches[i].index # n => i \in LiveSearches(a) /\ b.searches[i].index = a.searches[i].index
  /\ \A i \in LiveSearches(a) : a.searches[i].index # n => i \in LiveSearches(b) /\ b.searches[i].index = a.searches[i].index

\* What b holds open at n.
ThoughtAt(b, item, n, heard) ==
  Thinking(b) /\ b.thought.index = n => item.open /\ item.kind = "reasoning" /\ item.parts = <<Part("reasoning", heard)>>
MessageAt(b, item, n) ==
  Speaking(b) /\ b.message.index = n => item.open /\ item.kind = "message" /\ item.parts = b.message.content
ToolsAt(b, item, n, x, told) ==
  /\ \A i \in OpenTools(b) : b.tools[i].index = n => item.open /\ item.kind = "tool" /\ Given(b.tools[i], item.parts, i = x, told)
  /\ \A i, j \in OpenTools(b) : b.tools[i].index = n /\ b.tools[j].index = n => i = j
SearchesAt(b, item, n) ==
  /\ \A i \in LiveSearches(b) : b.searches[i].index = n => item.open /\ item.kind = "search"
  /\ \A i, j \in LiveSearches(b) : b.searches[i].index = n /\ b.searches[j].index = n => i = j

HeldAt(b, n) ==
  \/ Thinking(b) /\ b.thought.index = n
  \/ Speaking(b) /\ b.message.index = n
  \/ \E i \in OpenTools(b) : b.tools[i].index = n
  \/ \E i \in LiveSearches(b) : b.searches[i].index = n

\* The steps of searches are taken in their order.
Staged(b) == \A i \in 1..Len(b.searches) : b.searches[i].completed => b.searches[i].searching /\ b.searches[i].added

(* A step of the stream at one item.                                        *)
LEMMA ResponsesMoves ==
  ASSUME NEW a, NEW c, NEW heard, NEW x, NEW told, ResponsesLink(a, c, heard, x, told),
         NEW b, NEW d, NEW n, MovedAt(c, d, n), NEW h, NEW y, NEW s,
         b.nextIndex = Len(d.items),
         ThoughtElsewhere(a, b, n), MessageElsewhere(a, b, n), ToolsElsewhere(a, b, n), SearchesElsewhere(a, b, n),
         ThoughtAt(b, d.items[n + 1], n, h), MessageAt(b, d.items[n + 1], n), ToolsAt(b, d.items[n + 1], n, y, s),
         SearchesAt(b, d.items[n + 1], n),
         d.items[n + 1].open => HeldAt(b, n),
         Thinking(b) /\ b.thought.index # n => h = heard,
         \A i \in OpenTools(b) : b.tools[i].index # n => (i # x /\ i # y) \/ (x = y /\ told = s),
         Staged(b), IsSeq(h), ~b.thought.started => h = <<>>,
         b.thought.started => \/ a.thought.started /\ b.thought.index = a.thought.index
                              \/ b.thought.index = n /\ d.items[n + 1].kind = "reasoning"
  PROVE  ResponsesLink(b, d, h, y, s)
<1>1. /\ n \in Nat /\ Len(c.items) \in Nat /\ Len(d.items) \in Nat /\ n + 1 \in 1..Len(d.items)
      /\ Follows(d) /\ Follows(c)
  BY SeqFacts DEF MovedAt, ResponsesLink, Follows
<1>2. \A m : m # n /\ OpenAt(c, m) => OpenAt(d, m) /\ d.items[m + 1] = c.items[m + 1]
  <2> SUFFICES ASSUME NEW m, m # n, OpenAt(c, m) PROVE OpenAt(d, m) /\ d.items[m + 1] = c.items[m + 1]
    OBVIOUS
  <2>1. m \in Nat /\ m + 1 \in 1..Len(d.items) /\ m + 1 # n + 1
    BY <1>1 DEF OpenAt, MovedAt
  <2> QED BY <2>1 DEF MovedAt, OpenAt
<1>3. \A m : m = n /\ d.items[n + 1].open => OpenAt(d, m)
  BY <1>1 DEF OpenAt
<1>4. b.thought.started => b.thought.index \in 0..(Len(d.items) - 1) /\ d.items[b.thought.index + 1].kind = "reasoning"
  <2>1. CASE b.thought.started /\ b.thought.index = n /\ d.items[n + 1].kind = "reasoning"
    BY <1>1, <2>1
  <2>2. CASE b.thought.started /\ a.thought.started /\ b.thought.index = a.thought.index
    <3> DEFINE m == a.thought.index
    <3>1. m \in 0..(Len(c.items) - 1) /\ c.items[m + 1].kind = "reasoning"
      BY <2>2 DEF ResponsesLink
    <3>2. CASE m = n
      BY <1>1, <2>2, <3>1, <3>2 DEF MovedAt
    <3>3. CASE m # n
      <4> HIDE DEF m
      <4>3. Len(c.items) <= Len(d.items)
        BY DEF MovedAt
      <4>4. m \in 0..(Len(c.items) - 1)
        BY <3>1
      <4>1. m \in Nat /\ m + 1 # n + 1 /\ m + 1 \in 1..Len(d.items) /\ m \in 0..(Len(d.items) - 1)
        BY <1>1, <3>3, <4>3, <4>4
      <4>2. d.items[m + 1] = c.items[m + 1]
        BY <4>1 DEF MovedAt
      <4> QED BY <2>2, <3>1, <4>1, <4>2 DEF m
    <3> QED BY <3>2, <3>3
  <2> QED BY <2>1, <2>2
<1>5. Thinking(b) => OpenAt(d, b.thought.index) /\ d.items[b.thought.index + 1].parts = <<Part("reasoning", h)>>
  <2> SUFFICES ASSUME Thinking(b)
               PROVE  /\ OpenAt(d, b.thought.index)
                      /\ d.items[b.thought.index + 1].parts = <<Part("reasoning", h)>>
    OBVIOUS
  <2>1. CASE b.thought.index = n
    BY <1>3, <2>1 DEF ThoughtAt
  <2>2. CASE b.thought.index # n
    <3>1. Thinking(a) /\ b.thought = a.thought /\ h = heard
      BY <2>2 DEF ThoughtElsewhere
    <3>2. OpenAt(c, a.thought.index) /\ c.items[a.thought.index + 1].parts = <<Part("reasoning", heard)>>
      BY <3>1 DEF ResponsesLink
    <3> QED BY <1>2, <2>2, <3>1, <3>2
  <2> QED BY <2>1, <2>2
<1>6. Speaking(b) => /\ OpenAt(d, b.message.index)
                     /\ d.items[b.message.index + 1].kind = "message"
                     /\ d.items[b.message.index + 1].parts = b.message.content
  <2> SUFFICES ASSUME Speaking(b)
               PROVE  /\ OpenAt(d, b.message.index)
                      /\ d.items[b.message.index + 1].kind = "message"
                      /\ d.items[b.message.index + 1].parts = b.message.content
    OBVIOUS
  <2>1. CASE b.message.index = n
    BY <1>3, <2>1 DEF MessageAt
  <2>2. CASE b.message.index # n
    <3>1. Speaking(a) /\ b.message = a.message
      BY <2>2 DEF MessageElsewhere
    <3>2. /\ OpenAt(c, a.message.index) /\ c.items[a.message.index + 1].kind = "message"
          /\ c.items[a.message.index + 1].parts = a.message.content
      BY <3>1 DEF ResponsesLink
    <3> QED BY <1>2, <2>2, <3>1, <3>2
  <2> QED BY <2>1, <2>2
<1>7. ASSUME NEW i \in OpenTools(b)
      PROVE  /\ OpenAt(d, b.tools[i].index)
             /\ d.items[b.tools[i].index + 1].kind = "tool"
             /\ Given(b.tools[i], d.items[b.tools[i].index + 1].parts, i = y, s)
  <2>1. CASE b.tools[i].index = n
    BY <1>3, <2>1 DEF ToolsAt
  <2>2. CASE b.tools[i].index # n
    <3> DEFINE m == a.tools[i].index
    <3>1. i \in OpenTools(a) /\ b.tools[i].index = m /\ b.tools[i].args = a.tools[i].args
      BY <2>2 DEF ToolsElsewhere
    <3>2. OpenAt(c, m) /\ c.items[m + 1].kind = "tool" /\ Given(a.tools[i], c.items[m + 1].parts, i = x, told)
      BY <3>1 DEF ResponsesLink
    <3>3. OpenAt(d, m) /\ d.items[m + 1] = c.items[m + 1]
      BY <1>2, <2>2, <3>1, <3>2
    <3>4. Given(b.tools[i], d.items[m + 1].parts, i = y, s)
      BY <2>2, <3>1, <3>2, <3>3 DEF Given
    <3> QED BY <3>1, <3>2, <3>3, <3>4
  <2> QED BY <2>1, <2>2
<1>8. \A i, j \in OpenTools(b) : b.tools[i].index = b.tools[j].index => i = j
  BY DEF ToolsElsewhere, ToolsAt, ResponsesLink
<1>9. ASSUME NEW i \in LiveSearches(b)
      PROVE  OpenAt(d, b.searches[i].index) /\ d.items[b.searches[i].index + 1].kind = "search"
  <2> DEFINE m == b.searches[i].index
  <2>1. CASE m = n
    BY <1>3, <2>1 DEF SearchesAt
  <2>2. CASE m # n
    <3>1. OpenAt(c, m) /\ c.items[m + 1].kind = "search"
      BY <2>2 DEF SearchesElsewhere, ResponsesLink
    <3> HIDE DEF m
    <3> QED BY <1>2, <2>2, <3>1 DEF m
  <2> QED BY <2>1, <2>2
<1>10. \A i, j \in LiveSearches(b) : b.searches[i].index = b.searches[j].index => i = j
  BY DEF SearchesElsewhere, SearchesAt, ResponsesLink
<1>11. ASSUME NEW k \in 1..Len(d.items), d.items[k].open
       PROVE  \/ Thinking(b) /\ k = b.thought.index + 1
              \/ Speaking(b) /\ k = b.message.index + 1
              \/ \E i \in OpenTools(b) : k = b.tools[i].index + 1
              \/ \E i \in LiveSearches(b) : k = b.searches[i].index + 1
  <2>1. CASE k = n + 1
    BY <1>1, <1>11, <2>1 DEF HeldAt
  <2>2. CASE k # n + 1
    <3>1. k \in 1..Len(c.items) /\ c.items[k].open
      BY <1>11, <2>2 DEF MovedAt
    <3>2. \/ Thinking(a) /\ k = a.thought.index + 1
          \/ Speaking(a) /\ k = a.message.index + 1
          \/ \E i \in OpenTools(a) : k = a.tools[i].index + 1
          \/ \E i \in LiveSearches(a) : k = a.searches[i].index + 1
      BY <3>1 DEF ResponsesLink
    <3>3. CASE Thinking(a) /\ k = a.thought.index + 1
      BY <2>2, <3>3 DEF ThoughtElsewhere
    <3>4. CASE Speaking(a) /\ k = a.message.index + 1
      BY <2>2, <3>4 DEF MessageElsewhere
    <3>5. CASE \E i \in OpenTools(a) : k = a.tools[i].index + 1
      BY <2>2, <3>5 DEF ToolsElsewhere
    <3>6. CASE \E i \in LiveSearches(a) : k = a.searches[i].index + 1
      BY <2>2, <3>6 DEF SearchesElsewhere
    <3> QED BY <3>2, <3>3, <3>4, <3>5, <3>6
  <2> QED BY <2>1, <2>2
<1> QED BY <1>1, <1>4, <1>5, <1>6, <1>7, <1>8, <1>9, <1>10, <1>11 DEF ResponsesLink, Staged

InResponses(c, a, heard, x, told) ==
  IsAdapter(a) /\ a.target = "responses" /\ ResponsesLink(a, Seen(c, a), heard, x, told)

(* The relation with a Responses client depends on what is open and on the  *)
(* next index only.                                                         *)
LEMMA ResponsesLinkOf ==
  ASSUME NEW a, NEW b, b.tools = a.tools, b.searches = a.searches, b.thought = a.thought,
         b.message = a.message, b.nextIndex = a.nextIndex,
         NEW c, NEW heard, NEW x, NEW told, ResponsesLink(a, c, heard, x, told)
  PROVE  ResponsesLink(b, c, heard, x, told)
<1>1. /\ OpenTools(b) = OpenTools(a) /\ LiveSearches(b) = LiveSearches(a)
      /\ (Thinking(b) <=> Thinking(a)) /\ (Speaking(b) <=> Speaking(a))
  BY DEF OpenTools, LiveSearches, Thinking, Speaking
<1> QED BY <1>1 DEF ResponsesLink

(* The same of a step that leaves those fields alone.                       *)
LEMMA ResponsesLinkSame ==
  ASSUME NEW a, DOMAIN a = AdapterFields, NEW b,
         Only(a, b, AdapterFields \ {"tools", "searches", "thought", "message", "nextIndex"}),
         NEW c, NEW heard, NEW x, NEW told, ResponsesLink(a, c, heard, x, told)
  PROVE  ResponsesLink(b, c, heard, x, told)
<1>1. /\ b.tools = a.tools /\ b.searches = a.searches /\ b.thought = a.thought
      /\ b.message = a.message /\ b.nextIndex = a.nextIndex
  BY DEF Only, AdapterFields
<1> QED BY <1>1, ResponsesLinkOf

(* An item more is a step at the next index.                                *)
LEMMA MovedGrown ==
  ASSUME NEW c, Follows(c), NEW d, NEW item, Grown(c, d, item)
  PROVE  /\ MovedAt(c, d, Len(c.items)) /\ Len(d.items) = Len(c.items) + 1 /\ d.items[Len(c.items) + 1] = item
<1>1. Len(c.items) \in Nat
  BY SeqFacts DEF Follows
<1> QED BY <1>1 DEF Grown, MovedAt

(* An item that is closed.                                                  *)
LEMMA ShutItem ==
  ASSUME NEW c, Follows(c), NEW n, OpenAt(c, n), NEW parts, parts \in {Unclaimed, c.items[n + 1].parts}
  PROVE  LET d == Receive(c, Done(n, parts))
         IN  MovedAt(c, d, n) /\ Len(d.items) = Len(c.items) /\ ~d.items[n + 1].open
<1> DEFINE item == [c.items[n + 1] EXCEPT !.open = FALSE]
           d == Receive(c, Done(n, parts))
<1>1. Len(c.items) \in Nat /\ n \in Nat /\ n < Len(c.items) /\ IsItem(c.items[n + 1])
  BY SeqFacts DEF OpenAt, Follows
<1>2. ~item.open /\ item.kind = c.items[n + 1].kind
  BY <1>1 DEF IsItem, ItemFields
<1>3. Turned(c, d, n, item)
  BY ReadDone
<1> HIDE DEF item, d
<1>4. MovedAt(c, d, n) /\ Len(d.items) = Len(c.items) /\ d.items[n + 1] = item
  BY <1>1, <1>2, <1>3 DEF Turned, MovedAt
<1> QED BY <1>2, <1>4 DEF d

(* Closing the item at one index keeps the relation for what is open at     *)
(* the others.                                                              *)
LEMMA ShutResponses ==
  ASSUME NEW a, NEW c, NEW heard, NEW x, NEW told, ResponsesLink(a, c, heard, x, told),
         NEW n, NEW d, MovedAt(c, d, n), Len(d.items) = Len(c.items), ~d.items[n + 1].open,
         NEW b, b.nextIndex = a.nextIndex,
         ThoughtElsewhere(a, b, n), MessageElsewhere(a, b, n), ToolsElsewhere(a, b, n), SearchesElsewhere(a, b, n),
         ~HeldAt(b, n), Staged(b),
         b.thought.started = a.thought.started, b.thought.index = a.thought.index
  PROVE  ResponsesLink(b, d, heard, x, told)
<1> DEFINE item == d.items[n + 1]
<1>5. /\ ThoughtAt(b, item, n, heard) /\ MessageAt(b, item, n) /\ ToolsAt(b, item, n, x, told)
      /\ SearchesAt(b, item, n)
  BY DEF HeldAt, ThoughtAt, MessageAt, ToolsAt, SearchesAt
<1>6. b.nextIndex = Len(d.items) /\ IsSeq(heard) /\ (~b.thought.started => heard = <<>>)
  BY DEF ResponsesLink
<1>7. \A i \in OpenTools(b) : b.tools[i].index # n => (i # x /\ i # x) \/ (x = x /\ told = told)
  OBVIOUS
<1>8. Thinking(b) /\ b.thought.index # n => heard = heard
  OBVIOUS
<1>9. b.thought.started => \/ a.thought.started /\ b.thought.index = a.thought.index
                           \/ b.thought.index = n /\ d.items[n + 1].kind = "reasoning"
  OBVIOUS
<1>10. d.items[n + 1].open => HeldAt(b, n)
  OBVIOUS
<1> HIDE DEF item
<1> QED BY <1>5, <1>6, <1>7, <1>8, <1>9, <1>10, ResponsesMoves DEF item

(* The thought or the message may become another.                           *)
LEMMA AdapterChanges ==
  ASSUME NEW a, IsAdapter(a), NEW b, Only(a, b, AdapterFields \ {"out", "tools", "searches"}),
         DOMAIN b.thought = {"started", "done", "index"},
         DOMAIN b.message = {"started", "done", "index", "content"}, AreParts(b.message.content)
  PROVE  /\ IsAdapter(b) /\ \A c : Seen(c, b) = Seen(c, a)
         /\ b.tools = a.tools /\ b.searches = a.searches
<1>1. b.out = a.out /\ b.tools = a.tools /\ b.searches = a.searches
  BY DEF Only, IsAdapter, AdapterFields
<1> QED BY <1>1 DEF IsAdapter, Only, Seen

\* What a Responses client has open is held by one holder each.
LEMMA OneHolder ==
  ASSUME NEW a, NEW c, NEW heard, NEW x, NEW told, ResponsesLink(a, c, heard, x, told)
  PROVE  /\ Thinking(a) => /\ ~(Speaking(a) /\ a.message.index = a.thought.index)
                           /\ \A i \in OpenTools(a) : a.tools[i].index # a.thought.index
                           /\ \A i \in LiveSearches(a) : a.searches[i].index # a.thought.index
         /\ Speaking(a) => /\ \A i \in OpenTools(a) : a.tools[i].index # a.message.index
                           /\ \A i \in LiveSearches(a) : a.searches[i].index # a.message.index
         /\ \A i \in OpenTools(a), j \in LiveSearches(a) : a.tools[i].index # a.searches[j].index
         /\ Staged(a)
<1>1. Thinking(a) => c.items[a.thought.index + 1].kind = "reasoning"
  BY DEF ResponsesLink, Thinking
<1>2. Speaking(a) => c.items[a.message.index + 1].kind = "message"
  BY DEF ResponsesLink
<1>3. \A i \in OpenTools(a) : c.items[a.tools[i].index + 1].kind = "tool"
  BY DEF ResponsesLink
<1>4. \A i \in LiveSearches(a) : c.items[a.searches[i].index + 1].kind = "search"
  BY DEF ResponsesLink
<1>5. Staged(a)
  BY DEF ResponsesLink, Staged
<1> QED BY <1>1, <1>2, <1>3, <1>4, <1>5

(* The reasoning item is closed with the reasoning the client has heard.    *)
LEMMA CloseReasoningFacts ==
  ASSUME NEW c, NEW a, NEW x, NEW told, InResponses(c, a, a.reasoning, x, told)
  PROVE  LET b == CloseReasoning(a)
         IN  InResponses(c, b, a.reasoning, x, told) /\ ~Thinking(b) /\ Only(a, b, {"out", "thought", "parts"})
<1>1. CASE ~Thinking(a)
  <2>1. CloseReasoning(a) = a
    BY <1>1 DEF CloseReasoning, Thinking
  <2> QED BY <1>1, <2>1, OnlySelf
<1>2. CASE Thinking(a)
  <2> DEFINE n == a.thought.index
             e == Done(n, <<Part("reasoning", a.reasoning)>>)
             w == Write(a, e)
             s == Seen(c, a)
             d == Receive(s, e)
             entry == Entry("reasoning", 0, <<Part("reasoning", a.reasoning)>>)
             b == [w EXCEPT !.thought.done = TRUE, !.parts = Append(@, entry)]
  <2>1. CloseReasoning(a) = b
    BY <1>2 DEF CloseReasoning, Thinking
  <2>2. ResponsesLink(a, s, a.reasoning, x, told) /\ IsAdapter(a)
    BY DEF InResponses
  <2> HIDE DEF s
  <2>3. OpenAt(s, n) /\ s.items[n + 1].parts = <<Part("reasoning", a.reasoning)>> /\ Follows(s)
    BY <1>2, <2>2 DEF ResponsesLink
  <2>4. MovedAt(s, d, n) /\ Len(d.items) = Len(s.items) /\ ~d.items[n + 1].open
    BY <2>3, ShutItem
  <2>5. IsAdapter(w) /\ Only(a, w, {"out"}) /\ Seen(c, w) = d
    BY <2>2, Writes DEF s
  <2> HIDE DEF w, entry, d
  <2>6. /\ Only(w, b, {"thought", "parts"}) /\ DOMAIN b.thought = DOMAIN w.thought
        /\ b.thought.done /\ b.thought.started = w.thought.started /\ b.thought.index = w.thought.index
    BY <2>5 DEF IsAdapter, AdapterFields, Only
  <2> HIDE DEF b
  <2>7. b.message = w.message
    BY <2>5, <2>6 DEF IsAdapter, AdapterFields, Only
  <2>8. IsAdapter(b) /\ Seen(c, b) = d /\ b.tools = w.tools /\ b.searches = w.searches
    <3>1. Only(w, b, AdapterFields \ {"out", "tools", "searches"})
      BY <2>6, OnlyMore DEF AdapterFields
    <3>2. /\ DOMAIN w.thought = {"started", "done", "index"}
          /\ DOMAIN w.message = {"started", "done", "index", "content"}
          /\ AreParts(w.message.content)
      BY <2>5 DEF IsAdapter
    <3> QED BY <2>5, <2>6, <2>7, <3>1, <3>2, AdapterChanges
  <2>9. Only(a, b, {"out", "thought", "parts"})
    BY <2>5, <2>6 DEF Only
  <2>10. /\ b.message = a.message /\ b.tools = a.tools /\ b.searches = a.searches
         /\ b.nextIndex = a.nextIndex /\ b.target = a.target
         /\ w.thought = a.thought
    BY <2>2, <2>5, <2>9 DEF IsAdapter, AdapterFields, Only
  <2>11. ~Thinking(b) /\ b.thought.started = a.thought.started /\ b.thought.index = a.thought.index
    BY <2>6, <2>10 DEF Thinking
  <2>12. /\ ThoughtElsewhere(a, b, n) /\ MessageElsewhere(a, b, n) /\ ToolsElsewhere(a, b, n)
         /\ SearchesElsewhere(a, b, n)
    BY <2>10, <2>11 DEF ThoughtElsewhere, MessageElsewhere, ToolsElsewhere, SearchesElsewhere, Speaking, OpenTools, LiveSearches
  <2>13. ~HeldAt(b, n) /\ Staged(b)
    BY <1>2, <2>2, <2>10, <2>11, OneHolder DEF HeldAt, Staged, Speaking, OpenTools, LiveSearches
  <2>14. ResponsesLink(b, d, a.reasoning, x, told)
    <3> HIDE DEF n, e
    <3> QED BY <2>2, <2>3, <2>4, <2>10, <2>11, <2>12, <2>13, ShutResponses
  <2> QED BY <2>1, <2>8, <2>9, <2>10, <2>11, <2>14 DEF InResponses
<1> QED BY <1>1, <1>2

(* The message is closed with the parts the client has heard.               *)
LEMMA CloseMessageFacts ==
  ASSUME NEW c, NEW a, NEW heard, NEW x, NEW told, InResponses(c, a, heard, x, told)
  PROVE  LET b == CloseMessage(a)
         IN  InResponses(c, b, heard, x, told) /\ ~Speaking(b) /\ Only(a, b, {"out", "message", "parts"})
<1>1. CASE ~Speaking(a)
  <2>1. CloseMessage(a) = a
    BY <1>1 DEF CloseMessage, Speaking
  <2> QED BY <1>1, <2>1, OnlySelf
<1>2. CASE Speaking(a)
  <2> DEFINE n == a.message.index
             e == Done(n, a.message.content)
             w == Write(a, e)
             s == Seen(c, a)
             d == Receive(s, e)
             entry == Entry("message", n, a.message.content)
             b == [w EXCEPT !.message.done = TRUE, !.parts = Append(@, entry)]
  <2>1. CloseMessage(a) = b
    BY <1>2 DEF CloseMessage, Speaking
  <2>2. ResponsesLink(a, s, heard, x, told) /\ IsAdapter(a)
    BY DEF InResponses
  <2> HIDE DEF s
  <2>3. OpenAt(s, n) /\ s.items[n + 1].parts = a.message.content /\ Follows(s)
    BY <1>2, <2>2 DEF ResponsesLink
  <2>4. MovedAt(s, d, n) /\ Len(d.items) = Len(s.items) /\ ~d.items[n + 1].open
    BY <2>3, ShutItem
  <2>5. IsAdapter(w) /\ Only(a, w, {"out"}) /\ Seen(c, w) = d
    BY <2>2, Writes DEF s
  <2> HIDE DEF w, entry, d
  <2>6. /\ Only(w, b, {"message", "parts"}) /\ DOMAIN b.message = DOMAIN w.message
        /\ b.message.done /\ b.message.content = w.message.content
    BY <2>5 DEF IsAdapter, AdapterFields, Only
  <2> HIDE DEF b
  <2>7. b.thought = w.thought
    BY <2>5, <2>6 DEF IsAdapter, AdapterFields, Only
  <2>8. IsAdapter(b) /\ Seen(c, b) = d /\ b.tools = w.tools /\ b.searches = w.searches
    <3>1. Only(w, b, AdapterFields \ {"out", "tools", "searches"})
      BY <2>6, OnlyMore DEF AdapterFields
    <3>2. /\ DOMAIN w.thought = {"started", "done", "index"}
          /\ DOMAIN w.message = {"started", "done", "index", "content"}
          /\ AreParts(w.message.content)
      BY <2>5 DEF IsAdapter
    <3> QED BY <2>5, <2>6, <2>7, <3>1, <3>2, AdapterChanges
  <2>9. Only(a, b, {"out", "message", "parts"})
    BY <2>5, <2>6 DEF Only
  <2>10. /\ b.thought = a.thought /\ b.tools = a.tools /\ b.searches = a.searches
         /\ b.nextIndex = a.nextIndex /\ b.target = a.target
    BY <2>2, <2>5, <2>9 DEF IsAdapter, AdapterFields, Only
  <2>11. ~Speaking(b)
    BY <2>6 DEF Speaking
  <2>12. /\ ThoughtElsewhere(a, b, n) /\ MessageElsewhere(a, b, n) /\ ToolsElsewhere(a, b, n)
         /\ SearchesElsewhere(a, b, n)
    BY <2>10, <2>11 DEF ThoughtElsewhere, MessageElsewhere, ToolsElsewhere, SearchesElsewhere, Thinking, OpenTools, LiveSearches
  <2>13. ~HeldAt(b, n) /\ Staged(b)
    BY <1>2, <2>2, <2>10, <2>11, OneHolder DEF HeldAt, Staged, Thinking, OpenTools, LiveSearches
  <2>14. ResponsesLink(b, d, heard, x, told)
    <3> HIDE DEF n, e
    <3> QED BY <2>2, <2>3, <2>4, <2>10, <2>11, <2>12, <2>13, ShutResponses
  <2> QED BY <2>1, <2>8, <2>9, <2>10, <2>11, <2>14 DEF InResponses
<1> QED BY <1>1, <1>2

\* The item with that data as its one part.
More(item, kind, data) == [item EXCEPT !.parts = <<Part(kind, data)>>]

(* A delta for the one part of an item.                                     *)
LEMMA ReadMore ==
  ASSUME NEW c, Follows(c), NEW n, OpenAt(c, n), NEW kind, NEW data, c.items[n + 1].parts = <<Part(kind, data)>>,
         NEW more
  PROVE  /\ Turned(c, Receive(c, Delta(n, 0, kind, more)), n, More(c.items[n + 1], kind, data \o more))
         /\ More(c.items[n + 1], kind, data \o more).kind = c.items[n + 1].kind
         /\ More(c.items[n + 1], kind, data \o more).open
         /\ More(c.items[n + 1], kind, data \o more).parts = <<Part(kind, data \o more)>>
<1> DEFINE old == c.items[n + 1]
           d == Receive(c, Delta(n, 0, kind, more))
<1>1. /\ Len(old.parts) = 1 /\ old.parts[1].kind = kind /\ old.parts[1] = Part(kind, data)
      /\ n \in Nat /\ n + 1 \in 1..Len(c.items)
  <2>1. Len(c.items) \in Nat
    BY SeqFacts DEF Follows
  <2> QED BY <2>1 DEF Part, OpenAt
<1>2. PICK p \in Nat : p = 0 /\ p + 1 = 1
  OBVIOUS
<1>3. p < Len(old.parts) /\ old.parts[p + 1].kind = kind
  BY <1>1, <1>2
<1>4. Turned(c, Receive(c, Delta(n, p, kind, more)), n,
             Filled(old, p + 1, [old.parts[p + 1] EXCEPT !.data = @ \o more]))
  BY <1>3, ReadDelta
<1> DEFINE item == Filled(old, 1, [old.parts[1] EXCEPT !.data = @ \o more])
<1>5. Turned(c, d, n, item)
  BY <1>2, <1>4
<1>6. IsItem(old) /\ old.open
  BY <1>1 DEF Follows, OpenAt
<1> DEFINE new == More(old, kind, data \o more)
<1>7. item = new
  <2> DEFINE few == old.parts
             many == [few EXCEPT ![1] = [few[1] EXCEPT !.data = @ \o more]]
  <2>1. item = [old EXCEPT !.parts = many]
    BY DEF Filled
  <2>2. few = <<Part(kind, data)>>
    OBVIOUS
  <2> HIDE DEF few
  <2>3. many = <<Part(kind, data \o more)>>
    <3>1. few[1] = Part(kind, data)
      BY <2>2
    <3>2. [few[1] EXCEPT !.data = @ \o more] = Part(kind, data \o more)
      <4>1. \A other : [Part(kind, data) EXCEPT !.data = other] = Part(kind, other)
        BY DEF Part
      <4>2. Part(kind, data).data = data
        BY DEF Part
      <4> QED BY <3>1, <4>1, <4>2
    <3>3. \A q : [few EXCEPT ![1] = q] = <<q>>
      <4> HIDE DEF Part
      <4> QED BY <2>2
    <3> QED BY <3>2, <3>3
  <2> QED BY <2>1, <2>3 DEF More
<1>8. new.kind = old.kind /\ new.open /\ new.parts = <<Part(kind, data \o more)>>
  <2> HIDE DEF old
  <2> QED BY <1>6 DEF More, IsItem, ItemFields
<1> HIDE DEF item, new
<1>9. Turned(c, d, n, new)
  BY <1>5, <1>7
<1> QED BY <1>8, <1>9 DEF new

(* An item of one part is given more.                                       *)
LEMMA GivesMore ==
  ASSUME NEW c, NEW a, IsAdapter(a), Follows(Seen(c, a)), NEW n, OpenAt(Seen(c, a), n),
         NEW kind, NEW data, Seen(c, a).items[n + 1].parts = <<Part(kind, data)>>, NEW more,
         NEW b, b = Write(a, Delta(n, 0, kind, more)), NEW d, d = Seen(c, b)
  PROVE  /\ IsAdapter(b) /\ Only(a, b, {"out"}) /\ OpenAt(d, n)
         /\ MovedAt(Seen(c, a), d, n) /\ Len(d.items) = Len(Seen(c, a).items)
         /\ d.items[n + 1].kind = Seen(c, a).items[n + 1].kind
         /\ d.items[n + 1].parts = <<Part(kind, data \o more)>>
<1> DEFINE e == Delta(n, 0, kind, more)
           s == Seen(c, a)
           item == More(s.items[n + 1], kind, data \o more)
<1>1. IsAdapter(b) /\ Only(a, b, {"out"}) /\ d = Receive(s, e)
  BY Writes
<1>2. Follows(s) /\ OpenAt(s, n) /\ s.items[n + 1].parts = <<Part(kind, data)>>
  OBVIOUS
<1> HIDE DEF s
<1>3. /\ Turned(s, Receive(s, e), n, item) /\ item.kind = s.items[n + 1].kind /\ item.open
      /\ item.parts = <<Part(kind, data \o more)>>
  <2>1. ASSUME NEW old, Follows(old), OpenAt(old, n), old.items[n + 1].parts = <<Part(kind, data)>>
        PROVE  LET new == More(old.items[n + 1], kind, data \o more)
               IN  /\ Turned(old, Receive(old, Delta(n, 0, kind, more)), n, new)
                   /\ new.kind = old.items[n + 1].kind /\ new.open /\ new.parts = <<Part(kind, data \o more)>>
    BY ONLY <2>1, ReadMore
  <2> QED BY <1>2, <2>1
<1> HIDE DEF item, e
<1>4. n \in Nat /\ n < Len(s.items) /\ MovedAt(s, d, n) /\ Len(d.items) = Len(s.items) /\ d.items[n + 1] = item
  <2>1. n \in Nat /\ n < Len(s.items) /\ Len(s.items) \in Nat
    BY <1>2, SeqFacts DEF OpenAt, Follows
  <2> QED BY <1>1, <1>3, <2>1 DEF Turned, MovedAt
<1>5. OpenAt(d, n)
  BY <1>3, <1>4 DEF OpenAt
<1> QED BY <1>1, <1>3, <1>4, <1>5 DEF s

\* Nothing is late.
Linked(c, a, heard) == InResponses(c, a, heard, 0, <<>>)

(* A call is closed with the arguments the client has heard.                *)
LEMMA CloseToolFacts ==
  ASSUME NEW c, NEW a, NEW heard, Linked(c, a, heard), NEW i \in 1..Len(a.tools)
  PROVE  LET b == CloseTool(a, i)
         IN  /\ Linked(c, b, heard) /\ Only(a, b, {"out", "tools"})
             /\ SameCalls(a, b) /\ OpenTools(b) = OpenTools(a) \ {i}
<1> DEFINE n == a.tools[i].index
           tool == a.tools[i]
<1>1. CASE ~a.tools[i].open
  <2>1. CloseTool(a, i) = a
    BY <1>1 DEF CloseTool
  <2> QED BY <1>1, <2>1, OnlySelf DEF SameCalls, OpenTools
<1>2. CASE a.tools[i].open
  <2> DEFINE args == Arguments(tool)
             whole == IF tool.args # <<>> THEN a ELSE Write(a, Delta(n, 0, "arguments", NoArguments))
             e == Done(n, <<Part("arguments", args)>>)
             w == Write(whole, e)
             b == [w EXCEPT !.tools[i].open = FALSE]
             s == Seen(c, whole)
  <2>1. CloseTool(a, i) = b
    BY <1>2 DEF CloseTool
  <2>2. i \in OpenTools(a) /\ ResponsesLink(a, Seen(c, a), heard, 0, <<>>) /\ i # 0 /\ IsAdapter(a)
    BY <1>2 DEF OpenTools, Linked, InResponses
  <2>3. /\ Seen(c, a).items[n + 1].parts = <<Part("arguments", tool.args)>> /\ OpenAt(Seen(c, a), n)
        /\ Follows(Seen(c, a))
    BY <2>2 DEF ResponsesLink, Given
  <2>4. /\ IsAdapter(whole) /\ Only(a, whole, {"out"}) /\ OpenAt(s, n)
        /\ s.items[n + 1].parts = <<Part("arguments", args)>>
        /\ MovedAt(Seen(c, a), s, n) /\ Len(s.items) = Len(Seen(c, a).items)
    <3>1. CASE tool.args # <<>>
      <4>1. args = tool.args
        BY <3>1 DEF Arguments
      <4>2. MovedAt(Seen(c, a), Seen(c, a), n)
        <5> DEFINE t == Seen(c, a)
        <5> HIDE DEF t
        <5>1. Len(t.items) \in Nat /\ Follows(t) /\ OpenAt(t, n)
          BY <2>3, SeqFacts DEF Follows, t
        <5>2. MovedAt(t, t, n)
          BY <5>1 DEF MovedAt, OpenAt
        <5> QED BY <5>2 DEF t
      <4> HIDE DEF args
      <4> QED BY <2>2, <2>3, <3>1, <4>1, <4>2, OnlySelf
    <3>2. CASE tool.args = <<>>
      <4> DEFINE f == Write(a, Delta(n, 0, "arguments", NoArguments))
      <4>1. args = NoArguments
        BY <3>2 DEF Arguments
      <4>2. Seen(c, a).items[n + 1].parts = <<Part("arguments", <<>>)>>
        BY <2>3, <3>2
      <4>3. <<>> \o NoArguments = NoArguments
        BY OneIsSeq, Concatenated, EmptyIsSeq DEF NoArguments
      <4> HIDE DEF args
      <4>4. /\ IsAdapter(f) /\ Only(a, f, {"out"}) /\ OpenAt(Seen(c, f), n)
            /\ Seen(c, f).items[n + 1].parts = <<Part("arguments", <<>> \o NoArguments)>>
            /\ MovedAt(Seen(c, a), Seen(c, f), n) /\ Len(Seen(c, f).items) = Len(Seen(c, a).items)
        <5>1. PICK data : data = <<>>
          OBVIOUS
        <5> DEFINE u == Seen(c, a)
                   d == Seen(c, f)
        <5>2. Follows(u) /\ OpenAt(u, n) /\ u.items[n + 1].parts = <<Part("arguments", data)>> /\ IsAdapter(a)
          BY <2>2, <2>3, <4>2, <5>1
        <5>3. /\ IsAdapter(f) /\ Only(a, f, {"out"}) /\ OpenAt(d, n)
              /\ MovedAt(u, d, n) /\ Len(d.items) = Len(u.items)
              /\ d.items[n + 1].parts = <<Part("arguments", data \o NoArguments)>>
          <6> HIDE DEF n
          <6> QED BY <5>2, GivesMore
        <5> HIDE DEF f, n
        <5> QED BY <5>1, <5>3
      <4>5. whole = f
        BY <3>2
      <4> HIDE DEF f, whole
      <4> QED BY <4>1, <4>3, <4>4, <4>5
    <3> QED BY <3>1, <3>2
  <2> HIDE DEF whole
  <2>5. IsAdapter(w) /\ Only(whole, w, {"out"}) /\ Seen(c, w) = Receive(s, e)
    BY <2>4, Writes
  <2> HIDE DEF w
  <2>6. w.tools = a.tools
    BY <2>2, <2>4, <2>5 DEF Only, IsAdapter, AdapterFields
  <2>7. /\ IsAdapter(b) /\ Only(w, b, {"tools"}) /\ Seen(c, b) = Seen(c, w)
        /\ SameCalls(w, b) /\ OpenTools(b) = OpenTools(w) \ {i}
    BY <2>5, <2>6, CallShut
  <2> HIDE DEF b
  <2>8. Only(a, b, {"out", "tools"})
    BY <2>4, <2>5, <2>7 DEF Only
  <2>9. SameCalls(a, b) /\ OpenTools(b) = OpenTools(a) \ {i}
    BY <2>6, <2>7 DEF SameCalls, OpenTools
  <2> DEFINE d == Receive(s, e)
  <2>10. MovedAt(Seen(c, a), d, n) /\ Len(d.items) = Len(Seen(c, a).items) /\ ~d.items[n + 1].open
    <3> HIDE DEF s
    <3>1. Follows(s)
      BY <2>4 DEF MovedAt
    <3>2. MovedAt(s, d, n) /\ Len(d.items) = Len(s.items) /\ ~d.items[n + 1].open
      BY <2>4, <3>1, ShutItem
    <3> HIDE DEF d
    <3> QED BY <2>4, <3>2 DEF MovedAt
  <2>11. /\ b.thought = a.thought /\ b.message = a.message /\ b.searches = a.searches
         /\ b.nextIndex = a.nextIndex
         /\ b.target = "responses"
    BY <2>8 DEF Linked, InResponses, IsAdapter, AdapterFields, Only
  <2>12. \A j \in OpenTools(b) : j \in OpenTools(a) /\ b.tools[j].index = a.tools[j].index /\ b.tools[j].args = a.tools[j].args
    BY <2>2, <2>9, CallFields DEF OpenTools
  <2>13. \A j \in OpenTools(a) : a.tools[j].index = n => j = i
    BY <2>2 DEF ResponsesLink
  <2> HIDE DEF d, s, e
  <2>14. ThoughtElsewhere(a, b, n) /\ MessageElsewhere(a, b, n) /\ SearchesElsewhere(a, b, n)
    BY <2>11 DEF ThoughtElsewhere, MessageElsewhere, SearchesElsewhere, Thinking, Speaking, LiveSearches
  <2>15. ToolsElsewhere(a, b, n)
    BY <2>9, <2>12 DEF ToolsElsewhere
  <2>16. ~HeldAt(b, n) /\ Staged(b)
    BY <2>2, <2>9, <2>11, <2>12, <2>13, OneHolder DEF HeldAt, Staged, Thinking, Speaking, LiveSearches
  <2>17. ResponsesLink(b, d, heard, 0, <<>>)
    <3> DEFINE t == Seen(c, a)
    <3> HIDE DEF n, t
    <3>1. ResponsesLink(a, t, heard, 0, <<>>) /\ MovedAt(t, d, n) /\ Len(d.items) = Len(t.items)
      BY <2>2, <2>10 DEF t
    <3> QED BY <2>10, <2>11, <2>14, <2>15, <2>16, <3>1, ShutResponses
  <2> QED BY <2>1, <2>5, <2>7, <2>8, <2>9, <2>11, <2>17 DEF Linked, InResponses, d
<1> QED BY <1>1, <1>2

(* Closing all calls leaves none open.                                      *)
LEMMA CloseToolsFacts ==
  ASSUME NEW c, NEW a, NEW heard, Linked(c, a, heard)
  PROVE  LET b == CloseTools(a)
         IN  Linked(c, b, heard) /\ Only(a, b, {"out", "tools"}) /\ SameCalls(a, b) /\ OpenTools(b) = {}
<1> DEFINE n == Len(a.tools)
           s == [i \in 1..n |-> i]
<1>1. n \in Nat /\ DOMAIN a.tools = 1..n
  BY SeqFacts DEF Linked, InResponses, IsAdapter
<1>2. IsSeq(s) /\ Len(s) = n /\ \A i \in 1..n : s[i] = i
  BY <1>1, Places
<1>3. CloseTools(a) = FoldLeft(CloseTool, a, s)
  BY <1>1 DEF CloseTools, FoldLeftDomain
<1> HIDE DEF n, s
<1>4. PICK g : IsRun(g, "closeTool", 0, a, s) /\ FoldLeft(CloseTool, a, s) = g[Len(s)]
  BY <1>2, CloseToolsIsRun
<1> DEFINE Goes(i) == /\ Linked(c, g[i], heard) /\ Only(a, g[i], {"out", "tools"}) /\ SameCalls(a, g[i])
                      /\ OpenTools(g[i]) = OpenTools(a) \ (1..i)
           Good == {i \in 0..n : Goes(i)}
<1>5. 0 \in Good
  <2>1. g[0] = a
    BY <1>4 DEF IsRun
  <2>2. SameCalls(a, a)
    BY DEF SameCalls, Only
  <2>3. Goes(0)
    BY <2>1, <2>2, OnlySelf
  <2> QED BY <1>1, <2>3
<1>6. ASSUME NEW i \in 1..n, i - 1 \in Good PROVE i \in Good
  <2> DEFINE p == g[i - 1]
  <2>1. Goes(i - 1)
    BY <1>6
  <2>2. g[i] = CloseTool(p, i)
    BY <1>2, <1>4 DEF IsRun, Body
  <2>3. i \in 1..Len(p.tools)
    BY <2>1 DEF SameCalls, n
  <2> HIDE DEF p
  <2>4. /\ Linked(c, g[i], heard) /\ Only(p, g[i], {"out", "tools"})
        /\ SameCalls(p, g[i]) /\ OpenTools(g[i]) = OpenTools(p) \ {i}
    BY <2>1, <2>2, <2>3, CloseToolFacts DEF p
  <2>5. Only(a, g[i], {"out", "tools"}) /\ SameCalls(a, g[i])
    BY <2>1, <2>4, SameCallsTwice DEF p, Only
  <2>6. OpenTools(g[i]) = OpenTools(a) \ (1..i)
    BY <1>1, <2>1, <2>4 DEF p
  <2> QED BY <1>1, <2>4, <2>5, <2>6
<1>7. n \in Good
  <2> HIDE DEF Good
  <2> QED BY <1>1, <1>5, <1>6, Climb
<1>8. OpenTools(a) \ (1..n) = {}
  BY DEF OpenTools, n
<1> QED BY <1>2, <1>3, <1>4, <1>7, <1>8

\* Nobody holds an index the client has not reached.
LEMMA NothingBeyond ==
  ASSUME NEW a, NEW c, NEW heard, NEW x, NEW told, ResponsesLink(a, c, heard, x, told)
  PROVE  ~HeldAt(a, Len(c.items)) /\ Staged(a) /\ Follows(c) /\ Len(c.items) \in Nat /\ a.nextIndex = Len(c.items)
<1>1. Follows(c) /\ Len(c.items) \in Nat /\ a.nextIndex = Len(c.items)
  BY SeqFacts DEF Follows, ResponsesLink
<1>2. \A n : OpenAt(c, n) => n # Len(c.items)
  BY <1>1 DEF OpenAt
<1> HIDE DEF OpenAt
<1>3. Thinking(a) => a.thought.index # Len(c.items)
  BY <1>2 DEF ResponsesLink
<1>4. Speaking(a) => a.message.index # Len(c.items)
  BY <1>2 DEF ResponsesLink
<1>5. \A i \in OpenTools(a) : a.tools[i].index # Len(c.items)
  BY <1>2 DEF ResponsesLink
<1>6. \A i \in LiveSearches(a) : a.searches[i].index # Len(c.items)
  BY <1>2 DEF ResponsesLink
<1> QED BY <1>1, <1>3, <1>4, <1>5, <1>6, OneHolder DEF HeldAt

(* A message is opened at the next index and the client has it open         *)
(* there.                                                                   *)
LEMMA OpenMessageFacts ==
  ASSUME NEW c, NEW a, NEW heard, Linked(c, a, heard), ~Speaking(a)
  PROVE  LET b == OpenMessage(a)
         IN  Linked(c, b, heard) /\ Speaking(b) /\ Only(a, b, {"out", "nextIndex", "message"})
<1> DEFINE n == a.nextIndex
           s == Seen(c, a)
           message == [started |-> TRUE, done |-> FALSE, index |-> n, content |-> <<>>]
           p == [Numbered(a) EXCEPT !.message = message]
           e == Added(n, "message", n, <<>>)
           item == Item("message", n, <<>>, TRUE)
           b == Write(p, e)
           d == Seen(c, b)
<1>1. OpenMessage(a) = b
  BY DEF OpenMessage
<1>2. ResponsesLink(a, s, heard, 0, <<>>) /\ IsAdapter(a) /\ a.target = "responses"
  BY DEF Linked, InResponses
<1>3. ~HeldAt(a, n) /\ Staged(a) /\ Follows(s) /\ n \in Nat /\ n = Len(s.items)
  <2> HIDE DEF s
  <2> QED BY <1>2, NothingBeyond
<1>4. Only(a, p, {"nextIndex", "message"}) /\ p.nextIndex = n + 1 /\ p.message = message
  BY <1>2 DEF IsAdapter, AdapterFields, Only, Numbered
<1>5. /\ DOMAIN message = {"started", "done", "index", "content"} /\ AreParts(message.content)
      /\ message.started /\ ~message.done /\ message.index = n /\ message.content = <<>>
  BY EmptyIsSeq DEF AreParts
<1>6. item.kind = "message" /\ item.open /\ item.parts = <<>> /\ AreParts(<<>>)
  BY EmptyIsSeq DEF Item, AreParts
<1> HIDE DEF p, message, item, s
<1>7. p.thought = a.thought
  BY <1>2, <1>4 DEF IsAdapter, AdapterFields, Only
<1>8. IsAdapter(p) /\ Seen(c, p) = s /\ p.tools = a.tools /\ p.searches = a.searches
  <2>1. Only(a, p, AdapterFields \ {"out", "tools", "searches"})
    BY <1>4, OnlyMore DEF AdapterFields
  <2>2. DOMAIN p.thought = {"started", "done", "index"}
    BY <1>2, <1>7 DEF IsAdapter
  <2>3. DOMAIN p.message = {"started", "done", "index", "content"} /\ AreParts(p.message.content)
    BY <1>4, <1>5
  <2>4. IsAdapter(p) /\ (\A any : Seen(any, p) = Seen(any, a)) /\ p.tools = a.tools /\ p.searches = a.searches
    BY <1>2, <2>1, <2>2, <2>3, AdapterChanges
  <2> QED BY <2>4 DEF s
<1>9. IsAdapter(b) /\ Only(p, b, {"out"}) /\ d = Receive(s, e)
  BY <1>8, Writes
<1>10. Grown(s, d, item)
  BY <1>3, <1>6, <1>9, ReadAdded DEF item
<1> HIDE DEF b, d, e
<1>11. MovedAt(s, d, n) /\ Len(d.items) = n + 1 /\ d.items[n + 1] = item
  BY <1>3, <1>10, MovedGrown
<1>12. Only(a, b, {"out", "nextIndex", "message"})
  BY <1>4, <1>9 DEF Only
<1>13. /\ b.message = message /\ b.nextIndex = n + 1
       /\ b.thought = a.thought /\ b.tools = a.tools /\ b.searches = a.searches /\ b.target = "responses"
  BY <1>2, <1>4, <1>7, <1>8, <1>9 DEF IsAdapter, AdapterFields, Only
<1>14. /\ Speaking(b) /\ OpenTools(b) = OpenTools(a) /\ LiveSearches(b) = LiveSearches(a)
       /\ (Thinking(b) <=> Thinking(a))
  BY <1>5, <1>13 DEF OpenTools, LiveSearches, Thinking, Speaking
<1> HIDE DEF n
<1>15. /\ ThoughtElsewhere(a, b, n) /\ MessageElsewhere(a, b, n) /\ ToolsElsewhere(a, b, n)
       /\ SearchesElsewhere(a, b, n)
  BY <1>3, <1>5, <1>13, <1>14 DEF ThoughtElsewhere, MessageElsewhere, ToolsElsewhere, SearchesElsewhere
<1>16. ThoughtAt(b, item, n, heard) /\ SearchesAt(b, item, n) /\ ToolsAt(b, item, n, 0, <<>>)
  BY <1>3, <1>13, <1>14 DEF ThoughtAt, SearchesAt, ToolsAt, HeldAt
<1>17. MessageAt(b, item, n) /\ HeldAt(b, n) /\ Staged(b)
  BY <1>3, <1>5, <1>6, <1>13, <1>14 DEF MessageAt, HeldAt, Staged
<1>18. ResponsesLink(b, d, heard, 0, <<>>)
  <2>1. /\ ThoughtAt(b, d.items[n + 1], n, heard) /\ MessageAt(b, d.items[n + 1], n)
        /\ SearchesAt(b, d.items[n + 1], n) /\ ToolsAt(b, d.items[n + 1], n, 0, <<>>)
    BY <1>11, <1>16, <1>17
  <2>2. b.nextIndex = Len(d.items) /\ IsSeq(heard) /\ (~b.thought.started => heard = <<>>)
    BY <1>2, <1>11, <1>13 DEF ResponsesLink
  <2>3. \A i \in OpenTools(b) : b.tools[i].index # n => (i # 0 /\ i # 0) \/ (0 = 0 /\ <<>> = <<>>)
    OBVIOUS
  <2>4. b.thought.started => \/ a.thought.started /\ b.thought.index = a.thought.index
                             \/ b.thought.index = n /\ d.items[n + 1].kind = "reasoning"
    BY <1>13
  <2>5. Thinking(b) /\ b.thought.index # n => heard = heard
    OBVIOUS
  <2>6. d.items[n + 1].open => HeldAt(b, n)
    BY <1>17
  <2> QED BY <1>2, <1>11, <1>15, <1>17, <2>1, <2>2, <2>3, <2>4, <2>5, <2>6, ResponsesMoves
<1> QED BY <1>1, <1>9, <1>12, <1>13, <1>14, <1>18 DEF Linked, InResponses, d

\* The client has heard all of the reasoning.
Whole(c, a) == Linked(c, a, a.reasoning)

ResponsesFields == {"out", "tools", "searches", "parts", "nextIndex", "thought", "message", "emitted"}

ResponsesStep(c, a, b) == Whole(c, b) /\ Only(a, b, ResponsesFields) /\ SameCalls(a, b)

(* No step is one.                                                          *)
LEMMA ResponsesSelf ==
  ASSUME NEW c, NEW a, Whole(c, a)
  PROVE  ResponsesStep(c, a, a)
BY OnlySelf, SameCallsSelf DEF ResponsesStep

(* Steps that a Responses client follows compose.                           *)
LEMMA ResponsesStepTwice ==
  ASSUME NEW c, NEW a, NEW b, NEW d, ResponsesStep(c, a, b), ResponsesStep(c, b, d)
  PROVE  ResponsesStep(c, a, d)
<1>1. Only(a, d, ResponsesFields)
  BY DEF ResponsesStep, Only
<1> QED BY <1>1, SameCallsTwice DEF ResponsesStep

(* A change that keeps the relation and touches only such fields is a       *)
(* step.                                                                    *)
LEMMA WholeOnly ==
  ASSUME NEW c, NEW a, Whole(c, a), NEW b, NEW fields, fields \subseteq ResponsesFields, Only(a, b, fields),
         Linked(c, b, a.reasoning)
  PROVE  Whole(c, b) /\ Only(a, b, ResponsesFields) /\ b.reasoning = a.reasoning
<1>1. Only(a, b, ResponsesFields)
  BY OnlyMore
<1>2. b.reasoning = a.reasoning
  BY <1>1 DEF Only, Whole, Linked, InResponses, IsAdapter, AdapterFields, ResponsesFields
<1> QED BY <1>1, <1>2 DEF Whole

(* ensureMessage: what is open is closed first, and afterwards a message    *)
(* is open.                                                                 *)
LEMMA EnsureMessageFacts ==
  ASSUME NEW c, NEW a, Whole(c, a)
  PROVE  LET b == EnsureMessage(a) IN ResponsesStep(c, a, b) /\ Speaking(b)
<1>1. CASE Speaking(a)
  <2>1. EnsureMessage(a) = a
    BY <1>1 DEF EnsureMessage, Speaking
  <2> QED BY <1>1, <2>1, ResponsesSelf
<1>2. CASE ~Speaking(a)
  <2> DEFINE o == CloseTools(a)
             p == IF a.message.done THEN [o EXCEPT !.emitted = 0] ELSE a
             q == CloseReasoning(p)
             r == CloseTools(q)
             b == OpenMessage(r)
  <2>1. EnsureMessage(a) = b
    BY <1>2 DEF EnsureMessage, Speaking
  <2>2. ResponsesStep(c, a, p) /\ p.message = a.message
    <3>1. CASE ~a.message.done
      BY <3>1, ResponsesSelf
    <3>2. CASE a.message.done
      <4>1. Linked(c, o, a.reasoning) /\ Only(a, o, {"out", "tools"}) /\ SameCalls(a, o)
        BY CloseToolsFacts DEF Whole
      <4>2. p = [o EXCEPT !.emitted = 0]
        BY <3>2
      <4> HIDE DEF o, p
      <4>3. Only(o, p, {"emitted"})
        BY <4>2 DEF Only
      <4>4. IsAdapter(p) /\ Seen(c, p) = Seen(c, o) /\ p.tools = o.tools
        <5>1. Only(o, p, AdapterFields \ {"out", "tools", "searches", "thought", "message"})
          BY <4>3, OnlyMore DEF AdapterFields
        <5> QED BY <4>1, <5>1, StaysAdapter DEF Linked, InResponses
      <4>5. ResponsesLink(p, Seen(c, p), a.reasoning, 0, <<>>)
        <5>1. Only(o, p, AdapterFields \ {"tools", "searches", "thought", "message", "nextIndex"})
          BY <4>3, OnlyMore DEF AdapterFields
        <5>2. DOMAIN o = AdapterFields /\ ResponsesLink(o, Seen(c, p), a.reasoning, 0, <<>>)
          BY <4>1, <4>4 DEF Linked, InResponses, IsAdapter
        <5> QED BY <5>1, <5>2, ResponsesLinkSame
      <4>6. p.target = "responses" /\ p.message = a.message
        BY <4>1, <4>3 DEF Only, Whole, Linked, InResponses, IsAdapter, AdapterFields
      <4>7. Only(a, p, {"out", "tools", "emitted"})
        BY <4>1, <4>3 DEF Only
      <4>8. Linked(c, p, a.reasoning) /\ SameCalls(a, p)
        BY <4>1, <4>4, <4>5, <4>6 DEF Linked, InResponses, SameCalls
      <4>9. {"out", "tools", "emitted"} \subseteq ResponsesFields
        BY DEF ResponsesFields
      <4> QED BY <4>6, <4>7, <4>8, <4>9, WholeOnly DEF ResponsesStep
    <3> QED BY <3>1, <3>2
  <2> HIDE DEF p
  <2>3. Linked(c, q, p.reasoning) /\ Only(p, q, {"out", "thought", "parts"})
    BY <2>2, CloseReasoningFacts DEF ResponsesStep, Whole, Linked
  <2> HIDE DEF q
  <2>4. Linked(c, r, p.reasoning) /\ Only(q, r, {"out", "tools"}) /\ SameCalls(q, r)
    BY <2>3, CloseToolsFacts
  <2> HIDE DEF r
  <2>5. q.tools = p.tools /\ r.message = a.message
    BY <2>2, <2>3, <2>4 DEF Only, ResponsesStep, Whole, Linked, InResponses, IsAdapter, AdapterFields
  <2>6. ~Speaking(r)
    BY <1>2, <2>5 DEF Speaking
  <2>7. Linked(c, b, p.reasoning) /\ Speaking(b) /\ Only(r, b, {"out", "nextIndex", "message"})
    BY <2>4, <2>6, OpenMessageFacts
  <2> HIDE DEF b
  <2>8. b.tools = r.tools
    BY <2>4, <2>7 DEF Only, Linked, InResponses, IsAdapter, AdapterFields
  <2>9. SameCalls(p, b)
    BY <2>4, <2>5, <2>8 DEF SameCalls
  <2>10. Only(p, b, {"out", "tools", "thought", "parts", "nextIndex", "message"})
    BY <2>3, <2>4, <2>7 DEF Only
  <2>11. {"out", "tools", "thought", "parts", "nextIndex", "message"} \subseteq ResponsesFields
    BY DEF ResponsesFields
  <2>12. ResponsesStep(c, p, b)
    BY <2>2, <2>7, <2>9, <2>10, <2>11, WholeOnly DEF ResponsesStep
  <2> QED BY <2>1, <2>2, <2>7, <2>12, ResponsesStepTwice
<1> QED BY <1>1, <1>2

(* What the message consists of is what the client has of it.               *)
LEMMA MessageMoves ==
  ASSUME NEW c, NEW a, Whole(c, a), Speaking(a), NEW p, Only(a, p, {"message"}),
         DOMAIN p.message = DOMAIN a.message, p.message.started = a.message.started, p.message.done = a.message.done,
         p.message.index = a.message.index, AreParts(p.message.content),
         NEW e, NEW item, Turned(Seen(c, a), Receive(Seen(c, a), e), a.message.index, item),
         item.kind = "message", item.open, item.parts = p.message.content
  PROVE  LET b == Write(p, e)
         IN  Whole(c, b) /\ Speaking(b) /\ Only(a, b, {"out", "message"}) /\ b.message = p.message
<1> DEFINE n == a.message.index
           s == Seen(c, a)
           b == Write(p, e)
           d == Seen(c, b)
           h == a.reasoning
<1>1. ResponsesLink(a, s, h, 0, <<>>) /\ IsAdapter(a) /\ a.target = "responses"
  BY DEF Whole, Linked, InResponses
<1>2. Follows(s) /\ n \in Nat /\ n < Len(s.items) /\ s.items[n + 1].kind = "message"
  <2> HIDE DEF s
  <2> QED BY <1>1 DEF ResponsesLink, OpenAt
<1>3. p.thought = a.thought
  BY <1>1 DEF IsAdapter, AdapterFields, Only
<1>4. IsAdapter(p) /\ Seen(c, p) = s
  <2>1. Only(a, p, AdapterFields \ {"out", "tools", "searches"})
    BY OnlyMore DEF AdapterFields
  <2>2. /\ DOMAIN p.thought = {"started", "done", "index"}
        /\ DOMAIN p.message = {"started", "done", "index", "content"}
    BY <1>1, <1>3 DEF IsAdapter
  <2>3. IsAdapter(p) /\ (\A any : Seen(any, p) = Seen(any, a))
    BY <1>1, <2>1, <2>2, AdapterChanges
  <2> QED BY <2>3
<1>5. IsAdapter(b) /\ Only(p, b, {"out"}) /\ d = Receive(s, e)
  BY <1>4, Writes
<1>6. Turned(s, d, n, item)
  BY <1>5
<1> HIDE DEF b, d, s
<1>7. MovedAt(s, d, n) /\ Len(d.items) = Len(s.items) /\ d.items[n + 1] = item
  <2>1. Len(s.items) \in Nat
    BY <1>2, SeqFacts DEF Follows
  <2> QED BY <1>2, <1>6, <2>1 DEF Turned, MovedAt
<1>8. Only(a, b, {"out", "message"})
  BY <1>5 DEF Only
<1>9. /\ b.message = p.message /\ b.nextIndex = a.nextIndex /\ b.thought = a.thought
      /\ b.tools = a.tools /\ b.searches = a.searches /\ b.target = "responses" /\ b.reasoning = a.reasoning
  BY <1>1, <1>4, <1>5, <1>8 DEF IsAdapter, AdapterFields, Only
<1>10. /\ Speaking(b) /\ OpenTools(b) = OpenTools(a) /\ LiveSearches(b) = LiveSearches(a)
       /\ (Thinking(b) <=> Thinking(a))
  BY <1>9 DEF OpenTools, LiveSearches, Thinking, Speaking
<1>11. /\ ThoughtElsewhere(a, b, n) /\ MessageElsewhere(a, b, n) /\ ToolsElsewhere(a, b, n)
       /\ SearchesElsewhere(a, b, n)
  BY <1>9, <1>10 DEF ThoughtElsewhere, MessageElsewhere, ToolsElsewhere, SearchesElsewhere
<1>12. /\ ~(Thinking(a) /\ a.thought.index = n)
       /\ \A j \in LiveSearches(a) : a.searches[j].index # n
       /\ \A j \in OpenTools(a) : a.tools[j].index # n
       /\ Staged(a)
  BY <1>1, OneHolder
<1>13. ThoughtAt(b, item, n, h) /\ SearchesAt(b, item, n) /\ ToolsAt(b, item, n, 0, <<>>)
  BY <1>9, <1>10, <1>12 DEF ThoughtAt, SearchesAt, ToolsAt
<1>14. MessageAt(b, item, n) /\ HeldAt(b, n) /\ Staged(b)
  BY <1>9, <1>10, <1>12 DEF MessageAt, HeldAt, Staged
<1> HIDE DEF n, h
<1>15. ResponsesLink(b, d, h, 0, <<>>)
  <2>1. /\ ThoughtAt(b, d.items[n + 1], n, h) /\ MessageAt(b, d.items[n + 1], n)
        /\ SearchesAt(b, d.items[n + 1], n) /\ ToolsAt(b, d.items[n + 1], n, 0, <<>>)
    BY <1>7, <1>13, <1>14
  <2>2. b.nextIndex = Len(d.items) /\ IsSeq(h) /\ (~b.thought.started => h = <<>>)
    BY <1>1, <1>7, <1>9 DEF ResponsesLink
  <2>3. \A i \in OpenTools(b) : b.tools[i].index # n => (i # 0 /\ i # 0) \/ (0 = 0 /\ <<>> = <<>>)
    OBVIOUS
  <2>4. b.thought.started => \/ a.thought.started /\ b.thought.index = a.thought.index
                             \/ b.thought.index = n /\ d.items[n + 1].kind = "reasoning"
    BY <1>9
  <2>5. Thinking(b) /\ b.thought.index # n => h = h
    OBVIOUS
  <2>6. d.items[n + 1].open => HeldAt(b, n)
    BY <1>14
  <2> QED BY <1>1, <1>7, <1>11, <1>14, <2>1, <2>2, <2>3, <2>4, <2>5, <2>6, ResponsesMoves
<1> QED BY <1>5, <1>8, <1>9, <1>10, <1>15 DEF Whole, Linked, InResponses, d, h, b

(* The search for the part of one kind finds it, or the message has none.   *)
LEMMA ContentFacts ==
  ASSUME NEW a, NEW kind
  PROVE  \/ Content(a, kind) = 0 /\ \A i \in 1..Len(a.message.content) : a.message.content[i].kind # kind
         \/ Content(a, kind) \in 1..Len(a.message.content) /\ a.message.content[Content(a, kind)].kind = kind
<1> DEFINE I == {i \in 1..Len(a.message.content) : a.message.content[i].kind = kind}
<1>1. Content(a, kind) = IF I # {} THEN Min(I) ELSE 0
  BY DEF Content, SelectInSeq
<1>2. I # {} => Min(I) \in I
  <2>1. I \in SUBSET Nat
    OBVIOUS
  <2> HIDE DEF I
  <2> QED BY <2>1, MinIsFirst
<1> QED BY <1>1, <1>2

\* The message has such a part.
HasPart(a, kind) ==
  /\ Speaking(a) /\ Content(a, kind) \in 1..Len(a.message.content)
  /\ a.message.content[Content(a, kind)].kind = kind

(* The open message as the client has it.                                   *)
LEMMA MessageItem ==
  ASSUME NEW c, NEW a, Whole(c, a), Speaking(a)
  PROVE  LET s == Seen(c, a)
             n == a.message.index
         IN  /\ Follows(s) /\ OpenAt(s, n) /\ n \in Nat /\ n < Len(s.items)
             /\ s.items[n + 1].kind = "message" /\ s.items[n + 1].open
             /\ s.items[n + 1].parts = a.message.content
             /\ IsItem(s.items[n + 1])
             /\ AreParts(a.message.content) /\ IsAdapter(a)
<1> DEFINE s == Seen(c, a)
           n == a.message.index
<1>1. ResponsesLink(a, s, a.reasoning, 0, <<>>) /\ IsAdapter(a)
  BY DEF Whole, Linked, InResponses
<1> HIDE DEF s
<1>2. /\ Follows(s) /\ OpenAt(s, n) /\ s.items[n + 1].kind = "message"
      /\ s.items[n + 1].parts = a.message.content
  BY <1>1 DEF ResponsesLink
<1>3. n \in Nat /\ n < Len(s.items) /\ s.items[n + 1].open /\ Len(s.items) \in Nat
  BY <1>2, SeqFacts DEF OpenAt, Follows
<1>4. n + 1 \in 1..Len(s.items)
  BY <1>3
<1> QED BY <1>1, <1>2, <1>3, <1>4 DEF s, Follows, IsAdapter

(* A part is opened at the next place of the message.                       *)
LEMMA OpenPartFacts ==
  ASSUME NEW c, NEW a, Whole(c, a), Speaking(a), NEW kind
  PROVE  LET b == OpenPart(a, kind)
         IN  ResponsesStep(c, a, b) /\ HasPart(b, kind)
<1>1. CASE Content(a, kind) # 0
  <2>1. OpenPart(a, kind) = a
    BY <1>1 DEF OpenPart
  <2> QED BY <1>1, <2>1, ContentFacts, ResponsesSelf DEF HasPart
<1>2. CASE Content(a, kind) = 0
  <2> DEFINE n == a.message.index
             content == a.message.content
             more == Append(content, Part(kind, <<>>))
             p == [a EXCEPT !.message.content = Append(@, Part(kind, <<>>))]
             e == PartAdded(n, Len(content), kind)
             s == Seen(c, a)
             item == [s.items[n + 1] EXCEPT !.parts = Append(@, Part(kind, <<>>))]
             b == Write(p, e)
  <2>1. OpenPart(a, kind) = b
    BY <1>2 DEF OpenPart
  <2>2. /\ Follows(s) /\ OpenAt(s, n) /\ n \in Nat /\ n < Len(s.items)
        /\ s.items[n + 1].kind = "message" /\ s.items[n + 1].open
        /\ s.items[n + 1].parts = content
        /\ IsItem(s.items[n + 1])
        /\ AreParts(content) /\ IsAdapter(a)
    BY MessageItem
  <2>3. Turned(s, Receive(s, e), n, item)
    <3> HIDE DEF s
    <3> QED BY <2>2, ReadPart
  <2>4. item.kind = "message" /\ item.open /\ item.parts = more
    BY <2>2 DEF IsItem, ItemFields
  <2>5. /\ Only(a, p, {"message"}) /\ DOMAIN p.message = DOMAIN a.message
        /\ p.message.started = a.message.started
        /\ p.message.done = a.message.done /\ p.message.index = n /\ p.message.content = more
    BY <2>2 DEF IsAdapter, AdapterFields, Only
  <2>6. /\ IsSeq(more) /\ Len(more) = Len(content) + 1
        /\ more[Len(content) + 1] = Part(kind, <<>>)
        /\ \A j \in 1..Len(content) : more[j] = content[j]
    BY <2>2, Appended DEF AreParts
  <2>7. Len(content) \in Nat /\ Part(kind, <<>>).kind = kind /\ DOMAIN Part(kind, <<>>) = PartFields
    BY <2>2, SeqFacts DEF AreParts, Part, PartFields
  <2> HIDE DEF more, item, p, content
  <2>8. AreParts(more)
    <3> SUFFICES ASSUME NEW j \in 1..Len(more) PROVE DOMAIN more[j] = PartFields
      BY <2>6 DEF AreParts
    <3>1. j \in 1..Len(content) \/ j = Len(content) + 1
      BY <2>6, <2>7
    <3> QED BY <2>2, <2>6, <2>7, <3>1 DEF AreParts
  <2>9. Whole(c, b) /\ Speaking(b) /\ Only(a, b, {"out", "message"}) /\ b.message = p.message
    <3> HIDE DEF e, n
    <3>1. /\ DOMAIN p.message = DOMAIN a.message /\ p.message.started = a.message.started
          /\ p.message.done = a.message.done
          /\ p.message.index = a.message.index /\ AreParts(p.message.content) /\ Only(a, p, {"message"})
      BY <2>5, <2>8 DEF n
    <3>2. /\ Turned(Seen(c, a), Receive(Seen(c, a), e), a.message.index, item)
          /\ item.kind = "message" /\ item.open /\ item.parts = p.message.content
      BY <2>3, <2>4, <2>5 DEF n, s
    <3> QED BY <3>1, <3>2, MessageMoves
  <2> HIDE DEF b
  <2>10. HasPart(b, kind)
    <3>1. b.message.content = more /\ Len(content) + 1 \in 1..Len(more) /\ more[Len(content) + 1].kind = kind
      BY <2>5, <2>6, <2>7, <2>9
    <3> QED BY <2>9, <3>1, ContentFacts DEF HasPart
  <2>11. ResponsesStep(c, a, b)
    <3>1. b.tools = a.tools
      BY <2>2, <2>9 DEF Only, IsAdapter, AdapterFields
    <3>2. Only(a, b, ResponsesFields)
      BY <2>9, OnlyMore DEF ResponsesFields
    <3> QED BY <2>9, <3>1, <3>2, SameCallsSelf DEF ResponsesStep
  <2> QED BY <2>1, <2>10, <2>11
<1> QED BY <1>1, <1>2

(* Afterwards the message has a part of the kind.                           *)
LEMMA EnsurePartFacts ==
  ASSUME NEW c, NEW a, Whole(c, a), NEW kind
  PROVE  LET b == EnsurePart(a, kind)
         IN  ResponsesStep(c, a, b) /\ HasPart(b, kind)
<1> DEFINE p == EnsureMessage(a)
<1>1. EnsurePart(a, kind) = OpenPart(p, kind)
  BY DEF EnsurePart
<1>2. ResponsesStep(c, a, p) /\ Speaking(p)
  BY EnsureMessageFacts
<1> HIDE DEF p
<1>3. ResponsesStep(c, p, OpenPart(p, kind)) /\ HasPart(OpenPart(p, kind), kind)
  BY <1>2, OpenPartFacts DEF ResponsesStep
<1> QED BY <1>1, <1>2, <1>3, ResponsesStepTwice

(* A part of the message that becomes another.                              *)
LEMMA PartTurned ==
  ASSUME NEW c, NEW a, Whole(c, a), Speaking(a), NEW i \in 1..Len(a.message.content),
         NEW part, DOMAIN part = PartFields,
         NEW e, Turned(Seen(c, a), Receive(Seen(c, a), e), a.message.index,
                       Filled(Seen(c, a).items[a.message.index + 1], i, part)),
         NEW p, Only(a, p, {"message"}), DOMAIN p.message = DOMAIN a.message, p.message.started = a.message.started,
         p.message.done = a.message.done, p.message.index = a.message.index,
         p.message.content = [a.message.content EXCEPT ![i] = part]
  PROVE  ResponsesStep(c, a, Write(p, e))
<1> DEFINE n == a.message.index
           s == Seen(c, a)
           old == s.items[n + 1]
           item == Filled(old, i, part)
           content == a.message.content
           new == [content EXCEPT ![i] = part]
           b == Write(p, e)
<1>1. /\ old.kind = "message" /\ old.open /\ old.parts = content /\ IsItem(old)
      /\ AreParts(content) /\ IsAdapter(a)
  BY MessageItem
<1> HIDE DEF old
<1>2. item.kind = "message" /\ item.open /\ item.parts = [old.parts EXCEPT ![i] = part] /\ AreParts(item.parts)
  BY <1>1, FilledIsItem DEF IsItem
<1>3. item.parts = new /\ AreParts(new)
  BY <1>1, <1>2
<1>4. Turned(s, Receive(s, e), n, item) /\ p.message.content = new
  BY DEF old
<1> HIDE DEF item, new, content
<1>5. Whole(c, b) /\ Only(a, b, {"out", "message"})
  <2> HIDE DEF b
  <2>1. /\ Turned(Seen(c, a), Receive(Seen(c, a), e), a.message.index, item)
        /\ item.kind = "message" /\ item.open
        /\ item.parts = p.message.content /\ AreParts(p.message.content)
    BY <1>2, <1>3, <1>4
  <2> QED BY <2>1, MessageMoves DEF b
<1> HIDE DEF b
<1>6. b.tools = a.tools
  BY <1>1, <1>5 DEF Only, IsAdapter, AdapterFields
<1>7. Only(a, b, ResponsesFields)
  BY <1>5, OnlyMore DEF ResponsesFields
<1> QED BY <1>5, <1>6, <1>7, SameCallsSelf DEF ResponsesStep, b

(* A delta reaches the part of the client that the adapter adds it to.      *)
LEMMA FillPartFacts ==
  ASSUME NEW c, NEW a, Whole(c, a), Speaking(a), NEW i \in 1..Len(a.message.content), NEW data
  PROVE  ResponsesStep(c, a, FillPart(a, i, data))
<1> DEFINE n == a.message.index
           s == Seen(c, a)
           old == a.message.content[i]
           part == [old EXCEPT !.data = @ \o data]
           e == Delta(n, i - 1, old.kind, data)
           p == [a EXCEPT !.message.content[i].data = @ \o data]
<1>1. FillPart(a, i, data) = Write(p, e)
  BY DEF FillPart
<1>2. /\ Follows(s) /\ OpenAt(s, n) /\ n \in Nat /\ n < Len(s.items)
      /\ s.items[n + 1].parts = a.message.content
      /\ AreParts(a.message.content) /\ IsAdapter(a)
  BY MessageItem
<1>3. /\ Turned(s, Receive(s, e), n, Filled(s.items[n + 1], i, part)) /\ DOMAIN part = PartFields
  <2>1. PICK m \in Nat : m = i - 1 /\ m + 1 = i /\ m < Len(a.message.content)
    <3>1. Len(a.message.content) \in Nat
      BY <1>2, SeqFacts DEF AreParts
    <3>2. i - 1 \in Nat /\ (i - 1) + 1 = i /\ i - 1 < Len(a.message.content)
      BY <3>1
    <3> QED BY <3>2
  <2> HIDE DEF s, n
  <2>2. m < Len(s.items[n + 1].parts) /\ s.items[n + 1].parts[m + 1] = old
    BY <1>2, <2>1
  <2>3. /\ Turned(s, Receive(s, Delta(n, m, old.kind, data)), n,
                  Filled(s.items[n + 1], m + 1, [s.items[n + 1].parts[m + 1] EXCEPT !.data = @ \o data]))
        /\ DOMAIN [s.items[n + 1].parts[m + 1] EXCEPT !.data = @ \o data] = PartFields
    BY <1>2, <2>2, ReadDelta
  <2> QED BY <2>1, <2>2, <2>3
<1>4. /\ Only(a, p, {"message"}) /\ DOMAIN p.message = DOMAIN a.message /\ p.message.started = a.message.started
      /\ p.message.done = a.message.done /\ p.message.index = a.message.index
      /\ p.message.content = [a.message.content EXCEPT ![i] = part]
  BY <1>2 DEF IsAdapter, AdapterFields, Only
<1> HIDE DEF p, part, e
<1>5. Turned(Seen(c, a), Receive(Seen(c, a), e), a.message.index, Filled(Seen(c, a).items[a.message.index + 1], i, part))
  BY <1>3
<1> HIDE DEF s, n
<1>6. ResponsesStep(c, a, Write(p, e))
  BY <1>3, <1>4, <1>5, PartTurned
<1> QED BY <1>1, <1>6

(* A citation reaches the part of the client that the adapter adds it to.   *)
LEMMA NotePartFacts ==
  ASSUME NEW c, NEW a, Whole(c, a), Speaking(a), NEW i \in 1..Len(a.message.content), NEW number, NEW note
  PROVE  ResponsesStep(c, a, NotePart(a, i, number, note))
<1> DEFINE n == a.message.index
           s == Seen(c, a)
           old == a.message.content[i]
           part == [old EXCEPT !.notes = Append(@, note)]
           e == Note(n, i - 1, number, note)
           p == [a EXCEPT !.message.content[i].notes = Append(@, note)]
<1>1. NotePart(a, i, number, note) = Write(p, e)
  BY DEF NotePart
<1>2. /\ Follows(s) /\ OpenAt(s, n) /\ n \in Nat /\ n < Len(s.items)
      /\ s.items[n + 1].parts = a.message.content
      /\ AreParts(a.message.content) /\ IsAdapter(a)
  BY MessageItem
<1>3. /\ Turned(s, Receive(s, e), n, Filled(s.items[n + 1], i, part)) /\ DOMAIN part = PartFields
  <2>1. PICK m \in Nat : m = i - 1 /\ m + 1 = i /\ m < Len(a.message.content)
    <3>1. Len(a.message.content) \in Nat
      BY <1>2, SeqFacts DEF AreParts
    <3>2. i - 1 \in Nat /\ (i - 1) + 1 = i /\ i - 1 < Len(a.message.content)
      BY <3>1
    <3> QED BY <3>2
  <2> HIDE DEF s, n
  <2>2. m < Len(s.items[n + 1].parts) /\ s.items[n + 1].parts[m + 1] = old
    BY <1>2, <2>1
  <2>3. /\ Turned(s, Receive(s, Note(n, m, number, note)), n,
                  Filled(s.items[n + 1], m + 1, [s.items[n + 1].parts[m + 1] EXCEPT !.notes = Append(@, note)]))
        /\ DOMAIN [s.items[n + 1].parts[m + 1] EXCEPT !.notes = Append(@, note)] = PartFields
    BY <1>2, <2>2, ReadNote
  <2> QED BY <2>1, <2>2, <2>3
<1>4. /\ Only(a, p, {"message"}) /\ DOMAIN p.message = DOMAIN a.message /\ p.message.started = a.message.started
      /\ p.message.done = a.message.done /\ p.message.index = a.message.index
      /\ p.message.content = [a.message.content EXCEPT ![i] = part]
  BY <1>2 DEF IsAdapter, AdapterFields, Only
<1> HIDE DEF p, part, e
<1>5. Turned(Seen(c, a), Receive(Seen(c, a), e), a.message.index, Filled(Seen(c, a).items[a.message.index + 1], i, part))
  BY <1>3
<1> HIDE DEF s, n
<1>6. ResponsesStep(c, a, Write(p, e))
  BY <1>3, <1>4, <1>5, PartTurned
<1> QED BY <1>1, <1>6

(* Text and refusals go to their parts of the message.                      *)
LEMMA ResponsesSays ==
  ASSUME NEW c, NEW a, Whole(c, a), NEW kind, kind # "reasoning", NEW data
  PROVE  ResponsesStep(c, a, ResponsesDelta(a, kind, data))
<1> DEFINE p == EnsurePart(a, kind)
<1>1. ResponsesDelta(a, kind, data) = FillPart(p, Content(p, kind), data)
  BY DEF ResponsesDelta
<1>2. ResponsesStep(c, a, p) /\ HasPart(p, kind)
  BY EnsurePartFacts
<1> HIDE DEF p
<1>3. ResponsesStep(c, p, FillPart(p, Content(p, kind), data))
  BY <1>2, FillPartFacts DEF ResponsesStep, HasPart
<1> QED BY <1>1, <1>2, <1>3, ResponsesStepTwice

(* A citation goes to the text part of the message.                         *)
LEMMA ResponsesCites ==
  ASSUME NEW c, NEW a, Whole(c, a), NEW note
  PROVE  ResponsesStep(c, a, AnnotationDelta(a, note))
<1> DEFINE o == [a EXCEPT !.emitted = @ + 1]
           p == EnsurePart(o, "text")
<1>1. AnnotationDelta(a, note) = NotePart(p, Content(p, "text"), a.emitted, note)
  BY DEF AnnotationDelta, Whole, Linked, InResponses
<1>2. ResponsesStep(c, a, o)
  <2>1. Only(a, o, {"emitted"}) /\ IsAdapter(a) /\ a.target = "responses"
    BY DEF Only, Whole, Linked, InResponses
  <2> HIDE DEF o
  <2>2. IsAdapter(o) /\ Seen(c, o) = Seen(c, a) /\ o.tools = a.tools
    <3>1. Only(a, o, AdapterFields \ {"out", "tools", "searches", "thought", "message"})
      BY <2>1, OnlyMore DEF AdapterFields
    <3> QED BY <2>1, <3>1, StaysAdapter
  <2>3. ResponsesLink(o, Seen(c, o), a.reasoning, 0, <<>>)
    <3>1. Only(a, o, AdapterFields \ {"tools", "searches", "thought", "message", "nextIndex"})
      BY <2>1, OnlyMore DEF AdapterFields
    <3>2. DOMAIN a = AdapterFields /\ ResponsesLink(a, Seen(c, o), a.reasoning, 0, <<>>)
      BY <2>1, <2>2 DEF Whole, Linked, InResponses, IsAdapter
    <3> QED BY <3>1, <3>2, ResponsesLinkSame
  <2>4. o.target = "responses"
    BY <2>1 DEF Only, IsAdapter, AdapterFields
  <2>5. Linked(c, o, a.reasoning) /\ SameCalls(a, o)
    BY <2>2, <2>3, <2>4, SameCallsSelf DEF Linked, InResponses
  <2>6. {"emitted"} \subseteq ResponsesFields
    BY DEF ResponsesFields
  <2> QED BY <2>1, <2>5, <2>6, WholeOnly DEF ResponsesStep
<1> HIDE DEF o
<1>3. ResponsesStep(c, o, p) /\ HasPart(p, "text")
  BY <1>2, EnsurePartFacts DEF ResponsesStep
<1> HIDE DEF p
<1>4. ResponsesStep(c, p, NotePart(p, Content(p, "text"), a.emitted, note))
  BY <1>3, NotePartFacts DEF ResponsesStep, HasPart
<1> QED BY <1>1, <1>2, <1>3, <1>4, ResponsesStepTwice

(* Reasoning opens an item of its own.                                      *)
LEMMA EnsureReasoningFacts ==
  ASSUME NEW c, NEW a, NEW heard, Linked(c, a, heard)
  PROVE  LET b == EnsureReasoning(a)
         IN  Linked(c, b, heard) /\ b.thought.started /\ Only(a, b, {"out", "nextIndex", "thought"})
<1>1. CASE a.thought.started
  BY <1>1, OnlySelf DEF EnsureReasoning
<1>2. CASE ~a.thought.started
  <2> DEFINE n == a.nextIndex
             s == Seen(c, a)
             thought == [started |-> TRUE, done |-> FALSE, index |-> n]
             parts == <<Part("reasoning", <<>>)>>
             p == [Numbered(a) EXCEPT !.thought = thought]
             e == Added(n, "reasoning", 0, parts)
             item == Item("reasoning", 0, parts, TRUE)
             b == Write(p, e)
             d == Seen(c, b)
  <2>1. EnsureReasoning(a) = b
    BY <1>2 DEF EnsureReasoning
  <2>2. ResponsesLink(a, s, heard, 0, <<>>) /\ IsAdapter(a) /\ a.target = "responses"
    BY DEF Linked, InResponses
  <2>3. ~HeldAt(a, n) /\ Staged(a) /\ Follows(s) /\ n \in Nat /\ n = Len(s.items)
    <3> HIDE DEF s
    <3> QED BY <2>2, NothingBeyond
  <2>4. Only(a, p, {"nextIndex", "thought"}) /\ p.nextIndex = n + 1 /\ p.thought = thought
    BY <2>2 DEF IsAdapter, AdapterFields, Only, Numbered
  <2>5. DOMAIN thought = {"started", "done", "index"} /\ thought.started /\ ~thought.done /\ thought.index = n
    OBVIOUS
  <2>6. item.kind = "reasoning" /\ item.open /\ item.parts = parts /\ AreParts(parts)
    BY OnePartOf DEF Item
  <2>60. heard = <<>>
    BY <1>2, <2>2 DEF ResponsesLink
  <2> HIDE DEF p, thought, item, s
  <2>7. p.message = a.message
    BY <2>2, <2>4 DEF IsAdapter, AdapterFields, Only
  <2>8. IsAdapter(p) /\ Seen(c, p) = s /\ p.tools = a.tools /\ p.searches = a.searches
    <3>1. Only(a, p, AdapterFields \ {"out", "tools", "searches"})
      BY <2>4, OnlyMore DEF AdapterFields
    <3>2. DOMAIN p.thought = {"started", "done", "index"}
      BY <2>4, <2>5
    <3>3. DOMAIN p.message = {"started", "done", "index", "content"} /\ AreParts(p.message.content)
      BY <2>2, <2>7 DEF IsAdapter
    <3>4. IsAdapter(p) /\ (\A any : Seen(any, p) = Seen(any, a)) /\ p.tools = a.tools /\ p.searches = a.searches
      BY <2>2, <3>1, <3>2, <3>3, AdapterChanges
    <3> QED BY <3>4 DEF s
  <2>9. IsAdapter(b) /\ Only(p, b, {"out"}) /\ d = Receive(s, e)
    BY <2>8, Writes
  <2>10. Grown(s, d, item)
    <3> HIDE DEF parts
    <3> QED BY <2>3, <2>6, <2>9, ReadAdded DEF item
  <2> HIDE DEF b, d, e
  <2>11. MovedAt(s, d, n) /\ Len(d.items) = n + 1 /\ d.items[n + 1] = item
    BY <2>3, <2>10, MovedGrown
  <2>12. Only(a, b, {"out", "nextIndex", "thought"})
    BY <2>4, <2>9 DEF Only
  <2>13. /\ b.thought = thought /\ b.nextIndex = n + 1
         /\ b.message = a.message /\ b.tools = a.tools /\ b.searches = a.searches /\ b.target = "responses"
    BY <2>2, <2>4, <2>7, <2>8, <2>9 DEF IsAdapter, AdapterFields, Only
  <2>14. /\ Thinking(b) /\ OpenTools(b) = OpenTools(a) /\ LiveSearches(b) = LiveSearches(a)
         /\ (Speaking(b) <=> Speaking(a)) /\ ~Thinking(a)
    BY <1>2, <2>5, <2>13 DEF OpenTools, LiveSearches, Thinking, Speaking
  <2> HIDE DEF n
  <2>15. /\ ThoughtElsewhere(a, b, n) /\ MessageElsewhere(a, b, n) /\ ToolsElsewhere(a, b, n)
         /\ SearchesElsewhere(a, b, n)
    BY <2>3, <2>5, <2>13, <2>14 DEF ThoughtElsewhere, MessageElsewhere, ToolsElsewhere, SearchesElsewhere
  <2>16. MessageAt(b, item, n) /\ SearchesAt(b, item, n) /\ ToolsAt(b, item, n, 0, <<>>)
    BY <2>3, <2>13, <2>14 DEF MessageAt, SearchesAt, ToolsAt, HeldAt
  <2>17. ThoughtAt(b, item, n, heard) /\ HeldAt(b, n) /\ Staged(b)
    BY <2>3, <2>5, <2>6, <2>60, <2>13, <2>14 DEF ThoughtAt, HeldAt, Staged
  <2>18. ResponsesLink(b, d, heard, 0, <<>>)
    <3>1. /\ ThoughtAt(b, d.items[n + 1], n, heard) /\ MessageAt(b, d.items[n + 1], n)
          /\ SearchesAt(b, d.items[n + 1], n) /\ ToolsAt(b, d.items[n + 1], n, 0, <<>>)
      BY <2>11, <2>16, <2>17
    <3>2. b.nextIndex = Len(d.items) /\ IsSeq(heard) /\ (~b.thought.started => heard = <<>>)
      BY <2>2, <2>60, <2>11, <2>13 DEF ResponsesLink
    <3>3. \A i \in OpenTools(b) : b.tools[i].index # n => (i # 0 /\ i # 0) \/ (0 = 0 /\ <<>> = <<>>)
      OBVIOUS
    <3>4. b.thought.started => \/ a.thought.started /\ b.thought.index = a.thought.index
                               \/ b.thought.index = n /\ d.items[n + 1].kind = "reasoning"
      BY <2>5, <2>6, <2>11, <2>13
    <3>5. Thinking(b) /\ b.thought.index # n => heard = heard
      OBVIOUS
    <3>6. d.items[n + 1].open => HeldAt(b, n)
      BY <2>17
    <3> QED BY <2>2, <2>11, <2>15, <2>17, <3>1, <3>2, <3>3, <3>4, <3>5, <3>6, ResponsesMoves
  <2>19. b.thought.started
    BY <2>5, <2>13
  <2> QED BY <2>1, <2>9, <2>12, <2>13, <2>18, <2>19 DEF Linked, InResponses, d
<1> QED BY <1>1, <1>2

\* Nothing is opened, filled or closed.
LEMMA SameItems ==
  ASSUME NEW a, NEW c, NEW heard, NEW x, NEW told, ResponsesLink(a, c, heard, x, told),
         NEW d, Follows(d), Len(d.items) = Len(c.items), \A k \in 1..Len(c.items) : d.items[k] = c.items[k],
         NEW h, IsSeq(h), ~a.thought.started => h = <<>>, Thinking(a) => h = heard
  PROVE  ResponsesLink(a, d, h, x, told)
<1>1. Follows(c) /\ Len(c.items) \in Nat
  BY SeqFacts DEF ResponsesLink, Follows
<1>2. \A n : OpenAt(c, n) => OpenAt(d, n) /\ d.items[n + 1] = c.items[n + 1]
  <2> SUFFICES ASSUME NEW n, OpenAt(c, n) PROVE OpenAt(d, n) /\ d.items[n + 1] = c.items[n + 1]
    OBVIOUS
  <2>1. n \in Nat /\ n + 1 \in 1..Len(c.items)
    BY <1>1 DEF OpenAt
  <2> QED BY <2>1 DEF OpenAt
<1>3. a.thought.started => a.thought.index \in 0..(Len(d.items) - 1) /\ d.items[a.thought.index + 1].kind = "reasoning"
  <2> DEFINE m == a.thought.index
  <2>1. ASSUME m \in 0..(Len(c.items) - 1) PROVE d.items[m + 1] = c.items[m + 1]
    <3> HIDE DEF m
    <3>1. m + 1 \in 1..Len(c.items)
      BY <1>1, <2>1
    <3> QED BY <3>1
  <2> QED BY <2>1 DEF ResponsesLink
<1> HIDE DEF OpenAt
<1>4. Thinking(a) => OpenAt(d, a.thought.index) /\ d.items[a.thought.index + 1].parts = <<Part("reasoning", h)>>
  BY <1>2 DEF ResponsesLink
<1>5. Speaking(a) => /\ OpenAt(d, a.message.index)
                     /\ d.items[a.message.index + 1].kind = "message"
                     /\ d.items[a.message.index + 1].parts = a.message.content
  BY <1>2 DEF ResponsesLink
<1>6. \A i \in OpenTools(a) :
       /\ OpenAt(d, a.tools[i].index)
       /\ d.items[a.tools[i].index + 1].kind = "tool"
       /\ Given(a.tools[i], d.items[a.tools[i].index + 1].parts, i = x, told)
  BY <1>2 DEF ResponsesLink
<1>7. \A i \in LiveSearches(a) :
       OpenAt(d, a.searches[i].index) /\ d.items[a.searches[i].index + 1].kind = "search"
  BY <1>2 DEF ResponsesLink
<1>8. \A k \in 1..Len(d.items) :
        d.items[k].open => \/ Thinking(a) /\ k = a.thought.index + 1
                           \/ Speaking(a) /\ k = a.message.index + 1
                           \/ \E i \in OpenTools(a) : k = a.tools[i].index + 1
                           \/ \E i \in LiveSearches(a) : k = a.searches[i].index + 1
  BY DEF ResponsesLink
<1> QED BY <1>3, <1>4, <1>5, <1>6, <1>7, <1>8 DEF ResponsesLink

(* More reasoning in the open reasoning item: the client has heard it as    *)
(* well.                                                                    *)
LEMMA FillReasoningFacts ==
  ASSUME NEW c, NEW a, NEW heard, Linked(c, a, heard), a.thought.started, NEW data, IsSeq(data)
  PROVE  LET b == FillReasoning(a, data)
         IN  Linked(c, b, heard \o data) /\ Only(a, b, {"out"})
<1> DEFINE n == a.thought.index
           e == Delta(n, 0, "reasoning", data)
           s == Seen(c, a)
           h == heard \o data
           b == Write(a, e)
           d == Seen(c, b)
<1>1. FillReasoning(a, data) = b
  BY DEF FillReasoning
<1>2. ResponsesLink(a, s, heard, 0, <<>>) /\ IsAdapter(a) /\ a.target = "responses"
  BY DEF Linked, InResponses
<1>3. IsAdapter(b) /\ Only(a, b, {"out"}) /\ d = Receive(s, e)
  BY <1>2, Writes
<1>4. /\ b.thought = a.thought /\ b.message = a.message /\ b.tools = a.tools /\ b.searches = a.searches
      /\ b.target = "responses" /\ b.nextIndex = a.nextIndex
  <2> HIDE DEF b
  <2> QED BY <1>2, <1>3 DEF IsAdapter, AdapterFields, Only
<1>5. IsSeq(h)
  BY <1>2, Concatenated DEF ResponsesLink
<1> HIDE DEF h, s
<1>6. /\ Follows(s) /\ n \in 0..(Len(s.items) - 1) /\ s.items[n + 1].kind = "reasoning" /\ Len(s.items) \in Nat
  BY <1>2, SeqFacts DEF ResponsesLink, Follows
<1>7. CASE ~Thinking(a)
  <2>1. ~s.items[n + 1].open
    <3>1. n + 1 \in 1..Len(s.items)
      BY <1>6
    <3>2. SUFFICES ASSUME s.items[n + 1].open PROVE FALSE
      OBVIOUS
    <3>3. \/ Speaking(a) /\ n + 1 = a.message.index + 1
          \/ \E i \in OpenTools(a) : n + 1 = a.tools[i].index + 1
          \/ \E i \in LiveSearches(a) : n + 1 = a.searches[i].index + 1
      BY <1>2, <1>7, <3>1, <3>2 DEF ResponsesLink
    <3> HIDE DEF n
    <3>4. \/ Speaking(a) /\ s.items[a.message.index + 1].kind = "reasoning"
          \/ \E i \in OpenTools(a) : s.items[a.tools[i].index + 1].kind = "reasoning"
          \/ \E i \in LiveSearches(a) : s.items[a.searches[i].index + 1].kind = "reasoning"
      BY <1>6, <3>3
    <3> QED BY <1>2, <3>4 DEF ResponsesLink
  <2>2. Follows(d) /\ d.items = s.items
    <3>1. n \in Nat /\ n < Len(s.items)
      BY <1>6
    <3> HIDE DEF b, n
    <3> QED BY <1>3, <1>6, <2>1, <3>1, ReadLateReasoning
  <2> HIDE DEF b, d, n
  <2>3. ResponsesLink(a, d, h, 0, <<>>)
    BY <1>2, <1>5, <1>7, <2>2, SameItems
  <2>4. ResponsesLink(b, d, h, 0, <<>>)
    BY <1>4, <2>3, ResponsesLinkOf
  <2> QED BY <1>1, <1>3, <1>4, <2>4 DEF Linked, InResponses, b, d, h
<1>8. CASE Thinking(a)
  <2>1. OpenAt(s, n) /\ s.items[n + 1].parts = <<Part("reasoning", heard)>>
    BY <1>2, <1>8 DEF ResponsesLink
  <2>2. /\ OpenAt(d, n) /\ MovedAt(s, d, n) /\ Len(d.items) = Len(s.items)
        /\ d.items[n + 1].kind = "reasoning" /\ d.items[n + 1].parts = <<Part("reasoning", h)>>
    <3>1. PICK kind : kind = "reasoning"
      OBVIOUS
    <3>2. /\ b = Write(a, Delta(n, 0, kind, data))
          /\ Seen(c, a).items[n + 1].parts = <<Part(kind, heard)>> /\ Follows(Seen(c, a))
          /\ OpenAt(Seen(c, a), n)
      BY <1>6, <2>1, <3>1 DEF s
    <3>3. /\ OpenAt(d, n) /\ MovedAt(Seen(c, a), d, n) /\ Len(d.items) = Len(Seen(c, a).items)
          /\ d.items[n + 1].kind = Seen(c, a).items[n + 1].kind
          /\ d.items[n + 1].parts = <<Part(kind, heard \o data)>>
      <4> HIDE DEF b, n
      <4> QED BY <1>2, <3>2, GivesMore
    <3> HIDE DEF b, n, d
    <3> QED BY <1>6, <3>1, <3>3 DEF s, h
  <2> DEFINE item == d.items[n + 1]
  <2> HIDE DEF b, d
  <2>3. /\ OpenTools(b) = OpenTools(a) /\ LiveSearches(b) = LiveSearches(a)
        /\ (Thinking(b) <=> Thinking(a)) /\ (Speaking(b) <=> Speaking(a))
    BY <1>4 DEF OpenTools, LiveSearches, Thinking, Speaking
  <2>4. /\ ThoughtElsewhere(a, b, n) /\ MessageElsewhere(a, b, n) /\ ToolsElsewhere(a, b, n)
        /\ SearchesElsewhere(a, b, n)
    BY <1>4, <2>3 DEF ThoughtElsewhere, MessageElsewhere, ToolsElsewhere, SearchesElsewhere
  <2>5. /\ ~(Speaking(a) /\ a.message.index = n)
        /\ \A j \in LiveSearches(a) : a.searches[j].index # n
        /\ \A j \in OpenTools(a) : a.tools[j].index # n
        /\ Staged(a)
    BY <1>2, <1>8, OneHolder
  <2>6. MessageAt(b, item, n) /\ SearchesAt(b, item, n) /\ ToolsAt(b, item, n, 0, <<>>)
    BY <1>4, <2>3, <2>5 DEF MessageAt, SearchesAt, ToolsAt
  <2>7. ThoughtAt(b, item, n, h) /\ HeldAt(b, n) /\ Staged(b)
    BY <1>4, <1>8, <2>2, <2>3, <2>5 DEF ThoughtAt, HeldAt, Staged, OpenAt
  <2>8. ~(b.thought.index # n)
    BY <1>4
  <2> HIDE DEF n
  <2>9. ResponsesLink(b, d, h, 0, <<>>)
    <3>1. /\ ThoughtAt(b, d.items[n + 1], n, h) /\ MessageAt(b, d.items[n + 1], n)
          /\ SearchesAt(b, d.items[n + 1], n) /\ ToolsAt(b, d.items[n + 1], n, 0, <<>>)
      BY <2>6, <2>7
    <3>2. b.nextIndex = Len(d.items) /\ (~b.thought.started => h = <<>>)
      BY <1>2, <1>4, <2>2 DEF ResponsesLink
    <3>3. \A i \in OpenTools(b) : b.tools[i].index # n => (i # 0 /\ i # 0) \/ (0 = 0 /\ <<>> = <<>>)
      OBVIOUS
    <3>4. b.thought.started => \/ a.thought.started /\ b.thought.index = a.thought.index
                               \/ b.thought.index = n /\ d.items[n + 1].kind = "reasoning"
      BY <1>4
    <3>5. Thinking(b) /\ b.thought.index # n => h = heard
      BY <2>8
    <3>6. d.items[n + 1].open => HeldAt(b, n)
      BY <2>7
    <3> QED BY <1>2, <1>5, <2>2, <2>4, <2>7, <3>1, <3>2, <3>3, <3>4, <3>5, <3>6, ResponsesMoves
  <2> QED BY <1>1, <1>3, <1>4, <2>9 DEF Linked, InResponses, b, d, h, n
<1> QED BY <1>7, <1>8

(* Reasoning goes to its item, which is opened for the first of it.         *)
LEMMA ResponsesReasons ==
  ASSUME NEW c, NEW a, NEW heard, Linked(c, a, heard), NEW data, IsSeq(data)
  PROVE  LET b == ResponsesDelta(a, "reasoning", data)
         IN  Linked(c, b, heard \o data) /\ Only(a, b, {"out", "nextIndex", "thought"})
<1> DEFINE p == EnsureReasoning(a)
           b == FillReasoning(p, data)
<1>1. ResponsesDelta(a, "reasoning", data) = b
  BY DEF ResponsesDelta
<1>2. Linked(c, p, heard) /\ p.thought.started /\ Only(a, p, {"out", "nextIndex", "thought"})
  BY EnsureReasoningFacts
<1> HIDE DEF p
<1>3. Linked(c, b, heard \o data) /\ Only(p, b, {"out"})
  BY <1>2, FillReasoningFacts
<1> HIDE DEF b
<1>4. Only(a, b, {"out", "nextIndex", "thought"})
  BY <1>2, <1>3 DEF Only
<1> QED BY <1>1, <1>3, <1>4

(* The row of one search is replaced and an index may be taken for it.      *)
LEMMA SearchRow ==
  ASSUME NEW a, IsAdapter(a), NEW i \in 1..Len(a.searches), NEW row, DOMAIN row = SearchFields,
         NEW b, Only(a, b, {"searches", "nextIndex", "parts"}), b.searches = [a.searches EXCEPT ![i] = row]
  PROVE  /\ IsAdapter(b) /\ \A c : Seen(c, b) = Seen(c, a)
         /\ Len(b.searches) = Len(a.searches) /\ b.searches[i] = row
         /\ \A j \in 1..Len(a.searches) : j # i => b.searches[j] = a.searches[j]
         /\ b.tools = a.tools /\ b.thought = a.thought /\ b.message = a.message /\ b.target = a.target
<1> DEFINE searches == [a.searches EXCEPT ![i] = row]
<1>2. /\ IsSeq(searches) /\ Len(searches) = Len(a.searches) /\ searches[i] = row
      /\ \A j \in 1..Len(a.searches) : j # i => searches[j] = a.searches[j]
  BY Replaced DEF IsAdapter
<1>1. b.searches = searches
  OBVIOUS
<1> HIDE DEF searches
<1>3. \A j \in 1..Len(searches) : DOMAIN searches[j] = SearchFields
  BY <1>2 DEF IsAdapter
<1>4. /\ b.tools = a.tools /\ b.thought = a.thought /\ b.message = a.message
      /\ b.target = a.target /\ b.out = a.out
  BY DEF IsAdapter, AdapterFields, Only
<1> QED BY <1>1, <1>2, <1>3, <1>4 DEF IsAdapter, Only, Seen

(* All but the searches is closed.                                          *)
LEMMA ClosedFacts ==
  ASSUME NEW c, NEW a, Whole(c, a)
  PROVE  LET b == CloseTools(CloseMessage(CloseReasoning(a)))
         IN  /\ ResponsesStep(c, a, b) /\ b.searches = a.searches
             /\ ~Thinking(b) /\ ~Speaking(b) /\ OpenTools(b) = {}
<1> DEFINE p == CloseReasoning(a)
           q == CloseMessage(p)
           b == CloseTools(q)
           h == a.reasoning
<1>1. Linked(c, p, h) /\ ~Thinking(p) /\ Only(a, p, {"out", "thought", "parts"})
  BY CloseReasoningFacts DEF Whole, Linked
<1> HIDE DEF p
<1>2. Linked(c, q, h) /\ ~Speaking(q) /\ Only(p, q, {"out", "message", "parts"})
  BY <1>1, CloseMessageFacts DEF Linked
<1> HIDE DEF q
<1>3. Linked(c, b, h) /\ Only(q, b, {"out", "tools"}) /\ SameCalls(q, b) /\ OpenTools(b) = {}
  BY <1>2, CloseToolsFacts
<1> HIDE DEF b
<1>4. /\ q.tools = a.tools /\ q.thought = p.thought /\ b.thought = p.thought
      /\ b.message = q.message /\ b.searches = a.searches
  BY <1>1, <1>2, <1>3 DEF Only, Whole, Linked, InResponses, IsAdapter, AdapterFields
<1>5. ~Thinking(b) /\ ~Speaking(b) /\ SameCalls(a, b)
  BY <1>1, <1>2, <1>3, <1>4 DEF Thinking, Speaking, SameCalls
<1>6. Only(a, b, {"out", "thought", "parts", "message", "tools"})
  BY <1>1, <1>2, <1>3 DEF Only
<1>7. {"out", "thought", "parts", "message", "tools"} \subseteq ResponsesFields
  BY DEF ResponsesFields
<1>8. ResponsesStep(c, a, b)
  BY <1>3, <1>5, <1>6, <1>7, WholeOnly DEF ResponsesStep, h
<1> QED BY <1>3, <1>4, <1>5, <1>8 DEF b, q, p

\* From a to b the searches are as many.
SearchStep(c, a, b) == ResponsesStep(c, a, b) /\ Len(b.searches) = Len(a.searches)

(* A search is opened at the next index, once.                              *)
LEMMA AddSearchFacts ==
  ASSUME NEW c, NEW a, Whole(c, a), NEW i \in 1..Len(a.searches)
  PROVE  SearchStep(c, a, AddSearch(a, i)) /\ AddSearch(a, i).searches[i].added
<1>1. CASE a.searches[i].added
  <2>1. AddSearch(a, i) = a
    BY <1>1 DEF AddSearch
  <2> QED BY <1>1, <2>1, ResponsesSelf DEF SearchStep
<1>2. CASE ~a.searches[i].added
  <2> DEFINE p == CloseTools(CloseMessage(CloseReasoning(a)))
             n == p.nextIndex
             s == Seen(c, p)
             h == p.reasoning
             key == a.searches[i].key
             row == [p.searches[i] EXCEPT !.added = TRUE, !.index = n]
             q == [Numbered(p) EXCEPT !.searches[i].added = TRUE, !.searches[i].index = n,
                                      !.parts = Append(@, Entry("search", key, <<>>))]
             e == Added(n, "search", key, <<>>)
             item == Item("search", key, <<>>, TRUE)
             b == Write(q, e)
             d == Seen(c, b)
  <2>1. AddSearch(a, i) = b
    BY <1>2 DEF AddSearch
  <2>2. ResponsesStep(c, a, p) /\ p.searches = a.searches /\ OpenTools(p) = {}
    BY ClosedFacts
  <2> HIDE DEF p
  <2>3. ResponsesLink(p, s, h, 0, <<>>) /\ IsAdapter(p) /\ p.target = "responses"
    BY <2>2 DEF ResponsesStep, Whole, Linked, InResponses
  <2>4. ~HeldAt(p, n) /\ Staged(p) /\ Follows(s) /\ n \in Nat /\ n = Len(s.items)
    <3> HIDE DEF s
    <3> QED BY <2>3, NothingBeyond
  <2>5. DOMAIN row = SearchFields /\ row.added /\ row.index = n /\ ~row.completed
    BY <1>2, <2>2, <2>3, <2>4 DEF IsAdapter, SearchFields, Staged
  <2>6. /\ Only(p, q, {"searches", "nextIndex", "parts"})
        /\ q.searches = [p.searches EXCEPT ![i] = row] /\ q.nextIndex = n + 1
    <3>1. DOMAIN p.searches = 1..Len(p.searches)
      BY <2>3, SeqFacts DEF IsAdapter
    <3> QED BY <2>2, <2>3, <3>1 DEF IsAdapter, AdapterFields, Only, Numbered
  <2> HIDE DEF q, row
  <2>7. /\ IsAdapter(q) /\ Seen(c, q) = s
        /\ Len(q.searches) = Len(p.searches) /\ q.searches[i] = row
        /\ \A j \in 1..Len(p.searches) : j # i => q.searches[j] = p.searches[j]
        /\ q.tools = p.tools /\ q.thought = p.thought /\ q.message = p.message /\ q.target = p.target
    BY <2>2, <2>3, <2>5, <2>6, SearchRow
  <2>8. item.kind = "search" /\ item.open /\ item.parts = <<>> /\ AreParts(<<>>)
    BY EmptyIsSeq DEF Item, AreParts
  <2> HIDE DEF item, s, key
  <2>9. IsAdapter(b) /\ Only(q, b, {"out"}) /\ d = Receive(s, e)
    BY <2>7, Writes
  <2>10. Grown(s, d, item)
    BY <2>4, <2>8, <2>9, ReadAdded DEF item
  <2> HIDE DEF b, d, e
  <2>11. MovedAt(s, d, n) /\ Len(d.items) = n + 1 /\ d.items[n + 1] = item
    BY <2>4, <2>10, MovedGrown
  <2>12. Only(p, b, {"out", "searches", "nextIndex", "parts"})
    BY <2>6, <2>9 DEF Only
  <2>13. /\ b.searches = q.searches /\ b.nextIndex = n + 1 /\ b.thought = p.thought
         /\ b.message = p.message /\ b.tools = p.tools /\ b.target = "responses"
    BY <2>3, <2>6, <2>7, <2>9 DEF IsAdapter, AdapterFields, Only
  <2>14. /\ OpenTools(b) = OpenTools(p) /\ (Speaking(b) <=> Speaking(p)) /\ (Thinking(b) <=> Thinking(p))
         /\ LiveSearches(b) = LiveSearches(p) \cup {i} /\ i \notin LiveSearches(p)
    BY <1>2, <2>2, <2>5, <2>7, <2>13 DEF OpenTools, LiveSearches, Thinking, Speaking
  <2> HIDE DEF n
  <2>15. /\ ThoughtElsewhere(p, b, n) /\ MessageElsewhere(p, b, n) /\ ToolsElsewhere(p, b, n)
    BY <2>13, <2>14 DEF ThoughtElsewhere, MessageElsewhere, ToolsElsewhere
  <2>16. /\ \A j \in LiveSearches(p) : b.searches[j] = p.searches[j] /\ p.searches[j].index # n
         /\ b.searches[i].index = n
    BY <2>4, <2>5, <2>7, <2>13, <2>14 DEF HeldAt, LiveSearches
  <2>17. SearchesElsewhere(p, b, n) /\ SearchesAt(b, item, n)
    BY <2>8, <2>14, <2>16 DEF SearchesElsewhere, SearchesAt
  <2>18. ThoughtAt(b, item, n, h) /\ MessageAt(b, item, n) /\ ToolsAt(b, item, n, 0, <<>>)
    BY <2>2, <2>4, <2>13, <2>14 DEF ThoughtAt, MessageAt, ToolsAt, HeldAt
  <2>19. HeldAt(b, n) /\ Staged(b)
    <3>1. Staged(b)
      BY <2>4, <2>5, <2>7, <2>13 DEF Staged
    <3>2. HeldAt(b, n)
      BY <2>14, <2>16 DEF HeldAt
    <3> QED BY <3>1, <3>2
  <2>20. ResponsesLink(b, d, h, 0, <<>>)
    <3>1. /\ ThoughtAt(b, d.items[n + 1], n, h) /\ MessageAt(b, d.items[n + 1], n)
          /\ SearchesAt(b, d.items[n + 1], n) /\ ToolsAt(b, d.items[n + 1], n, 0, <<>>)
      BY <2>11, <2>17, <2>18
    <3>2. b.nextIndex = Len(d.items) /\ IsSeq(h) /\ (~b.thought.started => h = <<>>)
      BY <2>3, <2>11, <2>13 DEF ResponsesLink
    <3>3. \A j \in OpenTools(b) : b.tools[j].index # n => (j # 0 /\ j # 0) \/ (0 = 0 /\ <<>> = <<>>)
      OBVIOUS
    <3>4. b.thought.started => \/ p.thought.started /\ b.thought.index = p.thought.index
                               \/ b.thought.index = n /\ d.items[n + 1].kind = "reasoning"
      BY <2>13
    <3>5. Thinking(b) /\ b.thought.index # n => h = h
      OBVIOUS
    <3>6. d.items[n + 1].open => HeldAt(b, n)
      BY <2>19
    <3> HIDE DEF h
    <3> QED BY <2>3, <2>11, <2>15, <2>17, <2>19, <3>1, <3>2, <3>3, <3>4, <3>5, <3>6, ResponsesMoves
  <2>21. ResponsesStep(c, p, b)
    <3>1. Linked(c, b, p.reasoning) /\ SameCalls(p, b)
      BY <2>9, <2>13, <2>20, SameCallsSelf DEF Linked, InResponses, d
    <3>2. {"out", "searches", "nextIndex", "parts"} \subseteq ResponsesFields
      BY DEF ResponsesFields
    <3> QED BY <2>2, <2>12, <3>1, <3>2, WholeOnly DEF ResponsesStep
  <2>22. b.searches[i].added /\ Len(b.searches) = Len(a.searches)
    BY <2>2, <2>5, <2>7, <2>13
  <2> QED BY <2>1, <2>2, <2>21, <2>22, ResponsesStepTwice DEF SearchStep
<1> QED BY <1>1, <1>2

(* A stage of a search that is open.                                        *)
LEMMA StageFacts ==
  ASSUME NEW c, NEW a, Whole(c, a), NEW i \in LiveSearches(a)
  PROVE  LET b == Write(a, Stage(a.searches[i].index))
         IN  ResponsesStep(c, a, b) /\ b.searches = a.searches
<1> DEFINE n == a.searches[i].index
           s == Seen(c, a)
           b == Write(a, Stage(n))
           d == Seen(c, b)
<1>1. ResponsesLink(a, s, a.reasoning, 0, <<>>) /\ IsAdapter(a) /\ a.target = "responses"
  BY DEF Whole, Linked, InResponses
<1>2. IsAdapter(b) /\ Only(a, b, {"out"}) /\ d = Receive(s, Stage(n))
  BY <1>1, Writes
<1> HIDE DEF s
<1>3. OpenAt(s, n) /\ Follows(s)
  BY <1>1 DEF ResponsesLink
<1> HIDE DEF b, d, n
<1>4. Turned(s, d, n, s.items[n + 1])
  BY <1>2, <1>3, ReadStage
<1>5. Follows(d) /\ Len(d.items) = Len(s.items) /\ \A k \in 1..Len(s.items) : d.items[k] = s.items[k]
  BY <1>4 DEF Turned
<1>6. ResponsesLink(a, d, a.reasoning, 0, <<>>)
  <2>1. IsSeq(a.reasoning) /\ (~a.thought.started => a.reasoning = <<>>)
    BY <1>1 DEF ResponsesLink
  <2> QED BY <1>1, <1>5, <2>1, SameItems
<1>7. Only(a, b, AdapterFields \ {"tools", "searches", "thought", "message", "nextIndex"})
  BY <1>2, OnlyMore DEF AdapterFields
<1>8. ResponsesLink(b, d, a.reasoning, 0, <<>>)
  BY <1>1, <1>6, <1>7, ResponsesLinkSame DEF IsAdapter
<1>9. b.searches = a.searches /\ b.tools = a.tools /\ b.target = "responses"
  BY <1>1, <1>2 DEF IsAdapter, AdapterFields, Only
<1>10. Linked(c, b, a.reasoning) /\ SameCalls(a, b)
  BY <1>2, <1>8, <1>9, SameCallsSelf DEF Linked, InResponses, d
<1>11. {"out"} \subseteq ResponsesFields
  BY DEF ResponsesFields
<1> QED BY <1>2, <1>9, <1>10, <1>11, WholeOnly DEF ResponsesStep, b, n

\* From a to b nothing but search i has changed.
SearchMoved(a, b, i) ==
  /\ Only(a, b, {"out", "searches"})
  /\ Len(b.searches) = Len(a.searches)
  /\ b.searches[i].added = a.searches[i].added
  /\ \A j \in 1..Len(a.searches) : j # i => b.searches[j] = a.searches[j]

(* Other searches, of which the same are open.                              *)
LEMMA SearchesKept ==
  ASSUME NEW c, NEW a, Whole(c, a), NEW w, IsAdapter(w), Seen(c, w) = Seen(c, a), Only(a, w, {"searches"}),
         LiveSearches(w) = LiveSearches(a), Staged(w),
         \A j \in LiveSearches(a) : w.searches[j].index = a.searches[j].index
  PROVE  ResponsesStep(c, a, w)
<1> DEFINE s == Seen(c, a)
<1>1. ResponsesLink(a, s, a.reasoning, 0, <<>>) /\ IsAdapter(a) /\ a.target = "responses"
  BY DEF Whole, Linked, InResponses
<1>2. /\ w.nextIndex = a.nextIndex /\ w.tools = a.tools /\ w.thought = a.thought /\ w.message = a.message
      /\ w.target = "responses"
  BY <1>1 DEF IsAdapter, AdapterFields, Only
<1>3. OpenTools(w) = OpenTools(a) /\ (Thinking(w) <=> Thinking(a)) /\ (Speaking(w) <=> Speaking(a))
  BY <1>2 DEF OpenTools, Thinking, Speaking
<1> HIDE DEF s
<1>4. /\ Follows(s) /\ w.nextIndex = Len(s.items) /\ IsSeq(a.reasoning)
      /\ ~w.thought.started => a.reasoning = <<>>
      /\ w.thought.started =>
           w.thought.index \in 0..(Len(s.items) - 1) /\ s.items[w.thought.index + 1].kind = "reasoning"
      /\ Thinking(w) => /\ OpenAt(s, w.thought.index)
                        /\ s.items[w.thought.index + 1].parts = <<Part("reasoning", a.reasoning)>>
      /\ Speaking(w) => /\ OpenAt(s, w.message.index)
                        /\ s.items[w.message.index + 1].kind = "message"
                        /\ s.items[w.message.index + 1].parts = w.message.content
  BY <1>1, <1>2, <1>3 DEF ResponsesLink
<1>5. /\ \A j \in OpenTools(w) :
           /\ OpenAt(s, w.tools[j].index)
           /\ s.items[w.tools[j].index + 1].kind = "tool"
           /\ Given(w.tools[j], s.items[w.tools[j].index + 1].parts, j = 0, <<>>)
      /\ \A j, k \in OpenTools(w) : w.tools[j].index = w.tools[k].index => j = k
  BY <1>1, <1>2, <1>3 DEF ResponsesLink
<1>6. /\ \A j \in LiveSearches(w) :
           OpenAt(s, w.searches[j].index) /\ s.items[w.searches[j].index + 1].kind = "search"
      /\ \A j, k \in LiveSearches(w) : w.searches[j].index = w.searches[k].index => j = k
  BY <1>1 DEF ResponsesLink
<1>7. \A k \in 1..Len(s.items) :
        s.items[k].open => \/ Thinking(w) /\ k = w.thought.index + 1
                           \/ Speaking(w) /\ k = w.message.index + 1
                           \/ \E j \in OpenTools(w) : k = w.tools[j].index + 1
                           \/ \E j \in LiveSearches(w) : k = w.searches[j].index + 1
  BY <1>1, <1>2, <1>3 DEF ResponsesLink
<1>8. \A j \in 1..Len(w.searches) : w.searches[j].completed => w.searches[j].searching /\ w.searches[j].added
  BY DEF Staged
<1>9. ResponsesLink(w, s, a.reasoning, 0, <<>>)
  BY <1>4, <1>5, <1>6, <1>7, <1>8 DEF ResponsesLink
<1>10. Linked(c, w, a.reasoning) /\ SameCalls(a, w)
  BY <1>2, <1>9, SameCallsSelf DEF Linked, InResponses, s
<1>11. {"searches"} \subseteq ResponsesFields
  BY DEF ResponsesFields
<1> QED BY <1>10, <1>11, WholeOnly DEF ResponsesStep

(* A search begins.                                                         *)
LEMMA StartSearchingFacts ==
  ASSUME NEW c, NEW a, Whole(c, a), NEW i \in 1..Len(a.searches), a.searches[i].added
  PROVE  LET b == StartSearching(a, i)
         IN  /\ SearchStep(c, a, b) /\ SearchMoved(a, b, i) /\ b.searches[i].searching
             /\ b.searches[i].completed = a.searches[i].completed /\ b.searches[i].index = a.searches[i].index
<1>1. CASE a.searches[i].searching
  <2>1. StartSearching(a, i) = a
    BY <1>1 DEF StartSearching
  <2> QED BY <1>1, <2>1, ResponsesSelf, OnlySelf DEF SearchStep, SearchMoved
<1>2. CASE ~a.searches[i].searching
  <2> DEFINE row == [a.searches[i] EXCEPT !.searching = TRUE]
             w == [a EXCEPT !.searches[i].searching = TRUE]
             n == a.searches[i].index
             b == Write(w, Stage(n))
             s == Seen(c, a)
  <2>1. StartSearching(a, i) = b
    BY <1>2 DEF StartSearching
  <2>2. ResponsesLink(a, s, a.reasoning, 0, <<>>) /\ IsAdapter(a) /\ a.target = "responses"
    BY DEF Whole, Linked, InResponses
  <2>3. /\ DOMAIN row = SearchFields /\ row.added = a.searches[i].added /\ row.index = n
        /\ row.completed = a.searches[i].completed /\ row.searching
    BY <2>2 DEF IsAdapter, SearchFields
  <2>4. Only(a, w, {"searches"}) /\ w.searches = [a.searches EXCEPT ![i] = row]
    <3>1. DOMAIN a.searches = 1..Len(a.searches)
      BY <2>2, SeqFacts DEF IsAdapter
    <3> QED BY <2>2, <3>1 DEF IsAdapter, AdapterFields, Only
  <2> HIDE DEF w, row
  <2>5. Only(a, w, {"searches", "nextIndex", "parts"})
    BY <2>4, OnlyMore
  <2>6. /\ IsAdapter(w) /\ Seen(c, w) = s
        /\ Len(w.searches) = Len(a.searches) /\ w.searches[i] = row
        /\ \A j \in 1..Len(a.searches) : j # i => w.searches[j] = a.searches[j]
        /\ w.tools = a.tools /\ w.thought = a.thought /\ w.message = a.message /\ w.target = a.target
    BY <2>2, <2>3, <2>4, <2>5, SearchRow
  <2>7. ~a.searches[i].completed
    BY <1>2, <2>2 DEF ResponsesLink
  <2>8. LiveSearches(w) = LiveSearches(a) /\ i \in LiveSearches(w)
    BY <2>3, <2>6, <2>7 DEF LiveSearches
  <2>9. \A j \in 1..Len(a.searches) : /\ w.searches[j].index = a.searches[j].index
                                      /\ w.searches[j].added = a.searches[j].added
                                      /\ w.searches[j].completed = a.searches[j].completed
                                      /\ a.searches[j].searching => w.searches[j].searching
    BY <2>3, <2>6
  <2>10. w.nextIndex = a.nextIndex /\ w.reasoning = a.reasoning
    BY <2>2, <2>4 DEF IsAdapter, AdapterFields, Only
  <2>11. Staged(w)
    BY <2>2, <2>6, <2>9 DEF ResponsesLink, Staged
  <2>12. ResponsesStep(c, a, w)
    <3>1. \A j \in LiveSearches(a) : w.searches[j].index = a.searches[j].index
      BY <2>9 DEF LiveSearches
    <3> QED BY <2>4, <2>6, <2>8, <2>11, <3>1, SearchesKept
  <2>13. w.searches[i].index = n
    BY <2>9
  <2>14. ResponsesStep(c, w, b) /\ b.searches = w.searches
    <3> HIDE DEF n
    <3> QED BY <2>8, <2>12, <2>13, StageFacts DEF ResponsesStep
  <2>15. Only(w, b, {"out"})
    BY <2>6, Writes
  <2> HIDE DEF b, n
  <2>16. ResponsesStep(c, a, b) /\ Only(a, b, {"out", "searches"})
    <3>1. ResponsesStep(c, a, b)
      BY <2>12, <2>14, ResponsesStepTwice
    <3> QED BY <2>4, <2>15, <3>1 DEF Only
  <2> QED BY <2>1, <2>3, <2>6, <2>13, <2>14, <2>16 DEF SearchStep, SearchMoved, n
<1> QED BY <1>1, <1>2

(* A search that is open is closed.                                         *)
LEMMA ShutSearch ==
  ASSUME NEW c, NEW a, Whole(c, a), NEW i \in LiveSearches(a), a.searches[i].searching
  PROVE  LET b == [Write(a, Done(a.searches[i].index, Unclaimed)) EXCEPT !.searches[i].completed = TRUE]
         IN  ResponsesStep(c, a, b) /\ SearchMoved(a, b, i) /\ b.searches[i].completed
<1> DEFINE n == a.searches[i].index
           e == Done(n, Unclaimed)
           s == Seen(c, a)
           r == Write(a, e)
           d == Seen(c, r)
           row == [a.searches[i] EXCEPT !.completed = TRUE]
           b == [r EXCEPT !.searches[i].completed = TRUE]
<1>1. ResponsesLink(a, s, a.reasoning, 0, <<>>) /\ IsAdapter(a) /\ a.target = "responses"
  BY DEF Whole, Linked, InResponses
<1>2. i \in 1..Len(a.searches) /\ a.searches[i].added /\ ~a.searches[i].completed
  BY DEF LiveSearches
<1>3. IsAdapter(r) /\ Only(a, r, {"out"}) /\ d = Receive(s, e)
  BY <1>1, Writes
<1> HIDE DEF r
<1>5. r.searches = a.searches
  BY <1>1, <1>3 DEF IsAdapter, AdapterFields, Only
<1>6. /\ DOMAIN row = SearchFields /\ row.added /\ row.searching /\ row.completed
      /\ row.added = a.searches[i].added
  BY <1>1, <1>2 DEF IsAdapter, SearchFields
<1>7. Only(r, b, {"searches"}) /\ b.searches = [r.searches EXCEPT ![i] = row]
  <2>1. DOMAIN r.searches = 1..Len(r.searches)
    BY <1>3, SeqFacts DEF IsAdapter
  <2> QED BY <1>2, <1>3, <1>5, <2>1 DEF IsAdapter, AdapterFields, Only
<1> HIDE DEF row, b
<1>8. Only(r, b, {"searches", "nextIndex", "parts"})
  BY <1>7, OnlyMore
<1>9. /\ IsAdapter(b) /\ Seen(c, b) = d
      /\ Len(b.searches) = Len(a.searches) /\ b.searches[i] = row
      /\ \A j \in 1..Len(a.searches) : j # i => b.searches[j] = a.searches[j]
      /\ b.tools = r.tools /\ b.thought = r.thought /\ b.message = r.message /\ b.target = r.target
  <2>1. i \in 1..Len(r.searches)
    BY <1>2, <1>5
  <2>2. /\ IsAdapter(b) /\ Seen(c, b) = Seen(c, r)
        /\ Len(b.searches) = Len(r.searches) /\ b.searches[i] = row
        /\ \A j \in 1..Len(r.searches) : j # i => b.searches[j] = r.searches[j]
        /\ b.tools = r.tools /\ b.thought = r.thought /\ b.message = r.message /\ b.target = r.target
    <3>1. DOMAIN row = SearchFields
      BY <1>6
    <3>2. IsAdapter(r)
      BY <1>3
    <3>3. b.searches = [r.searches EXCEPT ![i] = row]
      BY <1>7
    <3> QED BY <1>8, <2>1, <3>1, <3>2, <3>3, SearchRow
  <2> QED BY <1>5, <2>2
<1>10. Only(a, b, {"out", "searches"})
  BY <1>3, <1>7 DEF Only
<1>11. /\ b.tools = a.tools /\ b.thought = a.thought /\ b.message = a.message /\ b.target = "responses"
       /\ b.nextIndex = a.nextIndex
  BY <1>1, <1>10 DEF IsAdapter, AdapterFields, Only
<1> HIDE DEF s, d, e
<1>12. OpenAt(s, n) /\ Follows(s)
  BY <1>1 DEF ResponsesLink
<1>13. MovedAt(s, d, n) /\ Len(d.items) = Len(s.items) /\ ~d.items[n + 1].open
  <2> HIDE DEF n
  <2> QED BY <1>3, <1>12, ShutItem DEF e
<1>14. /\ OpenTools(b) = OpenTools(a) /\ (Thinking(b) <=> Thinking(a)) /\ (Speaking(b) <=> Speaking(a))
       /\ LiveSearches(b) = LiveSearches(a) \ {i}
       /\ \A j \in LiveSearches(b) : b.searches[j] = a.searches[j]
  BY <1>2, <1>6, <1>9, <1>11 DEF OpenTools, Thinking, Speaking, LiveSearches
<1>15. /\ ThoughtElsewhere(a, b, n) /\ MessageElsewhere(a, b, n) /\ ToolsElsewhere(a, b, n)
  BY <1>11, <1>14 DEF ThoughtElsewhere, MessageElsewhere, ToolsElsewhere
<1>16. SearchesElsewhere(a, b, n)
  BY <1>14 DEF SearchesElsewhere
<1>17. ~HeldAt(b, n) /\ Staged(b)
  <2>1. /\ \A j \in LiveSearches(b) : b.searches[j].index # n
    <3>1. \A j, k \in LiveSearches(a) : a.searches[j].index = a.searches[k].index => j = k
      BY <1>1 DEF ResponsesLink
    <3> QED BY <1>14, <3>1
  <2>2. /\ Thinking(a) => a.thought.index # n
        /\ Speaking(a) => a.message.index # n
        /\ \A j \in OpenTools(a) : a.tools[j].index # n
        /\ Staged(a)
    BY <1>1, OneHolder
  <2>3. Staged(b)
    BY <1>6, <1>9, <2>2 DEF Staged
  <2> QED BY <1>11, <1>14, <2>1, <2>2, <2>3 DEF HeldAt
<1> HIDE DEF n
<1>18. ResponsesLink(b, d, a.reasoning, 0, <<>>)
  BY <1>1, <1>11, <1>13, <1>15, <1>16, <1>17, ShutResponses
<1>19. Linked(c, b, a.reasoning) /\ SameCalls(a, b)
  BY <1>9, <1>11, <1>18, SameCallsSelf DEF Linked, InResponses
<1>20. {"out", "searches"} \subseteq ResponsesFields
  BY DEF ResponsesFields
<1>21. ResponsesStep(c, a, b)
  BY <1>10, <1>19, <1>20, WholeOnly DEF ResponsesStep
<1> QED BY <1>2, <1>6, <1>9, <1>10, <1>21 DEF SearchMoved, b, r, n, e

(* A search ends.                                                           *)
LEMMA CompleteSearchFacts ==
  ASSUME NEW c, NEW a, Whole(c, a), NEW i \in 1..Len(a.searches), a.searches[i].added
  PROVE  LET b == CompleteSearch(a, i)
         IN  SearchStep(c, a, b) /\ SearchMoved(a, b, i) /\ b.searches[i].completed
<1>1. CASE a.searches[i].completed
  <2>1. CompleteSearch(a, i) = a
    BY <1>1 DEF CompleteSearch
  <2> QED BY <1>1, <2>1, ResponsesSelf, OnlySelf DEF SearchStep, SearchMoved
<1>2. CASE ~a.searches[i].completed
  <2> DEFINE p == StartSearching(a, i)
             n == a.searches[i].index
             q == Write(p, Stage(n))
             b == [Write(q, Done(n, Unclaimed)) EXCEPT !.searches[i].completed = TRUE]
  <2>1. CompleteSearch(a, i) = b
    BY <1>2 DEF CompleteSearch
  <2>2. /\ SearchStep(c, a, p) /\ SearchMoved(a, p, i) /\ p.searches[i].searching
        /\ ~p.searches[i].completed /\ p.searches[i].index = n
    BY <1>2, StartSearchingFacts
  <2> HIDE DEF p, n
  <2>3. i \in LiveSearches(p) /\ i \in 1..Len(p.searches)
    BY <2>2 DEF SearchMoved, LiveSearches
  <2>4. ResponsesStep(c, p, q) /\ q.searches = p.searches
    BY <2>2, <2>3, StageFacts DEF SearchStep, ResponsesStep
  <2>5. Only(p, q, {"out"})
    BY <2>2, Writes DEF SearchStep, ResponsesStep, Whole, Linked, InResponses
  <2> HIDE DEF q
  <2>6. i \in LiveSearches(q) /\ q.searches[i].searching /\ q.searches[i].index = n
    BY <2>2, <2>3, <2>4 DEF LiveSearches
  <2>7. ResponsesStep(c, q, b) /\ SearchMoved(q, b, i) /\ b.searches[i].completed
    BY <2>4, <2>6, ShutSearch DEF ResponsesStep
  <2> HIDE DEF b
  <2>8. ResponsesStep(c, a, b)
    <3>1. ResponsesStep(c, a, q)
      BY <2>2, <2>4, ResponsesStepTwice DEF SearchStep
    <3> QED BY <2>7, <3>1, ResponsesStepTwice
  <2>9. Only(a, b, {"out", "searches"})
    BY <2>2, <2>5, <2>7 DEF Only, SearchMoved
  <2>10. SearchMoved(a, b, i)
    BY <2>2, <2>3, <2>4, <2>7, <2>9 DEF SearchMoved
  <2> QED BY <2>1, <2>7, <2>8, <2>10 DEF SearchStep, SearchMoved
<1> QED BY <1>1, <1>2

(* An event of a search.                                                    *)
LEMMA ResponsesSearches ==
  ASSUME NEW c, NEW a, Whole(c, a), NEW s
  PROVE  ResponsesStep(c, a, SearchEvent(a, s))
<1> DEFINE b == EnsureSearch(a, s)
           i == Position(b.searches, s.key)
           p == AddSearch(b, i)
           d == SearchEvent(a, s)
<1>1. IsAdapter(a) /\ a.target = "responses" /\ Staged(a)
  BY DEF Whole, Linked, InResponses, ResponsesLink, Staged
<1>2. SearchKnown(a, b, i, s.key)
  BY <1>1, EnsureSearchFacts
<1>3. b.target = "responses"
  BY <1>1, <1>2 DEF IsAdapter, AdapterFields, Only, SearchKnown
<1>4. d = ResponsesSearch(b, i, s.stage)
  BY <1>3 DEF SearchEvent
<1>5. d = StartSearching(p, i) \/ d = CompleteSearch(p, i) \/ d = p
  BY <1>4 DEF ResponsesSearch
<1> HIDE DEF b, i, d
<1>6. ResponsesStep(c, a, b)
  <2>1. Len(a.searches) \in Nat /\ Len(b.searches) \in Nat
    BY <1>1, <1>2, SeqFacts DEF SearchKnown, IsAdapter
  <2>2. Staged(b)
    <3> SUFFICES ASSUME NEW j \in 1..Len(b.searches), b.searches[j].completed
                 PROVE  b.searches[j].searching /\ b.searches[j].added
      BY DEF Staged
    <3>1. j \in 1..Len(a.searches)
      BY <1>2, <2>1 DEF SearchKnown
    <3> QED BY <1>1, <1>2, <3>1 DEF SearchKnown, Staged
  <2>3. LiveSearches(b) = LiveSearches(a)
    <3>1. \A j \in 1..Len(a.searches) : b.searches[j] = a.searches[j]
      BY <1>2 DEF SearchKnown
    <3>2. CASE b.searches = a.searches
      BY <3>2 DEF LiveSearches
    <3>3. CASE /\ Len(b.searches) = Len(a.searches) + 1
               /\ ~b.searches[Len(b.searches)].added /\ ~b.searches[Len(b.searches)].completed
      <4>1. /\ \A j \in 1..Len(a.searches) : j \in 1..Len(b.searches)
            /\ \A j \in 1..Len(b.searches) : j # Len(b.searches) => j \in 1..Len(a.searches)
        BY <2>1, <3>3
      <4> QED BY <3>1, <3>3, <4>1 DEF LiveSearches
    <3> QED BY <1>2, <3>2, <3>3 DEF SearchKnown
  <2>4. \A j \in LiveSearches(a) : b.searches[j].index = a.searches[j].index
    BY <1>2 DEF SearchKnown, LiveSearches
  <2> QED BY <1>2, <2>2, <2>3, <2>4, SearchesKept DEF SearchKnown
<1>7. i \in 1..Len(b.searches)
  BY <1>2 DEF SearchKnown
<1>8. SearchStep(c, b, p) /\ p.searches[i].added
  BY <1>6, <1>7, AddSearchFacts DEF ResponsesStep
<1> HIDE DEF p
<1>9. i \in 1..Len(p.searches) /\ Whole(c, p)
  BY <1>7, <1>8 DEF SearchStep, ResponsesStep
<1>10. ResponsesStep(c, p, d)
  <2>1. ResponsesStep(c, p, StartSearching(p, i))
    BY <1>8, <1>9, StartSearchingFacts DEF SearchStep
  <2>2. ResponsesStep(c, p, CompleteSearch(p, i))
    BY <1>8, <1>9, CompleteSearchFacts DEF SearchStep
  <2> QED BY <1>5, <1>9, <2>1, <2>2, ResponsesSelf
<1>11. ResponsesStep(c, a, p)
  BY <1>6, <1>8, ResponsesStepTwice DEF SearchStep
<1>12. ResponsesStep(c, a, d)
  BY <1>10, <1>11, ResponsesStepTwice
<1> QED BY <1>12 DEF d

\* From a to b searches have gone on.
SearchesGone(c, a, b) ==
  ResponsesStep(c, a, b) /\ Only(a, b, {"out", "searches"}) /\ Len(b.searches) = Len(a.searches)

(* The searches that are still open are completed, one by one.              *)
LEMMA SearchedFacts ==
  ASSUME NEW c, NEW a, Whole(c, a), NEW s, s = [i \in 1..Len(a.searches) |-> i]
  PROVE  LET b == SearchedAll(a, s)
         IN  SearchesGone(c, a, b) /\ LiveSearches(b) = {}
<1>1. IsAdapter(a) /\ a.target = "responses" /\ IsSeq(a.searches) /\ Len(a.searches) \in Nat
  BY SeqFacts DEF Whole, Linked, InResponses, IsAdapter
<1> DEFINE n == Len(a.searches)
<1>2. IsSeq(s) /\ Len(s) = n /\ \A i \in 1..n : s[i] = i
  BY <1>1, Places
<1>3. PICK g : IsRun(g, "searched", 0, a, s) /\ SearchedAll(a, s) = g[Len(s)]
  BY <1>2, SearchedIsRun
<1> DEFINE Good == {k \in 0..n : /\ SearchesGone(c, a, g[k])
                                 /\ \A j \in 1..k : g[k].searches[j].added => g[k].searches[j].completed}
<1>4. 0 \in Good
  <2>1. SearchesGone(c, a, a)
    BY ResponsesSelf, OnlySelf DEF SearchesGone
  <2>2. g[0] = a
    BY <1>3 DEF IsRun
  <2> QED BY <1>1, <2>1, <2>2
<1>5. ASSUME NEW i \in 1..n, i - 1 \in Good PROVE i \in Good
  <2> DEFINE p == g[i - 1]
             q == g[i]
  <2>1. q = IF p.searches[i].added THEN CompleteSearch(p, i) ELSE p
    BY <1>2, <1>3 DEF IsRun, Body
  <2>2. SearchesGone(c, a, p) /\ \A j \in 1..(i - 1) : p.searches[j].added => p.searches[j].completed
    BY <1>5
  <2>3. Whole(c, p) /\ i \in 1..Len(p.searches) /\ Len(p.searches) = n
    BY <2>2 DEF SearchesGone, ResponsesStep
  <2> HIDE DEF p, q
  <2>4. CASE ~p.searches[i].added
    <3>1. q = p
      BY <2>1, <2>4
    <3>2. \A j \in 1..i : q.searches[j].added => q.searches[j].completed
      BY <1>1, <2>2, <2>4, <3>1
    <3> QED BY <1>1, <2>2, <3>1, <3>2 DEF q
  <2>5. CASE p.searches[i].added
    <3>1. q = CompleteSearch(p, i)
      BY <2>1, <2>5
    <3>2. SearchStep(c, p, q) /\ SearchMoved(p, q, i) /\ q.searches[i].completed
      BY <2>3, <2>5, <3>1, CompleteSearchFacts
    <3>3. \A j \in 1..i : q.searches[j].added => q.searches[j].completed
      BY <1>1, <2>2, <2>3, <3>2 DEF SearchMoved
    <3>4. ResponsesStep(c, a, q)
      BY <2>2, <3>2, ResponsesStepTwice DEF SearchStep, SearchesGone
    <3>5. Only(a, q, {"out", "searches"}) /\ Len(q.searches) = n
      BY <2>2, <2>3, <3>2 DEF SearchesGone, SearchMoved, Only
    <3> QED BY <1>1, <3>3, <3>4, <3>5 DEF q, SearchesGone
  <2> QED BY <2>4, <2>5
<1>6. n \in Good
  <2> HIDE DEF Good
  <2>1. \A i \in 0..n : i \in Good
    BY <1>1, <1>4, <1>5, Climb
  <2> QED BY <1>1, <2>1
<1>7. SearchesGone(c, a, g[n]) /\ LiveSearches(g[n]) = {}
  BY <1>6 DEF LiveSearches, SearchesGone
<1> QED BY <1>2, <1>3, <1>7

(* The end of the stream.                                                   *)
LEMMA ResponsesEnd ==
  ASSUME NEW c, NEW a, Whole(c, a)
  PROVE  LET b == WriteDone(a)
         IN  IsAdapter(b) /\ Ended(Seen(c, b)) /\ Only(a, b, ResponsesFields) /\ SameCalls(a, b)
<1> DEFINE p == CloseTools(CloseMessage(CloseReasoning(a)))
           q == SearchedAll(p, [i \in DOMAIN p.searches |-> i])
           s == Seen(c, q)
           e == Terminal(Output(q))
           b == Write(q, e)
<1>1. IsAdapter(a) /\ a.target = "responses"
  BY DEF Whole, Linked, InResponses
<1>2. /\ ResponsesStep(c, a, p) /\ p.searches = a.searches
      /\ ~Thinking(p) /\ ~Speaking(p) /\ OpenTools(p) = {}
  BY ClosedFacts
<1>3. WriteDone(a) = b
  <2>1. q = SearchedAll(p, [i \in DOMAIN a.searches |-> i])
    BY <1>2
  <2> HIDE DEF q
  <2> QED BY <1>1, <2>1, ResponsesDoneIs
<1> HIDE DEF p
<1>4. DOMAIN p.searches = 1..Len(p.searches) /\ Whole(c, p) /\ IsAdapter(p)
  BY <1>2, SeqFacts DEF ResponsesStep, Whole, Linked, InResponses, IsAdapter
<1>5. SearchesGone(c, p, q) /\ LiveSearches(q) = {}
  BY <1>4, SearchedFacts
<1> HIDE DEF q
<1>6. ResponsesStep(c, a, q)
  BY <1>2, <1>5, ResponsesStepTwice DEF SearchesGone
<1>7. q.thought = p.thought /\ q.message = p.message /\ q.tools = p.tools
  BY <1>4, <1>5 DEF SearchesGone, Only, IsAdapter, AdapterFields
<1>8. ~Thinking(q) /\ ~Speaking(q) /\ OpenTools(q) = {}
  BY <1>2, <1>7 DEF Thinking, Speaking, OpenTools
<1>9. IsAdapter(q) /\ ResponsesLink(q, s, q.reasoning, 0, <<>>)
  BY <1>6 DEF ResponsesStep, Whole, Linked, InResponses
<1> HIDE DEF s
<1>10. Follows(s) /\ \A k \in 1..Len(s.items) : ~s.items[k].open
  BY <1>5, <1>8, <1>9 DEF ResponsesLink
<1>11. IsAdapter(b) /\ Only(q, b, {"out"}) /\ Seen(c, b) = Receive(s, e)
  BY <1>9, Writes DEF s
<1>12. Ended(Receive(s, e))
  BY <1>10, ReadEnd DEF Ended
<1> HIDE DEF b
<1>13. Only(a, b, ResponsesFields) /\ b.tools = q.tools
  BY <1>6, <1>9, <1>11 DEF Only, ResponsesStep, ResponsesFields, IsAdapter, AdapterFields
<1>14. SameCalls(a, b)
  BY <1>6, <1>13 DEF SameCalls, ResponsesStep
<1> QED BY <1>3, <1>11, <1>12, <1>13, <1>14

(* A delta that has been merged to an open call, or to a new one, is what   *)
(* the client has yet to be told.                                           *)
LEMMA MergedResponses ==
  ASSUME NEW c, NEW a, Whole(c, a), NEW b, NEW i, NEW t, Merged(a, b, i, t), IsSeq(t.args),
         i \in 1..Len(a.tools) => i \in OpenTools(a)
  PROVE  InResponses(c, b, a.reasoning, i, t.args)
<1> DEFINE s == Seen(c, a)
           h == a.reasoning
<1>1. ResponsesLink(a, s, h, 0, <<>>) /\ IsAdapter(a) /\ a.target = "responses" /\ Len(a.tools) \in Nat
  BY SeqFacts DEF Whole, Linked, InResponses, IsAdapter
<1>2. IsAdapter(b) /\ Seen(c, b) = s /\ Only(a, b, {"tools"})
  BY DEF Merged
<1>3. /\ b.nextIndex = a.nextIndex /\ b.searches = a.searches /\ b.thought = a.thought /\ b.message = a.message
      /\ b.target = "responses"
  BY <1>1, <1>2 DEF IsAdapter, AdapterFields, Only
<1>4. (Thinking(b) <=> Thinking(a)) /\ (Speaking(b) <=> Speaking(a)) /\ LiveSearches(b) = LiveSearches(a)
  BY <1>3 DEF LiveSearches, Thinking, Speaking
<1>12. /\ \A j \in 1..Len(a.tools) : j # i => b.tools[j] = a.tools[j]
       /\ \/ /\ i \in 1..Len(a.tools) /\ Len(b.tools) = Len(a.tools)
             /\ b.tools[i].args = a.tools[i].args \o t.args
             /\ b.tools[i].open = a.tools[i].open /\ b.tools[i].index = a.tools[i].index
          \/ i = Len(a.tools) + 1 /\ Len(b.tools) = i /\ ~b.tools[i].open
  BY DEF Merged
<1>13. Len(a.tools) \in Nat /\ IsAdapter(a)
  BY <1>1
<1>14. i \in 1..Len(a.tools) => /\ Len(b.tools) = Len(a.tools)
                               /\ b.tools[i].args = a.tools[i].args \o t.args
                               /\ b.tools[i].open = a.tools[i].open /\ b.tools[i].index = a.tools[i].index
  <2> SUFFICES ASSUME i \in 1..Len(a.tools)
               PROVE  /\ Len(b.tools) = Len(a.tools)
                      /\ b.tools[i].args = a.tools[i].args \o t.args
                      /\ b.tools[i].open = a.tools[i].open /\ b.tools[i].index = a.tools[i].index
    OBVIOUS
  <2>1. i # Len(a.tools) + 1
    BY <1>13
  <2> QED BY <1>12, <2>1
<1>15. i \notin 1..Len(a.tools) => i = Len(a.tools) + 1 /\ Len(b.tools) = i /\ ~b.tools[i].open
  BY <1>12
<1>5. /\ OpenTools(b) = OpenTools(a)
      /\ \A j \in OpenTools(a) : b.tools[j].index = a.tools[j].index /\ (j # i => b.tools[j] = a.tools[j])
  <2>1. CASE i \in 1..Len(a.tools)
    <3>1. /\ Len(b.tools) = Len(a.tools) /\ b.tools[i].open = a.tools[i].open
          /\ b.tools[i].index = a.tools[i].index
          /\ \A j \in 1..Len(a.tools) : j # i => b.tools[j] = a.tools[j]
      BY <1>12, <1>14, <2>1
    <3>2. \A j \in 1..Len(a.tools) : b.tools[j].open = a.tools[j].open /\ b.tools[j].index = a.tools[j].index
      BY <3>1
    <3> QED BY <3>1, <3>2 DEF OpenTools
  <2>2. CASE i \notin 1..Len(a.tools)
    <3>1. i = Len(a.tools) + 1 /\ Len(b.tools) = i /\ ~b.tools[i].open
      BY <1>15, <2>2
    <3>2. \A j \in 1..Len(a.tools) : b.tools[j] = a.tools[j]
      BY <1>12, <2>2
    <3> QED BY <1>13, <3>1, <3>2 DEF OpenTools
  <2> QED BY <2>1, <2>2
<1> HIDE DEF s, h
<1>6. \A j \in OpenTools(b) : Given(b.tools[j], s.items[b.tools[j].index + 1].parts, j = i, t.args)
  <2> SUFFICES ASSUME NEW j \in OpenTools(b)
               PROVE  Given(b.tools[j], s.items[b.tools[j].index + 1].parts, j = i, t.args)
    OBVIOUS
  <2> DEFINE parts == s.items[a.tools[j].index + 1].parts
  <2>1. j \in 1..Len(a.tools) /\ b.tools[j].index = a.tools[j].index
    BY <1>5 DEF OpenTools
  <2>2. j # 0
    BY <1>1, <2>1
  <2>3. Given(a.tools[j], parts, FALSE, <<>>)
    BY <1>1, <1>5, <2>2 DEF ResponsesLink
  <2>4. parts = <<Part("arguments", a.tools[j].args)>>
    BY <2>3 DEF Given
  <2> HIDE DEF parts
  <2>5. CASE j # i
    <3>1. Given(b.tools[j], parts, FALSE, t.args)
      BY <1>5, <2>4, <2>5 DEF Given
    <3> QED BY <2>1, <2>5, <3>1 DEF parts
  <2>6. CASE j = i
    <3>1. IsSeq(a.tools[j].args) /\ b.tools[j].args = a.tools[j].args \o t.args
      BY <1>13, <1>14, <2>1, <2>6 DEF IsAdapter, IsTool
    <3>2. Given(b.tools[j], parts, TRUE, t.args)
      BY <2>4, <3>1 DEF Given
    <3> QED BY <2>1, <2>6, <3>2 DEF parts
  <2> QED BY <2>5, <2>6
<1>7. /\ Follows(s) /\ b.nextIndex = Len(s.items) /\ IsSeq(h)
      /\ ~b.thought.started => h = <<>>
      /\ b.thought.started =>
           b.thought.index \in 0..(Len(s.items) - 1) /\ s.items[b.thought.index + 1].kind = "reasoning"
      /\ Thinking(b) => /\ OpenAt(s, b.thought.index)
                        /\ s.items[b.thought.index + 1].parts = <<Part("reasoning", h)>>
      /\ Speaking(b) => /\ OpenAt(s, b.message.index)
                        /\ s.items[b.message.index + 1].kind = "message"
                        /\ s.items[b.message.index + 1].parts = b.message.content
  BY <1>1, <1>3, <1>4 DEF ResponsesLink
<1>8. /\ \A j \in OpenTools(b) : OpenAt(s, b.tools[j].index) /\ s.items[b.tools[j].index + 1].kind = "tool"
      /\ \A j, k \in OpenTools(b) : b.tools[j].index = b.tools[k].index => j = k
  <2>1. \A j \in OpenTools(a) : OpenAt(s, a.tools[j].index) /\ s.items[a.tools[j].index + 1].kind = "tool"
    BY <1>1 DEF ResponsesLink
  <2>2. \A j, k \in OpenTools(a) : a.tools[j].index = a.tools[k].index => j = k
    BY <1>1 DEF ResponsesLink
  <2> QED BY <1>5, <2>1, <2>2
<1>9. /\ \A j \in LiveSearches(b) :
           OpenAt(s, b.searches[j].index) /\ s.items[b.searches[j].index + 1].kind = "search"
      /\ \A j, k \in LiveSearches(b) : b.searches[j].index = b.searches[k].index => j = k
      /\ \A j \in 1..Len(b.searches) : b.searches[j].completed => b.searches[j].searching /\ b.searches[j].added
  BY <1>1, <1>3, <1>4 DEF ResponsesLink
<1>10. \A k \in 1..Len(s.items) :
        s.items[k].open => \/ Thinking(b) /\ k = b.thought.index + 1
                           \/ Speaking(b) /\ k = b.message.index + 1
                           \/ \E j \in OpenTools(b) : k = b.tools[j].index + 1
                           \/ \E j \in LiveSearches(b) : k = b.searches[j].index + 1
  <2>1. \A k \in 1..Len(s.items) :
          s.items[k].open => \/ Thinking(a) /\ k = a.thought.index + 1
                             \/ Speaking(a) /\ k = a.message.index + 1
                             \/ \E j \in OpenTools(a) : k = a.tools[j].index + 1
                             \/ \E j \in LiveSearches(a) : k = a.searches[j].index + 1
    BY <1>1 DEF ResponsesLink
  <2> QED BY <1>3, <1>4, <1>5, <2>1
<1>11. ResponsesLink(b, s, h, i, t.args)
  BY <1>6, <1>7, <1>8, <1>9, <1>10 DEF ResponsesLink
<1> QED BY <1>2, <1>3, <1>11 DEF InResponses, h

(* A call is told what it lacks.                                            *)
LEMMA FillResponsesTool ==
  ASSUME NEW c, NEW a, NEW heard, NEW i \in OpenTools(a), NEW told, InResponses(c, a, heard, i, told)
  PROVE  LET b == Write(a, Delta(a.tools[i].index, 0, "arguments", told))
         IN  Linked(c, b, heard) /\ Only(a, b, {"out"})
<1> DEFINE n == a.tools[i].index
           s == Seen(c, a)
           b == Write(a, Delta(n, 0, "arguments", told))
           d == Seen(c, b)
           item == d.items[n + 1]
<1>1. ResponsesLink(a, s, heard, i, told) /\ IsAdapter(a) /\ a.target = "responses" /\ Len(a.tools) \in Nat
  BY SeqFacts DEF InResponses, IsAdapter
<1>2. PICK data : IsSeq(data) /\ s.items[n + 1].parts = <<Part("arguments", data)>> /\ a.tools[i].args = data \o told
  <2>1. Given(a.tools[i], s.items[n + 1].parts, TRUE, told)
    BY <1>1 DEF ResponsesLink
  <2> QED BY <2>1 DEF Given
<1>4. PICK y, t : y = 0 /\ t = <<>>
  OBVIOUS
<1>5. y \notin OpenTools(a)
  BY <1>1, <1>4 DEF OpenTools
<1>6. OpenAt(s, n) /\ Follows(s) /\ s.items[n + 1].kind = "tool"
  <2> HIDE DEF s
  <2> QED BY <1>1 DEF ResponsesLink
<1>3. /\ IsAdapter(b) /\ Only(a, b, {"out"}) /\ OpenAt(d, n)
      /\ MovedAt(s, d, n) /\ Len(d.items) = Len(s.items)
      /\ item.kind = "tool" /\ item.parts = <<Part("arguments", data \o told)>>
  <2>1. PICK kind : kind = "arguments"
    OBVIOUS
  <2>2. /\ b = Write(a, Delta(n, 0, kind, told)) /\ s.items[n + 1].parts = <<Part(kind, data)>>
        /\ IsAdapter(a) /\ Follows(s) /\ OpenAt(s, n)
    BY <1>1, <1>2, <1>6, <2>1
  <2>3. /\ IsAdapter(b) /\ Only(a, b, {"out"}) /\ OpenAt(d, n)
        /\ MovedAt(s, d, n) /\ Len(d.items) = Len(s.items)
        /\ d.items[n + 1].kind = s.items[n + 1].kind
        /\ d.items[n + 1].parts = <<Part(kind, data \o told)>>
    <3> HIDE DEF n, b
    <3> QED BY <2>2, GivesMore
  <2> HIDE DEF s, d, n, b
  <2> QED BY <1>6, <2>1, <2>3
<1> HIDE DEF s, d, n, item, b
<1>7. /\ b.thought = a.thought /\ b.tools = a.tools /\ b.searches = a.searches /\ b.nextIndex = a.nextIndex
      /\ b.target = a.target /\ b.message = a.message
  BY <1>1, <1>3 DEF IsAdapter, AdapterFields, Only
<1>8. ResponsesLink(b, d, heard, y, t)
  <2>1. /\ OpenTools(b) = OpenTools(a) /\ LiveSearches(b) = LiveSearches(a)
        /\ (Thinking(b) <=> Thinking(a)) /\ (Speaking(b) <=> Speaking(a))
    BY <1>7 DEF OpenTools, LiveSearches, Thinking, Speaking
  <2>2. /\ ThoughtElsewhere(a, b, n) /\ MessageElsewhere(a, b, n) /\ ToolsElsewhere(a, b, n)
        /\ SearchesElsewhere(a, b, n)
    BY <1>7, <2>1 DEF ThoughtElsewhere, MessageElsewhere, ToolsElsewhere, SearchesElsewhere
  <2>3. /\ ~(Thinking(a) /\ a.thought.index = n) /\ ~(Speaking(a) /\ a.message.index = n)
        /\ \A j \in LiveSearches(a) : a.searches[j].index # n
        /\ \A j \in OpenTools(a) : a.tools[j].index = n => j = i
        /\ Staged(a)
    <3>1. \A j \in OpenTools(a) : a.tools[j].index = n => j = i
      BY <1>1 DEF ResponsesLink, n
    <3> QED BY <1>1, <3>1, OneHolder DEF n
  <2>4. ThoughtAt(b, item, n, heard) /\ MessageAt(b, item, n) /\ SearchesAt(b, item, n)
    BY <1>7, <2>1, <2>3 DEF ThoughtAt, MessageAt, SearchesAt
  <2>5. ToolsAt(b, item, n, y, t)
    <3>1. ASSUME NEW j \in OpenTools(b), b.tools[j].index = n
          PROVE  item.open /\ item.kind = "tool" /\ Given(b.tools[j], item.parts, j = y, t)
      <4>1. j = i /\ b.tools[j] = a.tools[i] /\ j # y
        BY <1>5, <1>7, <2>1, <2>3, <3>1
      <4>2. Given(b.tools[j], item.parts, FALSE, t)
        BY <1>2, <1>3, <4>1 DEF Given
      <4> QED BY <1>3, <4>1, <4>2 DEF OpenAt, item
    <3>2. \A j, k \in OpenTools(b) : b.tools[j].index = n /\ b.tools[k].index = n => j = k
      BY <1>7, <2>1, <2>3
    <3> QED BY <3>1, <3>2 DEF ToolsAt
  <2>6. HeldAt(b, n) /\ Staged(b)
    BY <1>7, <2>1, <2>3 DEF HeldAt, Staged, n
  <2>7. \A j \in OpenTools(b) : b.tools[j].index # n => (j # i /\ j # y) \/ (i = y /\ told = t)
    BY <1>5, <1>7, <2>1 DEF n
  <2>8. b.nextIndex = Len(d.items) /\ IsSeq(heard) /\ (~b.thought.started => heard = <<>>)
    BY <1>1, <1>3, <1>7 DEF ResponsesLink
  <2>9. b.thought.started => \/ a.thought.started /\ b.thought.index = a.thought.index
                             \/ b.thought.index = n /\ d.items[n + 1].kind = "reasoning"
    BY <1>7
  <2>10. Thinking(b) /\ b.thought.index # n => heard = heard
    OBVIOUS
  <2>11. /\ ThoughtAt(b, d.items[n + 1], n, heard) /\ MessageAt(b, d.items[n + 1], n)
         /\ SearchesAt(b, d.items[n + 1], n) /\ ToolsAt(b, d.items[n + 1], n, y, t)
    BY <2>4, <2>5 DEF item
  <2>12. d.items[n + 1].open => HeldAt(b, n)
    BY <2>6
  <2>13. ResponsesLink(a, s, heard, i, told) /\ MovedAt(s, d, n)
    BY <1>1, <1>3
  <2> QED BY <2>2, <2>6, <2>7, <2>8, <2>9, <2>10, <2>11, <2>12, <2>13, ResponsesMoves, SMTT(90)
<1> QED BY <1>1, <1>3, <1>4, <1>7, <1>8 DEF Linked, InResponses, d, b, n

(* The client is told.                                                      *)
LEMMA FillToolFacts ==
  ASSUME NEW c, NEW a, NEW heard, NEW i \in OpenTools(a), NEW told, IsSeq(told), InResponses(c, a, heard, i, told)
  PROVE  LET b == FillTool(a, i, told)
         IN  Linked(c, b, heard) /\ Only(a, b, {"out"})
<1> DEFINE s == Seen(c, a)
           n == a.tools[i].index
<1>1. ResponsesLink(a, s, heard, i, told) /\ IsAdapter(a) /\ a.target = "responses" /\ Len(a.tools) \in Nat
  BY SeqFacts DEF InResponses, IsAdapter
<1>2. PICK data : IsSeq(data) /\ s.items[n + 1].parts = <<Part("arguments", data)>> /\ a.tools[i].args = data \o told
  <2>1. Given(a.tools[i], s.items[n + 1].parts, TRUE, told)
    BY <1>1 DEF ResponsesLink
  <2> QED BY <2>1 DEF Given
<1>3. \A j \in OpenTools(a) : j # 0
  BY <1>1 DEF OpenTools
<1>4. CASE told = <<>>
  <2>1. FillTool(a, i, told) = a /\ Only(a, a, {"out"})
    BY <1>4, OnlySelf DEF FillTool
  <2>2. a.tools[i].args = data
    BY <1>2, <1>4, Concatenated
  <2> HIDE DEF s
  <2>3. \A j \in OpenTools(a) : Given(a.tools[j], s.items[a.tools[j].index + 1].parts, j = 0, <<>>)
    <3> SUFFICES ASSUME NEW j \in OpenTools(a) PROVE Given(a.tools[j], s.items[a.tools[j].index + 1].parts, FALSE, <<>>)
      BY <1>3
    <3>1. CASE j = i
      BY <1>2, <2>2, <3>1 DEF Given
    <3>2. CASE j # i
      BY <1>1, <3>2 DEF ResponsesLink, Given
    <3> QED BY <3>1, <3>2
  <2>4. ResponsesLink(a, s, heard, 0, <<>>)
    BY <1>1, <2>3 DEF ResponsesLink
  <2> QED BY <1>1, <2>1, <2>4 DEF Linked, InResponses, s
<1>5. CASE told # <<>>
  <2>1. FillTool(a, i, told) = Write(a, Delta(n, 0, "arguments", told))
    BY <1>5 DEF FillTool
  <2> QED BY <2>1, FillResponsesTool
<1> QED BY <1>4, <1>5

(* A new call is shown.                                                     *)
LEMMA AddToolFacts ==
  ASSUME NEW c, NEW a, NEW heard, NEW i \in 1..Len(a.tools), NEW told, InResponses(c, a, heard, i, told),
         ~a.tools[i].open, a.tools[i].args = told, IsSeq(told), NEW entry
  PROVE  LET b == ShowTool([Numbered(a) EXCEPT !.parts = Append(@, entry)], i, a.nextIndex)
         IN  /\ InResponses(c, b, heard, i, told) /\ Shown(a, b, i, a.nextIndex)
             /\ Only(a, b, {"out", "tools", "nextIndex", "parts"})
<1> DEFINE n == a.nextIndex
           s == Seen(c, a)
           q == [Numbered(a) EXCEPT !.parts = Append(@, entry)]
           id == q.tools[i].id
           parts == <<Part("arguments", <<>>)>>
           item == Item("tool", id, parts, TRUE)
           b == ShowTool(q, i, n)
           d == Seen(c, b)
<1>1. ResponsesLink(a, s, heard, i, told) /\ IsAdapter(a) /\ a.target = "responses" /\ Len(a.tools) \in Nat
  BY SeqFacts DEF InResponses, IsAdapter
<1>2. ~HeldAt(a, n) /\ Staged(a) /\ Follows(s) /\ n \in Nat /\ n = Len(s.items)
  <2> HIDE DEF s
  <2> QED BY <1>1, NothingBeyond
<1>3. Only(a, q, {"nextIndex", "parts"}) /\ q.nextIndex = n + 1
  BY <1>1, <1>2 DEF IsAdapter, AdapterFields, Only, Numbered
<1> HIDE DEF q
<1>4. IsAdapter(q) /\ Seen(c, q) = s /\ q.tools = a.tools
  <2>1. Only(a, q, AdapterFields \ {"out", "tools", "searches", "thought", "message"})
    BY <1>3, OnlyMore DEF AdapterFields
  <2> QED BY <1>1, <2>1, StaysAdapter
<1>5. /\ IsAdapter(b) /\ Only(q, b, {"out", "tools"}) /\ Shown(q, b, i, n)
      /\ d = Receive(s, Added(n, "tool", id, parts))
  BY <1>4, ShowToolFacts
<1> HIDE DEF b, d
<1>6. item.kind = "tool" /\ item.open /\ item.parts = parts
  BY DEF Item
<1> HIDE DEF s, item, n
<1>7. AreParts(parts)
  BY OneIsSeq DEF AreParts, Part, PartFields
<1> HIDE DEF parts, id
<1>8. Grown(s, d, item)
  <2>1. PICK kind : kind = "tool"
    OBVIOUS
  <2>2. d = Receive(s, Added(Len(s.items), kind, id, parts)) /\ item = Item(kind, id, parts, TRUE)
    BY <1>2, <1>5, <2>1 DEF item
  <2> QED BY <1>2, <1>7, <2>2, ReadAdded
<1>9. MovedAt(s, d, n) /\ Len(d.items) = n + 1 /\ d.items[n + 1] = item
  BY <1>2, <1>8, MovedGrown
<1>10. Only(a, b, {"out", "tools", "nextIndex", "parts"})
  BY <1>3, <1>5 DEF Only
<1>11. /\ b.searches = a.searches /\ b.nextIndex = n + 1 /\ b.thought = a.thought
       /\ b.message = a.message /\ b.target = "responses"
  BY <1>1, <1>3, <1>4, <1>5 DEF IsAdapter, AdapterFields, Only
<1>12. Shown(a, b, i, n)
  BY <1>4, <1>5 DEF Shown
<1>13. /\ OpenTools(b) = OpenTools(a) \cup {i} /\ i \notin OpenTools(a) /\ (Speaking(b) <=> Speaking(a))
       /\ (Thinking(b) <=> Thinking(a)) /\ LiveSearches(b) = LiveSearches(a)
  <2>1. (Speaking(b) <=> Speaking(a)) /\ (Thinking(b) <=> Thinking(a)) /\ LiveSearches(b) = LiveSearches(a)
    BY <1>11 DEF LiveSearches, Thinking, Speaking
  <2>2. OpenTools(b) = OpenTools(a) \cup {i} /\ i \notin OpenTools(a)
    BY <1>12 DEF OpenTools, Shown
  <2> QED BY <2>1, <2>2
<1>14. \A j \in OpenTools(a) : j # i /\ b.tools[j] = a.tools[j] /\ a.tools[j].index # n
  BY <1>2, <1>12, <1>13 DEF HeldAt, Shown, OpenTools
<1>15. b.tools[i].index = n /\ b.tools[i].args = told
  BY <1>12 DEF Shown
<1>16. ThoughtElsewhere(a, b, n) /\ MessageElsewhere(a, b, n) /\ SearchesElsewhere(a, b, n)
  BY <1>11, <1>13 DEF ThoughtElsewhere, MessageElsewhere, SearchesElsewhere
<1>17. ToolsElsewhere(a, b, n)
  BY <1>13, <1>14, <1>15 DEF ToolsElsewhere
<1>18. ThoughtAt(b, item, n, heard) /\ MessageAt(b, item, n) /\ SearchesAt(b, item, n)
  BY <1>2, <1>11, <1>13 DEF ThoughtAt, MessageAt, SearchesAt, HeldAt
<1>19. ToolsAt(b, item, n, i, told)
  <2>1. \A j \in OpenTools(b) : b.tools[j].index = n => j = i
    BY <1>13, <1>14
  <2>2. Given(b.tools[i], item.parts, TRUE, told)
    <3>1. <<>> \o told = told /\ IsSeq(<<>>)
      BY Concatenated, EmptyIsSeq
    <3> QED BY <1>6, <1>15, <3>1 DEF Given, parts
  <2>3. ASSUME NEW j \in OpenTools(b), b.tools[j].index = n
        PROVE  item.open /\ item.kind = "tool" /\ Given(b.tools[j], item.parts, j = i, told)
    <3>1. j = i
      BY <2>1, <2>3
    <3> QED BY <1>6, <2>2, <3>1
  <2> QED BY <2>1, <2>3 DEF ToolsAt
<1>20. HeldAt(b, n) /\ Staged(b)
  <2>1. Staged(b)
    BY <1>2, <1>11 DEF Staged
  <2>2. HeldAt(b, n)
    BY <1>13, <1>15 DEF HeldAt
  <2> QED BY <2>1, <2>2
<1>21. ResponsesLink(b, d, heard, i, told)
  <2>1. /\ ThoughtAt(b, d.items[n + 1], n, heard) /\ MessageAt(b, d.items[n + 1], n)
        /\ SearchesAt(b, d.items[n + 1], n) /\ ToolsAt(b, d.items[n + 1], n, i, told)
    BY <1>9, <1>18, <1>19
  <2>2. b.nextIndex = Len(d.items) /\ IsSeq(heard) /\ (~b.thought.started => heard = <<>>)
    BY <1>1, <1>9, <1>11 DEF ResponsesLink
  <2>3. \A j \in OpenTools(b) : b.tools[j].index # n => (j # i /\ j # i) \/ (i = i /\ told = told)
    OBVIOUS
  <2>4. b.thought.started => \/ a.thought.started /\ b.thought.index = a.thought.index
                             \/ b.thought.index = n /\ d.items[n + 1].kind = "reasoning"
    BY <1>11
  <2>5. Thinking(b) /\ b.thought.index # n => heard = heard
    OBVIOUS
  <2>6. d.items[n + 1].open => HeldAt(b, n)
    BY <1>20
  <2> QED BY <1>1, <1>9, <1>16, <1>17, <1>20, <2>1, <2>2, <2>3, <2>4, <2>5, <2>6, ResponsesMoves
<1>22. InResponses(c, b, heard, i, told)
  BY <1>5, <1>11, <1>21 DEF InResponses, d
<1> QED BY <1>10, <1>12, <1>22 DEF b, n, q

(* A call is filled where it is open; a new one is opened.                  *)
LEMMA ResponsesToolFacts ==
  ASSUME NEW c, NEW a, Whole(c, a), NEW b, NEW i, NEW t, Merged(a, b, i, t), IsSeq(t.args),
         i \in 1..Len(a.tools) => i \in OpenTools(a) /\ a.tools[i].shown
  PROVE  LET d == ResponsesTool(b, i, t)
         IN  Whole(c, d) /\ Only(a, d, ResponsesFields) /\ CallOpen(b, d, i)
<1> DEFINE h == a.reasoning
           told == t.args
<1>1. InResponses(c, b, h, i, told)
  BY MergedResponses
<1>2. IsAdapter(a) /\ Only(a, b, {"tools"}) /\ i \in 1..Len(b.tools) /\ Len(a.tools) \in Nat
  BY SeqFacts DEF Merged, Whole, Linked, InResponses, IsAdapter
<1>3. b.reasoning = h
  BY <1>2 DEF IsAdapter, AdapterFields, Only
<1>4. CASE i \in 1..Len(a.tools)
  <2>1. /\ Len(b.tools) = Len(a.tools) /\ b.tools[i].shown = a.tools[i].shown
        /\ b.tools[i].open = a.tools[i].open
    <3>1. i # Len(a.tools) + 1
      BY <1>2, <1>4
    <3> QED BY <3>1 DEF Merged
  <2>2. b.tools[i].shown /\ b.tools[i].open /\ i \in OpenTools(b)
    BY <1>2, <1>4, <2>1 DEF OpenTools
  <2> DEFINE d == FillTool(b, i, told)
  <2>3. ResponsesTool(b, i, t) = d
    BY <2>2 DEF ResponsesTool
  <2>4. Linked(c, d, h) /\ Only(b, d, {"out"})
    BY <1>1, <2>2, FillToolFacts
  <2> HIDE DEF d
  <2>5. d.reasoning = h /\ d.tools = b.tools
    BY <1>1, <1>3, <2>4 DEF InResponses, IsAdapter, AdapterFields, Only
  <2>6. Only(a, d, ResponsesFields)
    BY <1>2, <2>4 DEF Only, ResponsesFields
  <2>7. CallOpen(b, d, i)
    BY <2>2, <2>5 DEF CallOpen
  <2>8. Whole(c, d)
    BY <2>4, <2>5 DEF Whole
  <2> QED BY <2>3, <2>6, <2>7, <2>8
<1>5. CASE i \notin 1..Len(a.tools)
  <2> DEFINE p == CloseReasoning(b)
             q == CloseMessage(p)
             entry == Entry("tool", i, <<>>)
             r == ShowTool([Numbered(q) EXCEPT !.parts = Append(@, entry)], i, q.nextIndex)
             d == FillTool(r, i, told)
  <2>1. ~b.tools[i].shown /\ ~b.tools[i].open /\ b.tools[i].args = told
    BY <1>5 DEF Merged
  <2>2. ResponsesTool(b, i, t) = d
    BY <2>1 DEF ResponsesTool
  <2>3. InResponses(c, p, h, i, told) /\ Only(b, p, {"out", "thought", "parts"})
    BY <1>1, <1>3, CloseReasoningFacts
  <2> HIDE DEF p
  <2>4. InResponses(c, q, h, i, told) /\ Only(p, q, {"out", "message", "parts"})
    BY <2>3, CloseMessageFacts
  <2> HIDE DEF q
  <2>5. q.tools = b.tools
    BY <1>1, <2>3, <2>4 DEF InResponses, IsAdapter, AdapterFields, Only
  <2> HIDE DEF entry
  <2>6. /\ InResponses(c, r, h, i, told) /\ Shown(q, r, i, q.nextIndex)
        /\ Only(q, r, {"out", "tools", "nextIndex", "parts"})
    <3>1. i \in 1..Len(q.tools) /\ ~q.tools[i].open /\ q.tools[i].args = told
      BY <1>2, <2>1, <2>5
    <3> HIDE DEF told
    <3> QED BY <2>4, <3>1, AddToolFacts DEF told
  <2> HIDE DEF r
  <2>7. i \in OpenTools(r)
    BY <1>2, <2>5, <2>6 DEF OpenTools, Shown
  <2>8. Linked(c, d, h) /\ Only(r, d, {"out"})
    BY <2>6, <2>7, FillToolFacts
  <2> HIDE DEF d
  <2>9. d.tools = r.tools
    BY <2>6, <2>8 DEF InResponses, IsAdapter, AdapterFields, Only
  <2>10. Only(a, d, ResponsesFields)
    BY <1>2, <2>3, <2>4, <2>6, <2>8 DEF Only, ResponsesFields
  <2>11. d.reasoning = h
    BY <1>2, <2>10 DEF IsAdapter, AdapterFields, Only, ResponsesFields
  <2>12. CallOpen(b, d, i)
    BY <2>5, <2>6, <2>9 DEF CallOpen, Shown
  <2>13. Whole(c, d)
    BY <2>8, <2>11 DEF Whole
  <2> QED BY <2>2, <2>10, <2>12, <2>13
<1> QED BY <1>4, <1>5

-----------------------------------------------------------------------------
(* Chat.                                                                    *)

Chatting(c, a) == IsAdapter(a) /\ a.target = "chat_completions" /\ ChatLink(a, Seen(c, a), Len(a.tools))

ChatFields == {"out", "searches"}
ChatStep(c, a, b) == Chatting(c, b) /\ Only(a, b, ChatFields) /\ b.tools = a.tools

(* No step is one.                                                          *)
LEMMA ChatSelf ==
  ASSUME NEW c, NEW a, Chatting(c, a)
  PROVE  ChatStep(c, a, a)
BY OnlySelf DEF ChatStep

(* A part of an item is another, of the same kind.                          *)
LEMMA ChatTurned ==
  ASSUME NEW a, NEW c, NEW n \in Nat, ChatLink(a, c, n), NEW k \in 0..n, NEW p \in 1..Len(c.items[k + 1].parts),
         NEW part, DOMAIN part = PartFields, part.kind = c.items[k + 1].parts[p].kind,
         NEW d, Turned(c, d, k, Filled(c.items[k + 1], p, part))
  PROVE  ChatLink(a, d, n)
<1> DEFINE item == c.items[k + 1]
           new == Filled(item, p, part)
<1>1. Follows(c) /\ Len(c.items) = n + 1 /\ k + 1 \in 1..(n + 1) /\ item.open /\ IsItem(item)
  BY DEF ChatLink, Follows
<1>2. new.open /\ new.parts = [item.parts EXCEPT ![p] = part]
  <2>1. p \in 1..Len(item.parts) /\ DOMAIN part = PartFields
    OBVIOUS
  <2> HIDE DEF item
  <2> QED BY <1>1, <2>1, FilledIsItem
<1>3. IsSeq(item.parts)
  BY <1>1 DEF IsItem, AreParts
<1>4. Len(new.parts) = Len(item.parts) /\ \A j \in 1..Len(item.parts) : new.parts[j].kind = item.parts[j].kind
  <2> HIDE DEF item, new
  <2>1. /\ Len(new.parts) = Len(item.parts) /\ new.parts[p] = part
        /\ \A j \in 1..Len(item.parts) : j # p => new.parts[j] = item.parts[j]
    BY <1>2, <1>3, Replaced DEF item
  <2> QED BY <2>1 DEF item
<1> HIDE DEF new
<1>5. /\ Follows(d) /\ Len(d.items) = n + 1 /\ d.items[k + 1] = new
      /\ \A j \in 1..(n + 1) : j # k + 1 => d.items[j] = c.items[j]
  BY <1>1 DEF Turned, new
<1>6. \A j \in 1..(n + 1) : /\ d.items[j].open /\ Len(d.items[j].parts) = Len(c.items[j].parts)
                            /\ \A q \in 1..Len(c.items[j].parts) : d.items[j].parts[q].kind = c.items[j].parts[q].kind
  <2> SUFFICES ASSUME NEW j \in 1..(n + 1)
               PROVE  /\ d.items[j].open /\ Len(d.items[j].parts) = Len(c.items[j].parts)
                      /\ \A q \in 1..Len(c.items[j].parts) : d.items[j].parts[q].kind = c.items[j].parts[q].kind
    OBVIOUS
  <2>1. CASE j = k + 1
    BY <1>2, <1>4, <1>5, <2>1
  <2>2. CASE j # k + 1
    BY <1>5, <2>2 DEF ChatLink
  <2> QED BY <2>1, <2>2
<1> HIDE DEF item
<1>7. 1 \in 1..(n + 1) /\ Len(c.items[1].parts) = 3 /\ 1 \in 1..3 /\ 2 \in 1..3 /\ 3 \in 1..3
  BY DEF ChatLink
<1>8. /\ Len(d.items[1].parts) = 3
      /\ d.items[1].parts[1].kind = "reasoning" /\ d.items[1].parts[2].kind = "text"
      /\ d.items[1].parts[3].kind = "refusal"
  BY <1>6, <1>7 DEF ChatLink
<1>9. \A i \in 1..n : a.tools[i].index = i /\ OnePart(d.items[i + 1], "arguments")
  <2> SUFFICES ASSUME NEW i \in 1..n PROVE a.tools[i].index = i /\ OnePart(d.items[i + 1], "arguments")
    OBVIOUS
  <2>1. i + 1 \in 1..(n + 1) /\ OnePart(c.items[i + 1], "arguments") /\ a.tools[i].index = i
    BY DEF ChatLink
  <2>2. 1 \in 1..Len(c.items[i + 1].parts)
    BY <2>1 DEF OnePart
  <2> QED BY <1>6, <2>1, <2>2 DEF OnePart
<1> QED BY <1>5, <1>6, <1>8, <1>9 DEF ChatLink

(* An event that changes a part of an item is written.                      *)
LEMMA ChatWrites ==
  ASSUME NEW c, NEW a, Chatting(c, a), NEW k \in 0..Len(a.tools), NEW p \in 1..Len(Seen(c, a).items[k + 1].parts),
         NEW part, DOMAIN part = PartFields, part.kind = Seen(c, a).items[k + 1].parts[p].kind,
         NEW e, Turned(Seen(c, a), Receive(Seen(c, a), e), k, Filled(Seen(c, a).items[k + 1], p, part))
  PROVE  ChatStep(c, a, Write(a, e))
<1> DEFINE s == Seen(c, a)
           b == Write(a, e)
           n == Len(a.tools)
<1>1. IsAdapter(a) /\ a.target = "chat_completions" /\ ChatLink(a, s, n) /\ n \in Nat
  BY SeqFacts DEF Chatting, IsAdapter
<1>2. IsAdapter(b) /\ Only(a, b, {"out"}) /\ Seen(c, b) = Receive(s, e)
  BY <1>1, Writes
<1> HIDE DEF s, b
<1>3. b.tools = a.tools /\ b.target = "chat_completions"
  BY <1>1, <1>2 DEF IsAdapter, AdapterFields, Only
<1>4. ChatLink(a, Seen(c, b), n)
  BY <1>1, <1>2, ChatTurned DEF s
<1>5. ChatLink(b, Seen(c, b), n)
  BY <1>3, <1>4 DEF ChatLink
<1> QED BY <1>2, <1>3, <1>5, OnlyMore DEF ChatStep, Chatting, ChatFields, b

(* What is said goes to a part of the message.                              *)
LEMMA ChatSays ==
  ASSUME NEW c, NEW a, Chatting(c, a), NEW kind \in {"reasoning", "text", "refusal"}, NEW data
  PROVE  ChatStep(c, a, ContentDelta(a, kind, data))
<1> DEFINE s == Seen(c, a)
           p == ChatPart[kind]
           old == s.items[1].parts[p + 1]
           part == [old EXCEPT !.data = @ \o data]
           e == Delta(0, p, kind, data)
<1>1. IsAdapter(a) /\ a.target = "chat_completions" /\ ChatLink(a, s, Len(a.tools)) /\ Len(a.tools) \in Nat
  BY SeqFacts DEF Chatting, IsAdapter
<1>2. ContentDelta(a, kind, data) = Write(a, e)
  BY <1>1 DEF ContentDelta
<1> HIDE DEF s
<1>3. p \in Nat /\ p < 3 /\ old.kind = kind
  BY <1>1 DEF ChatPart, ChatLink
<1> HIDE DEF p
<1>4. PICK k \in Nat : k = 0 /\ k + 1 = 1
  OBVIOUS
<1>5. OpenAt(s, k) /\ Follows(s) /\ p < Len(s.items[k + 1].parts) /\ s.items[k + 1].parts[p + 1].kind = kind
  BY <1>1, <1>3, <1>4 DEF ChatLink, OpenAt
<1>6. /\ Turned(s, Receive(s, Delta(k, p, kind, data)), k, Filled(s.items[k + 1], p + 1, part))
      /\ DOMAIN part = PartFields /\ p + 1 \in 1..Len(s.items[k + 1].parts)
  <2>1. part = [s.items[k + 1].parts[p + 1] EXCEPT !.data = @ \o data]
    BY <1>4
  <2> HIDE DEF part
  <2> QED BY <1>3, <1>5, <2>1, ReadDelta
<1>7. part.kind = s.items[k + 1].parts[p + 1].kind
  BY <1>3, <1>4, <1>6 DEF PartFields
<1> HIDE DEF part
<1>8. k \in 0..Len(a.tools) /\ e = Delta(k, p, kind, data)
  BY <1>1, <1>4
<1> HIDE DEF e
<1>9. ChatStep(c, a, Write(a, e))
  BY <1>6, <1>7, <1>8, ChatWrites DEF s
<1> QED BY <1>2, <1>9

(* A citation goes to the text.                                             *)
LEMMA ChatCites ==
  ASSUME NEW c, NEW a, Chatting(c, a), NEW note
  PROVE  ChatStep(c, a, AnnotationDelta(a, note))
<1> DEFINE s == Seen(c, a)
           p == ChatPart["text"]
           old == s.items[1].parts[p + 1]
           part == [old EXCEPT !.notes = Append(@, note)]
           e == Note(0, p, Unnumbered, note)
<1>1. IsAdapter(a) /\ a.target = "chat_completions" /\ ChatLink(a, s, Len(a.tools)) /\ Len(a.tools) \in Nat
  BY SeqFacts DEF Chatting, IsAdapter
<1>2. AnnotationDelta(a, note) = Write(a, e)
  BY <1>1 DEF AnnotationDelta
<1> HIDE DEF s
<1>3. p \in Nat /\ p < 3
  BY DEF ChatPart
<1> HIDE DEF p
<1>4. PICK k \in Nat : k = 0 /\ k + 1 = 1
  OBVIOUS
<1>5. OpenAt(s, k) /\ Follows(s) /\ p < Len(s.items[k + 1].parts)
  BY <1>1, <1>3, <1>4 DEF ChatLink, OpenAt
<1>6. /\ Turned(s, Receive(s, Note(k, p, Unnumbered, note)), k, Filled(s.items[k + 1], p + 1, part))
      /\ DOMAIN part = PartFields /\ p + 1 \in 1..Len(s.items[k + 1].parts)
  <2>1. part = [s.items[k + 1].parts[p + 1] EXCEPT !.notes = Append(@, note)]
    BY <1>4
  <2> HIDE DEF part
  <2> QED BY <1>3, <1>5, <2>1, ReadNote
<1>7. part.kind = s.items[k + 1].parts[p + 1].kind
  BY <1>3, <1>4, <1>6 DEF PartFields
<1> HIDE DEF part
<1>8. k \in 0..Len(a.tools) /\ e = Note(k, p, Unnumbered, note)
  BY <1>1, <1>4
<1> HIDE DEF e
<1>9. ChatStep(c, a, Write(a, e))
  BY <1>6, <1>7, <1>8, ChatWrites DEF s
<1> QED BY <1>2, <1>9

(* Searches are not shown.                                                  *)
LEMMA ChatSearches ==
  ASSUME NEW c, NEW a, Chatting(c, a), NEW s
  PROVE  ChatStep(c, a, SearchEvent(a, s))
<1> DEFINE b == EnsureSearch(a, s)
<1>1. IsAdapter(a) /\ a.target = "chat_completions" /\ ChatLink(a, Seen(c, a), Len(a.tools))
  BY DEF Chatting
<1>2. IsAdapter(b) /\ Only(a, b, {"searches"}) /\ Seen(c, b) = Seen(c, a)
  BY <1>1, EnsureSearchFacts DEF SearchKnown
<1>3. b.tools = a.tools /\ b.target = "chat_completions"
  <2> HIDE DEF b
  <2> QED BY <1>1, <1>2 DEF IsAdapter, AdapterFields, Only
<1>4. SearchEvent(a, s) = b
  BY <1>3 DEF SearchEvent
<1> HIDE DEF b
<1>5. ChatLink(b, Seen(c, b), Len(b.tools))
  BY <1>1, <1>2, <1>3 DEF ChatLink
<1> QED BY <1>2, <1>3, <1>4, <1>5, OnlyMore DEF ChatStep, Chatting, ChatFields

\* The calls are the same, and call i is shown.
CallShown(a, b, i) ==
  /\ Len(b.tools) = Len(a.tools)
  /\ \A j \in 1..Len(a.tools) : j # i => b.tools[j] = a.tools[j]
  /\ b.tools[i].key = a.tools[i].key
  /\ b.tools[i].shown

(* A call that is filled.                                                   *)
LEMMA ChatFillTool ==
  ASSUME NEW c, NEW a, Chatting(c, a), NEW i \in 1..Len(a.tools), NEW data
  PROVE  ChatStep(c, a, FillTool(a, i, data))
<1> DEFINE s == Seen(c, a)
           e == Delta(a.tools[i].index, 0, "arguments", data)
           old == s.items[i + 1].parts[1]
           part == [old EXCEPT !.data = @ \o data]
<1>1. IsAdapter(a) /\ a.target = "chat_completions" /\ ChatLink(a, s, Len(a.tools)) /\ Len(a.tools) \in Nat
  BY SeqFacts DEF Chatting, IsAdapter
<1>2. CASE data = <<>>
  BY <1>2, ChatSelf DEF FillTool
<1>3. CASE data # <<>>
  <2>1. FillTool(a, i, data) = Write(a, e)
    BY <1>3 DEF FillTool
  <2> HIDE DEF s
  <2>2. PICK p, kind : p = 0 /\ p + 1 = 1 /\ kind = "arguments"
    OBVIOUS
  <2>3. /\ OpenAt(s, i) /\ Follows(s) /\ p < Len(s.items[i + 1].parts)
        /\ s.items[i + 1].parts[p + 1].kind = kind
        /\ a.tools[i].index = i /\ p \in Nat /\ i \in Nat
    BY <1>1, <2>2 DEF ChatLink, OpenAt, OnePart
  <2>4. /\ Turned(s, Receive(s, Delta(i, p, kind, data)), i, Filled(s.items[i + 1], p + 1, part))
        /\ DOMAIN part = PartFields /\ p + 1 \in 1..Len(s.items[i + 1].parts)
    <3>1. part = [s.items[i + 1].parts[p + 1] EXCEPT !.data = @ \o data]
      BY <2>2
    <3> HIDE DEF part
    <3> QED BY <2>3, <3>1, ReadDelta
  <2>5. part.kind = s.items[i + 1].parts[p + 1].kind
    BY <2>2, <2>4 DEF PartFields
  <2> HIDE DEF part
  <2>6. i \in 0..Len(a.tools) /\ e = Delta(i, p, kind, data)
    BY <1>1, <2>2, <2>3
  <2> HIDE DEF e
  <2>7. ChatStep(c, a, Write(a, e))
    BY <2>4, <2>5, <2>6, ChatWrites DEF s
  <2> QED BY <2>1, <2>7
<1> QED BY <1>2, <1>3

(* A new call follows those that are there; another is filled.              *)
LEMMA ChatToolFacts ==
  ASSUME NEW c, NEW a, Chatting(c, a), NEW b, NEW i, NEW t, Merged(a, b, i, t),
         t.started <=> i \notin 1..Len(a.tools), i \in 1..Len(a.tools) => a.tools[i].shown
  PROVE  LET d == ChatTool(b, i, t)
         IN  Chatting(c, d) /\ Only(a, d, {"out", "tools"}) /\ CallShown(b, d, i)
<1> DEFINE s == Seen(c, a)
           n == Len(a.tools)
<1>1. IsAdapter(a) /\ a.target = "chat_completions" /\ ChatLink(a, s, n) /\ n \in Nat
  BY SeqFacts DEF Chatting, IsAdapter
<1>2. IsAdapter(b) /\ Only(a, b, {"tools"}) /\ Seen(c, b) = s /\ i \in 1..Len(b.tools)
  BY DEF Merged
<1>3. b.target = "chat_completions"
  BY <1>1, <1>2 DEF IsAdapter, AdapterFields, Only
<1>4. \A j \in 1..n : j # i => b.tools[j] = a.tools[j]
  BY DEF Merged
<1>5. CASE i \in 1..n
  <2>1. Len(b.tools) = n /\ b.tools[i].shown = a.tools[i].shown /\ b.tools[i].index = a.tools[i].index
    <3>1. i # n + 1
      BY <1>1, <1>5
    <3> QED BY <3>1 DEF Merged
  <2>2. \A j \in 1..n : b.tools[j].index = a.tools[j].index
    BY <1>4, <2>1
  <2>3. ChatLink(b, s, n)
    <3> HIDE DEF s, n
    <3> QED BY <1>1, <2>2 DEF ChatLink
  <2>4. Chatting(c, b)
    BY <1>2, <1>3, <2>1, <2>3 DEF Chatting
  <2> DEFINE d == FillTool(b, i, t.args)
  <2>5. ChatTool(b, i, t) = d
    BY <1>5 DEF ChatTool
  <2>6. ChatStep(c, b, d)
    BY <1>2, <2>4, ChatFillTool
  <2>7. Only(b, d, {"out"})
    <3>1. CASE t.args = <<>>
      BY <3>1, OnlySelf DEF FillTool
    <3>2. CASE t.args # <<>>
      BY <1>2, <3>2, Writes DEF FillTool
    <3> QED BY <3>1, <3>2
  <2> HIDE DEF d
  <2>8. Only(a, d, {"out", "tools"}) /\ Chatting(c, d) /\ d.tools = b.tools
    BY <1>2, <2>6, <2>7 DEF Only, ChatStep
  <2>9. CallShown(b, d, i)
    BY <1>5, <2>1, <2>8 DEF CallShown
  <2> QED BY <2>5, <2>8, <2>9
<1>6. CASE i \notin 1..n
  <2>1. Len(b.tools) = n + 1 /\ i = n + 1
    BY <1>6 DEF Merged
  <2> DEFINE r == ShowTool(b, i, i)
             d == FillTool(r, i, t.args)
             id == b.tools[i].id
             parts == <<Part("arguments", <<>>)>>
             item == Item("tool", id, parts, TRUE)
             u == Seen(c, r)
  <2>2. ChatTool(b, i, t) = d
    BY <1>6 DEF ChatTool
  <2>3. /\ IsAdapter(r) /\ Only(b, r, {"out", "tools"}) /\ Shown(b, r, i, i)
        /\ u = Receive(s, Added(i, "tool", id, parts))
    BY <1>2, ShowToolFacts
  <2> HIDE DEF r, s, u
  <2>4. item.open /\ OnePart(item, "arguments")
    BY OneIsSeq DEF Item, OnePart, Part
  <2>5. AreParts(parts)
    BY OneIsSeq DEF AreParts, Part, PartFields
  <2>6. Follows(s) /\ Len(s.items) = i
    BY <1>1, <2>1 DEF ChatLink
  <2> HIDE DEF item, parts, id
  <2>7. Grown(s, u, item)
    <3>1. PICK kind : kind = "tool"
      OBVIOUS
    <3>2. u = Receive(s, Added(Len(s.items), kind, id, parts)) /\ item = Item(kind, id, parts, TRUE)
      BY <2>3, <2>6, <3>1 DEF item
    <3> QED BY <2>5, <2>6, <3>2, ReadAdded
  <2>8. Len(r.tools) = n + 1 /\ r.tools[i].index = i /\ \A j \in 1..n : r.tools[j] = a.tools[j]
    BY <1>1, <1>4, <2>1, <2>3 DEF Shown
  <2>9. ChatLink(r, u, n + 1)
    <3>1. /\ Follows(u) /\ Len(u.items) = n + 2 /\ u.items[n + 2] = item
          /\ \A j \in 1..(n + 1) : u.items[j] = s.items[j]
      BY <1>1, <2>1, <2>6, <2>7 DEF Grown
    <3>2. \A j \in 1..(n + 2) : u.items[j].open
      <4> SUFFICES ASSUME NEW j \in 1..(n + 2) PROVE u.items[j].open
        OBVIOUS
      <4>1. CASE j = n + 2
        BY <2>4, <3>1, <4>1
      <4>2. CASE j # n + 2
        <5>1. j \in 1..(n + 1)
          BY <1>1, <4>2
        <5> QED BY <1>1, <3>1, <5>1 DEF ChatLink
      <4> QED BY <4>1, <4>2
    <3>3. /\ Len(u.items[1].parts) = 3
          /\ u.items[1].parts[1].kind = "reasoning" /\ u.items[1].parts[2].kind = "text"
          /\ u.items[1].parts[3].kind = "refusal"
      <4>1. u.items[1] = s.items[1]
        BY <1>1, <3>1
      <4> QED BY <1>1, <4>1 DEF ChatLink
    <3>4. \A j \in 1..(n + 1) : r.tools[j].index = j /\ OnePart(u.items[j + 1], "arguments")
      <4> SUFFICES ASSUME NEW j \in 1..(n + 1) PROVE r.tools[j].index = j /\ OnePart(u.items[j + 1], "arguments")
        OBVIOUS
      <4>1. CASE j = n + 1
        BY <2>1, <2>4, <2>8, <3>1, <4>1
      <4>2. CASE j # n + 1
        <5>1. j \in 1..n /\ j + 1 \in 1..(n + 1)
          BY <1>1, <4>2
        <5> QED BY <1>1, <2>8, <3>1, <5>1 DEF ChatLink
      <4> QED BY <4>1, <4>2
    <3> HIDE DEF n
    <3> QED BY <1>1, <3>1, <3>2, <3>3, <3>4 DEF ChatLink
  <2>10. r.target = "chat_completions"
    BY <1>2, <1>3, <2>3 DEF IsAdapter, AdapterFields, Only
  <2>11. Chatting(c, r)
    BY <2>3, <2>8, <2>9, <2>10 DEF Chatting, u
  <2>12. ChatStep(c, r, d)
    <3>1. i \in 1..Len(r.tools)
      BY <1>2, <2>1, <2>8
    <3> QED BY <2>11, <3>1, ChatFillTool
  <2>13. Only(r, d, {"out"})
    <3>1. CASE t.args = <<>>
      BY <3>1, OnlySelf DEF FillTool
    <3>2. CASE t.args # <<>>
      BY <2>3, <3>2, Writes DEF FillTool
    <3> QED BY <3>1, <3>2
  <2> HIDE DEF d
  <2>14. Only(a, d, {"out", "tools"}) /\ Chatting(c, d) /\ d.tools = r.tools
    BY <1>2, <2>3, <2>12, <2>13 DEF Only, ChatStep
  <2>15. CallShown(b, d, i)
    BY <2>3, <2>14 DEF CallShown, Shown
  <2> QED BY <2>2, <2>14, <2>15
<1> QED BY <1>5, <1>6

(* The message and the calls are closed, one by one.                        *)
LEMMA ClosingFacts ==
  ASSUME NEW c, NEW a, Chatting(c, a), NEW s, s = [i \in 1..Len(a.tools) + 1 |-> i]
  PROVE  LET b == ClosingAll(a, s)
         IN  /\ IsAdapter(b) /\ Only(a, b, {"out"}) /\ Follows(Seen(c, b))
             /\ \A k \in 1..Len(Seen(c, b).items) : ~Seen(c, b).items[k].open
<1> DEFINE n == Len(a.tools) + 1
<1>1. /\ IsAdapter(a) /\ ChatLink(a, Seen(c, a), Len(a.tools)) /\ n \in Nat
      /\ n = Len(a.tools) + 1 /\ Len(a.tools) \in Nat
  BY SeqFacts DEF Chatting, IsAdapter
<1> HIDE DEF n
<1>2. IsSeq(s) /\ Len(s) = n /\ \A i \in 1..n : s[i] = i
  BY <1>1, Places
<1>3. PICK g : IsRun(g, "closing", 0, a, s) /\ ClosingAll(a, s) = g[Len(s)]
  BY <1>2, ClosingIsRun
<1> DEFINE Shut(b, k) == /\ IsAdapter(b) /\ Only(a, b, {"out"})
                         /\ Follows(Seen(c, b)) /\ Len(Seen(c, b).items) = n
                         /\ \A j \in 1..n : Seen(c, b).items[j].open <=> j > k
           Good == {k \in 0..n : Shut(g[k], k)}
<1>4. 0 \in Good
  <2>1. Shut(a, 0)
    BY <1>1, OnlySelf DEF ChatLink
  <2>2. g[0] = a
    BY <1>3 DEF IsRun
  <2> QED BY <1>1, <2>1, <2>2
<1>5. ASSUME NEW i \in 1..n, i - 1 \in Good PROVE i \in Good
  <2> DEFINE p == g[i - 1]
             q == g[i]
             m == i - 1
             u == Seen(c, p)
             d == Seen(c, q)
  <2>1. q = Write(p, Done(m, Unclaimed))
    <3>1. q = Body("closing", 0, p, s[i])
      BY <1>2, <1>3 DEF IsRun
    <3> QED BY <1>2, <3>1 DEF Body
  <2>2. Shut(p, m)
    BY <1>5
  <2> HIDE DEF p, q
  <2>3. IsAdapter(q) /\ Only(p, q, {"out"}) /\ d = Receive(u, Done(m, Unclaimed))
    BY <2>1, <2>2, Writes
  <2>4. m \in Nat /\ m + 1 = i /\ m < n
    BY <1>1
  <2> HIDE DEF u, d, m
  <2>5. Follows(u) /\ Len(u.items) = n /\ \A j \in 1..n : u.items[j].open <=> j > m
    BY <2>2 DEF u
  <2>6. OpenAt(u, m)
    BY <2>4, <2>5 DEF OpenAt
  <2>7. Turned(u, d, m, [u.items[m + 1] EXCEPT !.open = FALSE])
    BY <2>3, <2>5, <2>6, ReadDone
  <2>8. ~[u.items[m + 1] EXCEPT !.open = FALSE].open
    BY <2>4, <2>5 DEF Follows, IsItem, ItemFields
  <2>9. Follows(d) /\ Len(d.items) = n
    BY <2>5, <2>7 DEF Turned
  <2>10. ~d.items[i].open
    BY <2>4, <2>7, <2>8 DEF Turned
  <2>11. \A j \in 1..n : j # i => d.items[j] = u.items[j]
    BY <2>4, <2>5, <2>7 DEF Turned
  <2>12. \A j \in 1..n : d.items[j].open <=> j > i
    BY <2>4, <2>5, <2>10, <2>11
  <2>13. Only(a, q, {"out"})
    BY <2>2, <2>3 DEF Only
  <2> QED BY <1>1, <2>3, <2>9, <2>12, <2>13 DEF q, d
<1>6. n \in Good
  <2> HIDE DEF Good
  <2>1. \A i \in 0..n : i \in Good
    BY <1>1, <1>4, <1>5, Climb
  <2> QED BY <1>1, <2>1
<1>7. Shut(g[n], n)
  BY <1>6
<1>8. \A k \in 1..n : ~(k > n)
  BY <1>1
<1> QED BY <1>2, <1>3, <1>7, <1>8

(* The end of the stream.                                                   *)
LEMMA ChatEnd ==
  ASSUME NEW c, NEW a, Chatting(c, a)
  PROVE  LET b == WriteDone(a)
         IN  IsAdapter(b) /\ Ended(Seen(c, b)) /\ Only(a, b, {"out"}) /\ b.tools = a.tools
<1> DEFINE q == ClosingAll(a, [i \in 1..Len(a.tools) + 1 |-> i])
           e == Terminal(<<>>)
           b == Write(q, e)
<1>1. WriteDone(a) = b
  BY ChatDoneIs DEF Chatting
<1>2. /\ IsAdapter(q) /\ Only(a, q, {"out"}) /\ Follows(Seen(c, q))
      /\ \A k \in 1..Len(Seen(c, q).items) : ~Seen(c, q).items[k].open
  BY ClosingFacts
<1> HIDE DEF q
<1>3. IsAdapter(b) /\ Only(q, b, {"out"}) /\ Seen(c, b) = Receive(Seen(c, q), e)
  BY <1>2, Writes
<1>4. Ended(Receive(Seen(c, q), e))
  BY <1>2, ReadEnd DEF Ended
<1> HIDE DEF b
<1>5. Only(a, b, {"out"})
  BY <1>2, <1>3 DEF Only
<1>6. b.tools = a.tools
  BY <1>2, <1>5 DEF IsAdapter, AdapterFields, Only, Chatting
<1> QED BY <1>1, <1>3, <1>4, <1>5, <1>6

-----------------------------------------------------------------------------
(* One call of the relay.                                                   *)

\* The stream of any protocol; of the reasoning a Responses client has heard
\* that much.
Flows(c, a, heard) ==
  /\ IsAdapter(a) /\ a.target \in Protocols
  /\ a.target = "chat_completions" => ChatLink(a, Seen(c, a), Len(a.tools))
  /\ a.target = "messages" => MessagesLink(a, Seen(c, a))
  /\ a.target = "responses" => ResponsesLink(a, Seen(c, a), heard, 0, <<>>)

Flowing(c, a) == Flows(c, a, a.reasoning)

(* What it means to follow, target by target.                               *)
LEMMA FlowsBy ==
  ASSUME NEW c, NEW a, NEW heard
  PROVE  /\ a.target = "chat_completions" => (Flows(c, a, heard) <=> Chatting(c, a))
         /\ a.target = "messages" => (Flows(c, a, heard) <=> InMessages(c, a))
         /\ a.target = "responses" => (Flows(c, a, heard) <=> Linked(c, a, heard))
BY DEF Flows, Chatting, InMessages, Linked, InResponses, Protocols

\* An adapter that has not written anything.
Fresh(a) ==
  /\ IsAdapter(a) /\ a.target \in Protocols
  /\ a.tools = <<>> /\ a.searches = <<>> /\ a.nextIndex = 0
  /\ ~a.thought.started /\ ~a.message.started /\ ~a.textOpen /\ ~a.blockOpened /\ a.blockIndex = 0

(* What a stream starts with.                                               *)
LEMMA StartsFacts ==
  ASSUME NEW c, NEW a, Fresh(a), ~a.started, Seen(c, a) = NewClient
  PROVE  LET b == Start(a)
         IN  Flows(c, b, <<>>) /\ Only(a, b, {"started", "out"}) /\ b.started
<1> DEFINE p == [a EXCEPT !.started = TRUE]
           first == <<Part("reasoning", <<>>), Part("text", <<>>), Part("refusal", <<>>)>>
           message == Item("message", 0, first, TRUE)
           items == IF a.target = "chat_completions" THEN <<message>> ELSE <<>>
           b == Write(p, Started(items))
           d == Seen(c, b)
<1>1. Start(a) = b
  BY DEF Start
<1>2. Only(a, p, {"started"}) /\ p.started
  BY DEF Fresh, IsAdapter, AdapterFields, Only
<1> HIDE DEF p
<1>3. IsAdapter(p) /\ Seen(c, p) = NewClient
  <2>1. Only(a, p, AdapterFields \ {"out", "tools", "searches", "thought", "message"})
    BY <1>2, OnlyMore DEF AdapterFields
  <2> QED BY <2>1, StaysAdapter DEF Fresh
<1>4. IsAdapter(b) /\ Only(p, b, {"out"}) /\ d = Receive(NewClient, Started(items))
  BY <1>3, Writes
<1>5. Only(a, b, {"started", "out"}) /\ b.started
  <2> HIDE DEF b
  <2> QED BY <1>2, <1>3, <1>4 DEF Only, IsAdapter, AdapterFields
<1> HIDE DEF b, d
<1>6. /\ b.target = a.target /\ b.tools = <<>> /\ b.searches = <<>> /\ b.nextIndex = 0
      /\ ~b.thought.started /\ ~b.message.started /\ ~b.textOpen /\ ~b.blockOpened /\ b.blockIndex = 0
  BY <1>5 DEF Fresh, Only, IsAdapter, AdapterFields
<1>7. /\ AreParts(first) /\ Len(first) = 3 /\ first[1].kind = "reasoning"
      /\ first[2].kind = "text" /\ first[3].kind = "refusal"
  <2>1. first \in Seq({Part("reasoning", <<>>), Part("text", <<>>), Part("refusal", <<>>)})
    OBVIOUS
  <2>2. Len(first) = 3 /\ \A j \in 1..3 : DOMAIN first[j] = PartFields
    BY DEF Part, PartFields
  <2> QED BY <2>1, <2>2 DEF AreParts, IsSeq, Part
<1> HIDE DEF first
<1>8. IsItem(message) /\ message.open /\ message.parts = first
  BY <1>7 DEF IsItem, Item, ItemFields
<1> HIDE DEF message
<1>9. IsSeq(items) /\ \A k \in 1..Len(items) : IsItem(items[k])
  <2>1. CASE a.target = "chat_completions"
    BY <1>8, <2>1, OneIsSeq
  <2>2. CASE a.target # "chat_completions"
    BY <2>2, EmptyIsSeq
  <2> QED BY <2>1, <2>2
<1> HIDE DEF items
<1>10. Follows(d) /\ d.items = items
  BY <1>4, <1>9, ReadStart
<1>11. /\ OpenTools(b) = {} /\ LiveSearches(b) = {} /\ ~Thinking(b) /\ ~Speaking(b)
       /\ Len(b.tools) = 0 /\ Len(b.searches) = 0
  BY <1>6, EmptyIsSeq DEF OpenTools, LiveSearches, Thinking, Speaking
<1>12. ASSUME a.target = "chat_completions" PROVE ChatLink(b, d, Len(b.tools))
  <2>1. items = <<message>> /\ Len(items) = 1 /\ items[1] = message
    BY <1>12, OneIsSeq DEF items
  <2>2. /\ Len(d.items) = 0 + 1
        /\ \A k \in 1..(0 + 1) : d.items[k].open
        /\ Len(d.items[1].parts) = 3
        /\ d.items[1].parts[1].kind = "reasoning" /\ d.items[1].parts[2].kind = "text"
        /\ d.items[1].parts[3].kind = "refusal"
    BY <1>7, <1>8, <1>10, <2>1
  <2> QED BY <1>10, <1>11, <2>2 DEF ChatLink
<1>13. ASSUME a.target # "chat_completions" PROVE Len(d.items) = 0
  BY <1>10, <1>13, EmptyIsSeq DEF items
<1>14. ASSUME a.target = "messages" PROVE MessagesLink(b, d)
  BY <1>6, <1>10, <1>11, <1>13, <1>14 DEF MessagesLink
<1>15. ASSUME a.target = "responses" PROVE ResponsesLink(b, d, <<>>, 0, <<>>)
  BY <1>6, <1>10, <1>11, <1>13, <1>15, EmptyIsSeq DEF ResponsesLink
<1>16. Flows(c, b, <<>>)
  BY <1>4, <1>6, <1>12, <1>14, <1>15 DEF Flows, Fresh, d
<1> QED BY <1>1, <1>5, <1>16

\* What a call of the relay begins with.
Ready(c, a, heard) ==
  IF a.started THEN Flows(c, a, heard) ELSE Fresh(a) /\ Seen(c, a) = NewClient /\ heard = <<>>

(* The first events of each protocol bring the client into the stream.      *)
LEMMA StartFacts ==
  ASSUME NEW c, NEW a, NEW heard, Ready(c, a, heard)
  PROVE  LET b == Start(a)
         IN  Flows(c, b, heard) /\ Only(a, b, {"started", "out"}) /\ b.started
<1>1. CASE a.started
  BY <1>1, OnlySelf DEF Start, Ready
<1>2. CASE ~a.started
  BY <1>2, StartsFacts DEF Ready
<1> QED BY <1>1, <1>2

\* What is told beside the stream.
NotedFields == {"reasoning", "text", "refusal", "noted"}

(* A stream does not depend on what has been noted.                         *)
LEMMA NotedFlows ==
  ASSUME NEW c, NEW a, NEW heard, Ready(c, a, heard), NEW b, Only(a, b, NotedFields)
  PROVE  Ready(c, b, heard)
<1>1. IsAdapter(a)
  BY DEF Ready, Flows, Fresh
<1>2. Only(a, b, AdapterFields \ {"out", "tools", "searches", "thought", "message"})
  BY OnlyMore DEF AdapterFields, NotedFields
<1>3. IsAdapter(b) /\ Seen(c, b) = Seen(c, a)
  BY <1>1, <1>2, StaysAdapter
<1>4. /\ b.target = a.target /\ b.tools = a.tools /\ b.started = a.started /\ b.searches = a.searches
      /\ b.nextIndex = a.nextIndex /\ b.thought = a.thought /\ b.message = a.message
      /\ b.textOpen = a.textOpen /\ b.blockOpened = a.blockOpened /\ b.blockIndex = a.blockIndex
  BY <1>1 DEF Only, IsAdapter, AdapterFields, NotedFields
<1>5. CASE ~a.started
  BY <1>3, <1>4, <1>5 DEF Ready, Fresh
<1>6. CASE a.started
  <2> DEFINE s == Seen(c, a)
  <2>1. Flows(c, a, heard)
    BY <1>6 DEF Ready
  <2> HIDE DEF s
  <2>2. ASSUME ChatLink(a, s, Len(a.tools)) PROVE ChatLink(b, s, Len(b.tools))
    BY <1>4, <2>2 DEF ChatLink
  <2>3. ASSUME MessagesLink(a, s) PROVE MessagesLink(b, s)
    <3>1. Only(a, b, AdapterFields \ {"tools", "textOpen", "blockIndex", "blockOpened"})
      BY OnlyMore DEF AdapterFields, NotedFields
    <3>2. DOMAIN a = AdapterFields
      BY <1>1 DEF IsAdapter
    <3> QED BY <2>3, <3>1, <3>2, MessagesLinkSame
  <2>4. ASSUME ResponsesLink(a, s, heard, 0, <<>>) PROVE ResponsesLink(b, s, heard, 0, <<>>)
    <3>1. Only(a, b, AdapterFields \ {"tools", "searches", "thought", "message", "nextIndex"})
      BY OnlyMore DEF AdapterFields, NotedFields
    <3>2. DOMAIN a = AdapterFields
      BY <1>1 DEF IsAdapter
    <3>3. PICK x, told : x = 0 /\ told = <<>>
      OBVIOUS
    <3>4. ResponsesLink(a, s, heard, x, told)
      BY <2>4, <3>3
    <3>5. ResponsesLink(b, s, heard, x, told)
      BY <3>1, <3>2, <3>4, ResponsesLinkSame
    <3> QED BY <3>3, <3>5
  <2> QED BY <1>3, <1>4, <1>6, <2>1, <2>2, <2>3, <2>4 DEF Ready, Flows, s
<1> QED BY <1>5, <1>6

\* What a stream changes of an adapter.
FlowFields == MessagesFields \cup ResponsesFields

\* From a to b the stream has gone on; the calls are the same.
FlowStep(c, a, b) == Flowing(c, b) /\ Only(a, b, FlowFields) /\ SameCalls(a, b)

(* Steps that the client follows compose, whatever its protocol.            *)
LEMMA FlowStepTwice ==
  ASSUME NEW c, NEW a, NEW b, NEW d, FlowStep(c, a, b), FlowStep(c, b, d)
  PROVE  FlowStep(c, a, d)
BY SameCallsTwice DEF FlowStep, Only

(* No step is one.                                                          *)
LEMMA FlowSelf ==
  ASSUME NEW c, NEW a, Flowing(c, a)
  PROVE  FlowStep(c, a, a)
BY OnlySelf, SameCallsSelf DEF FlowStep

(* What it means that the stream goes on, target by target.                 *)
LEMMA FlowsAre ==
  ASSUME NEW c, NEW a, Flowing(c, a)
  PROVE  /\ IsAdapter(a) /\ a.target \in Protocols
         /\ a.target = "chat_completions" => Chatting(c, a)
         /\ a.target = "messages" => InMessages(c, a)
         /\ a.target = "responses" => Whole(c, a)
BY DEF Flowing, Flows, Chatting, InMessages, Whole, Linked, InResponses, Protocols

(* A step that a chat client follows is such a step.                        *)
LEMMA ChatFlows ==
  ASSUME NEW c, NEW a, Chatting(c, a), NEW b, ChatStep(c, a, b)
  PROVE  FlowStep(c, a, b)
<1>1. Only(a, b, FlowFields)
  BY OnlyMore DEF ChatStep, ChatFields, FlowFields, MessagesFields
<1>2. Flowing(c, b)
  BY DEF ChatStep, Chatting, Flowing, Flows, Protocols
<1> QED BY <1>1, <1>2, SameCallsSelf DEF ChatStep, FlowStep

(* So is one that a Messages client follows.                                *)
LEMMA MessagesFlow ==
  ASSUME NEW c, NEW a, NEW b, MessagesStep(c, a, b)
  PROVE  FlowStep(c, a, b)
<1>1. Only(a, b, FlowFields)
  BY OnlyMore DEF MessagesStep, FlowFields
<1>2. Flowing(c, b)
  BY DEF MessagesStep, InMessages, Flowing, Flows, Protocols
<1> QED BY <1>1, <1>2 DEF MessagesStep, FlowStep

(* So is one that a Responses client follows.                               *)
LEMMA ResponsesFlow ==
  ASSUME NEW c, NEW a, NEW b, ResponsesStep(c, a, b)
  PROVE  FlowStep(c, a, b)
<1>1. Only(a, b, FlowFields)
  BY OnlyMore DEF ResponsesStep, FlowFields
<1>2. Flowing(c, b)
  BY DEF ResponsesStep, Whole, Linked, InResponses, Flowing, Flows, Protocols
<1> QED BY <1>1, <1>2 DEF ResponsesStep, FlowStep

(* Text, a refusal.                                                         *)
LEMMA SaysFlow ==
  ASSUME NEW c, NEW a, Flowing(c, a), NEW kind \in {"text", "refusal"}, NEW data
  PROVE  FlowStep(c, a, ContentDelta(a, kind, data))
<1>1. CASE a.target = "chat_completions"
  <2>1. kind \in {"reasoning", "text", "refusal"}
    OBVIOUS
  <2> QED BY <1>1, <2>1, FlowsAre, ChatSays, ChatFlows
<1>2. CASE a.target = "messages"
  <2>1. ContentDelta(a, kind, data) = MessagesDelta(a, kind, data)
    BY <1>2 DEF ContentDelta
  <2>2. MessagesStep(c, a, MessagesDelta(a, kind, data))
    BY <1>2, FlowsAre, MessagesDeltaFacts
  <2> QED BY <2>1, <2>2, MessagesFlow
<1>3. CASE a.target = "responses"
  <2>1. ContentDelta(a, kind, data) = ResponsesDelta(a, kind, data) /\ kind # "reasoning"
    BY <1>3 DEF ContentDelta
  <2>2. ResponsesStep(c, a, ResponsesDelta(a, kind, data))
    BY <1>3, <2>1, FlowsAre, ResponsesSays
  <2> QED BY <2>1, <2>2, ResponsesFlow
<1> QED BY <1>1, <1>2, <1>3, FlowsAre DEF Protocols

(* The client follows a text delta, whatever its protocol.                  *)
LEMMA TextFlows ==
  ASSUME NEW c, NEW a, Flowing(c, a), NEW data
  PROVE  FlowStep(c, a, TextDelta(a, data))
<1>1. CASE a.target = "messages"
  <2>1. TextDelta(a, data) = MessagesText(a, data)
    BY <1>1 DEF TextDelta
  <2> QED BY <1>1, <2>1, FlowsAre, MessagesTextFacts, MessagesFlow
<1>2. CASE a.target # "messages"
  <2>1. PICK kind \in {"text", "refusal"} : kind = "text"
    OBVIOUS
  <2>2. TextDelta(a, data) = ContentDelta(a, kind, data)
    BY <1>2, <2>1 DEF TextDelta
  <2> QED BY <2>2, SaysFlow
<1> QED BY <1>1, <1>2

(* A citation.                                                              *)
LEMMA CitesFlow ==
  ASSUME NEW c, NEW a, Flowing(c, a), NEW note
  PROVE  FlowStep(c, a, AnnotationDelta(a, note))
BY FlowsAre, ChatCites, ChatFlows, MessagesCites, MessagesFlow, ResponsesCites, ResponsesFlow DEF Protocols

(* A search.                                                                *)
LEMMA SearchFlows ==
  ASSUME NEW c, NEW a, Flowing(c, a), NEW s
  PROVE  FlowStep(c, a, SearchEvent(a, s))
BY FlowsAre, ChatSearches, ChatFlows, MessagesSearches, MessagesFlow, ResponsesSearches, ResponsesFlow DEF Protocols

(* Reasoning.                                                               *)
LEMMA ReasonFlows ==
  ASSUME NEW c, NEW a, NEW heard, Flows(c, a, heard), NEW data, IsSeq(data), a.reasoning = heard \o data
  PROVE  LET b == ContentDelta(a, "reasoning", data)
         IN  Flowing(c, b) /\ Only(a, b, FlowFields) /\ b.tools = a.tools
<1> DEFINE b == ContentDelta(a, "reasoning", data)
<1>0. IsAdapter(a) /\ a.target \in Protocols
  BY DEF Flows
<1>1. CASE a.target = "chat_completions"
  <2>1. PICK kind \in {"reasoning", "text", "refusal"} : kind = "reasoning"
    OBVIOUS
  <2>2. Chatting(c, a)
    BY <1>1, FlowsBy
  <2>3. b = ContentDelta(a, kind, data)
    BY <2>1
  <2> HIDE DEF b
  <2>4. ChatStep(c, a, b)
    BY <2>2, <2>3, ChatSays
  <2> QED BY <2>2, <2>4, ChatFlows DEF FlowStep, ChatStep, b
<1>2. CASE a.target = "messages"
  <2>1. PICK kind : kind = "reasoning"
    OBVIOUS
  <2>2. InMessages(c, a)
    BY <1>2, FlowsBy
  <2>3. b = MessagesDelta(a, kind, data)
    BY <1>2, <2>1 DEF ContentDelta
  <2> HIDE DEF b
  <2>4. b = a
    BY <2>1, <2>3 DEF MessagesDelta
  <2>5. Flowing(c, a)
    BY <1>0, <1>2, <2>2 DEF Flowing, Flows, InMessages
  <2> QED BY <2>4, <2>5, OnlySelf DEF b
<1>3. CASE a.target = "responses"
  <2>1. b = ResponsesDelta(a, "reasoning", data)
    BY <1>3 DEF ContentDelta
  <2>2. Linked(c, a, heard)
    BY <1>3, FlowsBy
  <2>3. Linked(c, b, heard \o data) /\ Only(a, b, {"out", "nextIndex", "thought"})
    <3> HIDE DEF b
    <3> QED BY <2>1, <2>2, ResponsesReasons
  <2> HIDE DEF b
  <2>4. b.reasoning = a.reasoning /\ b.tools = a.tools
    BY <1>0, <2>3 DEF IsAdapter, AdapterFields, Only
  <2>5. Only(a, b, FlowFields)
    BY <2>3, OnlyMore DEF FlowFields, ResponsesFields
  <2>6. Flowing(c, b)
    BY <2>3, <2>4 DEF Linked, InResponses, Flowing, Flows, Protocols
  <2> QED BY <2>4, <2>5, <2>6 DEF b
<1> QED BY <1>0, <1>1, <1>2, <1>3 DEF Protocols

(* A delta that is merged is not seen.                                      *)
LEMMA MergedMessages ==
  ASSUME NEW c, NEW a, InMessages(c, a), NEW b, NEW i, NEW t, Merged(a, b, i, t)
  PROVE  InMessages(c, b)
<1> DEFINE s == Seen(c, a)
<1>1. MessagesLink(a, s) /\ IsAdapter(a) /\ a.target = "messages" /\ Len(a.tools) \in Nat
  BY SeqFacts DEF InMessages, IsAdapter
<1>2. IsAdapter(b) /\ Seen(c, b) = s /\ Only(a, b, {"tools"})
  BY DEF Merged
<1>3. /\ b.textOpen = a.textOpen /\ b.blockIndex = a.blockIndex /\ b.blockOpened = a.blockOpened
      /\ b.target = "messages"
  BY <1>1, <1>2 DEF IsAdapter, AdapterFields, Only
<1>4. OpenTools(b) = OpenTools(a) /\ \A j \in OpenTools(a) : b.tools[j].index = a.tools[j].index
  <2>1. \A j \in 1..Len(a.tools) : j # i => b.tools[j] = a.tools[j]
    BY DEF Merged
  <2>2. CASE i \in 1..Len(a.tools)
    <3>1. i # Len(a.tools) + 1
      BY <1>1, <2>2
    <3>2. /\ Len(b.tools) = Len(a.tools) /\ b.tools[i].open = a.tools[i].open
          /\ b.tools[i].index = a.tools[i].index
      BY <3>1 DEF Merged
    <3>3. \A j \in 1..Len(a.tools) : b.tools[j].open = a.tools[j].open /\ b.tools[j].index = a.tools[j].index
      BY <2>1, <3>2
    <3> QED BY <3>2, <3>3 DEF OpenTools
  <2>3. CASE i \notin 1..Len(a.tools)
    <3>1. i = Len(a.tools) + 1 /\ Len(b.tools) = i /\ ~b.tools[i].open
      BY <2>3 DEF Merged
    <3>2. \A j \in 1..Len(a.tools) : b.tools[j] = a.tools[j]
      BY <2>1, <2>3
    <3> QED BY <1>1, <3>1, <3>2 DEF OpenTools
  <2> QED BY <2>2, <2>3
<1> HIDE DEF s
<1>5. /\ \A j \in OpenTools(b) : OpenAt(s, b.tools[j].index) /\ OnePart(s.items[b.tools[j].index + 1], "arguments")
      /\ \A j, k \in OpenTools(b) : b.tools[j].index = b.tools[k].index => j = k
  BY <1>1, <1>4 DEF MessagesLink
<1>6. \A k \in 1..Len(s.items) :
        s.items[k].open => \/ b.textOpen /\ k = b.blockIndex + 1
                           \/ \E j \in OpenTools(b) : k = b.tools[j].index + 1
  BY <1>1, <1>3, <1>4 DEF MessagesLink
<1>7. MessagesLink(b, s)
  BY <1>1, <1>3, <1>5, <1>6 DEF MessagesLink
<1> QED BY <1>2, <1>3, <1>7 DEF InMessages

\* From a to b the delta t of call i has been taken; the other calls are as
\* they were.
CallStep(a, b, i, t) ==
  /\ i \in 1..Len(b.tools)
  /\ Len(b.tools) = IF i \in 1..Len(a.tools) THEN Len(a.tools) ELSE Len(a.tools) + 1
  /\ \A j \in 1..Len(a.tools) : j # i => b.tools[j] = a.tools[j]
  /\ b.tools[i].key = t.key /\ b.tools[i].shown
  /\ a.target # "chat_completions" => b.tools[i].open

\* The delta begins a new call or fills one that a client can follow.
Takes(a, i, t) ==
  \/ /\ i \in 1..Len(a.tools) /\ a.tools[i].key = t.key /\ a.tools[i].shown /\ ~t.started
     /\ a.target # "chat_completions" => i \in OpenTools(a)
  \/ /\ i = Len(a.tools) + 1 /\ t.started
     /\ \A j \in 1..Len(a.tools) : a.tools[j].key # t.key

(* The client follows a delta of a call, which is open afterwards unless    *)
(* the same delta closes calls.                                             *)
LEMMA CallFlows ==
  ASSUME NEW c, NEW a, Flowing(c, a), KeysDiffer(a), NEW t, IsSeq(t.args), NEW i, Takes(a, i, t)
  PROVE  LET b == ToolDelta(a, t)
         IN  Flowing(c, b) /\ Only(a, b, FlowFields) /\ CallStep(a, b, i, t)
<1>1. IsAdapter(a) /\ a.target \in Protocols /\ Len(a.tools) \in Nat
  BY FlowsAre, SeqFacts DEF IsAdapter
<1>2. PICK m, k : Merged(a, m, k, t) /\ ToolDelta(a, t) = WriteTool(m, k, t)
  BY <1>1, ToolDeltaFacts
<1>3. k = i
  <2>1. CASE i \in 1..Len(a.tools) /\ a.tools[i].key = t.key
    <3>1. k \in 1..Len(a.tools) /\ a.tools[k].key = t.key
      BY <1>2, <2>1 DEF Merged
    <3> QED BY <2>1, <3>1 DEF KeysDiffer
  <2>2. CASE i = Len(a.tools) + 1 /\ \A j \in 1..Len(a.tools) : a.tools[j].key # t.key
    BY <1>2, <2>2 DEF Merged
  <2> QED BY <2>1, <2>2 DEF Takes
<1>4. Merged(a, m, i, t) /\ ToolDelta(a, t) = WriteTool(m, i, t)
  BY <1>2, <1>3
<1>5. IsAdapter(m) /\ Only(a, m, {"tools"}) /\ i \in 1..Len(m.tools) /\ m.tools[i].key = t.key
  BY <1>4 DEF Merged
<1>6. m.target = a.target
  BY <1>1, <1>5 DEF IsAdapter, AdapterFields, Only
<1>7. Len(m.tools) = IF i \in 1..Len(a.tools) THEN Len(a.tools) ELSE Len(a.tools) + 1
  <2>1. CASE i \in 1..Len(a.tools)
    <3>1. i # Len(a.tools) + 1
      BY <1>1, <2>1
    <3> QED BY <1>4, <2>1, <3>1 DEF Merged
  <2>2. CASE i \notin 1..Len(a.tools)
    BY <1>4, <2>2 DEF Merged
  <2> QED BY <2>1, <2>2
<1>8. \A j \in 1..Len(a.tools) : j # i => m.tools[j] = a.tools[j] /\ j \in 1..Len(m.tools)
  <2>1. \A j \in 1..Len(a.tools) : j # i => m.tools[j] = a.tools[j]
    BY <1>4 DEF Merged
  <2> QED BY <1>1, <1>7, <2>1
<1> DEFINE d == ToolDelta(a, t)
<1>9. CASE a.target = "chat_completions"
  <2>1. d = ChatTool(m, i, t)
    BY <1>4, <1>6, <1>9 DEF WriteTool
  <2> HIDE DEF d
  <2>2. t.started <=> i \notin 1..Len(a.tools)
    BY <1>1 DEF Takes
  <2>3. i \in 1..Len(a.tools) => a.tools[i].shown
    BY <1>1 DEF Takes
  <2>4. Chatting(c, d) /\ Only(a, d, {"out", "tools"}) /\ CallShown(m, d, i)
    BY <1>4, <1>9, <2>1, <2>2, <2>3, FlowsAre, ChatToolFacts
  <2>5. Flowing(c, d)
    BY <2>4 DEF Chatting, Flowing, Flows, Protocols
  <2>6. Only(a, d, FlowFields)
    BY <2>4, OnlyMore DEF FlowFields, MessagesFields
  <2>7. CallStep(a, d, i, t)
    BY <1>5, <1>7, <1>8, <1>9, <2>4 DEF CallStep, CallShown
  <2> QED BY <2>5, <2>6, <2>7 DEF d
<1>10. CASE a.target = "messages"
  <2>1. d = MessagesTool(m, i, t)
    BY <1>4, <1>6, <1>10 DEF WriteTool
  <2> HIDE DEF d
  <2>2. InMessages(c, m)
    BY <1>4, <1>10, FlowsAre, MergedMessages
  <2>3. m.tools[i].shown <=> i \in OpenTools(m)
    <3>1. CASE i \in 1..Len(a.tools)
      <4>1. i # Len(a.tools) + 1
        BY <1>1, <3>1
      <4>2. m.tools[i].shown = a.tools[i].shown /\ m.tools[i].open = a.tools[i].open
        BY <1>4, <4>1 DEF Merged
      <4>3. a.tools[i].shown /\ a.tools[i].open
        BY <1>10, <4>1 DEF Takes, OpenTools
      <4> QED BY <1>5, <4>2, <4>3 DEF OpenTools
    <3>2. CASE i \notin 1..Len(a.tools)
      <4>1. ~m.tools[i].shown /\ ~m.tools[i].open
        BY <1>4, <3>2 DEF Merged
      <4> QED BY <4>1 DEF OpenTools
    <3> QED BY <3>1, <3>2
  <2>4. InMessages(c, d) /\ Only(m, d, MessagesFields) /\ CallOpen(m, d, i)
    BY <1>5, <2>1, <2>2, <2>3, MessagesToolFacts
  <2>5. Flowing(c, d)
    BY <2>4 DEF InMessages, Flowing, Flows, Protocols
  <2>6. Only(a, d, FlowFields)
    BY <1>5, <2>4 DEF Only, FlowFields, MessagesFields
  <2>7. CallStep(a, d, i, t)
    BY <1>5, <1>7, <1>8, <1>10, <2>4 DEF CallStep, CallOpen
  <2> QED BY <2>5, <2>6, <2>7 DEF d
<1>11. CASE a.target = "responses"
  <2>1. d = ResponsesTool(m, i, t)
    BY <1>4, <1>6, <1>11 DEF WriteTool
  <2> HIDE DEF d
  <2>2. i \in 1..Len(a.tools) => i \in OpenTools(a) /\ a.tools[i].shown
    BY <1>1, <1>11 DEF Takes
  <2>3. Whole(c, d) /\ Only(a, d, ResponsesFields) /\ CallOpen(m, d, i)
    BY <1>4, <1>11, <2>1, <2>2, FlowsAre, ResponsesToolFacts
  <2>4. Flowing(c, d)
    BY <2>3 DEF Whole, Linked, InResponses, Flowing, Flows, Protocols
  <2>5. Only(a, d, FlowFields)
    BY <2>3, OnlyMore DEF FlowFields
  <2>6. CallStep(a, d, i, t)
    BY <1>5, <1>7, <1>8, <1>11, <2>3 DEF CallStep, CallOpen
  <2> QED BY <2>4, <2>5, <2>6 DEF d
<1> QED BY <1>1, <1>9, <1>10, <1>11 DEF Protocols

(* Citations.                                                               *)
LEMMA CitedFlows ==
  ASSUME NEW c, NEW a, Flowing(c, a), NEW s, IsSeq(s), NEW known
  PROVE  FlowStep(c, a, CitedAll(a, s, known)) /\ (s = <<>> => CitedAll(a, s, known) = a)
<1> DEFINE n == Len(s)
<1>1. PICK g : IsRun(g, "new", known, a, s) /\ CitedAll(a, s, known) = g[n]
  BY CitedIsRun
<1>2. n \in Nat /\ g[0] = a
  BY <1>1, SeqFacts DEF IsRun
<1> DEFINE Good == {k \in 0..n : FlowStep(c, a, g[k])}
<1>3. 0 \in Good
  BY <1>2, FlowSelf
<1>4. ASSUME NEW i \in 1..n, i - 1 \in Good PROVE i \in Good
  <2> DEFINE p == g[i - 1]
             q == g[i]
  <2>1. q = IF s[i] \in known THEN p ELSE AnnotationDelta(p, s[i])
    BY <1>1 DEF IsRun, Body
  <2>2. FlowStep(c, a, p) /\ Flowing(c, p)
    BY <1>4 DEF FlowStep
  <2> HIDE DEF p, q
  <2>3. FlowStep(c, p, q)
    BY <2>1, <2>2, FlowSelf, CitesFlow
  <2>4. FlowStep(c, a, q)
    BY <2>2, <2>3, FlowStepTwice
  <2> QED BY <1>2, <2>4 DEF q
<1>5. n \in Good
  <2> HIDE DEF Good, n
  <2>1. \A i \in 0..n : i \in Good
    BY <1>2, <1>3, <1>4, Climb
  <2> QED BY <1>2, <2>1
<1>6. s = <<>> => n = 0
  BY EmptyIsSeq
<1> QED BY <1>1, <1>2, <1>5, <1>6

(* Searches.                                                                *)
LEMMA SearchesFlow ==
  ASSUME NEW c, NEW a, Flowing(c, a), NEW s, IsSeq(s)
  PROVE  LET b == FoldLeft(SearchEvent, a, s) IN FlowStep(c, a, b) /\ (s = <<>> => b = a)
<1> DEFINE n == Len(s)
<1>1. PICK g : IsRun(g, "search", 0, a, s) /\ FoldLeft(SearchEvent, a, s) = g[n]
  BY SearchEventsIsRun
<1>2. n \in Nat /\ g[0] = a
  BY <1>1, SeqFacts DEF IsRun
<1> DEFINE Good == {k \in 0..n : FlowStep(c, a, g[k])}
<1>3. 0 \in Good
  BY <1>2, FlowSelf
<1>4. ASSUME NEW i \in 1..n, i - 1 \in Good PROVE i \in Good
  <2> DEFINE p == g[i - 1]
             q == g[i]
  <2>1. q = SearchEvent(p, s[i])
    BY <1>1 DEF IsRun, Body
  <2>2. FlowStep(c, a, p) /\ Flowing(c, p)
    BY <1>4 DEF FlowStep
  <2> HIDE DEF p, q
  <2>3. FlowStep(c, p, q)
    BY <2>1, <2>2, SearchFlows
  <2>4. FlowStep(c, a, q)
    BY <2>2, <2>3, FlowStepTwice
  <2> QED BY <1>2, <2>4 DEF q
<1>5. n \in Good
  <2> HIDE DEF Good, n
  <2>1. \A i \in 0..n : i \in Good
    BY <1>2, <1>3, <1>4, Climb
  <2> QED BY <1>2, <2>1
<1>6. s = <<>> => n = 0
  BY EmptyIsSeq
<1> QED BY <1>1, <1>2, <1>5, <1>6

(* Calls, of which a delta has at most one.                                 *)
LEMMA OneToolDelta ==
  ASSUME NEW a, NEW s
  PROVE  /\ s = <<>> => FoldLeft(ToolDelta, a, s) = a
         /\ \A t : s = <<t>> => FoldLeft(ToolDelta, a, s) = ToolDelta(a, t)
<1>1. ASSUME s = <<>> PROVE FoldLeft(ToolDelta, a, s) = a
  <2>1. IsSeq(s) /\ Len(s) = 0
    BY <1>1, EmptyIsSeq
  <2>2. PICK g : IsRun(g, "tool", 0, a, s) /\ FoldLeft(ToolDelta, a, s) = g[Len(s)]
    BY <2>1, ToolDeltasIsRun
  <2> QED BY <2>1, <2>2 DEF IsRun
<1>2. ASSUME NEW t, s = <<t>> PROVE FoldLeft(ToolDelta, a, s) = ToolDelta(a, t)
  <2>1. IsSeq(s) /\ Len(s) = 1 /\ s[1] = t
    BY <1>2, OneIsSeq
  <2>2. PICK g : IsRun(g, "tool", 0, a, s) /\ FoldLeft(ToolDelta, a, s) = g[Len(s)]
    BY <2>1, ToolDeltasIsRun
  <2>3. g[0] = a /\ g[1] = Body("tool", 0, g[0], t)
    BY <2>1, <2>2 DEF IsRun
  <2> QED BY <2>1, <2>2, <2>3 DEF Body
<1> QED BY <1>1, <1>2

\* From a to b the stream has ended.
EndStep(c, a, b) ==
  /\ IsAdapter(b) /\ b.finished /\ Ended(Seen(c, b))
  /\ Only(a, b, FlowFields \cup {"finished"}) /\ SameCalls(a, b)

(* The end of a stream is remembered.                                       *)
LEMMA Finished ==
  ASSUME NEW c, NEW a, IsAdapter(a), Ended(Seen(c, a))
  PROVE  LET b == [a EXCEPT !.finished = TRUE]
         IN  IsAdapter(b) /\ b.finished /\ Ended(Seen(c, b)) /\ Only(a, b, {"finished"}) /\ b.tools = a.tools
<1> DEFINE b == [a EXCEPT !.finished = TRUE]
<1>1. Only(a, b, {"finished"}) /\ b.finished
  BY DEF IsAdapter, AdapterFields, Only
<1>2. Only(a, b, AdapterFields \ {"out", "tools", "searches", "thought", "message"})
  BY <1>1, OnlyMore DEF AdapterFields
<1> HIDE DEF b
<1> QED BY <1>1, <1>2, StaysAdapter DEF b

(* The end of a stream that has been started.                               *)
LEMMA EndFlows ==
  ASSUME NEW c, NEW a, Flowing(c, a)
  PROVE  EndStep(c, a, [WriteDone(IF a.target = "messages" THEN FlushMessagesText(a) ELSE a) EXCEPT !.finished = TRUE])
<1> DEFINE p == IF a.target = "messages" THEN FlushMessagesText(a) ELSE a
           q == WriteDone(p)
           b == [q EXCEPT !.finished = TRUE]
<1>1. IsAdapter(a) /\ a.target \in Protocols
  BY FlowsAre
<1>2. IsAdapter(q) /\ Ended(Seen(c, q)) /\ Only(a, q, FlowFields) /\ SameCalls(a, q)
  <2>1. CASE a.target = "chat_completions"
    <3>1. p = a /\ Chatting(c, a)
      BY <2>1, FlowsAre
    <3>2. IsAdapter(q) /\ Ended(Seen(c, q)) /\ Only(a, q, {"out"}) /\ q.tools = a.tools
      BY <3>1, ChatEnd
    <3> HIDE DEF q
    <3>3. Only(a, q, FlowFields)
      BY <3>2, OnlyMore DEF FlowFields, MessagesFields
    <3> QED BY <3>2, <3>3, SameCallsSelf
  <2>2. CASE a.target = "messages"
    <3>1. p = FlushMessagesText(a) /\ InMessages(c, a)
      BY <2>2, FlowsAre
    <3> HIDE DEF p
    <3>2. MessagesStep(c, a, p) /\ InMessages(c, p)
      BY <3>1, MessagesTextFacts DEF MessagesStep
    <3>3. IsAdapter(q) /\ Ended(Seen(c, q)) /\ Only(p, q, MessagesFields) /\ SameCalls(p, q)
      BY <3>2, MessagesEnd
    <3> HIDE DEF q
    <3>4. Only(a, q, FlowFields) /\ SameCalls(a, q)
      BY <3>2, <3>3, SameCallsTwice DEF MessagesStep, Only, FlowFields
    <3> QED BY <3>3, <3>4
  <2>3. CASE a.target = "responses"
    <3>1. p = a /\ Whole(c, a)
      BY <2>3, FlowsAre
    <3>2. IsAdapter(q) /\ Ended(Seen(c, q)) /\ Only(a, q, ResponsesFields) /\ SameCalls(a, q)
      BY <3>1, ResponsesEnd
    <3> HIDE DEF q
    <3>3. Only(a, q, FlowFields)
      BY <3>2, OnlyMore DEF FlowFields
    <3> QED BY <3>2, <3>3
  <2> QED BY <1>1, <2>1, <2>2, <2>3 DEF Protocols
<1> HIDE DEF q
<1>3. IsAdapter(b) /\ b.finished /\ Ended(Seen(c, b)) /\ Only(q, b, {"finished"}) /\ b.tools = q.tools
  BY <1>2, Finished
<1> HIDE DEF b
<1>4. Only(a, b, FlowFields \cup {"finished"}) /\ SameCalls(a, b)
  BY <1>2, <1>3 DEF Only, SameCalls
<1>5. EndStep(c, a, b)
  BY <1>3, <1>4 DEF EndStep
<1> QED BY <1>5 DEF b, q, p

(* Finalize ends the stream of every client, with everything that was       *)
(* open closed in it.                                                       *)
LEMMA FinalizeFacts ==
  ASSUME NEW c, NEW a, ~a.finished, Ready(c, a, a.reasoning), IsAdapter(a)
  PROVE  LET b == Finalize(a)
         IN  /\ IsAdapter(b) /\ b.finished /\ Ended(Seen(c, b))
             /\ Only(a, b, FlowFields \cup {"started", "finished"}) /\ SameCalls(a, b)
<1> DEFINE p == Start(a)
           b == [WriteDone(IF p.target = "messages" THEN FlushMessagesText(p) ELSE p) EXCEPT !.finished = TRUE]
<1>1. Finalize(a) = b
  BY DEF Finalize
<1>2. Flows(c, p, a.reasoning) /\ Only(a, p, {"started", "out"})
  BY StartFacts
<1> HIDE DEF p
<1>3. p.reasoning = a.reasoning /\ p.tools = a.tools
  BY <1>2 DEF Only, IsAdapter, AdapterFields
<1>4. Flowing(c, p)
  BY <1>2, <1>3 DEF Flowing
<1>5. EndStep(c, p, b)
  BY <1>4, EndFlows
<1> HIDE DEF b
<1>6. Only(a, b, FlowFields \cup {"started", "finished"})
  BY <1>2, <1>5 DEF Only, EndStep, FlowFields, MessagesFields
<1>7. SameCalls(a, b)
  BY <1>3, <1>5 DEF SameCalls, EndStep
<1> QED BY <1>1, <1>5, <1>6, <1>7 DEF EndStep

DeltaFields == {"reasoning", "text", "refusal", "notes", "tools", "searches", "hello", "done", "error"}

\* A delta as the decoder makes them: it has one call at most.
IsDelta(d) ==
  /\ DOMAIN d = DeltaFields
  /\ IsSeq(d.reasoning) /\ IsSeq(d.notes) /\ IsSeq(d.searches)
  /\ d.tools = <<>> \/ \E t : d.tools = <<t>> /\ IsSeq(t.args)

\* A delta that closes no call.
Quiet(d) == d.text = <<>> /\ d.refusal = <<>> /\ d.notes = <<>>

\* What Converted does before it comes to the calls.
Spoken(a, d) ==
  LET reason(b) == IF d.reasoning = <<>> THEN b ELSE ContentDelta(b, "reasoning", d.reasoning)
      say(b) == IF d.text = <<>> THEN b ELSE TextDelta(b, d.text)
      refuse(b) == IF d.refusal = <<>> THEN b ELSE ContentDelta(b, "refusal", d.refusal)
  IN  CitedAll(refuse(say(reason(Start(Merge(a, d))))), d.notes, a.noted)

(* The conversion of a delta in three parts: what is said, the calls, the   *)
(* searches and the end.                                                    *)
LEMMA ConvertedIs ==
  ASSUME NEW a, NEW d
  PROVE  LET b == FoldLeft(SearchEvent, FoldLeft(ToolDelta, Spoken(a, d), d.tools), d.searches)
         IN  Converted(a, d) = IF d.done THEN Finalize(b) ELSE b
BY DEF Converted, Spoken, CitedAll

(* Only a Responses client depends on the reasoning it has heard.           *)
LEMMA FlowsUnheard ==
  ASSUME NEW c, NEW a, NEW heard, Flows(c, a, heard), a.target # "responses" \/ heard = a.reasoning
  PROVE  Flowing(c, a)
BY DEF Flows, Flowing

SpokenFields == FlowFields \cup NotedFields \cup {"started"}

(* The reasoning, the text, the refusal and the citations of a delta.       *)
LEMMA SpokenFlows ==
  ASSUME NEW c, NEW a, IsAdapter(a), Ready(c, a, a.reasoning), NEW d, IsDelta(d)
  PROVE  LET p == Spoken(a, d)
         IN  /\ Flowing(c, p) /\ Only(a, p, SpokenFields) /\ p.started
             /\ SameCalls(a, p) /\ (Quiet(d) => p.tools = a.tools)
<1> DEFINE m == Merge(a, d)
           p1 == Start(m)
           p2 == IF d.reasoning = <<>> THEN p1 ELSE ContentDelta(p1, "reasoning", d.reasoning)
           p3 == IF d.text = <<>> THEN p2 ELSE TextDelta(p2, d.text)
           p4 == IF d.refusal = <<>> THEN p3 ELSE ContentDelta(p3, "refusal", d.refusal)
           p == CitedAll(p4, d.notes, a.noted)
<1>1. Spoken(a, d) = p
  BY DEF Spoken
<1>2. Only(a, m, NotedFields) /\ m.reasoning = a.reasoning \o d.reasoning
  BY DEF Merge, Only, IsAdapter, AdapterFields, NotedFields
<1> HIDE DEF m
<1>3. Ready(c, m, a.reasoning)
  BY <1>2, NotedFlows
<1>4. Flows(c, p1, a.reasoning) /\ Only(m, p1, {"started", "out"}) /\ p1.started
  BY <1>3, StartFacts
<1> HIDE DEF p1
<1>5. p1.reasoning = a.reasoning \o d.reasoning /\ p1.tools = a.tools /\ Only(a, p1, SpokenFields)
  BY <1>2, <1>4 DEF Only, IsAdapter, AdapterFields, NotedFields, SpokenFields, FlowFields, MessagesFields
<1>6. Flowing(c, p2) /\ Only(p1, p2, FlowFields) /\ p2.tools = p1.tools
  <2>1. CASE d.reasoning # <<>>
    <3>1. IsSeq(d.reasoning)
      BY DEF IsDelta
    <3> QED BY <1>4, <1>5, <2>1, <3>1, ReasonFlows
  <2>2. CASE d.reasoning = <<>>
    <3>1. p2 = p1
      BY <2>2
    <3>2. ASSUME p1.target = "responses" PROVE a.reasoning = p1.reasoning
      <4>1. IsSeq(a.reasoning)
        BY <1>4, <3>2 DEF Flows, ResponsesLink
      <4> QED BY <1>5, <2>2, <4>1, Concatenated
    <3>3. Flowing(c, p1)
      BY <1>4, <3>2, FlowsUnheard
    <3> QED BY <3>1, <3>3, OnlySelf
  <2> QED BY <2>1, <2>2
<1> HIDE DEF p2
<1>7. FlowStep(c, p2, p3) /\ (d.text = <<>> => p3 = p2)
  BY <1>6, FlowSelf, TextFlows
<1> HIDE DEF p3
<1>8. FlowStep(c, p3, p4) /\ (d.refusal = <<>> => p4 = p3)
  <2>1. Flowing(c, p3)
    BY <1>7 DEF FlowStep
  <2>2. PICK kind \in {"text", "refusal"} : kind = "refusal"
    OBVIOUS
  <2>3. p4 = IF d.refusal = <<>> THEN p3 ELSE ContentDelta(p3, kind, d.refusal)
    BY <2>2
  <2> QED BY <2>1, <2>3, FlowSelf, SaysFlow
<1> HIDE DEF p4
<1>9. FlowStep(c, p4, p) /\ (d.notes = <<>> => p = p4)
  <2>1. Flowing(c, p4) /\ IsSeq(d.notes)
    BY <1>8 DEF FlowStep, IsDelta
  <2> QED BY <2>1, CitedFlows
<1> HIDE DEF p
<1>10. FlowStep(c, p2, p)
  BY <1>7, <1>8, <1>9, FlowStepTwice
<1>11. Quiet(d) => p.tools = a.tools
  BY <1>5, <1>6, <1>7, <1>8, <1>9 DEF Quiet
<1>12. SameCalls(a, p)
  BY <1>5, <1>6, <1>10 DEF SameCalls, FlowStep
<1>13. Only(a, p, SpokenFields)
  BY <1>5, <1>6, <1>10 DEF Only, FlowStep, SpokenFields
<1>14. p.started
  <2>1. p.started = p1.started
    BY <1>2, <1>4, <1>6, <1>10 DEF Only, FlowStep, IsAdapter, AdapterFields, FlowFields, MessagesFields, ResponsesFields
  <2> QED BY <1>4, <2>1
<1> QED BY <1>1, <1>10, <1>11, <1>12, <1>13, <1>14 DEF FlowStep

PassFields == SpokenFields \cup {"finished"}

\* From a to b the adapter has passed something on; the stream is over or
\* goes on.
Passed(c, a, b, over) ==
  /\ IsAdapter(b) /\ Only(a, b, PassFields)
  /\ IF over THEN b.finished /\ Ended(Seen(c, b)) ELSE ~b.finished /\ b.started /\ Flowing(c, b)

(* A step after which the stream goes on is a way to pass the delta.        *)
LEMMA FlowsOn ==
  ASSUME NEW c, NEW a, IsAdapter(a), ~a.finished, NEW p, Only(a, p, SpokenFields), p.started,
         NEW b, FlowStep(c, p, b)
  PROVE  Passed(c, a, b, FALSE)
<1>1. Only(a, b, SpokenFields)
  BY DEF FlowStep, Only, SpokenFields
<1>2. IsAdapter(b) /\ Flowing(c, b)
  BY FlowsAre DEF FlowStep
<1>3. b.finished = a.finished /\ b.started = p.started
  BY <1>1 DEF FlowStep, Only, IsAdapter, AdapterFields, SpokenFields, FlowFields, MessagesFields, ResponsesFields, NotedFields
<1>4. Only(a, b, PassFields)
  BY <1>1, OnlyMore DEF PassFields
<1> QED BY <1>2, <1>3, <1>4 DEF Passed

(* Finalize after such a step is one that ends the stream.                  *)
LEMMA EndsHere ==
  ASSUME NEW c, NEW a, IsAdapter(a), NEW p, Passed(c, a, p, FALSE)
  PROVE  LET b == Finalize(p) IN Passed(c, a, b, TRUE) /\ SameCalls(p, b)
<1> DEFINE b == Finalize(p)
<1>1. ~p.finished /\ Ready(c, p, p.reasoning) /\ IsAdapter(p) /\ Only(a, p, PassFields)
  BY DEF Passed, Ready, Flowing
<1>2. /\ IsAdapter(b) /\ b.finished /\ Ended(Seen(c, b))
      /\ Only(p, b, FlowFields \cup {"started", "finished"}) /\ SameCalls(p, b)
  BY <1>1, FinalizeFacts
<1> HIDE DEF b
<1>3. Only(a, b, PassFields)
  BY <1>1, <1>2 DEF Only, PassFields, SpokenFields
<1>4. Passed(c, a, b, TRUE) /\ SameCalls(p, b)
  BY <1>2, <1>3 DEF Passed
<1> QED BY <1>4 DEF b

(* A delta without a call.                                                  *)
LEMMA ConvertedSays ==
  ASSUME NEW c, NEW a, IsAdapter(a), ~a.finished, Ready(c, a, a.reasoning), NEW d, IsDelta(d), d.tools = <<>>
  PROVE  LET b == Converted(a, d)
         IN  /\ d.done => Passed(c, a, b, TRUE)
             /\ ~d.done => Passed(c, a, b, FALSE)
             /\ SameCalls(a, b)
             /\ Quiet(d) /\ d.searches = <<>> /\ ~d.done => b.tools = a.tools
<1> DEFINE p == Spoken(a, d)
           q == FoldLeft(SearchEvent, FoldLeft(ToolDelta, p, d.tools), d.searches)
           b == IF d.done THEN Finalize(q) ELSE q
<1>1. Converted(a, d) = b
  BY ConvertedIs
<1>2. /\ Flowing(c, p) /\ Only(a, p, SpokenFields) /\ p.started
      /\ SameCalls(a, p) /\ (Quiet(d) => p.tools = a.tools)
  BY SpokenFlows
<1> HIDE DEF p
<1>3. q = FoldLeft(SearchEvent, p, d.searches)
  BY OneToolDelta
<1>4. IsSeq(d.searches)
  BY DEF IsDelta
<1> HIDE DEF q
<1>5. FlowStep(c, p, q) /\ (d.searches = <<>> => q = p)
  BY <1>2, <1>3, <1>4, SearchesFlow
<1>6. Passed(c, a, q, FALSE)
  BY <1>2, <1>5, FlowsOn
<1>7. SameCalls(a, q)
  BY <1>2, <1>5, SameCallsTwice DEF FlowStep
<1>8. CASE d.done
  <2>1. b = Finalize(q)
    BY <1>8
  <2>2. Passed(c, a, b, TRUE) /\ SameCalls(q, b)
    BY <1>6, <2>1, EndsHere
  <2> HIDE DEF b
  <2>3. SameCalls(a, b)
    BY <1>7, <2>2, SameCallsTwice
  <2> QED BY <1>1, <1>8, <2>2, <2>3
<1>9. CASE ~d.done
  <2>1. b = q
    BY <1>9
  <2> QED BY <1>1, <1>2, <1>5, <1>6, <1>7, <1>9, <2>1
<1> QED BY <1>8, <1>9

\* From a to b the delta t of call i has been taken; of the other calls some
\* may have been closed, but none by a quiet delta.
CallTaken(a, b, i, t, quiet) ==
  /\ i \in 1..Len(b.tools)
  /\ Len(b.tools) = IF i \in 1..Len(a.tools) THEN Len(a.tools) ELSE Len(a.tools) + 1
  /\ \A j \in 1..Len(a.tools) : j # i =>
       /\ b.tools[j].key = a.tools[j].key /\ b.tools[j].shown = a.tools[j].shown
       /\ quiet => b.tools[j].open = a.tools[j].open
  /\ b.tools[i].key = t.key /\ b.tools[i].shown
  /\ a.target # "chat_completions" => b.tools[i].open

(* A delta with a call.                                                     *)
LEMMA ConvertedCalls ==
  ASSUME NEW c, NEW a, IsAdapter(a), ~a.finished, Ready(c, a, a.reasoning), KeysDiffer(a),
         NEW d, IsDelta(d), NEW t, d.tools = <<t>>, d.searches = <<>>, ~d.done,
         NEW i, Takes(a, i, t), t.started \/ Quiet(d)
  PROVE  LET b == Converted(a, d)
         IN  Passed(c, a, b, FALSE) /\ CallTaken(a, b, i, t, Quiet(d))
<1> DEFINE p == Spoken(a, d)
           q == FoldLeft(ToolDelta, p, d.tools)
           b == FoldLeft(SearchEvent, q, d.searches)
<1>1. Converted(a, d) = b
  BY ConvertedIs
<1>2. /\ Flowing(c, p) /\ Only(a, p, SpokenFields) /\ p.started
      /\ SameCalls(a, p) /\ (Quiet(d) => p.tools = a.tools)
  BY SpokenFlows
<1> HIDE DEF p
<1>3. q = ToolDelta(p, t)
  BY OneToolDelta
<1>4. \A j \in 1..Len(a.tools) : p.tools[j].key = a.tools[j].key /\ p.tools[j].shown = a.tools[j].shown
  BY <1>2, CallFields
<1>5. Len(p.tools) = Len(a.tools) /\ p.target = a.target
  BY <1>2 DEF SameCalls, Only, IsAdapter, AdapterFields, SpokenFields, FlowFields, MessagesFields, ResponsesFields, NotedFields
<1>6. KeysDiffer(p)
  BY <1>4, <1>5 DEF KeysDiffer
<1>7. Takes(p, i, t)
  <2>1. CASE Quiet(d)
    <3>1. p.tools = a.tools /\ OpenTools(p) = OpenTools(a)
      BY <1>2, <2>1 DEF OpenTools
    <3> QED BY <1>5, <3>1 DEF Takes
  <2>2. CASE t.started
    BY <1>4, <1>5, <2>2 DEF Takes
  <2> QED BY <2>1, <2>2
<1>8. IsSeq(t.args)
  <2>1. PICK e : d.tools = <<e>> /\ IsSeq(e.args)
    <3>1. <<t>> # <<>>
      BY OneIsSeq, EmptyIsSeq
    <3> QED BY <3>1 DEF IsDelta
  <2>2. <<e>>[1] = e /\ <<t>>[1] = t
    BY OneIsSeq
  <2> QED BY <2>1, <2>2
<1> HIDE DEF q
<1>9. Flowing(c, q) /\ Only(p, q, FlowFields) /\ CallStep(p, q, i, t)
  BY <1>2, <1>3, <1>6, <1>7, <1>8, CallFlows
<1>10. b = q
  BY <1>9, EmptyIsSeq, SearchesFlow
<1> HIDE DEF b
<1>11. Only(a, q, SpokenFields) /\ q.started
  <2>1. q.started = p.started
    BY <1>2, <1>9 DEF Only, IsAdapter, AdapterFields, FlowFields, MessagesFields, ResponsesFields
  <2> QED BY <1>2, <1>9, <2>1 DEF Only, SpokenFields
<1>12. Passed(c, a, q, FALSE)
  BY <1>9, <1>11, FlowSelf, FlowsOn
<1>13. CallTaken(a, q, i, t, Quiet(d))
  <2>1. \A j \in 1..Len(a.tools) : j # i => q.tools[j] = p.tools[j]
    BY <1>5, <1>9 DEF CallStep
  <2>2. Quiet(d) => \A j \in 1..Len(a.tools) : p.tools[j].open = a.tools[j].open
    BY <1>2
  <2> QED BY <1>4, <1>5, <1>9, <2>1, <2>2 DEF CallStep, CallTaken
<1> QED BY <1>1, <1>10, <1>12, <1>13

\* An adapter between two calls of the relay, and its client.
Paired(a, c) ==
  /\ IsAdapter(a) /\ a.source \in Protocols /\ a.target \in Protocols
  /\ a.out = <<>>
  /\ AdapterLink(a, c)

(* A started adapter whose stream has not ended has a client that           *)
(* follows.                                                                 *)
LEMMA PairFlows ==
  ASSUME NEW a, NEW c, Paired(a, c), ~a.finished, a.started
  PROVE  Flowing(c, a)
<1>1. Seen(c, a) = c
  BY ReadingNothing DEF Paired, Seen
<1>2. StreamLink(a, c)
  BY DEF Paired, AdapterLink
<1> QED BY <1>1, <1>2 DEF StreamLink, Paired, Flowing, Flows

(* Between two calls the adapter is ready for the next.                     *)
LEMMA PairReady ==
  ASSUME NEW a, NEW c, Paired(a, c), ~a.finished
  PROVE  Ready(c, a, a.reasoning)
<1>1. CASE a.started
  BY <1>1, PairFlows DEF Ready, Flowing
<1>2. CASE ~a.started
  <2>1. a = NewAdapter(<<a.source, a.target>>) /\ c = NewClient
    BY <1>2 DEF Paired, AdapterLink
  <2>2. /\ a.tools = <<>> /\ a.searches = <<>> /\ a.nextIndex = 0 /\ a.reasoning = <<>>
        /\ a.thought = [started |-> FALSE, done |-> FALSE, index |-> 0]
        /\ a.message = [started |-> FALSE, done |-> FALSE, index |-> 0, content |-> <<>>]
        /\ ~a.textOpen /\ ~a.blockOpened /\ a.blockIndex = 0
    BY <2>1 DEF NewAdapter
  <2>3. Seen(c, a) = NewClient
    BY <2>1, ReadingNothing DEF Paired, Seen
  <2> QED BY <1>2, <2>2, <2>3 DEF Ready, Fresh, Paired
<1> QED BY <1>1, <1>2

\* What the relay keeps of an adapter after it has passed on what it wrote.
Emptied(b) == [b EXCEPT !.out = <<>>]

(* Handing over what is written leaves the rest of the adapter alone.       *)
LEMMA EmptiedFacts ==
  ASSUME NEW b, IsAdapter(b)
  PROVE  LET e == Emptied(b) IN IsAdapter(e) /\ e.out = <<>> /\ Only(b, e, {"out"}) /\ e.tools = b.tools
<1> DEFINE e == Emptied(b)
<1>1. Only(b, e, {"out"}) /\ e.out = <<>>
  BY DEF Emptied, Only, IsAdapter, AdapterFields
<1> HIDE DEF e
<1>2. /\ e.tools = b.tools /\ e.searches = b.searches /\ e.thought = b.thought
      /\ e.message = b.message /\ DOMAIN e = DOMAIN b
  BY <1>1 DEF Only, IsAdapter, AdapterFields
<1>3. IsAdapter(e)
  BY <1>1, <1>2, EmptyIsSeq DEF IsAdapter
<1> QED BY <1>1, <1>2, <1>3 DEF e

(* The relation with the client survives handing it over.                   *)
LEMMA EmptiedLink ==
  ASSUME NEW c, NEW b, Flowing(c, b)
  PROVE  StreamLink(Emptied(b), Seen(c, b))
<1> DEFINE e == Emptied(b)
           s == Seen(c, b)
<1>1. IsAdapter(b) /\ b.target \in Protocols
  BY FlowsAre
<1>2. IsAdapter(e) /\ Only(b, e, {"out"}) /\ e.tools = b.tools
  BY <1>1, EmptiedFacts
<1> HIDE DEF e
<1>3. e.target = b.target /\ e.reasoning = b.reasoning /\ DOMAIN b = AdapterFields
  BY <1>1, <1>2 DEF Only, IsAdapter, AdapterFields
<1> HIDE DEF s
<1>4. CASE b.target = "chat_completions"
  <2>1. ChatLink(b, s, Len(b.tools))
    BY <1>4 DEF Flowing, Flows, s
  <2>2. ChatLink(e, s, Len(e.tools))
    BY <1>2, <2>1 DEF ChatLink
  <2> QED BY <1>3, <1>4, <2>2 DEF StreamLink, s, e
<1>5. CASE b.target = "messages"
  <2>1. MessagesLink(b, s)
    BY <1>5 DEF Flowing, Flows, s
  <2>2. Only(b, e, AdapterFields \ {"tools", "textOpen", "blockIndex", "blockOpened"})
    BY <1>2, OnlyMore DEF AdapterFields
  <2>3. MessagesLink(e, s)
    BY <1>3, <2>1, <2>2, MessagesLinkSame
  <2> QED BY <1>3, <1>5, <2>3 DEF StreamLink, s, e
<1>6. CASE b.target = "responses"
  <2>1. PICK x, told : x = 0 /\ told = <<>>
    OBVIOUS
  <2>2. ResponsesLink(b, s, b.reasoning, x, told)
    BY <1>6, <2>1 DEF Flowing, Flows, s
  <2>3. Only(b, e, AdapterFields \ {"tools", "searches", "thought", "message", "nextIndex"})
    BY <1>2, OnlyMore DEF AdapterFields
  <2>4. ResponsesLink(e, s, b.reasoning, x, told)
    BY <1>3, <2>2, <2>3, ResponsesLinkSame
  <2>5. ResponsesLink(e, s, e.reasoning, 0, <<>>)
    BY <1>3, <2>1, <2>4
  <2> QED BY <1>3, <1>6, <2>5 DEF StreamLink, s, e
<1> QED BY <1>1, <1>4, <1>5, <1>6 DEF Protocols

\* From a and c to e and d: the conversion is the same, the stream is over or
\* goes on.
PairStep(a, e, d, over) ==
  /\ Paired(e, d) /\ e.source = a.source /\ e.target = a.target
  /\ e.finished <=> over

(* What the adapter has passed on reaches the client.                       *)
LEMMA HandedOn ==
  ASSUME NEW a, NEW c, Paired(a, c), NEW over \in BOOLEAN, NEW b, Passed(c, a, b, over)
  PROVE  LET e == Emptied(b) IN PairStep(a, e, Seen(c, b), over) /\ e.tools = b.tools
<1> DEFINE e == Emptied(b)
           s == Seen(c, b)
<1>1. IsAdapter(e) /\ e.out = <<>> /\ Only(b, e, {"out"}) /\ e.tools = b.tools
  BY EmptiedFacts DEF Passed
<1>2. ~over => StreamLink(e, s)
  BY EmptiedLink DEF Passed
<1>3. over => Ended(s)
  BY DEF Passed
<1> HIDE DEF e, s
<1>4. b.source = a.source /\ b.target = a.target
  BY DEF Passed, Paired, Only, IsAdapter, AdapterFields, PassFields, SpokenFields, FlowFields, MessagesFields,
         ResponsesFields, NotedFields
<1>5. e.source = b.source /\ e.target = b.target /\ e.started = b.started /\ e.finished = b.finished
  BY <1>1 DEF Passed, Only, IsAdapter, AdapterFields
<1>6. AdapterLink(e, s) /\ (e.finished <=> over)
  BY <1>2, <1>3, <1>5 DEF AdapterLink, Passed
<1>7. PairStep(a, e, s, over)
  BY <1>1, <1>4, <1>5, <1>6 DEF PairStep, Paired
<1> QED BY <1>1, <1>7 DEF e, s

(* Reasoning that is dropped changes nothing else in a delta.               *)
LEMMA HeededFacts ==
  ASSUME NEW a, NEW d, IsDelta(d)
  PROVE  LET h == Heeded(a, d)
         IN  /\ IsDelta(h) /\ h.text = d.text /\ h.refusal = d.refusal /\ h.notes = d.notes /\ h.tools = d.tools
             /\ h.searches = d.searches /\ h.done = d.done /\ h.error = d.error
<1> DEFINE h == [d EXCEPT !.reasoning = <<>>]
<1>1. /\ DOMAIN h = DeltaFields /\ h.reasoning = <<>>
      /\ h.text = d.text /\ h.refusal = d.refusal /\ h.notes = d.notes /\ h.tools = d.tools
      /\ h.searches = d.searches /\ h.done = d.done /\ h.error = d.error
  BY DEF IsDelta, DeltaFields
<1>2. Heeded(a, d) = d \/ Heeded(a, d) = h
  BY DEF Heeded
<1> HIDE DEF h
<1>3. IsDelta(h)
  BY <1>1, EmptyIsSeq DEF IsDelta
<1> QED BY <1>1, <1>2, <1>3

(* An adapter that has nothing to write stays as it is.                     *)
LEMMA EmptiedSelf ==
  ASSUME NEW a, NEW c, Paired(a, c), ~a.finished
  PROVE  LET e == Emptied(a) IN PairStep(a, e, Seen(c, a), FALSE) /\ e.tools = a.tools
<1> DEFINE e == Emptied(a)
<1>1. IsAdapter(e) /\ e.out = <<>> /\ Only(a, e, {"out"}) /\ e.tools = a.tools
  BY EmptiedFacts DEF Paired
<1>2. Seen(c, a) = c
  BY ReadingNothing DEF Paired, Seen
<1>3. a.started => StreamLink(e, c)
  BY <1>2, PairFlows, EmptiedLink
<1>4. ~a.started => e = a
  <2> SUFFICES ASSUME ~a.started PROVE e = a
    OBVIOUS
  <2> DEFINE n == NewAdapter(<<a.source, a.target>>)
  <2>1. a = n
    BY DEF Paired, AdapterLink
  <2>2. n = [x \in DOMAIN n |-> n[x]]
    BY DEF NewAdapter
  <2>3. e = [x \in DOMAIN a |-> IF x = "out" THEN <<>> ELSE a[x]]
    BY DEF Emptied
  <2>4. a.out = <<>>
    BY DEF Paired
  <2> HIDE DEF n, e
  <2>5. e = [x \in DOMAIN a |-> a[x]]
    BY <2>3, <2>4
  <2> QED BY <2>1, <2>2, <2>5
<1> HIDE DEF e
<1>5. e.source = a.source /\ e.target = a.target /\ e.started = a.started /\ e.finished = a.finished
  BY <1>1 DEF Only, IsAdapter, AdapterFields, Paired
<1>6. AdapterLink(e, c)
  BY <1>3, <1>4, <1>5 DEF Paired, AdapterLink
<1>7. PairStep(a, e, Seen(c, a), FALSE)
  BY <1>1, <1>2, <1>5, <1>6 DEF PairStep, Paired
<1> QED BY <1>1, <1>7 DEF e

(* A delta without a call.                                                  *)
LEMMA SaysRelayed ==
  ASSUME NEW a, NEW c, Paired(a, c), ~a.finished, NEW d, IsDelta(d), d.tools = <<>>, ~d.error
  PROVE  LET b == Translate(a, d)
             e == Emptied(b)
         IN  /\ PairStep(a, e, Seen(c, b), d.done)
             /\ SameCalls(a, e)
             /\ Quiet(d) /\ d.searches = <<>> /\ ~d.done => e.tools = a.tools
<1> DEFINE b == Translate(a, d)
           e == Emptied(b)
           h == Heeded(a, d)
<1>1. /\ IsDelta(h) /\ h.tools = <<>> /\ h.done = d.done /\ ~h.error /\ h.searches = d.searches
      /\ (Quiet(d) => Quiet(h))
  BY HeededFacts DEF Quiet
<1>2. b = IF ~a.started /\ h = Silence THEN a ELSE Converted(a, h)
  BY <1>1 DEF Translate
<1> HIDE DEF h
<1>3. CASE ~a.started /\ h = Silence
  <2>1. ~h.done
    BY <1>3 DEF Silence
  <2>2. b = a
    BY <1>2, <1>3
  <2> HIDE DEF b
  <2>3. PairStep(a, e, Seen(c, b), FALSE) /\ e.tools = a.tools
    BY <2>2, EmptiedSelf
  <2> HIDE DEF e
  <2>4. PairStep(a, e, Seen(c, b), d.done)
    BY <1>1, <2>1, <2>3 DEF PairStep
  <2> QED BY <2>3, <2>4, SameCallsSelf DEF e, b
<1>4. CASE ~(~a.started /\ h = Silence)
  <2>1. b = Converted(a, h)
    BY <1>2, <1>4
  <2> HIDE DEF b
  <2>2. IsAdapter(a) /\ Ready(c, a, a.reasoning)
    BY PairReady DEF Paired
  <2>3. /\ h.done => Passed(c, a, b, TRUE)
        /\ ~h.done => Passed(c, a, b, FALSE)
        /\ SameCalls(a, b)
        /\ Quiet(h) /\ h.searches = <<>> /\ ~h.done => b.tools = a.tools
    BY <1>1, <2>1, <2>2, ConvertedSays
  <2>4. PICK over \in BOOLEAN : (over <=> h.done) /\ Passed(c, a, b, over)
    <3>1. CASE h.done
      BY <2>3, <3>1
    <3>2. CASE ~h.done
      BY <2>3, <3>2
    <3> QED BY <3>1, <3>2
  <2>5. PairStep(a, e, Seen(c, b), over) /\ e.tools = b.tools
    BY <2>4, HandedOn
  <2> HIDE DEF e
  <2>6. PairStep(a, e, Seen(c, b), d.done)
    BY <1>1, <2>4, <2>5 DEF PairStep
  <2>7. SameCalls(a, e)
    BY <2>3, <2>5 DEF SameCalls
  <2>8. Quiet(d) /\ d.searches = <<>> /\ ~d.done => e.tools = a.tools
    BY <1>1, <2>3, <2>5
  <2> QED BY <2>6, <2>7, <2>8 DEF e, b
<1> QED BY <1>3, <1>4

(* A delta with a call.                                                     *)
LEMMA CallRelayed ==
  ASSUME NEW a, NEW c, Paired(a, c), ~a.finished, KeysDiffer(a), NEW d, IsDelta(d), ~d.error, ~d.done,
         NEW t, d.tools = <<t>>, d.searches = <<>>, NEW i, Takes(a, i, t), t.started \/ Quiet(d)
  PROVE  LET b == Translate(a, d)
             e == Emptied(b)
         IN  PairStep(a, e, Seen(c, b), FALSE) /\ CallTaken(a, e, i, t, Quiet(d))
<1> DEFINE b == Translate(a, d)
           e == Emptied(b)
           h == Heeded(a, d)
<1>1. IsDelta(h) /\ h.tools = <<t>> /\ ~h.done /\ ~h.error /\ h.searches = <<>> /\ (Quiet(d) <=> Quiet(h))
  BY HeededFacts DEF Quiet
<1>2. h # Silence
  <2>1. <<t>> # <<>>
    BY OneIsSeq, EmptyIsSeq
  <2> HIDE DEF h
  <2> QED BY <1>1, <2>1 DEF Silence
<1>3. b = Converted(a, h)
  BY <1>1, <1>2 DEF Translate
<1> HIDE DEF b, h
<1>4. IsAdapter(a) /\ Ready(c, a, a.reasoning)
  BY PairReady DEF Paired
<1>5. t.started \/ Quiet(h)
  BY <1>1
<1>6. Passed(c, a, b, FALSE) /\ CallTaken(a, b, i, t, Quiet(h))
  BY <1>1, <1>3, <1>4, <1>5, ConvertedCalls
<1>7. PICK over \in BOOLEAN : over = FALSE
  OBVIOUS
<1>8. PairStep(a, e, Seen(c, b), FALSE) /\ e.tools = b.tools
  BY <1>6, <1>7, HandedOn
<1> HIDE DEF e
<1>9. CallTaken(a, e, i, t, Quiet(d))
  BY <1>1, <1>6, <1>8 DEF CallTaken
<1> QED BY <1>8, <1>9 DEF e, b

(* The upstream fails.                                                      *)
LEMMA FailureRelayed ==
  ASSUME NEW a, NEW c, Paired(a, c), ~a.finished, NEW d, IsDelta(d), d.error
  PROVE  LET b == Translate(a, d)
             e == Emptied(b)
         IN  PairStep(a, e, Seen(c, b), TRUE) /\ SameCalls(a, e)
<1> DEFINE w == Write(a, Failure)
           b == Translate(a, d)
           e == Emptied(b)
<1>2. IsAdapter(a) /\ Seen(c, a) = c
  BY ReadingNothing DEF Paired, Seen
<1>3. IsAdapter(w) /\ Only(a, w, {"out"}) /\ Seen(c, w) = Receive(c, Failure)
  BY <1>2, Writes
<1>1. Only(w, b, {"finished"}) /\ b.finished
  <2>1. Heeded(a, d).error
    BY HeededFacts
  <2>2. Heeded(a, d) # Silence
    BY <2>1 DEF Silence
  <2>3. b = [w EXCEPT !.finished = TRUE]
    BY <2>1, <2>2 DEF Translate
  <2> QED BY <1>3, <2>3 DEF Only, IsAdapter, AdapterFields
<1> HIDE DEF w, b
<1>4. DOMAIN c = ClientFields /\ c.phase \in {"new", "open"} /\ c.misplaced \subseteq Exempt
  <2>1. CASE a.started
    <3>1. Follows(c)
      BY <2>1 DEF Paired, AdapterLink, StreamLink, ChatLink, MessagesLink, ResponsesLink, Protocols
    <3> QED BY <3>1 DEF Follows
  <2>2. CASE ~a.started
    <3>1. c = NewClient
      BY <2>2 DEF Paired, AdapterLink
    <3> QED BY <3>1 DEF NewClient, ClientFields
  <2> QED BY <2>1, <2>2
<1>5. Ended(Seen(c, w))
  BY <1>3, <1>4, ReadFailure DEF Ended
<1>6. IsAdapter(b) /\ b.finished /\ Ended(Seen(c, b)) /\ Only(w, b, {"finished"}) /\ b.tools = w.tools
  <2>1. Only(w, b, AdapterFields \ {"out", "tools", "searches", "thought", "message"})
    BY <1>1, OnlyMore DEF AdapterFields
  <2> QED BY <1>1, <1>3, <1>5, <2>1, StaysAdapter
<1>7. Only(a, b, PassFields)
  BY <1>3, <1>6 DEF Only, PassFields, SpokenFields, FlowFields, MessagesFields
<1>8. b.tools = a.tools
  BY <1>2, <1>3, <1>6 DEF Only, IsAdapter, AdapterFields
<1>9. PICK over \in BOOLEAN : over = TRUE
  OBVIOUS
<1>10. Passed(c, a, b, over)
  BY <1>6, <1>7, <1>9 DEF Passed
<1>11. PairStep(a, e, Seen(c, b), TRUE) /\ e.tools = b.tools
  BY <1>9, <1>10, HandedOn
<1> HIDE DEF e
<1>12. SameCalls(a, e)
  BY <1>8, <1>11, SameCallsSelf
<1> QED BY <1>11, <1>12 DEF e, b

(* The upstream has gone without an end.                                    *)
LEMMA EndRelayed ==
  ASSUME NEW a, NEW c, Paired(a, c), ~a.finished
  PROVE  LET b == Finalize(a)
             e == Emptied(b)
         IN  PairStep(a, e, Seen(c, b), TRUE) /\ SameCalls(a, e)
<1> DEFINE b == Finalize(a)
           e == Emptied(b)
<1>1. IsAdapter(a) /\ Ready(c, a, a.reasoning)
  BY PairReady DEF Paired
<1>2. /\ IsAdapter(b) /\ b.finished /\ Ended(Seen(c, b))
      /\ Only(a, b, FlowFields \cup {"started", "finished"}) /\ SameCalls(a, b)
  BY <1>1, FinalizeFacts
<1> HIDE DEF b
<1>3. Only(a, b, PassFields)
  BY <1>2, OnlyMore DEF PassFields, SpokenFields
<1>4. PICK over \in BOOLEAN : over = TRUE
  OBVIOUS
<1>5. Passed(c, a, b, over)
  BY <1>2, <1>3, <1>4 DEF Passed
<1>6. PairStep(a, e, Seen(c, b), TRUE) /\ e.tools = b.tools
  BY <1>4, <1>5, HandedOn
<1> HIDE DEF e
<1>7. SameCalls(a, e)
  BY <1>2, <1>6 DEF SameCalls
<1> QED BY <1>6, <1>7 DEF e, b

-----------------------------------------------------------------------------
(* The upstream, the adapter and the client.                                *)

\* The invariant, of an upstream u, an adapter a and a client c.
Joined(u, a, c) ==
  /\ IsUpstream(u)
  /\ Paired(a, c)
  /\ <<a.source, a.target>> \in Conversions
  /\ UpstreamLink(u, a)

(* The invariant, of the variables.                                         *)
LEMMA JoinedIs == ConversionInv <=> Joined(up, adapter, client)
<1>1. ASSUME <<adapter.source, adapter.target>> \in Conversions
      PROVE  adapter.source \in Protocols /\ adapter.target \in Protocols
  BY <1>1, StreamConversionAssumption
<1> QED BY <1>1 DEF ConversionInv, Joined, Paired

(* The invariant, of the variables after a step.                            *)
LEMMA JoinedNext == ConversionInv' <=> Joined(up', adapter', client')
<1>1. ASSUME <<adapter'.source, adapter'.target>> \in Conversions
      PROVE  adapter'.source \in Protocols /\ adapter'.target \in Protocols
  BY <1>1, StreamConversionAssumption
<1> QED BY <1>1 DEF ConversionInv, Joined, Paired

(* A step that sends a delta, in terms of the conversion.                   *)
LEMMA SendsIs ==
  ASSUME NEW d, Sends(d)
  PROVE  adapter' = Emptied(Translate(adapter, d)) /\ client' = Seen(client, Translate(adapter, d))
BY DEF Sends, Relay, Emptied, Seen, Reading

(* What the invariant says about the protocols and the calls.               *)
LEMMA JoinedFacts ==
  ASSUME NEW u, NEW a, NEW c, Joined(u, a, c)
  PROVE  /\ a.source \in Protocols /\ a.target \in Protocols /\ a.source # a.target
         /\ IsAdapter(a) /\ Len(a.tools) \in Nat /\ Len(u.said.tools) = Len(a.tools)
         /\ KeysDiffer(a) /\ (u.over <=> a.finished)
<1>1. a.source \in Protocols /\ a.target \in Protocols /\ a.source # a.target
  BY StreamConversionAssumption DEF Joined
<1>2. IsAdapter(a) /\ Len(a.tools) \in Nat
  BY SeqFacts DEF Joined, Paired, IsAdapter
<1>3. KeysDiffer(a)
  <2>1. CASE a.source = "chat_completions"
    BY <2>1 DEF Joined, UpstreamLink, KeysDiffer
  <2>2. CASE a.source # "chat_completions"
    BY <2>2 DEF Joined, UpstreamLink, KeysDiffer
  <2> QED BY <2>1, <2>2
<1> QED BY <1>1, <1>2, <1>3 DEF Joined, UpstreamLink

\* The upstream has neither begun a call nor told more of one.
CallsKept(u, v) ==
  /\ IsUpstream(v) /\ v.blocks >= u.blocks
  /\ Len(v.said.tools) = Len(u.said.tools)
  /\ \A i \in 1..Len(u.said.tools) : v.said.tools[i].key = u.said.tools[i].key
  /\ v.run \in {u.run, Len(u.said.tools) + 1}

(* The calls are the same; one that may still be filled is open as before.  *)
LEMMA CallsLink ==
  ASSUME NEW u, NEW a, NEW c, Joined(u, a, c), NEW v, CallsKept(u, v),
         NEW e, IsAdapter(e), e.source = a.source, e.target = a.target, e.finished <=> v.over, SameCalls(a, e), ~u.over,
         \/ v.over
         \/ e.tools = a.tools /\ (v.block = "tool" => u.block = "tool")
         \/ v.block # "tool" /\ a.source # "chat_completions"
         \/ v.run = Len(u.said.tools) + 1 /\ a.source = "chat_completions"
  PROVE  UpstreamLink(v, e)
<1>1. /\ IsAdapter(a) /\ Len(a.tools) \in Nat /\ Len(u.said.tools) = Len(a.tools) /\ Len(e.tools) = Len(a.tools)
      /\ UpstreamLink(u, a) /\ u.blocks \in Nat /\ u.run \in Nat /\ v.blocks \in Nat /\ v.blocks >= u.blocks
      /\ Len(v.said.tools) = Len(a.tools)
      /\ \A i \in 1..Len(a.tools) : v.said.tools[i].key = u.said.tools[i].key
  BY JoinedFacts DEF Joined, IsUpstream, CallsKept, SameCalls
<1>2. \A i \in 1..Len(a.tools) : e.tools[i].key = a.tools[i].key /\ e.tools[i].shown = a.tools[i].shown
  BY <1>1, CallFields
<1>3. \A i \in 1..Len(e.tools) : e.tools[i].key = v.said.tools[i].key /\ e.tools[i].shown
  BY <1>1, <1>2 DEF UpstreamLink
<1>4. ASSUME e.source = "chat_completions"
      PROVE  /\ \A i \in 1..Len(e.tools) : e.tools[i].key = i
             /\ ~v.over => \A i \in v.run..Len(e.tools) : i \in OpenTools(e)
  <2>1. \A i \in 1..Len(e.tools) : e.tools[i].key = i
    BY <1>1, <1>2, <1>4 DEF UpstreamLink
  <2>2. ASSUME ~v.over, NEW i \in v.run..Len(e.tools) PROVE i \in OpenTools(e)
    <3>1. v.run = u.run /\ e.tools = a.tools
      BY <1>1, <1>4, <2>2 DEF CallsKept
    <3> QED BY <1>1, <1>4, <2>2, <3>1 DEF UpstreamLink, OpenTools
  <2> QED BY <2>1, <2>2
<1>5. ASSUME e.source # "chat_completions"
      PROVE  /\ \A i \in 1..Len(e.tools) : e.tools[i].key \in 0..(v.blocks - 1)
             /\ \A i, j \in 1..Len(e.tools) : e.tools[i].key = e.tools[j].key => i = j
             /\ ~v.over /\ v.block = "tool" =>
                  Len(e.tools) > 0 /\ (e.target # "chat_completions" => Len(e.tools) \in OpenTools(e))
  <2>1. \A i \in 1..Len(a.tools) : a.tools[i].key \in 0..(u.blocks - 1)
    BY <1>1, <1>5 DEF UpstreamLink
  <2>2. \A i \in 1..Len(e.tools) : e.tools[i].key \in 0..(v.blocks - 1)
    <3>1. \A k : k \in 0..(u.blocks - 1) => k \in 0..(v.blocks - 1)
      BY <1>1
    <3> QED BY <1>1, <1>2, <2>1, <3>1
  <2>3. \A i, j \in 1..Len(a.tools) : a.tools[i].key = a.tools[j].key => i = j
    BY <1>1, <1>5 DEF UpstreamLink
  <2>4. \A i, j \in 1..Len(e.tools) : e.tools[i].key = e.tools[j].key => i = j
    BY <1>1, <1>2, <2>3
  <2>5. ASSUME ~v.over, v.block = "tool"
        PROVE  Len(e.tools) > 0 /\ (e.target # "chat_completions" => Len(e.tools) \in OpenTools(e))
    <3>1. u.block = "tool" /\ e.tools = a.tools
      BY <1>5, <2>5
    <3> QED BY <1>1, <1>5, <3>1 DEF UpstreamLink, OpenTools
  <2> QED BY <2>2, <2>4, <2>5
<1> QED BY <1>1, <1>3, <1>4, <1>5 DEF UpstreamLink

(* A delta without a call.                                                  *)
LEMMA SaysJoined ==
  ASSUME NEW u, NEW a, NEW c, Joined(u, a, c), ~u.over, NEW d, IsDelta(d), d.tools = <<>>, ~d.error,
         NEW v, CallsKept(u, v), v.over <=> d.done,
         \/ v.over
         \/ Quiet(d) /\ d.searches = <<>> /\ (v.block = "tool" => u.block = "tool")
         \/ v.block # "tool" /\ a.source # "chat_completions"
         \/ v.run = Len(u.said.tools) + 1 /\ a.source = "chat_completions"
  PROVE  Joined(v, Emptied(Translate(a, d)), Seen(c, Translate(a, d)))
<1> DEFINE b == Translate(a, d)
           e == Emptied(b)
           g == Seen(c, b)
<1>1. Paired(a, c) /\ ~a.finished
  BY JoinedFacts DEF Joined
<1>2. /\ PairStep(a, e, g, d.done) /\ SameCalls(a, e)
      /\ (Quiet(d) /\ d.searches = <<>> /\ ~d.done => e.tools = a.tools)
  BY <1>1, SaysRelayed
<1> HIDE DEF b, e, g
<1>3. IsAdapter(e) /\ e.source = a.source /\ e.target = a.target /\ (e.finished <=> v.over) /\ Paired(e, g)
  BY <1>2 DEF PairStep, Paired
<1>4. \/ v.over
      \/ e.tools = a.tools /\ (v.block = "tool" => u.block = "tool")
      \/ v.block # "tool" /\ a.source # "chat_completions"
      \/ v.run = Len(u.said.tools) + 1 /\ a.source = "chat_completions"
  BY <1>2
<1>5. UpstreamLink(v, e)
  BY <1>2, <1>3, <1>4, CallsLink
<1>6. Joined(v, e, g)
  BY <1>3, <1>5 DEF Joined, CallsKept
<1> QED BY <1>6 DEF b, e, g

\* The upstream has begun call i or told more of it.
CallTold(u, v, i, t) ==
  /\ IsUpstream(v) /\ v.blocks >= u.blocks
  /\ Len(v.said.tools) = IF i \in 1..Len(u.said.tools) THEN Len(u.said.tools) ELSE Len(u.said.tools) + 1
  /\ v.said.tools[i].key = t.key
  /\ \A j \in 1..Len(u.said.tools) : j # i => v.said.tools[j].key = u.said.tools[j].key

(* A delta with a call.                                                     *)
LEMMA CallJoined ==
  ASSUME NEW u, NEW a, NEW c, Joined(u, a, c), ~u.over, NEW d, IsDelta(d), ~d.error, ~d.done,
         NEW t, d.tools = <<t>>, d.searches = <<>>, NEW i, Takes(a, i, t), t.started \/ Quiet(d),
         NEW v, CallTold(u, v, i, t), ~v.over,
         a.source = "chat_completions" =>
           t.key = i /\ (v.run = Len(u.said.tools) + 1 \/ (v.run = u.run /\ Quiet(d))),
         a.source # "chat_completions" =>
           t.key \in 0..(v.blocks - 1) /\ (v.block = "tool" => i = Len(v.said.tools))
  PROVE  Joined(v, Emptied(Translate(a, d)), Seen(c, Translate(a, d)))
<1> DEFINE b == Translate(a, d)
           e == Emptied(b)
           g == Seen(c, b)
           n == Len(a.tools)
<1>1. /\ Paired(a, c) /\ ~a.finished /\ IsAdapter(a) /\ KeysDiffer(a) /\ n \in Nat /\ Len(u.said.tools) = n
      /\ UpstreamLink(u, a) /\ a.source # a.target
  BY JoinedFacts DEF Joined
<1>2. PairStep(a, e, g, FALSE) /\ CallTaken(a, e, i, t, Quiet(d))
  BY <1>1, CallRelayed
<1> HIDE DEF b, e, g, n
<1>3. IsAdapter(e) /\ e.source = a.source /\ e.target = a.target /\ ~e.finished /\ Paired(e, g)
  BY <1>2 DEF PairStep, Paired
<1>4. i \in 1..n \/ i = n + 1
  BY DEF Takes, n
<1>5. /\ Len(e.tools) = Len(v.said.tools) /\ i \in 1..Len(e.tools)
      /\ Len(e.tools) = IF i \in 1..n THEN n ELSE n + 1
  BY <1>1, <1>2 DEF CallTaken, CallTold, n
<1>6. \A j \in 1..Len(e.tools) : j # i => j \in 1..n
  BY <1>1, <1>4, <1>5
<1>7. e.tools[i].key = t.key /\ e.tools[i].shown /\ (a.target # "chat_completions" => e.tools[i].open)
  BY <1>2 DEF CallTaken
<1>13. \A j \in 1..n : j # i => e.tools[j].key = a.tools[j].key
  BY <1>2 DEF CallTaken, n
<1>14. \A j \in 1..n : j # i => e.tools[j].shown = a.tools[j].shown
  BY <1>2 DEF CallTaken, n
<1>15. Quiet(d) => \A j \in 1..n : j # i => e.tools[j].open = a.tools[j].open
  BY <1>2 DEF CallTaken, n
<1>16. v.said.tools[i].key = t.key /\ \A j \in 1..n : j # i => v.said.tools[j].key = u.said.tools[j].key
  BY <1>1 DEF CallTold
<1>8. \A j \in 1..Len(e.tools) : e.tools[j].key = v.said.tools[j].key /\ e.tools[j].shown
  <2> SUFFICES ASSUME NEW j \in 1..Len(e.tools) PROVE e.tools[j].key = v.said.tools[j].key /\ e.tools[j].shown
    OBVIOUS
  <2>1. CASE j = i
    BY <1>7, <1>16, <2>1
  <2>2. CASE j # i
    <3>1. j \in 1..n
      BY <1>6, <2>2
    <3>2. a.tools[j].key = u.said.tools[j].key /\ a.tools[j].shown
      BY <1>1, <3>1 DEF UpstreamLink, n
    <3> QED BY <1>13, <1>14, <1>16, <2>2, <3>1, <3>2
  <2> QED BY <2>1, <2>2
<1>9. ASSUME e.source = "chat_completions"
      PROVE  /\ \A j \in 1..Len(e.tools) : e.tools[j].key = j
             /\ ~v.over => \A j \in v.run..Len(e.tools) : j \in OpenTools(e)
  <2>1. \A j \in 1..n : a.tools[j].key = j
    BY <1>1, <1>3, <1>9 DEF UpstreamLink, n
  <2>2. \A j \in 1..Len(e.tools) : e.tools[j].key = j
    BY <1>3, <1>6, <1>7, <1>9, <1>13, <2>1
  <2>3. ASSUME NEW j \in v.run..Len(e.tools) PROVE j \in OpenTools(e)
    <3>0. u.run \in Nat \ {0} /\ v.run \in Nat \ {0}
      BY DEF Joined, IsUpstream, CallTold
    <3>1. j \in 1..Len(e.tools)
      BY <1>1, <1>5, <3>0
    <3>2. CASE j = i
      BY <1>1, <1>3, <1>7, <1>9, <3>1, <3>2 DEF OpenTools
    <3>3. CASE j # i
      <4>1. j \in 1..n
        BY <1>6, <3>1, <3>3
      <4>2. v.run = u.run /\ Quiet(d)
        BY <1>1, <1>3, <1>9, <4>1
      <4>3. j \in OpenTools(a)
        BY <1>1, <1>3, <1>9, <3>0, <4>1, <4>2 DEF UpstreamLink, n
      <4> QED BY <1>15, <3>1, <3>3, <4>1, <4>2, <4>3 DEF OpenTools
    <3> QED BY <3>2, <3>3
  <2> QED BY <2>2, <2>3
<1>10. ASSUME e.source # "chat_completions"
       PROVE  /\ \A j \in 1..Len(e.tools) : e.tools[j].key \in 0..(v.blocks - 1)
              /\ \A j, k \in 1..Len(e.tools) : e.tools[j].key = e.tools[k].key => j = k
              /\ ~v.over /\ v.block = "tool" =>
                   Len(e.tools) > 0 /\ (e.target # "chat_completions" => Len(e.tools) \in OpenTools(e))
  <2>1. \A j \in 1..n : a.tools[j].key \in 0..(v.blocks - 1)
    <3>1. \A j \in 1..n : a.tools[j].key \in 0..(u.blocks - 1)
      BY <1>1, <1>3, <1>10 DEF UpstreamLink, n
    <3>2. u.blocks \in Nat /\ v.blocks \in Nat /\ v.blocks >= u.blocks
      BY DEF Joined, IsUpstream, CallTold
    <3>3. \A k : k \in 0..(u.blocks - 1) => k \in 0..(v.blocks - 1)
      BY <3>2
    <3> QED BY <3>1, <3>3
  <2>2. \A j \in 1..Len(e.tools) : e.tools[j].key \in 0..(v.blocks - 1)
    BY <1>3, <1>6, <1>7, <1>10, <1>13, <2>1
  <2>3. \A j \in 1..n : j # i => a.tools[j].key # t.key
    <3>1. CASE i \in 1..n
      <4>1. a.tools[i].key = t.key
        BY <1>1, <3>1 DEF Takes, n
      <4> QED BY <1>1, <3>1, <4>1 DEF KeysDiffer, n
    <3>2. CASE i \notin 1..n
      BY <3>2 DEF Takes, n
    <3> QED BY <3>1, <3>2
  <2>4. \A j, k \in 1..n : a.tools[j].key = a.tools[k].key => j = k
    BY <1>1 DEF KeysDiffer, n
  <2>5. \A j, k \in 1..Len(e.tools) : e.tools[j].key = e.tools[k].key => j = k
    BY <1>6, <1>7, <1>13, <2>3, <2>4
  <2>6. ASSUME v.block = "tool"
        PROVE  Len(e.tools) > 0 /\ (e.target # "chat_completions" => Len(e.tools) \in OpenTools(e))
    <3>1. i = Len(e.tools)
      BY <1>3, <1>5, <1>10, <2>6
    <3> QED BY <1>1, <1>3, <1>5, <1>7, <3>1 DEF OpenTools
  <2> QED BY <2>2, <2>5, <2>6
<1>11. UpstreamLink(v, e)
  BY <1>3, <1>5, <1>8, <1>9, <1>10 DEF UpstreamLink
<1>12. Joined(v, e, g)
  BY <1>3, <1>11 DEF Joined, CallTold
<1> QED BY <1>12 DEF b, e, g

(* A delta without a call keeps the invariant.                              *)
LEMMA SaysKeeps ==
  ASSUME ConversionInv, ~up.over, NEW d, Sends(d), IsDelta(d), d.tools = <<>>, ~d.error,
         CallsKept(up, up'), up'.over <=> d.done,
         \/ up'.over
         \/ Quiet(d) /\ d.searches = <<>> /\ (up'.block = "tool" => up.block = "tool")
         \/ up'.block # "tool" /\ adapter.source # "chat_completions"
         \/ up'.run = Len(up.said.tools) + 1 /\ adapter.source = "chat_completions"
  PROVE  ConversionInv'
BY JoinedIs, JoinedNext, SendsIs, SaysJoined

(* A delta with a call keeps the invariant.                                 *)
LEMMA CallKeeps ==
  ASSUME ConversionInv, ~up.over, NEW d, Sends(d), IsDelta(d), ~d.error, ~d.done,
         NEW t, d.tools = <<t>>, d.searches = <<>>, NEW i, Takes(adapter, i, t), t.started \/ Quiet(d),
         CallTold(up, up', i, t), ~up'.over,
         adapter.source = "chat_completions" =>
           t.key = i /\ (up'.run = Len(up.said.tools) + 1 \/ (up'.run = up.run /\ Quiet(d))),
         adapter.source # "chat_completions" =>
           t.key \in 0..(up'.blocks - 1) /\ (up'.block = "tool" => i = Len(up'.said.tools))
  PROVE  ConversionInv'
BY JoinedIs, JoinedNext, SendsIs, CallJoined

(* A delta that says nothing, but that the stream is over or has begun.     *)
LEMMA SilentDelta ==
  /\ IsDelta(Silence) /\ Silence.tools = <<>> /\ ~Silence.error /\ ~Silence.done
  /\ Quiet(Silence) /\ Silence.searches = <<>>
  /\ LET d == [Silence EXCEPT !.hello = TRUE]
     IN  IsDelta(d) /\ d.tools = <<>> /\ ~d.error /\ ~d.done /\ Quiet(d) /\ d.searches = <<>>
  /\ LET d == [Silence EXCEPT !.done = TRUE]
     IN  IsDelta(d) /\ d.tools = <<>> /\ ~d.error /\ d.done
  /\ LET d == [Silence EXCEPT !.error = TRUE]
     IN  IsDelta(d) /\ d.tools = <<>> /\ d.error
BY EmptyIsSeq DEF IsDelta, DeltaFields, Silence, Quiet

\* What an upstream keeps beside its calls.
BesideFields == {"sparse", "greeted", "stopped", "over", "block", "silent", "late"}

(* An upstream that changes in other fields keeps its calls.                *)
LEMMA UpstreamStays ==
  ASSUME NEW u, IsUpstream(u), NEW v, Only(u, v, BesideFields \ {"late"})
  PROVE  CallsKept(u, v)
<1>1. v.said = u.said /\ v.late = u.late /\ v.blocks = u.blocks /\ v.run = u.run /\ DOMAIN v = DOMAIN u
  BY DEF IsUpstream, UpstreamFields, Only, BesideFields
<1>2. IsUpstream(v)
  BY <1>1 DEF IsUpstream
<1> QED BY <1>1, <1>2 DEF CallsKept, IsUpstream

(* The greeting of a stream keeps the invariant.                            *)
LEMMA HelloKeeps == ConversionInv /\ Hello => ConversionInv'
<1> SUFFICES ASSUME ConversionInv, Hello PROVE ConversionInv'
  OBVIOUS
<1> DEFINE d == [Silence EXCEPT !.hello = TRUE]
<1>1. IsUpstream(up) /\ ~up.over
  BY DEF ConversionInv, Hello
<1>2. up' = [up EXCEPT !.greeted = TRUE] /\ Sends(d)
  BY DEF Hello
<1>3. Only(up, up', BesideFields \ {"late"}) /\ ~up'.over /\ up'.block = up.block
  BY <1>1, <1>2 DEF Only, IsUpstream, UpstreamFields, BesideFields
<1>4. IsDelta(d) /\ d.tools = <<>> /\ ~d.error /\ ~d.done /\ Quiet(d) /\ d.searches = <<>>
  BY SilentDelta
<1> HIDE DEF d
<1>5. CallsKept(up, up')
  BY <1>1, <1>3, UpstreamStays
<1> QED BY <1>1, <1>2, <1>3, <1>4, <1>5, SaysKeeps

(* The finish reason of a chat stream keeps the invariant.                  *)
LEMMA StopKeeps == ConversionInv /\ Stop => ConversionInv'
<1> SUFFICES ASSUME ConversionInv, Stop PROVE ConversionInv'
  OBVIOUS
<1> DEFINE d == [Silence EXCEPT !.hello = TRUE]
<1>1. IsUpstream(up) /\ ~up.over
  BY DEF ConversionInv, Stop, InChat
<1>2. up' = [up EXCEPT !.stopped = TRUE] /\ Sends(d)
  BY DEF Stop
<1>3. Only(up, up', BesideFields \ {"late"}) /\ ~up'.over /\ up'.block = up.block
  BY <1>1, <1>2 DEF Only, IsUpstream, UpstreamFields, BesideFields
<1>4. IsDelta(d) /\ d.tools = <<>> /\ ~d.error /\ ~d.done /\ Quiet(d) /\ d.searches = <<>>
  BY SilentDelta
<1> HIDE DEF d
<1>5. CallsKept(up, up')
  BY <1>1, <1>3, UpstreamStays
<1> QED BY <1>1, <1>2, <1>3, <1>4, <1>5, SaysKeeps

(* The [DONE] of a chat stream keeps the invariant.                         *)
LEMMA ChatDoneKeeps == ConversionInv /\ ChatDone => ConversionInv'
<1> SUFFICES ASSUME ConversionInv, ChatDone PROVE ConversionInv'
  OBVIOUS
<1> DEFINE d == [Silence EXCEPT !.done = TRUE]
<1>1. IsUpstream(up) /\ ~up.over
  BY DEF ConversionInv, ChatDone, InChat
<1>2. up' = [up EXCEPT !.over = TRUE] /\ Sends(d)
  BY DEF ChatDone
<1>3. Only(up, up', BesideFields \ {"late"}) /\ up'.over
  BY <1>1, <1>2 DEF Only, IsUpstream, UpstreamFields, BesideFields
<1>4. IsDelta(d) /\ d.tools = <<>> /\ ~d.error /\ d.done
  BY SilentDelta
<1> HIDE DEF d
<1>5. CallsKept(up, up')
  BY <1>1, <1>3, UpstreamStays
<1> QED BY <1>1, <1>2, <1>3, <1>4, <1>5, SaysKeeps

(* The upstream is over otherwise than by a delta that says so.             *)
LEMMA OverKeeps ==
  ASSUME ConversionInv, ~up.over, up' = [up EXCEPT !.over = TRUE], NEW b,
         adapter' = Emptied(b), client' = Seen(client, b),
         PairStep(adapter, Emptied(b), Seen(client, b), TRUE) /\ SameCalls(adapter, Emptied(b))
  PROVE  ConversionInv'
<1>1. Joined(up, adapter, client) /\ IsUpstream(up)
  BY JoinedIs DEF Joined
<1>2. Only(up, up', BesideFields \ {"late"}) /\ up'.over
  BY <1>1 DEF Only, IsUpstream, UpstreamFields, BesideFields
<1>3. CallsKept(up, up')
  BY <1>1, <1>2, UpstreamStays
<1>4. PairStep(adapter, adapter', client', TRUE) /\ SameCalls(adapter, adapter')
  OBVIOUS
<1>5. /\ IsAdapter(adapter') /\ adapter'.source = adapter.source /\ adapter'.target = adapter.target
      /\ (adapter'.finished <=> up'.over) /\ Paired(adapter', client')
  BY <1>2, <1>4 DEF PairStep, Paired
<1>6. UpstreamLink(up', adapter')
  BY <1>1, <1>2, <1>3, <1>4, <1>5, CallsLink
<1> QED BY <1>1, <1>3, <1>5, <1>6, JoinedNext DEF Joined, CallsKept

(* A chat stream that ends without [DONE] keeps the invariant.              *)
LEMMA ChatEndsKeeps == ConversionInv /\ ChatEnds => ConversionInv'
<1> SUFFICES ASSUME ConversionInv, ChatEnds PROVE ConversionInv'
  OBVIOUS
<1> DEFINE b == Finalize(adapter)
<1>1. Paired(adapter, client) /\ ~up.over /\ ~adapter.finished
  BY JoinedIs, JoinedFacts DEF Joined, ChatEnds, InChat
<1>2. up' = [up EXCEPT !.over = TRUE] /\ adapter' = Emptied(b) /\ client' = Seen(client, b)
  BY DEF ChatEnds, Relay, Emptied, Seen, Reading
<1>3. PairStep(adapter, Emptied(b), Seen(client, b), TRUE) /\ SameCalls(adapter, Emptied(b))
  BY <1>1, EndRelayed
<1> HIDE DEF b
<1> QED BY <1>1, <1>2, <1>3, OverKeeps

(* An error event keeps the invariant: the client of a failed stream is     *)
(* told so.                                                                 *)
LEMMA FailKeeps == ConversionInv /\ Fail => ConversionInv'
<1> SUFFICES ASSUME ConversionInv, Fail PROVE ConversionInv'
  OBVIOUS
<1> DEFINE d == [Silence EXCEPT !.error = TRUE]
           b == Translate(adapter, d)
<1>1. Paired(adapter, client) /\ ~up.over /\ ~adapter.finished
  BY JoinedIs, JoinedFacts DEF Joined, Fail
<1>2. up' = [up EXCEPT !.over = TRUE] /\ Sends(d)
  BY DEF Fail
<1>3. IsDelta(d) /\ d.error
  BY SilentDelta
<1> HIDE DEF d
<1>4. adapter' = Emptied(b) /\ client' = Seen(client, b)
  BY <1>2, SendsIs
<1>5. PairStep(adapter, Emptied(b), Seen(client, b), TRUE) /\ SameCalls(adapter, Emptied(b))
  BY <1>1, <1>3, FailureRelayed
<1> HIDE DEF b
<1> QED BY <1>1, <1>2, <1>4, <1>5, OverKeeps

(* Inside a block the upstream is not over, and is not a chat stream.       *)
LEMMA BlockFacts ==
  ASSUME ConversionInv, NEW kind, Within(kind)
  PROVE  /\ IsUpstream(up) /\ ~up.over /\ up.block = kind /\ adapter.source # "chat_completions"
         /\ up.blocks \in Nat /\ up.run \in Nat
BY DEF ConversionInv, Within, InBlocks, IsUpstream

\* A delta without a call, while another thing than a call is told.
LEMMA ToldKeeps ==
  ASSUME ConversionInv, NEW kind, Within(kind), NEW d, Sends(d), IsDelta(d), d.tools = <<>>, ~d.error, ~d.done,
         CallsKept(up, up'), ~up'.over, up'.block # "tool"
  PROVE  ConversionInv'
<1>1. ~up.over /\ adapter.source # "chat_completions"
  BY BlockFacts
<1> QED BY <1>1, SaysKeeps

(* The beginning of a block keeps the invariant.                            *)
LEMMA BeginBlockKeeps ==
  ASSUME NEW kind \in {"reasoning", "text", "refusal"}
  PROVE  ConversionInv /\ BeginBlock(kind) => ConversionInv'
<1> SUFFICES ASSUME ConversionInv, BeginBlock(kind) PROVE ConversionInv'
  OBVIOUS
<1>1. PICK none : none = "none" /\ Within(none)
  BY DEF BeginBlock
<1>2. IsUpstream(up) /\ ~up.over /\ up.blocks \in Nat
  BY <1>1, BlockFacts
<1>3. up' = [up EXCEPT !.blocks = @ + 1, !.block = kind, !.silent = TRUE] /\ Sends(Silence)
  BY DEF BeginBlock
<1>4. /\ DOMAIN up' = DOMAIN up /\ up'.blocks = up.blocks + 1 /\ up'.block = kind /\ up'.said = up.said
      /\ up'.late = up.late /\ up'.run = up.run /\ up'.over = up.over
  BY <1>2, <1>3 DEF IsUpstream, UpstreamFields
<1>5. CallsKept(up, up')
  BY <1>2, <1>4 DEF CallsKept, IsUpstream
<1>6. IsDelta(Silence) /\ Silence.tools = <<>> /\ ~Silence.error /\ ~Silence.done
  BY SilentDelta
<1> QED BY <1>1, <1>2, <1>3, <1>4, <1>5, <1>6, ToldKeeps

(* The end of a block keeps the invariant.                                  *)
LEMMA EndBlockKeeps ==
  ASSUME NEW kind \in {"reasoning", "text", "refusal"}
  PROVE  ConversionInv /\ EndBlock(kind) => ConversionInv'
<1> SUFFICES ASSUME ConversionInv, EndBlock(kind) PROVE ConversionInv'
  OBVIOUS
<1>1. Within(kind) /\ IsUpstream(up) /\ ~up.over
  BY BlockFacts DEF EndBlock
<1>2. up' = [up EXCEPT !.block = "none"] /\ Sends(Silence)
  BY DEF EndBlock
<1>3. Only(up, up', BesideFields \ {"late"}) /\ ~up'.over /\ up'.block = "none"
  BY <1>1, <1>2 DEF Only, IsUpstream, UpstreamFields, BesideFields
<1>4. CallsKept(up, up')
  BY <1>1, <1>3, UpstreamStays
<1>5. IsDelta(Silence) /\ Silence.tools = <<>> /\ ~Silence.error /\ ~Silence.done
  BY SilentDelta
<1> QED BY <1>1, <1>2, <1>3, <1>4, <1>5, ToldKeeps

\* From u to v something has been told that is not a call.
Tells(u, v) ==
  /\ DOMAIN v = DOMAIN u /\ v.blocks = u.blocks /\ v.run = u.run /\ v.over = u.over
  /\ DOMAIN v.said = DOMAIN u.said /\ v.said.tools = u.said.tools
  /\ DOMAIN v.late = DOMAIN u.late /\ v.late.searches = u.late.searches

(* An upstream that remembers more of what it said keeps its calls.         *)
LEMMA TellsCalls ==
  ASSUME NEW u, IsUpstream(u), NEW v, Tells(u, v)
  PROVE  CallsKept(u, v)
BY DEF IsUpstream, Tells, CallsKept

(* What a block says is a sequence.                                         *)
LEMMA SaysData ==
  ASSUME NEW kind \in {"reasoning", "text", "refusal"}, NEW data, data \in Says(kind) \cup {<<>>}
  PROVE  IsSeq(data)
<1>1. CASE data = <<>>
  BY <1>1, EmptyIsSeq
<1>2. CASE data \in Says(kind)
  <2>1. \E ch : data = <<ch>>
    BY <1>2 DEF Says, Refusal
  <2> QED BY <2>1, OneIsSeq
<1> QED BY <1>1, <1>2

(* A delta in a block keeps the invariant.                                  *)
LEMMA BlockDeltaKeeps ==
  ASSUME NEW kind \in {"reasoning", "text", "refusal"}
  PROVE  ConversionInv /\ BlockDelta(kind) => ConversionInv'
<1> SUFFICES ASSUME ConversionInv, BlockDelta(kind) PROVE ConversionInv'
  OBVIOUS
<1>1. Within(kind) /\ IsUpstream(up) /\ ~up.over /\ up.block = kind
  BY BlockFacts DEF BlockDelta
<1>2. PICK data \in Says(kind) : up' = Told(kind, data) /\ Sends([Silence EXCEPT ![kind] = data])
  BY DEF BlockDelta
<1> DEFINE d == [Silence EXCEPT ![kind] = data]
<1>3. IsSeq(data)
  BY SaysData
<1>4. IsDelta(d) /\ d.tools = <<>> /\ ~d.error /\ ~d.done
  BY <1>3, EmptyIsSeq DEF IsDelta, DeltaFields, Silence
<1>5. Tells(up, up') /\ ~up'.over /\ up'.block = kind
  BY <1>1, <1>2 DEF Told, Tells, IsUpstream, UpstreamFields, SaidFields
<1> HIDE DEF d
<1>6. CallsKept(up, up')
  BY <1>1, <1>5, TellsCalls
<1>7. Sends(d)
  BY <1>2 DEF d
<1> QED BY <1>1, <1>4, <1>5, <1>6, <1>7, ToldKeeps

(* A citation keeps the invariant.                                          *)
LEMMA CiteKeeps ==
  ASSUME NEW note
  PROVE  ConversionInv /\ Cite(note) => ConversionInv'
<1> SUFFICES ASSUME ConversionInv, Cite(note) PROVE ConversionInv'
  OBVIOUS
<1>1. PICK kind : kind = "text" /\ Within(kind)
  BY DEF Cite
<1>2. IsUpstream(up) /\ ~up.over /\ up.block = "text"
  BY <1>1, BlockFacts
<1> DEFINE d == [Silence EXCEPT !.notes = <<note>>]
<1>3. up' = [up EXCEPT !.said.notes = @ \cup {note}] /\ Sends(d)
  BY DEF Cite
<1>4. IsDelta(d) /\ d.tools = <<>> /\ ~d.error /\ ~d.done
  BY EmptyIsSeq, OneIsSeq DEF IsDelta, DeltaFields, Silence
<1>5. Tells(up, up') /\ ~up'.over /\ up'.block = "text"
  BY <1>2, <1>3 DEF Tells, IsUpstream, UpstreamFields, SaidFields
<1> HIDE DEF d
<1>6. CallsKept(up, up')
  BY <1>2, <1>5, TellsCalls
<1> QED BY <1>1, <1>3, <1>4, <1>5, <1>6, ToldKeeps

(* A part that is told only when it is done keeps the invariant.            *)
LEMMA TellPartKeeps ==
  ASSUME NEW kind \in {"reasoning", "text", "refusal"}
  PROVE  ConversionInv /\ TellPart(kind) => ConversionInv'
<1> SUFFICES ASSUME ConversionInv, TellPart(kind) PROVE ConversionInv'
  OBVIOUS
<1>1. Within(kind) /\ IsUpstream(up) /\ ~up.over /\ up.block = kind
  BY BlockFacts DEF TellPart
<1>2. PICK data \in Says(kind), notes \in {<<>>} \cup {<<n>> : n \in Citations} :
        LET told == [Told(kind, data) EXCEPT !.block = "none"]
        IN  /\ up' = [told EXCEPT !.late.text = IF kind = "text" THEN @ \o data ELSE @,
                                  !.said.notes = @ \cup ToSet(notes)]
            /\ Sends([Silence EXCEPT !.notes = notes, !.refusal = IF kind = "refusal" THEN data ELSE <<>>])
  BY DEF TellPart
<1> DEFINE told == [Told(kind, data) EXCEPT !.block = "none"]
           d == [Silence EXCEPT !.notes = notes, !.refusal = IF kind = "refusal" THEN data ELSE <<>>]
<1>3. IsSeq(notes)
  BY EmptyIsSeq, OneIsSeq
<1>4. IsDelta(d) /\ d.tools = <<>> /\ ~d.error /\ ~d.done
  BY <1>3, EmptyIsSeq DEF IsDelta, DeltaFields, Silence
<1>5. /\ Tells(up, told) /\ told.block = "none" /\ DOMAIN told = UpstreamFields
      /\ DOMAIN told.late = {"text", "searches"}
      /\ DOMAIN told.said = SaidFields
  BY <1>1 DEF Told, Tells, IsUpstream, UpstreamFields, SaidFields
<1>6. up' = [told EXCEPT !.late.text = IF kind = "text" THEN @ \o data ELSE @, !.said.notes = @ \cup ToSet(notes)]
  BY <1>2
<1>7. Sends(d)
  BY <1>2
<1> HIDE DEF told, d
<1>8. Tells(up, up') /\ ~up'.over /\ up'.block = "none"
  BY <1>1, <1>5, <1>6 DEF Tells, IsUpstream, UpstreamFields, SaidFields
<1>9. CallsKept(up, up')
  BY <1>1, <1>8, TellsCalls
<1> QED BY <1>1, <1>4, <1>7, <1>8, <1>9, ToldKeeps

(* The events of a search.                                                  *)
LEMMA StageKeeps ==
  ASSUME ConversionInv, NEW kind, Within(kind), NEW key, NEW stage, SearchStage(key, stage),
         CallsKept(up, up'), ~up'.over, up'.block # "tool"
  PROVE  ConversionInv'
<1> DEFINE s == <<[key |-> key, stage |-> stage]>>
           d == [Silence EXCEPT !.searches = s]
<1>1. IsSeq(s)
  BY OneIsSeq
<1>2. Sends(d)
  BY DEF SearchStage
<1> HIDE DEF s
<1>3. IsDelta(d) /\ d.tools = <<>> /\ ~d.error /\ ~d.done
  BY <1>1, EmptyIsSeq DEF IsDelta, DeltaFields, Silence
<1> HIDE DEF d
<1> QED BY <1>2, <1>3, ToldKeeps

(* The beginning of a search keeps the invariant.                           *)
LEMMA BeginSearchKeeps == ConversionInv /\ BeginSearch => ConversionInv'
<1> SUFFICES ASSUME ConversionInv, BeginSearch PROVE ConversionInv'
  OBVIOUS
<1>1. PICK kind : kind = "none" /\ Within(kind)
  BY DEF BeginSearch
<1>2. IsUpstream(up) /\ ~up.over /\ up.blocks \in Nat
  BY <1>1, BlockFacts
<1>3. up' = [up EXCEPT !.blocks = @ + 1, !.block = "search", !.said.searches = @ \cup {up.blocks}]
  BY DEF BeginSearch
<1>4. PICK stage : SearchStage(up.blocks, stage)
  BY DEF BeginSearch
<1>5. /\ DOMAIN up' = DOMAIN up /\ up'.blocks = up.blocks + 1 /\ up'.block = "search"
      /\ up'.said.tools = up.said.tools /\ DOMAIN up'.said = DOMAIN up.said
      /\ up'.late = up.late /\ up'.run = up.run /\ up'.over = up.over
  BY <1>2, <1>3 DEF IsUpstream, UpstreamFields, SaidFields
<1>6. CallsKept(up, up')
  BY <1>2, <1>5 DEF CallsKept, IsUpstream
<1> QED BY <1>1, <1>2, <1>4, <1>5, <1>6, StageKeeps

(* A stage of a search keeps the invariant.                                 *)
LEMMA SearchGoesOnKeeps == ConversionInv /\ SearchGoesOn => ConversionInv'
<1> SUFFICES ASSUME ConversionInv, SearchGoesOn PROVE ConversionInv'
  OBVIOUS
<1>1. PICK kind : kind = "search" /\ Within(kind)
  BY DEF SearchGoesOn
<1>2. IsUpstream(up) /\ ~up.over /\ up.block = "search"
  BY <1>1, BlockFacts
<1>3. up' = up
  BY DEF SearchGoesOn
<1>4. PICK key, stage : SearchStage(key, stage)
  BY DEF SearchGoesOn
<1>5. CallsKept(up, up')
  BY <1>2, <1>3, OnlySelf, UpstreamStays
<1> QED BY <1>1, <1>2, <1>3, <1>4, <1>5, StageKeeps

(* The end of a search keeps the invariant.                                 *)
LEMMA EndSearchKeeps ==
  ASSUME NEW told \in BOOLEAN
  PROVE  ConversionInv /\ EndSearch(told) => ConversionInv'
<1> SUFFICES ASSUME ConversionInv, EndSearch(told) PROVE ConversionInv'
  OBVIOUS
<1>1. PICK kind : kind = "search" /\ Within(kind)
  BY DEF EndSearch
<1>2. IsUpstream(up) /\ ~up.over
  BY <1>1, BlockFacts
<1>3. up' = [up EXCEPT !.block = IF adapter.source = "messages" THEN "searched" ELSE "none",
                       !.late.searches = IF told THEN @ ELSE Append(@, up.blocks - 1)]
  BY DEF EndSearch
<1>4. /\ DOMAIN up' = DOMAIN up /\ up'.blocks = up.blocks /\ up'.block # "tool"
      /\ up'.said = up.said /\ up'.run = up.run /\ up'.over = up.over
      /\ DOMAIN up'.late = DOMAIN up.late
      /\ up'.late.searches = IF told THEN up.late.searches ELSE Append(up.late.searches, up.blocks - 1)
  BY <1>2, <1>3 DEF IsUpstream, UpstreamFields
<1>5. IsSeq(up'.late.searches)
  <2>1. IsSeq(up.late.searches)
    BY <1>2 DEF IsUpstream
  <2> QED BY <1>4, <2>1, Appended
<1>6. CallsKept(up, up')
  BY <1>2, <1>4, <1>5 DEF CallsKept, IsUpstream
<1>7. CASE told
  <2>1. PICK key, stage : SearchStage(key, stage)
    BY <1>7 DEF EndSearch
  <2> QED BY <1>1, <1>2, <1>4, <1>6, <2>1, StageKeeps
<1>8. CASE ~told
  <2>1. Sends(Silence)
    BY <1>8 DEF EndSearch
  <2>2. IsDelta(Silence) /\ Silence.tools = <<>> /\ ~Silence.error /\ ~Silence.done
    BY SilentDelta
  <2> QED BY <1>1, <1>2, <1>4, <1>6, <2>1, <2>2, ToldKeeps
<1> QED BY <1>7, <1>8

(* The block with the results of a search keeps the invariant.              *)
LEMMA SearchResultKeeps == ConversionInv /\ SearchResult => ConversionInv'
<1> SUFFICES ASSUME ConversionInv, SearchResult PROVE ConversionInv'
  OBVIOUS
<1>1. PICK kind, next, key, stage : /\ next \in {"result", "none"} /\ Within(kind)
                                    /\ up' = [up EXCEPT !.block = next] /\ SearchStage(key, stage)
  BY DEF SearchResult
<1>2. IsUpstream(up) /\ ~up.over
  BY <1>1, BlockFacts
<1>3. Only(up, up', BesideFields \ {"late"}) /\ ~up'.over /\ up'.block = next
  BY <1>1, <1>2 DEF Only, IsUpstream, UpstreamFields, BesideFields
<1>4. CallsKept(up, up')
  BY <1>2, <1>3, UpstreamStays
<1> QED BY <1>1, <1>3, <1>4, StageKeeps

(* A search whose results are missing keeps the invariant.                  *)
LEMMA NoResultKeeps == ConversionInv /\ NoResult => ConversionInv'
<1> SUFFICES ASSUME ConversionInv, NoResult PROVE ConversionInv'
  OBVIOUS
<1>1. PICK kind : kind = "searched" /\ Within(kind)
  BY DEF NoResult
<1>2. IsUpstream(up) /\ ~up.over /\ adapter.source # "chat_completions"
  BY <1>1, BlockFacts
<1>3. up' = [up EXCEPT !.block = "none"] /\ adapter' = adapter /\ client' = client
  BY DEF NoResult
<1>4. Only(up, up', BesideFields \ {"late"}) /\ up'.over = up.over /\ up'.block = "none"
  BY <1>2, <1>3 DEF Only, IsUpstream, UpstreamFields, BesideFields
<1>5. CallsKept(up, up')
  BY <1>2, <1>4, UpstreamStays
<1>6. Joined(up, adapter, client)
  BY JoinedIs
<1>7. IsAdapter(adapter) /\ (adapter.finished <=> up'.over) /\ SameCalls(adapter, adapter)
  BY <1>4, <1>6, JoinedFacts, SameCallsSelf
<1>8. UpstreamLink(up', adapter)
  BY <1>2, <1>4, <1>5, <1>6, <1>7, CallsLink
<1> QED BY <1>3, <1>5, <1>6, <1>8, JoinedNext DEF Joined, CallsKept

(* The terminal event of the upstream keeps the invariant.                  *)
LEMMA CompleteKeeps == ConversionInv /\ Complete => ConversionInv'
<1> SUFFICES ASSUME ConversionInv, Complete PROVE ConversionInv'
  OBVIOUS
<1>1. PICK kind : kind = "none" /\ Within(kind)
  BY DEF Complete
<1>2. IsUpstream(up) /\ ~up.over
  BY <1>1, BlockFacts
<1> DEFINE late == up.late.searches
           s == [i \in DOMAIN late |-> [key |-> late[i], stage |-> "done"]]
           text == IF adapter.text = <<>> THEN up.late.text ELSE <<>>
           d == [Silence EXCEPT !.text = text, !.searches = s, !.done = TRUE]
<1>3. up' = [up EXCEPT !.over = TRUE] /\ Sends(d)
  BY DEF Complete
<1>4. IsSeq(s)
  <2>1. IsSeq(late) /\ Len(late) \in Nat /\ DOMAIN late = 1..Len(late)
    BY <1>2, SeqFacts DEF IsUpstream
  <2>2. s \in [1..Len(late) -> {[key |-> late[i], stage |-> "done"] : i \in 1..Len(late)}]
    BY <2>1
  <2>3. s \in Seq({[key |-> late[i], stage |-> "done"] : i \in 1..Len(late)})
    <3> HIDE DEF s
    <3> QED BY <2>1, <2>2, SeqDef
  <2> HIDE DEF s
  <2> QED BY <2>3 DEF IsSeq
<1> HIDE DEF s, text
<1>5. IsDelta(d) /\ d.tools = <<>> /\ ~d.error /\ d.done
  BY <1>4, EmptyIsSeq DEF IsDelta, DeltaFields, Silence
<1> HIDE DEF d
<1>6. Only(up, up', BesideFields \ {"late"}) /\ up'.over
  BY <1>2, <1>3 DEF Only, IsUpstream, UpstreamFields, BesideFields
<1>7. CallsKept(up, up')
  BY <1>2, <1>6, UpstreamStays
<1> QED BY <1>2, <1>3, <1>5, <1>6, <1>7, SaysKeeps

(* A delta that has one call.                                               *)
LEMMA CallDelta ==
  ASSUME NEW t, IsSeq(t.args)
  PROVE  LET d == [Silence EXCEPT !.tools = <<t>>]
         IN  IsDelta(d) /\ d.tools = <<t>> /\ ~d.error /\ ~d.done /\ d.searches = <<>> /\ Quiet(d)
<1> DEFINE s == <<t>>
<1>1. s = <<t>>
  OBVIOUS
<1> HIDE DEF s
<1> DEFINE d == [Silence EXCEPT !.tools = s]
<1>2. /\ DOMAIN d = DeltaFields /\ d.tools = s /\ ~d.error /\ ~d.done /\ d.searches = <<>> /\ Quiet(d)
      /\ IsSeq(d.reasoning) /\ IsSeq(d.notes) /\ IsSeq(d.searches)
  BY EmptyIsSeq DEF DeltaFields, Silence, Quiet
<1> HIDE DEF d
<1>3. IsDelta(d)
  BY <1>1, <1>2 DEF IsDelta
<1> QED BY <1>1, <1>2, <1>3 DEF d

(* The beginning of a call keeps the invariant: the call is open            *)
(* afterwards.                                                              *)
LEMMA BeginToolKeeps ==
  ASSUME NEW id
  PROVE  ConversionInv /\ BeginTool(id) => ConversionInv'
<1> SUFFICES ASSUME ConversionInv, BeginTool(id) PROVE ConversionInv'
  OBVIOUS
<1>1. PICK kind : kind = "none" /\ Within(kind)
  BY DEF BeginTool
<1>2. IsUpstream(up) /\ ~up.over /\ up.blocks \in Nat /\ adapter.source # "chat_completions"
  BY <1>1, BlockFacts
<1> DEFINE t == [key |-> up.blocks, id |-> id, args |-> <<>>, started |-> TRUE]
           d == [Silence EXCEPT !.tools = <<t>>]
           row == [key |-> up.blocks, id |-> id, args |-> <<>>]
           rows == Append(up.said.tools, row)
           n == Len(adapter.tools)
           i == n + 1
<1>3. up' = [up EXCEPT !.blocks = @ + 1, !.block = "tool", !.said.tools = rows] /\ Sends(d)
  BY DEF BeginTool
<1>4. t.key = up.blocks /\ t.started /\ IsSeq(t.args)
  BY EmptyIsSeq
<1>5. row.key = up.blocks /\ DOMAIN row = {"key", "id", "args"}
  OBVIOUS
<1>6. IsDelta(d) /\ d.tools = <<t>> /\ ~d.error /\ ~d.done /\ d.searches = <<>>
  <2> HIDE DEF t
  <2> QED BY <1>4, CallDelta
<1>7. Joined(up, adapter, client) /\ n \in Nat /\ Len(up.said.tools) = n /\ IsSeq(up.said.tools)
  BY <1>2, JoinedIs, JoinedFacts DEF IsUpstream
<1> HIDE DEF d, t, row
<1>8. IsSeq(rows) /\ Len(rows) = n + 1 /\ rows[n + 1] = row /\ \A j \in 1..n : rows[j] = up.said.tools[j]
  BY <1>7, Appended
<1> HIDE DEF rows
<1>9. /\ DOMAIN up' = DOMAIN up /\ up'.blocks = up.blocks + 1 /\ up'.block = "tool" /\ up'.said.tools = rows
      /\ DOMAIN up'.said = DOMAIN up.said /\ up'.late = up.late /\ up'.run = up.run /\ up'.over = up.over
  BY <1>2, <1>3 DEF IsUpstream, UpstreamFields, SaidFields
<1>10. \A j \in 1..(n + 1) : DOMAIN rows[j] = {"key", "id", "args"}
  <2>1. \A j \in 1..n : DOMAIN up.said.tools[j] = {"key", "id", "args"}
    BY <1>2, <1>7 DEF IsUpstream
  <2> QED BY <1>5, <1>7, <1>8, <2>1
<1>11. IsUpstream(up')
  BY <1>2, <1>8, <1>9, <1>10 DEF IsUpstream
<1>12. CallTold(up, up', i, t)
  BY <1>2, <1>4, <1>5, <1>7, <1>8, <1>9, <1>11 DEF CallTold
<1>13. Takes(adapter, i, t)
  <2>1. \A j \in 1..n : adapter.tools[j].key \in 0..(up.blocks - 1)
    BY <1>2, <1>7 DEF Joined, UpstreamLink
  <2>2. \A j \in 1..n : adapter.tools[j].key # t.key
    BY <1>2, <1>4, <2>1
  <2> QED BY <1>4, <2>2 DEF Takes
<1>14. t.key \in 0..(up'.blocks - 1) /\ (up'.block = "tool" => i = Len(up'.said.tools))
  BY <1>2, <1>4, <1>8, <1>9
<1> HIDE DEF i
<1> QED BY <1>2, <1>3, <1>4, <1>6, <1>9, <1>12, <1>13, <1>14, CallKeeps

\* More has been told of call i; its key and the others are the same.
RowFilled(u, v, i) ==
  /\ IsSeq(v.said.tools) /\ Len(v.said.tools) = Len(u.said.tools)
  /\ \A j \in 1..Len(u.said.tools) : v.said.tools[j].key = u.said.tools[j].key
  /\ \A j \in 1..Len(u.said.tools) : DOMAIN v.said.tools[j] = {"key", "id", "args"}

(* A row of the calls is replaced by one with its key.                      *)
LEMMA RowReplaced ==
  ASSUME NEW rows, IsSeq(rows), \A j \in 1..Len(rows) : DOMAIN rows[j] = {"key", "id", "args"},
         NEW i \in 1..Len(rows), NEW row, DOMAIN row = {"key", "id", "args"}, row.key = rows[i].key
  PROVE  LET filled == [rows EXCEPT ![i] = row]
         IN  /\ IsSeq(filled) /\ Len(filled) = Len(rows)
             /\ \A j \in 1..Len(rows) : filled[j].key = rows[j].key
             /\ \A j \in 1..Len(rows) : DOMAIN filled[j] = {"key", "id", "args"}
<1> DEFINE filled == [rows EXCEPT ![i] = row]
<1>1. /\ IsSeq(filled) /\ Len(filled) = Len(rows) /\ filled[i] = row
      /\ \A j \in 1..Len(rows) : j # i => filled[j] = rows[j]
  BY Replaced
<1> HIDE DEF filled
<1> QED BY <1>1 DEF filled

(* Arguments that are added to a call change its row only.                  *)
LEMMA RowsFill ==
  ASSUME NEW u, IsUpstream(u), NEW i \in 1..Len(u.said.tools), NEW args, NEW v
  PROVE  v.said.tools = [u.said.tools EXCEPT ![i].args = args] => RowFilled(u, v, i)
<1>1. PICK rows : rows = u.said.tools
  OBVIOUS
<1>2. PICK row : row = [rows[i] EXCEPT !.args = args]
  OBVIOUS
<1>3. IsSeq(rows) /\ \A j \in 1..Len(rows) : DOMAIN rows[j] = {"key", "id", "args"}
  BY <1>1 DEF IsUpstream
<1>4. i \in 1..Len(rows) /\ DOMAIN row = {"key", "id", "args"} /\ row.key = rows[i].key
  BY <1>1, <1>2, <1>3
<1> DEFINE filled == [rows EXCEPT ![i] = row]
<1>5. /\ IsSeq(filled) /\ Len(filled) = Len(rows)
      /\ \A j \in 1..Len(rows) : filled[j].key = rows[j].key
      /\ \A j \in 1..Len(rows) : DOMAIN filled[j] = {"key", "id", "args"}
  BY <1>3, <1>4, RowReplaced
<1>6. [u.said.tools EXCEPT ![i].args = args] = filled
  BY <1>1, <1>2
<1> HIDE DEF filled
<1>7. v.said.tools = filled => RowFilled(u, v, i)
  BY <1>1, <1>5 DEF RowFilled
<1> QED BY <1>6, <1>7

(* The upstream fills a call that the adapter has open.                     *)
LEMMA FillKeeps ==
  ASSUME ConversionInv, ~up.over, NEW i \in 1..Len(up.said.tools), NEW t, t.key = up.said.tools[i].key,
         ~t.started, IsSeq(t.args), Sends([Silence EXCEPT !.tools = <<t>>]),
         RowFilled(up, up', i), IsUpstream(up'), up'.blocks = up.blocks, up'.run = up.run, ~up'.over,
         adapter.target # "chat_completions" => i \in OpenTools(adapter),
         adapter.source # "chat_completions" => (up'.block = "tool" => i = Len(up.said.tools))
  PROVE  ConversionInv'
<1> DEFINE d == [Silence EXCEPT !.tools = <<t>>]
<1>1. IsDelta(d) /\ d.tools = <<t>> /\ ~d.error /\ ~d.done /\ d.searches = <<>> /\ Quiet(d)
  BY CallDelta
<1>2. Sends(d)
  OBVIOUS
<1> HIDE DEF d
<1>3. /\ Joined(up, adapter, client) /\ Len(adapter.tools) \in Nat /\ Len(up.said.tools) = Len(adapter.tools)
      /\ UpstreamLink(up, adapter) /\ IsUpstream(up)
  BY JoinedIs, JoinedFacts DEF Joined
<1>4. i \in 1..Len(adapter.tools) /\ adapter.tools[i].key = t.key /\ adapter.tools[i].shown
  BY <1>3 DEF UpstreamLink
<1>5. Takes(adapter, i, t)
  BY <1>4 DEF Takes
<1>6. CallTold(up, up', i, t)
  BY <1>3 DEF CallTold, RowFilled, IsUpstream
<1>7. adapter.source = "chat_completions" => t.key = i
  BY <1>3, <1>4 DEF UpstreamLink
<1>8. adapter.source # "chat_completions" =>
        t.key \in 0..(up'.blocks - 1) /\ (up'.block = "tool" => i = Len(up'.said.tools))
  BY <1>3, <1>4 DEF UpstreamLink, RowFilled
<1> QED BY <1>1, <1>2, <1>5, <1>6, <1>7, <1>8, CallKeeps

(* The delta that tells the arguments of a call.                            *)
LEMMA FilledFacts ==
  ASSUME NEW i
  PROVE  LET t == FilledTool(i) IN t.key = up.said.tools[i].key /\ ~t.started /\ IsSeq(t.args)
BY OneIsSeq DEF FilledTool, Argument

(* The call an upstream is about is one the adapter has open.               *)
LEMMA CurrentFacts ==
  ASSUME ConversionInv, NEW kind, kind = "tool", Within(kind)
  PROVE  /\ CurrentTool \in 1..Len(up.said.tools) /\ CurrentTool = Len(up.said.tools)
         /\ adapter.target # "chat_completions" => CurrentTool \in OpenTools(adapter)
<1>1. ~up.over /\ up.block = "tool" /\ adapter.source # "chat_completions"
  BY BlockFacts
<1>2. UpstreamLink(up, adapter) /\ Len(adapter.tools) \in Nat /\ Len(up.said.tools) = Len(adapter.tools)
  BY JoinedIs, JoinedFacts DEF Joined
<1> QED BY <1>1, <1>2 DEF UpstreamLink, CurrentTool

(* Arguments of the call of the open block keep the invariant.              *)
LEMMA ToolArgumentsKeeps == ConversionInv /\ ToolArguments => ConversionInv'
<1> SUFFICES ASSUME ConversionInv, ToolArguments PROVE ConversionInv'
  OBVIOUS
<1> DEFINE i == CurrentTool
           t == FilledTool(i)
           args == up.said.tools[i].args \o Argument
<1>1. PICK kind : kind = "tool" /\ Within(kind)
  BY DEF ToolArguments
<1>2. IsUpstream(up) /\ ~up.over /\ up.block = "tool" /\ adapter.source # "chat_completions"
  BY <1>1, BlockFacts
<1>3. /\ i \in 1..Len(up.said.tools) /\ i = Len(up.said.tools)
      /\ (adapter.target # "chat_completions" => i \in OpenTools(adapter))
  BY <1>1, CurrentFacts
<1>4. up' = [up EXCEPT !.said.tools[i].args = @ \o Argument] /\ Sends([Silence EXCEPT !.tools = <<t>>])
  BY DEF ToolArguments
<1>5. t.key = up.said.tools[i].key /\ ~t.started /\ IsSeq(t.args)
  BY FilledFacts
<1> HIDE DEF t, i
<1>6. /\ DOMAIN up' = DOMAIN up /\ up'.blocks = up.blocks /\ up'.run = up.run /\ ~up'.over
      /\ DOMAIN up'.said = SaidFields /\ up'.late = up.late
      /\ up'.said.tools = [up.said.tools EXCEPT ![i].args = args]
  BY <1>2, <1>4 DEF IsUpstream, UpstreamFields, SaidFields
<1> HIDE DEF args
<1>7. RowFilled(up, up', i)
  BY <1>2, <1>3, <1>6, RowsFill
<1>8. IsUpstream(up')
  BY <1>2, <1>6, <1>7 DEF IsUpstream, RowFilled
<1> QED BY <1>2, <1>3, <1>4, <1>5, <1>6, <1>7, <1>8, FillKeeps

(* The end of a call keeps the invariant.                                   *)
LEMMA EndToolKeeps ==
  ASSUME NEW told \in BOOLEAN
  PROVE  ConversionInv /\ EndTool(told) => ConversionInv'
<1> SUFFICES ASSUME ConversionInv, EndTool(told) PROVE ConversionInv'
  OBVIOUS
<1> DEFINE i == CurrentTool
           t == FilledTool(i)
           args == IF told THEN Argument ELSE up.said.tools[i].args
<1>1. PICK kind : kind = "tool" /\ Within(kind)
  BY DEF EndTool
<1>2. IsUpstream(up) /\ ~up.over /\ up.block = "tool" /\ adapter.source # "chat_completions"
  BY <1>1, BlockFacts
<1>3. /\ i \in 1..Len(up.said.tools) /\ i = Len(up.said.tools)
      /\ (adapter.target # "chat_completions" => i \in OpenTools(adapter))
  BY <1>1, CurrentFacts
<1>4. /\ up' = [up EXCEPT !.block = "none", !.said.tools[i].args = IF told THEN Argument ELSE @]
      /\ Sends(IF told THEN [Silence EXCEPT !.tools = <<t>>] ELSE Silence)
  BY DEF EndTool
<1>5. t.key = up.said.tools[i].key /\ ~t.started /\ IsSeq(t.args)
  BY FilledFacts
<1> HIDE DEF t, i
<1>6. /\ DOMAIN up' = DOMAIN up /\ up'.blocks = up.blocks /\ up'.run = up.run /\ ~up'.over
      /\ DOMAIN up'.said = SaidFields /\ up'.late = up.late /\ up'.block = "none"
      /\ up'.said.tools = [up.said.tools EXCEPT ![i].args = args]
  BY <1>2, <1>4 DEF IsUpstream, UpstreamFields, SaidFields
<1> HIDE DEF args
<1>8. RowFilled(up, up', i)
  BY <1>2, <1>3, <1>6, RowsFill
<1>9. IsUpstream(up')
  BY <1>2, <1>6, <1>8 DEF IsUpstream, RowFilled
<1>10. CASE told
  <2>1. Sends([Silence EXCEPT !.tools = <<t>>])
    BY <1>4, <1>10
  <2> QED BY <1>2, <1>3, <1>5, <1>6, <1>8, <1>9, <2>1, FillKeeps
<1>11. CASE ~told
  <2>1. Sends(Silence)
    BY <1>4, <1>11
  <2>2. CallsKept(up, up')
    BY <1>2, <1>6, <1>8, <1>9 DEF CallsKept, RowFilled, IsUpstream
  <2>3. IsDelta(Silence) /\ Silence.tools = <<>> /\ ~Silence.error /\ ~Silence.done
    BY SilentDelta
  <2> QED BY <1>1, <1>6, <2>1, <2>2, <2>3, ToldKeeps
<1> QED BY <1>10, <1>11

(* Arguments of a call of a chat stream keep the invariant.                 *)
LEMMA ChatArgumentsKeeps ==
  ASSUME NEW i \in Nat
  PROVE  ConversionInv /\ ChatArguments(i) => ConversionInv'
<1> SUFFICES ASSUME ConversionInv, ChatArguments(i) PROVE ConversionInv'
  OBVIOUS
<1>1. ~up.over /\ adapter.source = "chat_completions" /\ i \in up.run..CurrentTool
  BY DEF ChatArguments, InChat
<1>2. PICK id : Sends([Silence EXCEPT !.tools = <<[FilledTool(i) EXCEPT !.id = id]>>])
  BY DEF ChatArguments
<1> DEFINE t == [FilledTool(i) EXCEPT !.id = id]
           args == up.said.tools[i].args \o Argument
<1>3. t.key = up.said.tools[i].key /\ ~t.started /\ IsSeq(t.args)
  BY OneIsSeq DEF FilledTool, Argument
<1>4. Sends([Silence EXCEPT !.tools = <<t>>])
  BY <1>2
<1> HIDE DEF t
<1>5. /\ UpstreamLink(up, adapter) /\ Len(adapter.tools) \in Nat /\ Len(up.said.tools) = Len(adapter.tools)
      /\ IsUpstream(up) /\ adapter.source # adapter.target
  BY JoinedIs, JoinedFacts DEF Joined
<1>6. i \in 1..Len(up.said.tools) /\ i \in OpenTools(adapter)
  BY <1>1, <1>5 DEF UpstreamLink, CurrentTool, IsUpstream
<1>7. up' = [up EXCEPT !.said.tools[i].args = @ \o Argument]
  BY DEF ChatArguments
<1>8. /\ DOMAIN up' = DOMAIN up /\ up'.blocks = up.blocks /\ up'.run = up.run /\ ~up'.over
      /\ DOMAIN up'.said = SaidFields /\ up'.late = up.late
      /\ up'.said.tools = [up.said.tools EXCEPT ![i].args = args]
  BY <1>1, <1>5, <1>7 DEF IsUpstream, UpstreamFields, SaidFields
<1> HIDE DEF args
<1>9. RowFilled(up, up', i)
  BY <1>5, <1>6, <1>8, RowsFill
<1>10. IsUpstream(up')
  BY <1>5, <1>8, <1>9 DEF IsUpstream, RowFilled
<1> QED BY <1>1, <1>3, <1>4, <1>6, <1>8, <1>9, <1>10, FillKeeps

(* Appending an entry is putting a sequence of one behind.                  *)
LEMMA AppendedIs ==
  ASSUME NEW s, IsSeq(s), NEW e
  PROVE  s \o <<e>> = Append(s, e)
<1>1. PICK S : s \in Seq(S)
  BY DEF IsSeq
<1>2. s \in Seq(S \cup {e}) /\ e \in S \cup {e}
  BY <1>1
<1> QED BY <1>2, AppendIsConcat

(* A function on the first number is a sequence of one entry.               *)
LEMMA OneEntry ==
  ASSUME NEW e
  PROVE  [i \in 1..1 |-> e] = <<e>>
OBVIOUS

\* What a chunk leaves of an upstream, rows being its calls.
Chunked(u, v, spoken, rows) ==
  /\ DOMAIN v = UpstreamFields /\ v.late = u.late /\ v.over = u.over /\ v.block = u.block
  /\ DOMAIN v.said = SaidFields /\ v.said.tools = rows
  /\ v.blocks = u.blocks + 1
  /\ v.run = IF spoken THEN Len(u.said.tools) + 1 ELSE u.run

(* A chunk that begins no call.                                             *)
LEMMA ChunkSays ==
  ASSUME ConversionInv, ~up.over, adapter.source = "chat_completions",
         NEW d, Sends(d), IsDelta(d), d.tools = <<>>, ~d.error, ~d.done, d.searches = <<>>,
         NEW spoken \in BOOLEAN, spoken \/ Quiet(d), Chunked(up, up', spoken, up.said.tools)
  PROVE  ConversionInv'
<1>1. IsUpstream(up)
  BY DEF ConversionInv
<1>2. Len(up.said.tools) \in Nat
  BY <1>1, SeqFacts DEF IsUpstream
<1>3. CallsKept(up, up')
  BY <1>1, <1>2 DEF CallsKept, Chunked, IsUpstream
<1>4. up'.over = up.over /\ up'.block = up.block /\ (spoken => up'.run = Len(up.said.tools) + 1)
  BY DEF Chunked
<1> QED BY <1>3, <1>4, SaysKeeps

(* A chunk that begins a call.                                              *)
LEMMA ChunkCalls ==
  ASSUME ConversionInv, ~up.over, adapter.source = "chat_completions",
         NEW t, t.key = Len(up.said.tools) + 1, t.started,
         NEW row, row.key = t.key, DOMAIN row = {"key", "id", "args"},
         NEW d, Sends(d), IsDelta(d), d.tools = <<t>>, ~d.error, ~d.done, d.searches = <<>>,
         NEW spoken \in BOOLEAN, spoken \/ Quiet(d), Chunked(up, up', spoken, Append(up.said.tools, row))
  PROVE  ConversionInv'
<1> DEFINE n == Len(adapter.tools)
           i == n + 1
           rows == Append(up.said.tools, row)
<1>1. /\ Joined(up, adapter, client) /\ n \in Nat /\ Len(up.said.tools) = n /\ IsUpstream(up)
      /\ UpstreamLink(up, adapter)
  BY JoinedIs, JoinedFacts DEF Joined
<1>2. IsSeq(rows) /\ Len(rows) = n + 1 /\ rows[n + 1] = row /\ \A j \in 1..n : rows[j] = up.said.tools[j]
  <2>1. IsSeq(up.said.tools)
    BY <1>1 DEF IsUpstream
  <2> QED BY <1>1, <2>1, Appended
<1>3. Chunked(up, up', spoken, rows)
  OBVIOUS
<1> HIDE DEF rows, n
<1>4. \A j \in 1..(n + 1) : DOMAIN rows[j] = {"key", "id", "args"}
  <2>1. \A j \in 1..n : DOMAIN up.said.tools[j] = {"key", "id", "args"}
    BY <1>1 DEF IsUpstream
  <2> QED BY <1>1, <1>2, <2>1
<1>5. IsUpstream(up')
  BY <1>1, <1>2, <1>3, <1>4 DEF IsUpstream, Chunked
<1>6. CallTold(up, up', i, t)
  BY <1>1, <1>2, <1>3, <1>5 DEF CallTold, Chunked, IsUpstream
<1>7. Takes(adapter, i, t)
  <2>1. \A j \in 1..n : adapter.tools[j].key = j
    BY <1>1 DEF UpstreamLink, n
  <2>2. \A j \in 1..n : adapter.tools[j].key # t.key
    BY <1>1, <2>1
  <2> QED BY <2>2 DEF Takes, n
<1>8. t.key = i /\ (up'.run = Len(up.said.tools) + 1 \/ (up'.run = up.run /\ Quiet(d))) /\ ~up'.over
  BY <1>1, <1>3 DEF Chunked
<1> HIDE DEF i
<1> QED BY <1>6, <1>7, <1>8, CallKeeps

(* A chunk of a chat stream keeps the invariant, whichever of its fields    *)
(* it has.                                                                  *)
LEMMA ChunkKeeps == ConversionInv /\ Chunk => ConversionInv'
<1> SUFFICES ASSUME ConversionInv, Chunk PROVE ConversionInv'
  OBVIOUS
<1>1. ~up.over /\ adapter.source = "chat_completions" /\ IsUpstream(up)
  BY DEF Chunk, InChat, ConversionInv
<1>2. PICK reasoning \in Maybe(Says("reasoning")), text \in Maybe(Says("text")), refusal \in Maybe(Says("refusal")),
           notes \in Maybe({<<n>> : n \in Citations}), ids \in Maybe({<<id>> : id \in CallIds \cup {NoId}}) :
        LET tools == [i \in DOMAIN ids |-> [key |-> CurrentTool + 1, id |-> ids[i], args |-> <<>>]]
            spoken == <<text, refusal, notes>> # <<<<>>, <<>>, <<>>>>
        IN  /\ Cardinality({i \in 1..5 : <<reasoning, text, refusal, notes, ids>>[i] # <<>>}) \in 1..2
            /\ up' = [up EXCEPT !.blocks = @ + 1, !.run = IF spoken THEN CurrentTool + 1 ELSE @,
                                !.said = [reasoning |-> @.reasoning \o reasoning, text |-> @.text \o text,
                                          refusal |-> @.refusal \o refusal, notes |-> @.notes \cup ToSet(notes),
                                          tools |-> @.tools \o tools, searches |-> @.searches]]
            /\ Sends([Silence EXCEPT !.reasoning = reasoning, !.text = text, !.refusal = refusal, !.notes = notes,
                                     !.tools = [i \in DOMAIN ids |-> [key |-> CurrentTool + 1, id |-> ids[i],
                                                                      args |-> <<>>, started |-> TRUE]]])
  BY DEF Chunk
<1> DEFINE tools == [i \in DOMAIN ids |-> [key |-> CurrentTool + 1, id |-> ids[i], args |-> <<>>]]
           calls == [i \in DOMAIN ids |-> [key |-> CurrentTool + 1, id |-> ids[i], args |-> <<>>, started |-> TRUE]]
           spoken == <<text, refusal, notes>> # <<<<>>, <<>>, <<>>>>
           rows == up.said.tools \o tools
           d == [Silence EXCEPT !.reasoning = reasoning, !.text = text, !.refusal = refusal, !.notes = notes,
                                !.tools = calls]
<1>3. up' = [up EXCEPT !.blocks = @ + 1, !.run = IF spoken THEN CurrentTool + 1 ELSE @,
                       !.said = [reasoning |-> @.reasoning \o reasoning, text |-> @.text \o text,
                                 refusal |-> @.refusal \o refusal, notes |-> @.notes \cup ToSet(notes),
                                 tools |-> rows, searches |-> @.searches]]
  BY <1>2
<1>4. Sends(d)
  BY <1>2
<1>5. spoken \/ (text = <<>> /\ refusal = <<>> /\ notes = <<>>)
  OBVIOUS
<1>6. spoken \in BOOLEAN
  OBVIOUS
<1> HIDE DEF spoken
<1>7. IsSeq(reasoning) /\ IsSeq(notes)
  <2>1. PICK kind \in {"reasoning", "text", "refusal"} : kind = "reasoning"
    OBVIOUS
  <2>2. reasoning \in Says(kind) \cup {<<>>}
    BY <2>1 DEF Maybe
  <2>3. IsSeq(reasoning)
    BY <2>2, SaysData
  <2> QED BY <2>3, EmptyIsSeq, OneIsSeq DEF Maybe
<1> HIDE DEF rows
<1>8. Chunked(up, up', spoken, rows)
  BY <1>1, <1>3 DEF Chunked, IsUpstream, UpstreamFields, SaidFields, CurrentTool
<1>9. CASE ids = <<>>
  <2>1. tools = <<>> /\ calls = <<>>
    BY <1>9
  <2> HIDE DEF tools, calls
  <2>2. rows = up.said.tools
    BY <1>1, <2>1, EmptyIsSeq, Concatenated DEF rows, IsUpstream
  <2>3. IsDelta(d) /\ d.tools = <<>> /\ ~d.error /\ ~d.done /\ d.searches = <<>> /\ (spoken \/ Quiet(d))
    BY <1>5, <1>7, <2>1, EmptyIsSeq DEF IsDelta, DeltaFields, Silence, Quiet
  <2> HIDE DEF d
  <2> QED BY <1>1, <1>4, <1>6, <1>8, <2>2, <2>3, ChunkSays
<1>10. ASSUME NEW id, ids = <<id>> PROVE ConversionInv'
  <2> DEFINE t == [key |-> CurrentTool + 1, id |-> id, args |-> <<>>, started |-> TRUE]
             row == [key |-> CurrentTool + 1, id |-> id, args |-> <<>>]
  <2>1. tools = <<row>> /\ calls = <<t>>
    <3>1. DOMAIN ids = 1..1 /\ ids[1] = id
      BY <1>10
    <3>2. \A i \in DOMAIN ids : ids[i] = id
      BY <3>1
    <3>3. \A i \in DOMAIN ids :
            /\ [key |-> CurrentTool + 1, id |-> ids[i], args |-> <<>>] = row
            /\ [key |-> CurrentTool + 1, id |-> ids[i], args |-> <<>>, started |-> TRUE] = t
      BY <3>2
    <3>4. tools = [i \in DOMAIN ids |-> row]
      <4> HIDE DEF row
      <4> QED BY <3>3
    <3>5. calls = [i \in DOMAIN ids |-> t]
      <4> HIDE DEF t
      <4> QED BY <3>3
    <3> HIDE DEF tools, calls, row, t
    <3> QED BY <3>1, <3>4, <3>5, OneEntry
  <2>2. /\ t.key = Len(up.said.tools) + 1 /\ t.started /\ IsSeq(t.args) /\ row.key = t.key
        /\ DOMAIN row = {"key", "id", "args"}
    BY EmptyIsSeq DEF CurrentTool
  <2> HIDE DEF tools, calls, t, row
  <2>3. rows = Append(up.said.tools, row)
    BY <1>1, <2>1, AppendedIs DEF rows, IsUpstream
  <2>4. /\ DOMAIN d = DeltaFields /\ IsSeq(d.reasoning) /\ IsSeq(d.notes) /\ IsSeq(d.searches)
        /\ d.tools = calls /\ ~d.error /\ ~d.done /\ d.searches = <<>> /\ (spoken \/ Quiet(d))
    BY <1>5, <1>7, EmptyIsSeq DEF DeltaFields, Silence, Quiet
  <2> HIDE DEF d
  <2>5. IsDelta(d) /\ d.tools = <<t>>
    BY <2>1, <2>2, <2>4 DEF IsDelta
  <2> QED BY <1>1, <1>4, <1>6, <1>8, <2>2, <2>3, <2>4, <2>5, ChunkCalls
<1> QED BY <1>9, <1>10 DEF Maybe

(* The invariant holds at first.                                            *)
LEMMA ConversionStarts == StreamInit => ConversionInv
<1> SUFFICES ASSUME StreamInit PROVE ConversionInv
  OBVIOUS
<1>1. PICK conversion \in Conversions, sparse \in BOOLEAN :
        up = NewUpstream(sparse) /\ adapter = NewAdapter(conversion) /\ client = NewClient
  BY DEF StreamInit
<1> DEFINE source == conversion[1]
           target == conversion[2]
<1>2. conversion = <<source, target>>
  BY StreamConversionAssumption
<1>3. IsUpstream(up)
  <2>1. /\ DOMAIN up = UpstreamFields /\ DOMAIN up.late = {"text", "searches"} /\ up.late.searches = <<>>
        /\ DOMAIN up.said = SaidFields /\ up.said.tools = <<>> /\ up.blocks = 0 /\ up.run = 1
    BY <1>1 DEF NewUpstream, UpstreamFields, SaidFields
  <2> QED BY <2>1, EmptyIsSeq DEF IsUpstream
<1>4. IsAdapter(adapter)
  <2>1. /\ DOMAIN adapter = AdapterFields /\ adapter.out = <<>> /\ adapter.tools = <<>>
        /\ adapter.searches = <<>>
        /\ DOMAIN adapter.thought = {"started", "done", "index"}
        /\ DOMAIN adapter.message = {"started", "done", "index", "content"} /\ adapter.message.content = <<>>
    BY <1>1 DEF NewAdapter, AdapterFields
  <2> QED BY <2>1, EmptyIsSeq DEF IsAdapter, AreParts
<1>5. /\ adapter.source = source /\ adapter.target = target /\ adapter.tools = <<>> /\ adapter.out = <<>>
      /\ ~adapter.started /\ ~adapter.finished
  BY <1>1 DEF NewAdapter
<1>6. up.said.tools = <<>> /\ ~up.over /\ up.run = 1 /\ up.block = "none"
  BY <1>1 DEF NewUpstream
<1>7. AdapterLink(adapter, client)
  <2>1. adapter = NewAdapter(<<adapter.source, adapter.target>>)
    BY <1>1, <1>2, <1>5
  <2> QED BY <1>1, <1>5, <2>1 DEF AdapterLink
<1>8. UpstreamLink(up, adapter)
  BY <1>5, <1>6, EmptyIsSeq DEF UpstreamLink
<1> QED BY <1>1, <1>2, <1>3, <1>4, <1>5, <1>7, <1>8 DEF ConversionInv

(* Every step keeps the invariant.                                          *)
LEMMA ConversionGoesOn == ConversionInv /\ [StreamNext]_streamVars => ConversionInv'
<1> SUFFICES ASSUME ConversionInv, [StreamNext]_streamVars PROVE ConversionInv'
  OBVIOUS
<1>1. CASE Hello
  BY <1>1, HelloKeeps
<1>2. ASSUME NEW kind \in {"reasoning", "text", "refusal"},
             BeginBlock(kind) \/ BlockDelta(kind) \/ EndBlock(kind) \/ TellPart(kind)
      PROVE  ConversionInv'
  BY <1>2, BeginBlockKeeps, BlockDeltaKeeps, EndBlockKeeps, TellPartKeeps
<1>3. ASSUME NEW note \in Citations, Cite(note) PROVE ConversionInv'
  BY <1>3, CiteKeeps
<1>4. ASSUME NEW id \in CallIds \cup {NoId}, BeginTool(id) PROVE ConversionInv'
  BY <1>4, BeginToolKeeps
<1>5. CASE ToolArguments
  BY <1>5, ToolArgumentsKeeps
<1>6. ASSUME NEW told \in BOOLEAN, EndTool(told) \/ EndSearch(told) PROVE ConversionInv'
  BY <1>6, EndToolKeeps, EndSearchKeeps
<1>7. CASE BeginSearch
  BY <1>7, BeginSearchKeeps
<1>8. CASE SearchGoesOn
  BY <1>8, SearchGoesOnKeeps
<1>9. CASE SearchResult
  BY <1>9, SearchResultKeeps
<1>10. CASE NoResult
  BY <1>10, NoResultKeeps
<1>11. CASE Complete
  BY <1>11, CompleteKeeps
<1>12. CASE Chunk
  BY <1>12, ChunkKeeps
<1>13. ASSUME NEW i \in 1..MaxChunks, ChatArguments(i) PROVE ConversionInv'
  BY <1>13, ChatArgumentsKeeps
<1>14. CASE Stop
  BY <1>14, StopKeeps
<1>15. CASE ChatDone
  BY <1>15, ChatDoneKeeps
<1>16. CASE ChatEnds
  BY <1>16, ChatEndsKeeps
<1>17. CASE Fail
  BY <1>17, FailKeeps
<1>18. CASE UNCHANGED streamVars
  <2>1. up' = up /\ adapter' = adapter /\ client' = client
    BY <1>18 DEF streamVars
  <2> QED BY <2>1, JoinedIs, JoinedNext
<1> QED
  BY <1>1, <1>2, <1>3, <1>4, <1>5, <1>6, <1>7, <1>8, <1>9, <1>10, <1>11, <1>12, <1>13, <1>14, <1>15, <1>16, <1>17,
     <1>18 DEF StreamNext

\* The invariant of a conversion, for every conversion, text, identifier and
\* length of an answer: whatever the adapter has open is what the client has
\* open, at the index and with the content with which the adapter will close
\* it, and a call that the upstream may still fill is open.
THEOREM ConversionInvariant == StreamSpec => []ConversionInv
<1>1. StreamInit => ConversionInv
  BY ConversionStarts
<1>2. ConversionInv /\ [StreamNext]_streamVars => ConversionInv'
  BY ConversionGoesOn
<1> QED BY <1>1, <1>2, PTL DEF StreamSpec

(* The invariant has in it that the client follows the stream.              *)
LEMMA LifecycleFollows == ConversionInv => LifecycleHolds
<1> SUFFICES ASSUME ConversionInv PROVE LifecycleHolds
  OBVIOUS
<1>1. /\ Paired(adapter, client) /\ UpstreamLink(up, adapter) /\ AdapterLink(adapter, client)
      /\ adapter.target \in Protocols
  BY JoinedIs, JoinedFacts DEF Joined, Paired
<1>2. client.misplaced \subseteq Exempt
  <2>1. CASE adapter.finished
    BY <1>1, <2>1 DEF AdapterLink, Ended
  <2>2. CASE ~adapter.finished /\ adapter.started
    BY <1>1, <2>2 DEF AdapterLink, StreamLink, ChatLink, MessagesLink, ResponsesLink, Follows, Protocols
  <2>3. CASE ~adapter.finished /\ ~adapter.started
    BY <1>1, <2>3 DEF AdapterLink, NewClient
  <2> QED BY <2>1, <2>2, <2>3
<1>3. up.over => client.phase \in {"done", "failed"}
  BY <1>1 DEF UpstreamLink, AdapterLink, Ended
<1> QED BY <1>2, <1>3 DEF LifecycleHolds, Exempt

\* Every stream the adapter writes is one its client can follow, to an end.
THEOREM LifecycleTheorem == StreamSpec => []LifecycleHolds
BY ConversionInvariant, LifecycleFollows, PTL
=============================================================================
