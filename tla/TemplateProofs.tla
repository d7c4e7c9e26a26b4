--------------------------- MODULE TemplateProofs ---------------------------
(***************************************************************************)
(* Proofs about Template for every text and every list of outputs: the     *)
(* scan does what the definition without a scan says.  References neither  *)
(* overlap nor have two ends (Disjoint, OneEnd), so the scan meets each of *)
(* them once and at its beginning; the text it has built so far is the     *)
(* flattening of the pieces up to its position (Prefix).                   *)
(***************************************************************************)
EXTENDS Template, TLAPS, FiniteSetTheorems, SequenceTheorems, WellFoundedInduction

-----------------------------------------------------------------------------
(* Numbers.                                                                *)

\* A set of natural numbers has a least member.
LEMMA Least ==
    ASSUME NEW S \in SUBSET Nat, S # {}
    PROVE  \E n \in S : \A m \in S : n <= m
PROOF
<1>1. PICK n \in S : \A m \in S : ~(<<m, n>> \in OpToRel(<, Nat))
  BY NatLessThanWellFounded, WFMin, Zenon
<1>2. \A m \in S : ~(m < n)
  BY <1>1 DEF OpToRel
<1> QED BY <1>2

\* Induction, as a fact about sets.
LEMMA NatSet ==
    ASSUME NEW S, 0 \in S, \A n \in Nat : n \in S => n + 1 \in S
    PROVE  \A n \in Nat : n \in S
PROOF
<1> DEFINE Out == {n \in Nat : n \notin S}
<1> SUFFICES ASSUME Out # {} PROVE FALSE
  OBVIOUS
<1>1. PICK m \in Out : \A n \in Out : m <= n
  <2>1. Out \in SUBSET Nat
    OBVIOUS
  <2> HIDE DEF Out
  <2> QED BY <2>1, Least
<1>2. m \in Nat /\ m \notin S /\ m # 0
  BY <1>1
<1>3. m - 1 \in Nat /\ m - 1 \notin S
  <2>1. m - 1 \in Nat
    BY <1>2
  <2>2. m - 1 \notin S
    BY <1>2, <2>1
  <2> QED BY <2>1, <2>2
<1>4. m - 1 \in Out
  BY <1>3
<1> QED BY <1>1, <1>2, <1>3, <1>4

\* A set of natural numbers with a bound has a greatest member.
LEMMA Greatest ==
    ASSUME NEW n \in Nat, NEW S \in SUBSET (0..n), S # {}
    PROVE  Max(S) \in S /\ \A y \in S : Max(S) >= y
PROOF
<1> DEFINE T == {i \in 0..n : n - i \in S}
<1>1. T \in SUBSET Nat /\ T # {}
  <2>1. PICK x \in S : TRUE
    OBVIOUS
  <2>2. n - x \in 0..n /\ n - (n - x) = x
    BY <2>1
  <2>3. n - x \in T
    BY <2>1, <2>2
  <2>4. T \in SUBSET Nat
    OBVIOUS
  <2> HIDE DEF T
  <2> QED BY <2>3, <2>4
<1>2. PICK m \in T : \A y \in T : m <= y
  <2> HIDE DEF T
  <2> QED BY <1>1, Least
<1>3. n - m \in S /\ \A y \in S : n - m >= y
  <2>1. \A y \in S : n - y \in T
    OBVIOUS
  <2> QED BY <1>2, <2>1
<1> QED BY <1>3, Zenon DEF Max

-----------------------------------------------------------------------------
(* Flattening.                                                             *)

\* What FlattenSeq has after each element.
Flatten(P) ==
    LET flatten[i \in 1..Len(P)] == IF i = 1 THEN P[i] ELSE flatten[i-1] \o P[i]
    IN  flatten

\* The recursion defines a function.
LEMMA FlattenDef ==
    ASSUME NEW P, Len(P) \in Nat
    PROVE  Flatten(P) = [i \in 1..Len(P) |-> IF i = 1 THEN P[i] ELSE Flatten(P)[i-1] \o P[i]]
PROOF
<1> DEFINE Partial(n, f) == f = [i \in 1..n |-> IF i = 1 THEN P[i] ELSE f[i-1] \o P[i]]
           Good == {n \in Nat : \E f : Partial(n, f)}
<1>1. 0 \in Good
  <2> DEFINE f == [i \in 1..0 |-> 0]
  <2>1. Partial(0, f)
    OBVIOUS
  <2> QED BY <2>1
<1>2. ASSUME NEW n \in Nat, n \in Good PROVE n + 1 \in Good
  <2>1. PICK f : Partial(n, f)
    BY <1>2
  <2> DEFINE last == IF n = 0 THEN P[1] ELSE f[n] \o P[n+1]
             g == [i \in 1..(n+1) |-> IF i <= n THEN f[i] ELSE last]
  <2>2. \A i \in 1..n : f[i] = IF i = 1 THEN P[i] ELSE f[i-1] \o P[i]
    <3>1. f = [i \in 1..n |-> IF i = 1 THEN P[i] ELSE f[i-1] \o P[i]]
      BY <2>1
    <3> HIDE DEF Partial
    <3>2. \A h : h = [i \in 1..n |-> IF i = 1 THEN P[i] ELSE f[i-1] \o P[i]] =>
              \A i \in 1..n : h[i] = IF i = 1 THEN P[i] ELSE f[i-1] \o P[i]
      OBVIOUS
    <3> QED BY <3>1, <3>2
  <2>3. \A i \in 1..(n+1) : g[i] = IF i = 1 THEN P[i] ELSE g[i-1] \o P[i]
    <3> SUFFICES ASSUME NEW i \in 1..(n+1)
                 PROVE  g[i] = IF i = 1 THEN P[i] ELSE g[i-1] \o P[i]
      OBVIOUS
    <3> HIDE DEF last
    <3>1. i \in 1..n => g[i] = f[i]
      OBVIOUS
    <3>2. i # 1 => i - 1 \in 1..n /\ g[i-1] = f[i-1]
      OBVIOUS
    <3>3. i = n + 1 => g[i] = last
      OBVIOUS
    <3>4. i \in 1..n \/ i = n + 1
      OBVIOUS
    <3> HIDE DEF g
    <3>5. CASE i = n + 1
      BY <3>2, <3>3, <3>5 DEF last
    <3>6. CASE i \in 1..n
      BY <2>2, <3>1, <3>2, <3>6
    <3> QED BY <3>4, <3>5, <3>6
  <2>4. Partial(n + 1, g)
    <3>1. g = [i \in 1..(n+1) |-> g[i]]
      OBVIOUS
    <3> HIDE DEF g
    <3> QED BY <2>3, <3>1
  <2> HIDE DEF g, Partial
  <2> QED BY <2>4
<1>3. Len(P) \in Good
  <2> HIDE DEF Good
  <2> QED BY <1>1, <1>2, NatSet
<1>4. \E f : Partial(Len(P), f)
  BY <1>3
<1> QED BY <1>4, Zenon DEF Flatten

\* The last of those values is what FlattenSeq returns.
LEMMA FlattenLast ==
    ASSUME NEW P, Len(P) \in Nat
    PROVE  FlattenSeq(P) = IF Len(P) = 0 THEN P ELSE Flatten(P)[Len(P)]
PROOF
BY Zenon DEF FlattenSeq, Flatten

-----------------------------------------------------------------------------
(* References in a text.                                                   *)

\* The tokens of a reference: braces outside, none inside.
LEMMA Shape ==
    ASSUME NEW v, NEW i \in Int, NEW j \in Int, templatePattern(v, i, j)
    PROVE  /\ i + 4 <= j
           /\ v[i] = Open /\ v[i + 1] = Open /\ v[j - 1] = Close /\ v[j] = Close
           /\ \A n \in (i + 2)..(j - 2) : v[n] # Open /\ v[n] # Close
           /\ \E b \in (i + 2)..(j - 2) : v[b][1] = "steps"
PROOF
<1>1. PICK b \in (i + 2)..(j - 2) :
        /\ v[i] = Open /\ v[i + 1] = Open /\ v[j - 1] = Close /\ v[j] = Close
        /\ v[b][1] = "steps"
        /\ \A n \in (i + 2)..(j - 2) \ {b} : v[n] = Blank
  BY DEF templatePattern
<1>2. Open[1] # "steps" /\ Close[1] # "steps"
  BY DEF Open, Close
<1>3. Blank # Open /\ Blank # Close
  BY DEF Open, Close, Blank
<1>4. \A n \in (i + 2)..(j - 2) : v[n] # Open /\ v[n] # Close
  BY <1>1, <1>2, <1>3
<1>5. i + 4 <= j
  <2>1. i + 2 <= b /\ b <= j - 2 /\ b \in Int
    OBVIOUS
  <2> QED BY <2>1
<1> QED BY <1>1, <1>4, <1>5

\* A reference has one end.
LEMMA OneEnd ==
    ASSUME NEW v, NEW i \in Int, NEW j \in Int, NEW k \in Int,
           templatePattern(v, i, j), templatePattern(v, i, k)
    PROVE  j = k
PROOF
<1>1. ASSUME NEW a \in Int, NEW c \in Int, templatePattern(v, i, a), templatePattern(v, i, c)
      PROVE  ~(a < c)
  <2> SUFFICES ASSUME a < c PROVE FALSE
    OBVIOUS
  <2>1. v[a - 1] = Close /\ i + 4 <= a
    BY <1>1, Shape
  <2>2. a - 1 \in (i + 2)..(c - 2)
    BY <2>1
  <2>3. \A n \in (i + 2)..(c - 2) : v[n] # Close
    BY <1>1, Shape
  <2> QED BY <2>1, <2>2, <2>3
<1> QED BY <1>1

\* Of two references one ends before the other begins.
LEMMA Disjoint ==
    ASSUME NEW v, NEW i \in Int, NEW j \in Int, NEW k \in Int, NEW l \in Int,
           templatePattern(v, i, j), templatePattern(v, k, l), i < k
    PROVE  j < k
PROOF
<1> SUFFICES ASSUME k <= j PROVE FALSE
  OBVIOUS
<1>1. /\ i + 4 <= j /\ v[j - 1] = Close /\ v[j] = Close
      /\ \A n \in (i + 2)..(j - 2) : v[n] # Open
  BY Shape
<1>2. v[k] = Open /\ v[k + 1] = Open
  BY Shape
<1>3. Open # Close
  BY DEF Open, Close
<1>4. k # j /\ k # j - 1
  BY <1>1, <1>2, <1>3
<1>5. k \notin (i + 2)..(j - 2)
  BY <1>1, <1>2
<1>6. k = i + 1
  BY <1>1, <1>4, <1>5
<1>7. k + 1 \in (i + 2)..(j - 2)
  BY <1>1, <1>6
<1> QED BY <1>1, <1>2, <1>7

\* What a reference names is a step and an output.
LEMMA ReferenceType ==
    ASSUME NEW v, IsText(v), NEW i \in 1..Len(v), NEW j \in 1..Len(v), templatePattern(v, i, j)
    PROVE  Reference(v, i, j) \in STRING \X STRING
PROOF
<1> DEFINE b == CHOOSE n \in i..j : v[n][1] = "steps"
<1>0. Len(v) \in Nat /\ \A n \in 1..Len(v) : v[n] \in Token
  BY DEF IsText
<1>1. \E n \in i..j : v[n][1] = "steps"
  BY <1>0, Shape
<1>2. b \in i..j /\ v[b][1] = "steps"
  BY <1>1
<1> HIDE DEF b
<1>3. v[b] \in Token
  BY <1>0, <1>2
<1>4. v[b] \in {"steps"} \X STRING \X STRING
  <2>1. /\ Open[1] # "steps" /\ Close[1] # "steps"
        /\ Blank[1] # "steps" /\ Other[1] # "steps"
    BY DEF Open, Close, Blank, Other
  <2> QED BY <1>2, <1>3, <2>1, Zenon DEF Token
<1>5. v[b][2] \in STRING /\ v[b][3] \in STRING
  BY <1>4
<1> QED BY <1>5 DEF Reference, b

\* The span of a reference lies in the text.
LEMMA SpanFacts ==
    ASSUME NEW v, IsText(v), NEW s \in Spans(v)
    PROVE  /\ s = <<s[1], s[2]>> /\ s[1] \in 1..Len(v) /\ s[2] \in 1..Len(v)
           /\ s[1] < s[2] /\ templatePattern(v, s[1], s[2])
PROOF
<1>0. Len(v) \in Nat
  BY DEF IsText
<1>1. /\ s = <<s[1], s[2]>> /\ s[1] \in 1..Len(v) /\ s[2] \in 1..Len(v)
      /\ templatePattern(v, s[1], s[2])
  BY DEF Spans
<1>2. s[1] + 4 <= s[2]
  <2>1. PICK i \in Int, j \in Int : i = s[1] /\ j = s[2]
    BY <1>0, <1>1
  <2>2. i + 4 <= j
    BY <1>1, <2>1, Shape
  <2> QED BY <2>1, <2>2
<1> QED BY <1>0, <1>1, <1>2

\* Spans that begin together are the same, others do not overlap.
LEMMA SpansApart ==
    ASSUME NEW v, IsText(v), NEW s \in Spans(v), NEW t \in Spans(v)
    PROVE  /\ s[1] = t[1] => s = t
           /\ s[1] < t[1] => s[2] < t[1]
PROOF
<1>1. /\ s = <<s[1], s[2]>> /\ s[1] \in Int /\ s[2] \in Int /\ templatePattern(v, s[1], s[2])
      /\ t = <<t[1], t[2]>> /\ t[1] \in Int /\ t[2] \in Int /\ templatePattern(v, t[1], t[2])
  BY SpanFacts
<1>2. s[1] = t[1] => s[2] = t[2]
  BY <1>1, OneEnd
<1> QED BY <1>1, <1>2, Disjoint

-----------------------------------------------------------------------------
(* The text up to a position, as the definition without a scan has it.     *)

\* What stands for each token.
Replaced(v, index) ==
    [i \in 1..Len(v) |->
        IF \E s \in Spans(v) : s[1] = i
        THEN index[Reference(v, i, CHOOSE j \in i..Len(v) : <<i, j>> \in Spans(v))]
        ELSE IF \E s \in Spans(v) : i \in s[1]..s[2] THEN <<>> ELSE <<v[i]>>]

Prefix(v, index, n) == IF n = 0 THEN <<>> ELSE Flatten(Replaced(v, index))[n]

\* Something stands for each token.
LEMMA ReplacedLen ==
    ASSUME NEW v, IsText(v), NEW index
    PROVE  Len(Replaced(v, index)) = Len(v) /\ Len(v) \in Nat
PROOF
<1> DEFINE R == Replaced(v, index)
           S == {R[i] : i \in 1..Len(v)}
<1>1. Len(v) \in Nat
  BY DEF IsText
<1>2. DOMAIN R = 1..Len(v) /\ R = [i \in 1..Len(v) |-> R[i]]
  BY DEF Replaced
<1> HIDE DEF R
<1>3. R \in [1..Len(v) -> S]
  BY <1>2
<1> HIDE DEF S
<1>4. R \in Seq(S)
  BY <1>1, <1>3, SeqDef
<1>5. Len(R) = Len(v)
  BY <1>1, <1>2, <1>4
<1> QED BY <1>1, <1>5 DEF R

\* The text up to n is the text before n with what stands for token n.
LEMMA PrefixStep ==
    ASSUME NEW v, IsText(v), NEW index, NEW n \in 1..Len(v),
           Replaced(v, index)[n] \in Seq(Token)
    PROVE  Prefix(v, index, n) = Prefix(v, index, n - 1) \o Replaced(v, index)[n]
PROOF
<1> DEFINE R == Replaced(v, index)
<1>1. Len(R) = Len(v) /\ Len(v) \in Nat
  BY ReplacedLen
<1>2. Flatten(R) = [i \in 1..Len(R) |-> IF i = 1 THEN R[i] ELSE Flatten(R)[i-1] \o R[i]]
  <2> HIDE DEF R
  <2> QED BY <1>1, FlattenDef
<1> HIDE DEF R
<1>3. Flatten(R)[n] = IF n = 1 THEN R[n] ELSE Flatten(R)[n-1] \o R[n]
  <2>1. \A h : h = [i \in 1..Len(R) |-> IF i = 1 THEN R[i] ELSE Flatten(R)[i-1] \o R[i]] =>
            h[n] = IF n = 1 THEN R[n] ELSE Flatten(R)[n-1] \o R[n]
    BY <1>1
  <2> QED BY <1>2, <2>1
<1>4. <<>> \o R[n] = R[n]
  BY ConcatEmptySeq DEF R
<1>5. Prefix(v, index, n) = Flatten(R)[n]
  BY <1>1 DEF Prefix, R
<1>6. Prefix(v, index, n - 1) = IF n = 1 THEN <<>> ELSE Flatten(R)[n-1]
  BY <1>1 DEF Prefix, R
<1>7. CASE n = 1
  BY <1>3, <1>4, <1>5, <1>6, <1>7 DEF R
<1>8. CASE n # 1
  BY <1>3, <1>5, <1>6, <1>8 DEF R
<1> QED BY <1>7, <1>8

\* The text up to the end is the expansion.
LEMMA PrefixAll ==
    ASSUME NEW v, IsText(v), NEW index
    PROVE  Expansion(v, index) = Prefix(v, index, Len(v))
PROOF
<1> DEFINE R == Replaced(v, index)
<1>1. Len(R) = Len(v) /\ Len(v) \in Nat
  BY ReplacedLen
<1>2. Expansion(v, index) = FlattenSeq(R)
  BY Zenon DEF Expansion, Replaced
<1>3. Len(R) = 0 => R = <<>>
  BY <1>1 DEF Replaced
<1> HIDE DEF R
<1>4. FlattenSeq(R) = IF Len(R) = 0 THEN R ELSE Flatten(R)[Len(R)]
  BY <1>1, FlattenLast
<1> QED BY <1>1, <1>2, <1>3, <1>4 DEF Prefix, R

\* A token outside the references is kept.
LEMMA PrefixLiteral ==
    ASSUME NEW v, IsText(v), NEW index, NEW n \in 1..Len(v),
           \A s \in Spans(v) : s[2] < n \/ n < s[1],
           Prefix(v, index, n - 1) \in Seq(Token)
    PROVE  Prefix(v, index, n) = Append(Prefix(v, index, n - 1), v[n])
PROOF
<1>1. v[n] \in Token /\ Len(v) \in Nat
  BY DEF IsText
<1>2. \A s \in Spans(v) : s[1] # n /\ n \notin s[1]..s[2]
  BY SpanFacts
<1>3. Replaced(v, index)[n] = <<v[n]>>
  BY <1>2 DEF Replaced
<1>4. <<v[n]>> \in Seq(Token)
  BY <1>1
<1>5. Prefix(v, index, n) = Prefix(v, index, n - 1) \o <<v[n]>>
  BY <1>3, <1>4, PrefixStep
<1>6. ASSUME NEW w \in Seq(Token) PROVE w \o <<v[n]>> = Append(w, v[n])
  BY <1>1
<1> QED BY <1>5, <1>6

\* A reference is replaced as a whole.
LEMMA PrefixMatch ==
    ASSUME NEW v, IsText(v), NEW index, NEW i \in 1..Len(v), NEW j \in 1..Len(v),
           <<i, j>> \in Spans(v), index[Reference(v, i, j)] \in Seq(Token),
           Prefix(v, index, i - 1) \in Seq(Token)
    PROVE  Prefix(v, index, j) = Prefix(v, index, i - 1) \o index[Reference(v, i, j)]
PROOF
<1> DEFINE out == index[Reference(v, i, j)]
           all == Prefix(v, index, i - 1) \o out
<1>0. Len(v) \in Nat /\ i < j /\ templatePattern(v, i, j)
  <2>1. PICK s \in Spans(v) : s = <<i, j>>
    OBVIOUS
  <2> QED BY <2>1, SpanFacts DEF IsText
<1>1. all \in Seq(Token)
  BY ConcatProperties
<1>2. Replaced(v, index)[i] = out
  <2>1. (CHOOSE k \in i..Len(v) : <<i, k>> \in Spans(v)) = j
    <3>1. \A k \in i..Len(v) : <<i, k>> \in Spans(v) => k = j
      <4> SUFFICES ASSUME NEW k \in i..Len(v), <<i, k>> \in Spans(v) PROVE k = j
        OBVIOUS
      <4>1. templatePattern(v, i, k)
        BY DEF Spans
      <4> QED BY <1>0, <4>1, OneEnd
    <3>2. j \in i..Len(v) /\ <<i, j>> \in Spans(v)
      BY <1>0
    <3> QED BY <3>1, <3>2
  <2>2. \E s \in Spans(v) : s[1] = i
    <3>1. PICK s \in Spans(v) : s = <<i, j>>
      OBVIOUS
    <3> QED BY <3>1
  <2> QED BY <2>1, <2>2 DEF Replaced
<1>3. ASSUME NEW n \in (i + 1)..j PROVE Replaced(v, index)[n] = <<>> /\ n \in 1..Len(v)
  <2>0. PICK t \in Spans(v) : t = <<i, j>>
    OBVIOUS
  <2>1. n \in 1..Len(v) /\ n \in t[1]..t[2]
    BY <1>0, <2>0
  <2>2. \A s \in Spans(v) : s[1] # n
    <3> SUFFICES ASSUME NEW s \in Spans(v), s[1] = n PROVE FALSE
      OBVIOUS
    <3>1. t[1] < s[1] => t[2] < s[1]
      BY SpansApart
    <3> QED BY <1>0, <2>0, <3>1
  <2> QED BY <2>1, <2>2 DEF Replaced
<1> DEFINE Q(n) == i + n <= j => Prefix(v, index, i + n) = all
           Same == {n \in Nat : Q(n)}
<1>4. Q(0)
  <2>1. Prefix(v, index, i) = all
    BY <1>2, PrefixStep
  <2> HIDE DEF all
  <2> QED BY <1>0, <2>1
<1>5. ASSUME NEW n \in Nat, Q(n) PROVE Q(n + 1)
  <2> SUFFICES ASSUME i + (n + 1) <= j PROVE Prefix(v, index, i + (n + 1)) = all
    BY Zenon
  <2>1. i + (n + 1) \in (i + 1)..j /\ (i + (n + 1)) - 1 = i + n /\ i + n <= j
    BY <1>0
  <2> DEFINE m == i + (n + 1)
  <2>2. Prefix(v, index, m - 1) = all
    <3>1. Prefix(v, index, i + n) = all
      BY <1>5, <2>1, Zenon
    <3> HIDE DEF all
    <3> QED BY <2>1, <3>1
  <2>3. Replaced(v, index)[m] = <<>> /\ m \in 1..Len(v)
    BY <1>3, <2>1
  <2>4. <<>> \in Seq(Token)
    BY EmptySeq
  <2> HIDE DEF m
  <2>5. Prefix(v, index, m) = Prefix(v, index, m - 1) \o <<>>
    BY <2>3, <2>4, PrefixStep
  <2>6. all \o <<>> = all
    BY <1>1, ConcatEmptySeq
  <2> HIDE DEF all
  <2> QED BY <2>2, <2>5, <2>6 DEF m
<1>6. Q(j - i) /\ i + (j - i) = j
  <2>1. j - i \in Nat /\ i + (j - i) = j
    BY <1>0
  <2> HIDE DEF Q
  <2>2. 0 \in Same /\ \A n \in Nat : n \in Same => n + 1 \in Same
    BY <1>4, <1>5
  <2> HIDE DEF Same
  <2>3. j - i \in Same
    BY <2>1, <2>2, NatSet
  <2> USE DEF Same
  <2> QED BY <2>1, <2>3
<1>7. i + (j - i) <= j
  BY <1>0
<1>8. Prefix(v, index, i + (j - i)) = all
  BY <1>6, <1>7, Zenon
<1> HIDE DEF all
<1>9. Prefix(v, index, j) = all
  BY <1>6, <1>8
<1> QED BY <1>9 DEF all

-----------------------------------------------------------------------------
(* The scan of one value, up to a position.                                *)

\* An output that the index has is text.
LEMMA OutputText ==
    ASSUME NEW ss \in Statuses, NEW r \in DOMAIN buildOutputIndex(ss)
    PROVE  buildOutputIndex(ss)[r] \in Seq(Token)
PROOF
<1> DEFINE Holders == {i \in 1..Len(ss) : ss[i].name = r[1] /\ r[2] \in DOMAIN ss[i].outputs}
<1>0. Len(ss) \in Nat
  BY TextAssumption
<1>1. r \in UNION {{<<ss[i].name, o>> : o \in DOMAIN ss[i].outputs} : i \in 1..Len(ss)}
  BY DEF buildOutputIndex
<1>2. PICK i \in 1..Len(ss) : r \in {<<ss[i].name, o>> : o \in DOMAIN ss[i].outputs}
  BY <1>1
<1>3. PICK o \in DOMAIN ss[i].outputs : r = <<ss[i].name, o>>
  BY <1>2
<1>4. i \in Holders
  <2>1. r[1] = ss[i].name /\ r[2] = o
    BY <1>3
  <2> QED BY <1>3, <2>1
<1>5. Holders \in SUBSET (0..Len(ss))
  BY <1>0
<1>6. buildOutputIndex(ss)[r] = ss[Max(Holders)].outputs[r[2]]
  BY <1>1, Zenon DEF buildOutputIndex
<1> HIDE DEF Holders
<1>7. Max(Holders) \in Holders
  BY <1>0, <1>4, <1>5, Greatest
<1>8. Max(Holders) \in 1..Len(ss) /\ r[2] \in DOMAIN ss[Max(Holders)].outputs
  BY <1>7 DEF Holders
<1>9. IsText(ss[Max(Holders)].outputs[r[2]])
  BY <1>8, TextAssumption
<1> QED BY <1>6, <1>9 DEF IsText

\* A text has finitely many references.
LEMMA SpansFinite ==
    ASSUME NEW v, IsText(v), NEW S \in SUBSET Spans(v)
    PROVE  IsFiniteSet(S) /\ Cardinality(S) \in Nat
PROOF
<1>1. Len(v) \in Nat
  BY DEF IsText
<1>2. IsFiniteSet(1..Len(v))
  BY <1>1, FS_Interval
<1>3. IsFiniteSet((1..Len(v)) \X (1..Len(v)))
  BY <1>2, FS_Product
<1>4. S \in SUBSET ((1..Len(v)) \X (1..Len(v)))
  BY DEF Spans
<1> QED BY <1>3, <1>4, FS_Subset, FS_CardinalityType

\* How many of the references S begin before s.
Rank(s, S) == Cardinality({y \in S : y[1] < s[1]})

\* References of one rank are the same.
LEMMA RankUnique ==
    ASSUME NEW v, IsText(v), NEW S \in SUBSET Spans(v), NEW s \in S, NEW t \in S,
           Rank(s, S) = Rank(t, S)
    PROVE  s = t
PROOF
<1>1. ASSUME NEW a \in S, NEW b \in S, Rank(a, S) = Rank(b, S) PROVE ~(a[1] < b[1])
  <2> SUFFICES ASSUME a[1] < b[1] PROVE FALSE
    OBVIOUS
  <2> DEFINE A == {y \in S : y[1] < a[1]}
             B == {y \in S : y[1] < b[1]}
  <2>0. \A y \in S : y[1] \in Int
    BY SpanFacts
  <2>1. A \in SUBSET B
    BY <2>0
  <2>2. a \in B /\ a \notin A
    BY <2>0
  <2>3. Cardinality(B) = Cardinality(A)
    BY <1>1, Zenon DEF Rank
  <2>4. B \in SUBSET Spans(v)
    OBVIOUS
  <2> HIDE DEF A, B
  <2>5. IsFiniteSet(B)
    BY <2>4, SpansFinite
  <2>6. A = B
    BY <2>1, <2>3, <2>5, FS_Subset
  <2> QED BY <2>2, <2>6
<1>2. s[1] \in Int /\ t[1] \in Int
  BY SpanFacts
<1>3. s[1] = t[1]
  BY <1>1, <1>2
<1> QED BY <1>3, SpansApart

\* The references without an output, up to position p, are noted in order.
Passed(v, index, p) == {s \in Unresolved(v, index) : s[2] < p}
Noted(v, index, p, noted) ==
    /\ Len(noted) = Cardinality(Passed(v, index, p))
    /\ \A n \in 1..Len(noted) : \E s \in Unresolved(v, index) :
           /\ Rank(s, Unresolved(v, index)) = n - 1
           /\ noted[n] = Reference(v, s[1], s[2])

\* No reference lies across p, and the text is the one up to p.
Between(v, p) == p \in 1..(Len(v) + 1) /\ \A s \in Spans(v) : s[2] < p \/ p <= s[1]
ScannedTo(v, index, p, noted, text) ==
    /\ Between(v, p)
    /\ Noted(v, index, p, noted)
    /\ noted = <<>> => text = Prefix(v, index, p - 1)

\* At the beginning nothing is noted and nothing is built.
LEMMA ScanBegins ==
    ASSUME NEW v, IsText(v), NEW index
    PROVE  ScannedTo(v, index, 1, <<>>, <<>>)
PROOF
<1>0. Len(v) \in Nat
  BY DEF IsText
<1>1. \A s \in Spans(v) : s[1] >= 1 /\ ~(s[2] < 1)
  BY SpanFacts
<1>2. Between(v, 1)
  BY <1>0, <1>1, SpanFacts DEF Between
<1>3. Passed(v, index, 1) = {}
  BY <1>1 DEF Passed, Unresolved
<1>4. Noted(v, index, 1, <<>>)
  <2>1. Len(<<>>) = 0
    OBVIOUS
  <2> QED BY <1>3, <2>1, FS_EmptySet DEF Noted
<1>5. <<>> = Prefix(v, index, 1 - 1)
  BY DEF Prefix
<1> QED BY <1>2, <1>4, <1>5 DEF ScannedTo

\* A token at which no reference begins is copied.
LEMMA ScanLiteral ==
    ASSUME NEW v, IsText(v), NEW index, NEW p, NEW noted, NEW text \in Seq(Token),
           ScannedTo(v, index, p, noted, text), p <= Len(v), Ends(v, p) = {}
    PROVE  ScannedTo(v, index, p + 1, noted, Append(text, v[p]))
PROOF
<1>0. Len(v) \in Nat /\ p \in 1..Len(v) /\ Between(v, p)
  BY DEF ScannedTo, Between, IsText
<1>1. \A s \in Spans(v) : s[2] < p \/ p < s[1]
  <2> SUFFICES ASSUME NEW s \in Spans(v), s[1] = p PROVE FALSE
    BY <1>0, SpanFacts DEF Between
  <2>1. s[2] \in p..Len(v) /\ templatePattern(v, p, s[2])
    BY SpanFacts
  <2> QED BY <2>1 DEF Ends
<1>2. Between(v, p + 1)
  BY <1>0, <1>1, SpanFacts DEF Between
<1>3. Passed(v, index, p + 1) = Passed(v, index, p)
  <2>1. \A s \in Unresolved(v, index) : s[2] < p + 1 <=> s[2] < p
    BY <1>0, <1>1, SpanFacts DEF Unresolved
  <2> QED BY <2>1 DEF Passed
<1>4. Noted(v, index, p + 1, noted)
  BY <1>3 DEF ScannedTo, Noted
<1>5. ASSUME noted = <<>> PROVE Append(text, v[p]) = Prefix(v, index, p)
  BY <1>0, <1>1, <1>5, PrefixLiteral DEF ScannedTo
<1>6. (p + 1) - 1 = p
  BY <1>0
<1> QED BY <1>2, <1>4, <1>5, <1>6 DEF ScannedTo

\* Past a reference, it is the only one that is new.
LEMMA ScanPasses ==
    ASSUME NEW v, IsText(v), NEW p, Between(v, p), NEW j \in Ends(v, p), NEW index
    PROVE  /\ p \in 1..Len(v) /\ j \in 1..Len(v) /\ <<p, j>> \in Spans(v)
           /\ Between(v, j + 1)
           /\ Passed(v, index, j + 1) =
                Passed(v, index, p) \union {s \in Unresolved(v, index) : s = <<p, j>>}
           /\ <<p, j>> \notin Passed(v, index, p)
           /\ Passed(v, index, p) = {s \in Unresolved(v, index) : s[1] < p}
PROOF
<1>0. Len(v) \in Nat /\ p \in Int /\ 1 <= p
  BY DEF Between, IsText
<1>1. p \in 1..Len(v) /\ j \in 1..Len(v) /\ templatePattern(v, p, j)
  BY <1>0 DEF Ends
<1>2. <<p, j>> \in Spans(v)
  BY <1>1 DEF Spans
<1>3. PICK t \in Spans(v) : t = <<p, j>>
  BY <1>2
<1>4. t[1] = p /\ t[2] = j /\ p < j
  BY <1>3, SpanFacts
<1>5. \A s \in Spans(v) : /\ s[1] \in Int /\ s[2] \in Int /\ s[1] < s[2]
                          /\ s[1] = p => s = t
                          /\ p < s[1] => j < s[1]
                          /\ s[2] < p \/ p <= s[1]
  BY <1>4, SpanFacts, SpansApart DEF Between
<1>6. \A s \in Spans(v) : /\ s[2] < j + 1 \/ j + 1 <= s[1]
                          /\ s[2] < j + 1 <=> s[2] < p \/ s = t
                          /\ s[2] < p <=> s[1] < p
  BY <1>1, <1>4, <1>5
<1>7. Between(v, j + 1)
  BY <1>0, <1>1, <1>6 DEF Between
<1>8. Unresolved(v, index) \subseteq Spans(v)
  BY DEF Unresolved
<1>9. /\ Passed(v, index, j + 1) =
           Passed(v, index, p) \union {s \in Unresolved(v, index) : s = t}
      /\ Passed(v, index, p) = {s \in Unresolved(v, index) : s[1] < p}
      /\ t \notin Passed(v, index, p)
  BY <1>1, <1>4, <1>6, <1>8 DEF Passed
<1> QED BY <1>1, <1>2, <1>3, <1>7, <1>9

\* A reference with an output is replaced by it.
LEMMA ScanFound ==
    ASSUME NEW v, IsText(v), NEW index, NEW p, NEW noted, NEW text \in Seq(Token),
           ScannedTo(v, index, p, noted, text), NEW j \in Ends(v, p),
           Reference(v, p, j) \in DOMAIN index, index[Reference(v, p, j)] \in Seq(Token)
    PROVE  ScannedTo(v, index, j + 1, noted, text \o index[Reference(v, p, j)])
PROOF
<1>1. /\ p \in 1..Len(v) /\ j \in 1..Len(v) /\ <<p, j>> \in Spans(v) /\ Between(v, j + 1)
      /\ Passed(v, index, j + 1) =
           Passed(v, index, p) \union {s \in Unresolved(v, index) : s = <<p, j>>}
  BY ScanPasses DEF ScannedTo
<1>2. {s \in Unresolved(v, index) : s = <<p, j>>} = {}
  BY DEF Unresolved
<1>3. Noted(v, index, j + 1, noted)
  BY <1>1, <1>2 DEF ScannedTo, Noted
<1>4. ASSUME noted = <<>>
      PROVE  text \o index[Reference(v, p, j)] = Prefix(v, index, j)
  BY <1>1, <1>4, PrefixMatch DEF ScannedTo
<1>5. (j + 1) - 1 = j
  BY <1>1
<1> QED BY <1>1, <1>3, <1>4, <1>5 DEF ScannedTo

\* A reference without an output is noted after those before it.
LEMMA ScanMissing ==
    ASSUME NEW v, IsText(v), NEW index, NEW p, NEW noted \in Seq(STRING \X STRING), NEW text,
           NEW more, ScannedTo(v, index, p, noted, text), NEW j \in Ends(v, p),
           Reference(v, p, j) \notin DOMAIN index
    PROVE  /\ ScannedTo(v, index, j + 1, Append(noted, Reference(v, p, j)), more)
           /\ Append(noted, Reference(v, p, j)) \in Seq(STRING \X STRING)
PROOF
<1> DEFINE bad == Unresolved(v, index)
           r   == Reference(v, p, j)
           longer == Append(noted, r)
<1>1. /\ p \in 1..Len(v) /\ j \in 1..Len(v) /\ <<p, j>> \in Spans(v) /\ Between(v, j + 1)
      /\ Passed(v, index, j + 1) = Passed(v, index, p) \union {s \in bad : s = <<p, j>>}
      /\ <<p, j>> \notin Passed(v, index, p)
      /\ Passed(v, index, p) = {s \in bad : s[1] < p}
  BY ScanPasses DEF ScannedTo
<1>2. PICK t \in bad : t = <<p, j>>
  BY <1>1 DEF Unresolved
<1>3. t[1] = p /\ t[2] = j
  BY <1>2
<1>4. r \in STRING \X STRING
  <2>1. templatePattern(v, p, j)
    BY <1>1 DEF Spans
  <2> QED BY <1>1, <2>1, ReferenceType
<1>5. Passed(v, index, j + 1) = Passed(v, index, p) \union {t}
  BY <1>1, <1>2
<1>6. Cardinality(Passed(v, index, j + 1)) = Cardinality(Passed(v, index, p)) + 1
  <2>1. Passed(v, index, p) \in SUBSET Spans(v)
    BY DEF Passed, Unresolved
  <2>2. IsFiniteSet(Passed(v, index, p))
    BY <2>1, SpansFinite
  <2> QED BY <1>1, <1>2, <1>5, <2>2, FS_AddElement
<1>7. Rank(t, bad) = Len(noted)
  BY <1>1, <1>3 DEF Rank, ScannedTo, Noted
<1> HIDE DEF r
<1>8. /\ longer \in Seq(STRING \X STRING) /\ Len(longer) = Len(noted) + 1
      /\ Len(noted) \in Nat
      /\ longer[Len(noted) + 1] = r /\ \A n \in 1..Len(noted) : longer[n] = noted[n]
  BY <1>4
<1> HIDE DEF longer, bad
<1>9. ASSUME NEW n \in 1..Len(longer)
      PROVE  \E s \in bad : Rank(s, bad) = n - 1 /\ longer[n] = Reference(v, s[1], s[2])
  <2>1. CASE n = Len(noted) + 1
    <3>1. Rank(t, bad) = n - 1
      BY <1>7, <1>8, <2>1
    <3>2. longer[n] = Reference(v, t[1], t[2])
      BY <1>3, <1>8, <2>1 DEF r
    <3> QED BY <3>1, <3>2
  <2>2. CASE n # Len(noted) + 1
    <3>1. n \in 1..Len(noted)
      BY <1>8, <2>2
    <3>2. PICK s \in bad : Rank(s, bad) = n - 1 /\ noted[n] = Reference(v, s[1], s[2])
      BY <3>1 DEF ScannedTo, Noted, bad
    <3> QED BY <1>8, <3>1, <3>2
  <2> QED BY <2>1, <2>2
<1>10. Noted(v, index, j + 1, longer)
  BY <1>6, <1>8, <1>9 DEF ScannedTo, Noted, bad
<1>11. longer # <<>>
  BY <1>8
<1>12. ScannedTo(v, index, j + 1, longer, more)
  BY <1>1, <1>10, <1>11 DEF ScannedTo
<1> QED BY <1>8, <1>12 DEF longer, r

\* The references noted are those without an output, in their order.
InOrder(v, index, noted) ==
    LET bad == Unresolved(v, index)
    IN  noted = [n \in 1..Len(noted) |->
                    LET s == CHOOSE x \in bad :
                                 Cardinality({y \in bad : y[1] < x[1]}) = n - 1
                    IN  Reference(v, s[1], s[2])]

\* At the end of the value all its references have been met.
LEMMA ScanEnds ==
    ASSUME NEW v, IsText(v), NEW index, NEW p, NEW noted \in Seq(STRING \X STRING), NEW text,
           ScannedTo(v, index, p, noted, text), p > Len(v)
    PROVE  /\ noted = <<>> => /\ Unresolved(v, index) = {}
                              /\ text = Expansion(v, index)
           /\ noted # <<>> => Unresolved(v, index) # {}
           /\ Len(noted) = Cardinality(Unresolved(v, index))
           /\ InOrder(v, index, noted)
PROOF
<1> DEFINE bad == Unresolved(v, index)
<1>0. Len(v) \in Nat /\ p = Len(v) + 1
  BY DEF ScannedTo, Between, IsText
<1>1. bad \in SUBSET Spans(v)
  BY DEF Unresolved
<1>2. Passed(v, index, p) = bad
  BY <1>0, <1>1, SpanFacts DEF Passed
<1>3. Len(noted) = Cardinality(bad) /\ IsFiniteSet(bad)
  BY <1>1, <1>2, SpansFinite DEF ScannedTo, Noted
<1>4. noted = <<>> <=> bad = {}
  <2>1. noted = <<>> <=> Len(noted) = 0
    OBVIOUS
  <2> HIDE DEF bad
  <2> QED BY <1>3, <2>1, FS_EmptySet
<1>5. noted = <<>> => text = Expansion(v, index)
  <2>1. p - 1 = Len(v)
    BY <1>0
  <2> QED BY <2>1, PrefixAll DEF ScannedTo
<1> DEFINE S(n) == CHOOSE x \in bad : Cardinality({y \in bad : y[1] < x[1]}) = n - 1
<1>6. ASSUME NEW n \in 1..Len(noted) PROVE noted[n] = Reference(v, S(n)[1], S(n)[2])
  <2>1. PICK s \in bad : Rank(s, bad) = n - 1 /\ noted[n] = Reference(v, s[1], s[2])
    BY DEF ScannedTo, Noted
  <2>2. S(n) \in bad /\ Rank(S(n), bad) = n - 1
    <3>1. \E x \in bad : Cardinality({y \in bad : y[1] < x[1]}) = n - 1
      BY <2>1, Zenon DEF Rank
    <3> HIDE DEF bad
    <3> QED BY <3>1, Zenon DEF Rank
  <2> HIDE DEF S, bad
  <2>3. S(n) = s
    BY <1>1, <2>1, <2>2, RankUnique
  <2> QED BY <2>1, <2>3
<1> HIDE DEF S
<1>7. noted = [n \in 1..Len(noted) |-> Reference(v, S(n)[1], S(n)[2])]
  <2>1. DOMAIN noted = 1..Len(noted) /\ noted = [n \in DOMAIN noted |-> noted[n]]
    OBVIOUS
  <2> QED BY <1>6, <2>1, Zenon
<1>8. InOrder(v, index, noted)
  BY <1>7, Zenon DEF InOrder, S
<1> QED BY <1>3, <1>4, <1>5, <1>8

-----------------------------------------------------------------------------
(* ResolveTemplates.                                                       *)

\* The index ResolveTemplates builds first.
Outputs == buildOutputIndex(statuses)

\* The types, with those of the inputs and of what is noted.
Types ==
    /\ TypeOK
    /\ params \in Inputs /\ statuses \in Statuses
    /\ missing \in Seq(STRING \X STRING)
    /\ \A a, b \in key : a = b

\* The value at hand is scanned up to pos.
AtValue == key # {} => ScannedTo(Value, Outputs, pos, missing, result)

\* What has been resolved is complete.
Complete == \A k \in DOMAIN resolved : /\ Unresolved(params[k], Outputs) = {}
                                       /\ resolved[k] = Expansion(params[k], Outputs)

\* Success is returned when nothing is left, an error at the end of a value
\* with a missing reference.
Returned == /\ answer = "ok" => todo = {}
            /\ answer = "error" => key # {} /\ pos > Len(Value) /\ missing # <<>>

ScanInv == Types /\ AtValue /\ Complete /\ Returned

\* The value at hand is text.
LEMMA ValueText ==
    ASSUME Types, key # {}
    PROVE  Key \in key /\ key = {Key} /\ Key \in DOMAIN params /\ IsText(Value)
PROOF
<1>1. Key \in key
  BY DEF Key
<1>2. key = {Key} /\ Key \in DOMAIN params
  BY <1>1 DEF Types, TypeOK
<1> QED BY <1>1, <1>2 DEF Value, Types, TypeOK

\* The invariant holds at the beginning.
LEMMA ScanInit == Init => ScanInv
PROOF
<1> SUFFICES ASSUME Init PROVE ScanInv
  OBVIOUS
<1>1. \A k \in DOMAIN params : IsText(params[k])
  BY TextAssumption DEF Init
<1>2. DOMAIN resolved = {} /\ IsText(result)
  <2>1. <<>> \in Seq(Token) /\ Len(<<>>) = 0
    BY EmptySeq
  <2>2. DOMAIN <<>> = {}
    BY <2>1, LenProperties
  <2>3. resolved = <<>> /\ result = <<>>
    BY DEF Init
  <2> QED BY <2>1, <2>2, <2>3, Zenon DEF IsText
<1>3. missing \in Seq(STRING \X STRING)
  BY EmptySeq DEF Init
<1>4. Types
  BY <1>1, <1>2, <1>3 DEF Init, Types, TypeOK
<1> QED BY <1>2, <1>4 DEF Init, ScanInv, AtValue, Complete, Returned

\* A step of the scan keeps everything but the position and the text.
LEMMA ScanStep ==
    ASSUME ScanInv, key # {}, answer = "",
           UNCHANGED <<params, statuses, todo, key, resolved, answer>>,
           pos' \in Nat, IsText(result'), missing' \in Seq(STRING \X STRING),
           ScannedTo(Value, Outputs, pos', missing', result')
    PROVE  ScanInv'
PROOF
<1>1. Value' = Value /\ Outputs' = Outputs
  BY DEF Value, Key, Outputs
<1>2. Types'
  BY DEF ScanInv, Types, TypeOK
<1>3. AtValue'
  BY <1>1 DEF AtValue
<1>4. Complete'
  <2>1. Complete
    BY DEF ScanInv
  <2> QED BY <1>1, <2>1 DEF Complete
<1>5. Returned'
  BY DEF Returned
<1> QED BY <1>2, <1>3, <1>4, <1>5 DEF ScanInv

\* Every step of the loop preserves it.
LEMMA ScanNext == ScanInv /\ [Next]_vars => ScanInv'
PROOF
<1> SUFFICES ASSUME ScanInv, [Next]_vars PROVE ScanInv'
  OBVIOUS
<1>0. Types /\ AtValue /\ Complete /\ Returned /\ TypeOK
  BY DEF ScanInv, Types
<1>1. CASE NextParam
  <2>1. PICK k \in todo : key' = {k}
    BY <1>1 DEF NextParam
  <2>2. /\ params' = params /\ statuses' = statuses /\ todo' = todo /\ resolved' = resolved
        /\ answer' = "" /\ pos' = 1 /\ result' = <<>> /\ missing' = <<>> /\ Outputs' = Outputs
    BY <1>1 DEF NextParam, Outputs
  <2>3. <<>> \in Seq(STRING \X STRING) /\ <<>> \in Seq(Token)
    BY EmptySeq
  <2>4. Types'
    BY <1>0, <2>1, <2>2, <2>3 DEF Types, TypeOK, IsText
  <2>5. k \in DOMAIN params /\ Value' = params[k]
    BY <1>0, <2>1, <2>2 DEF TypeOK, Value, Key
  <2>6. IsText(params[k])
    BY <1>0, <2>5 DEF TypeOK
  <2>7. AtValue'
    BY <2>2, <2>5, <2>6, ScanBegins DEF AtValue
  <2>8. Complete' /\ Returned'
    BY <1>0, <2>2 DEF Complete, Returned
  <2> QED BY <2>4, <2>7, <2>8 DEF ScanInv
<1>2. CASE Literal
  <2>1. /\ key # {} /\ answer = "" /\ pos <= Len(Value) /\ Ends(Value, pos) = {}
        /\ UNCHANGED <<params, statuses, todo, key, resolved, answer>>
    BY <1>2 DEF Literal, Scanning
  <2>7. result' = Append(result, Value[pos]) /\ pos' = pos + 1 /\ missing' = missing
    BY <1>2 DEF Literal
  <2>2. IsText(Value) /\ result \in Seq(Token) /\ pos \in Nat
    BY <1>0, <2>1, ValueText DEF TypeOK, IsText
  <2>3. ScannedTo(Value, Outputs, pos, missing, result)
    BY <1>0, <2>1 DEF AtValue
  <2>4. ScannedTo(Value, Outputs, pos', missing', result')
    BY <2>1, <2>2, <2>3, <2>7, ScanLiteral
  <2>5. IsText(result')
    <3>1. pos \in 1..Len(Value)
      <4>1. Len(Value) \in Nat
        BY <2>2 DEF IsText
      <4>2. pos \in 1..(Len(Value) + 1)
        BY <2>3 DEF ScannedTo, Between
      <4>3. pos <= Len(Value)
        BY <2>1
      <4> QED BY <4>1, <4>2, <4>3
    <3>2. Value[pos] \in Token
      BY <2>2, <3>1 DEF IsText
    <3> QED BY <2>2, <2>7, <3>2 DEF IsText
  <2>6. missing' \in Seq(STRING \X STRING) /\ pos' \in Nat
    BY <1>0, <2>2, <2>7 DEF Types
  <2> QED BY <2>1, <2>4, <2>5, <2>6, ScanStep
<1>3. CASE Match
  <2>1. /\ key # {} /\ answer = "" /\ pos <= Len(Value)
        /\ UNCHANGED <<params, statuses, todo, key, resolved, answer>>
    BY <1>3 DEF Match, Scanning
  <2>2. PICK j \in Ends(Value, pos) :
          LET r == Reference(Value, pos, j)
          IN  /\ \/ /\ r \in DOMAIN Outputs
                    /\ result' = result \o Outputs[r]
                    /\ missing' = missing
                 \/ /\ r \notin DOMAIN Outputs
                    /\ result' = result \o SubSeq(Value, pos, j)
                    /\ missing' = Append(missing, r)
              /\ pos' = j + 1
    BY <1>3 DEF Match, Output, Missing, Outputs
  <2>3. /\ IsText(Value) /\ result \in Seq(Token) /\ pos \in Nat
        /\ missing \in Seq(STRING \X STRING)
    BY <1>0, <2>1, ValueText DEF TypeOK, IsText, Types
  <2>4. ScannedTo(Value, Outputs, pos, missing, result)
    BY <1>0, <2>1 DEF AtValue
  <2>5. pos \in 1..Len(Value) /\ j \in 1..Len(Value)
    BY <2>3, <2>4, ScanPasses DEF ScannedTo
  <2>6. CASE Reference(Value, pos, j) \in DOMAIN Outputs
    <3>1. Outputs[Reference(Value, pos, j)] \in Seq(Token)
      BY <1>0, <2>6, OutputText DEF Outputs, Types
    <3>2. /\ result' = result \o Outputs[Reference(Value, pos, j)] /\ missing' = missing
          /\ pos' = j + 1
      BY <2>2, <2>6
    <3>3. ScannedTo(Value, Outputs, pos', missing', result')
      BY <2>3, <2>4, <2>6, <3>1, <3>2, ScanFound
    <3>4. IsText(result') /\ pos' \in Nat
      BY <2>3, <2>5, <3>1, <3>2, ConcatProperties DEF IsText
    <3> QED BY <2>1, <2>3, <3>2, <3>3, <3>4, ScanStep
  <2>7. CASE Reference(Value, pos, j) \notin DOMAIN Outputs
    <3>1. /\ result' = result \o SubSeq(Value, pos, j)
          /\ missing' = Append(missing, Reference(Value, pos, j)) /\ pos' = j + 1
      BY <2>2, <2>7
    <3>2. /\ ScannedTo(Value, Outputs, pos', missing', result')
          /\ missing' \in Seq(STRING \X STRING)
      BY <2>3, <2>4, <2>7, <3>1, ScanMissing
    <3>3. SubSeq(Value, pos, j) \in Seq(Token)
      BY <2>3, <2>5, SubSeqProperties DEF IsText
    <3>4. IsText(result') /\ pos' \in Nat
      BY <2>3, <2>5, <3>1, <3>3, ConcatProperties DEF IsText
    <3> QED BY <2>1, <3>2, <3>4, ScanStep
  <2> QED BY <2>6, <2>7
<1>4. CASE EndOfValue
  <2>1. /\ key # {} /\ pos > Len(Value) /\ answer = ""
        /\ params' = params /\ statuses' = statuses /\ pos' = pos /\ result' = result
        /\ missing' = missing /\ Outputs' = Outputs
    BY <1>4 DEF EndOfValue, Outputs
  <2>2. ScannedTo(Value, Outputs, pos, missing, result)
    BY <1>0, <2>1 DEF AtValue
  <2>3. CASE missing # <<>>
    <3>1. answer' = "error" /\ todo' = todo /\ key' = key /\ resolved' = resolved
      BY <1>4, <2>3 DEF EndOfValue
    <3>2. Value' = Value
      BY <2>1, <3>1 DEF Value, Key
    <3>3. Types'
      BY <1>0, <2>1, <3>1 DEF Types, TypeOK
    <3>4. AtValue' /\ Returned'
      BY <2>1, <2>2, <2>3, <3>1, <3>2 DEF AtValue, Returned
    <3>5. Complete'
      BY <1>0, <2>1, <3>1 DEF Complete
    <3> QED BY <3>3, <3>4, <3>5 DEF ScanInv
  <2>4. CASE missing = <<>>
    <3>1. answer' = "" /\ todo' = todo \ key /\ key' = {} /\ resolved' = Resolved
      BY <1>4, <2>1, <2>4 DEF EndOfValue
    <3>2. /\ Key \in key /\ key = {Key} /\ Key \in DOMAIN params /\ IsText(Value)
          /\ missing \in Seq(STRING \X STRING)
      BY <1>0, <2>1, ValueText DEF Types
    <3>3. Unresolved(Value, Outputs) = {} /\ result = Expansion(Value, Outputs)
      BY <2>1, <2>2, <2>4, <3>2, ScanEnds
    <3>4. /\ DOMAIN resolved' = DOMAIN resolved \union {Key}
          /\ resolved'[Key] = result
          /\ \A k \in DOMAIN resolved \ {Key} : resolved'[k] = resolved[k]
      BY <3>1, <3>2 DEF Resolved
    <3>5. Types'
      BY <1>0, <2>1, <3>1, <3>2, <3>4 DEF Types, TypeOK
    <3>6. Complete'
      <4> SUFFICES ASSUME NEW k \in DOMAIN resolved'
                   PROVE  /\ Unresolved(params[k], Outputs) = {}
                          /\ resolved'[k] = Expansion(params[k], Outputs)
        BY <2>1 DEF Complete
      <4>1. CASE k = Key
        BY <3>3, <3>4, <4>1 DEF Value
      <4>2. CASE k # Key
        BY <1>0, <3>4, <4>2 DEF Complete
      <4> QED BY <4>1, <4>2
    <3>7. AtValue' /\ Returned'
      BY <3>1 DEF AtValue, Returned
    <3> QED BY <3>5, <3>6, <3>7 DEF ScanInv
  <2> QED BY <2>3, <2>4
<1>5. CASE ReturnResolved
  <2>1. /\ UNCHANGED <<params, statuses, todo, key, pos, result, missing, resolved>>
        /\ answer' = "ok" /\ todo = {} /\ key = {} /\ Outputs' = Outputs
    BY <1>5 DEF ReturnResolved, Outputs
  <2>2. Types'
    BY <1>0, <2>1 DEF Types, TypeOK
  <2>3. AtValue' /\ Returned'
    BY <2>1 DEF AtValue, Returned
  <2>4. Complete'
    BY <1>0, <2>1 DEF Complete
  <2> QED BY <2>2, <2>3, <2>4 DEF ScanInv
<1>6. CASE UNCHANGED vars
  <2>1. /\ UNCHANGED <<params, statuses, todo, key, pos, result, missing, resolved, answer>>
        /\ Outputs' = Outputs /\ Value' = Value
    BY <1>6 DEF vars, Outputs, Value, Key
  <2>2. Types'
    BY <1>0, <2>1 DEF Types, TypeOK
  <2>3. AtValue' /\ Returned'
    BY <1>0, <2>1 DEF AtValue, Returned
  <2>4. Complete'
    BY <1>0, <2>1 DEF Complete
  <2> QED BY <2>2, <2>3, <2>4 DEF ScanInv
<1> QED BY <1>1, <1>2, <1>3, <1>4, <1>5, <1>6 DEF Next

\* The invariant holds throughout.
LEMMA ScanInductive == Spec => []ScanInv
PROOF
BY ScanInit, ScanNext, PTL DEF Spec

\* The engine's variables keep their types: what it builds is text.
THEOREM EngineTypeCorrect == Spec => []TypeOK
PROOF
<1>1. ScanInv => TypeOK
  BY DEF ScanInv, Types
<1> QED BY <1>1, ScanInductive, PTL

\* For all texts and outputs: params that are returned without an error have
\* every reference replaced, once, and all other text kept.
THEOREM Replacement == Spec => []Substituted
PROOF
<1>1. ScanInv => Substituted
  <2> SUFFICES ASSUME ScanInv, answer = "ok", NEW k \in DOMAIN params
               PROVE  /\ Unresolved(params[k], Outputs) = {}
                      /\ resolved[k] = Expansion(params[k], Outputs)
    BY DEF Substituted, Outputs
  <2>1. k \in DOMAIN resolved
    BY DEF ScanInv, Returned, Types, TypeOK
  <2> QED BY <2>1 DEF ScanInv, Complete
<1> QED BY <1>1, ScanInductive, PTL

\* For all texts and outputs: an error names every reference of the param at
\* fault that has no output, in the order of the text.
THEOREM Reporting == Spec => []MissingReported
PROOF
<1>1. ScanInv => MissingReported
  <2> SUFFICES ASSUME ScanInv, answer = "error"
               PROVE  LET bad == Unresolved(Value, Outputs)
                      IN  /\ bad # {}
                          /\ missing = [n \in 1..Len(missing) |->
                                LET s == CHOOSE x \in bad :
                                             Cardinality({y \in bad : y[1] < x[1]}) = n - 1
                                IN  Reference(Value, s[1], s[2])]
                          /\ Len(missing) = Cardinality(bad)
    BY Zenon DEF MissingReported, Outputs
  <2>1. key # {} /\ pos > Len(Value) /\ missing # <<>>
    BY DEF ScanInv, Returned
  <2>2. /\ IsText(Value) /\ missing \in Seq(STRING \X STRING)
        /\ ScannedTo(Value, Outputs, pos, missing, result)
    BY <2>1, ValueText DEF ScanInv, Types, AtValue
  <2>3. /\ Unresolved(Value, Outputs) # {}
        /\ Len(missing) = Cardinality(Unresolved(Value, Outputs))
        /\ InOrder(Value, Outputs, missing)
    BY <2>1, <2>2, ScanEnds
  <2> QED BY <2>3, Zenon DEF InOrder
<1> QED BY <1>1, ScanInductive, PTL
=============================================================================
