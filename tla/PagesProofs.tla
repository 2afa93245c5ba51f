---------------------------- MODULE PagesProofs ----------------------------
(***************************************************************************)
(* What holds of a wiki page for any schema, any numbers of lines,         *)
(* sections, writes and edits, and any answers of a model: its text parses *)
(* back to the page that was meant, what a human wrote outside the fences  *)
(* stays, and its items keep their identity under revision.                *)
(*                                                                         *)
(* The text of a page is laid out as its preamble and then each header     *)
(* with its body (LaidOut); the headers' places increase, and are all the  *)
(* places where a header stands, so that a parse finds just these          *)
(* (DumpParses, and ReadingKeeps the other way round). Every edit leaves a *)
(* page of that kind (Edited).                                             *)
(***************************************************************************)
EXTENDS Pages, Revision, SequenceTheorems, FiniteSetTheorems, WellFoundedInduction, TLAPS


-----------------------------------------------------------------------------
(* Counting: numbers up to a bound, their least, and the i-th of them.     *)

\* What holds of 0 and goes on to the next number holds up to n.
LEMMA UpTo ==
    ASSUME NEW n \in Nat, NEW S, 0 \in S, \A m \in 0..(n - 1) : m \in S => m + 1 \in S
    PROVE  0..n \subseteq S
<1> SUFFICES ASSUME ~(0..n \subseteq S) PROVE FALSE
  OBVIOUS
<1> DEFINE bad == (0..n) \ S
<1>1. bad \subseteq Nat /\ bad # {}
  OBVIOUS
<1>2. PICK k \in bad : \A j \in bad : ~(<<j, k>> \in OpToRel(<, Nat))
  BY <1>1, NatLessThanWellFounded, WFMin
<1>3. k # 0 /\ k - 1 \in 0..n /\ k - 1 < k
  BY <1>1
<1>4. k - 1 \notin bad
  BY <1>1, <1>2, <1>3 DEF OpToRel
<1>5. k - 1 \in S /\ k - 1 \in 0..(n - 1)
  BY <1>3, <1>4
<1>6. (k - 1) + 1 \in S
  BY <1>5
<1>7. (k - 1) + 1 = k
  BY <1>3
<1> QED BY <1>6, <1>7

LEMMA LeastIs ==
    ASSUME NEW S, S \subseteq Nat, S # {}
    PROVE  Min(S) \in S /\ \A j \in S : Min(S) <= j
<1>1. PICK k \in S : \A j \in S : ~(<<j, k>> \in OpToRel(<, Nat))
  BY NatLessThanWellFounded, WFMin
<1>2. \A j \in S : ~(j < k)
  BY <1>1 DEF OpToRel
<1>3. \A j \in S : k <= j
  BY <1>2
<1> QED BY <1>3 DEF Min

LEMMA MinIs ==
    ASSUME NEW S, S \subseteq Nat, NEW x \in S, \A j \in S : x <= j
    PROVE  Min(S) = x
<1>1. Min(S) \in S /\ \A j \in S : Min(S) <= j
  BY LeastIs
<1>2. Min(S) <= x /\ x <= Min(S) /\ x \in Nat /\ Min(S) \in Nat
  BY <1>1
<1> QED BY <1>2

LEMMA GreatestIs ==
    ASSUME NEW n \in Nat, NEW S, S \subseteq 0..n, S # {}
    PROVE  Max(S) \in S /\ \A j \in S : j <= Max(S)
<1> DEFINE R == {n - x : x \in S}
<1>1. \A x \in S : x \in Nat /\ x <= n /\ n - x \in Nat
  OBVIOUS
<1>2. R \subseteq Nat /\ R # {}
  BY <1>1
<1>3. PICK r \in R : \A j \in R : r <= j
  <2> HIDE DEF R
  <2> QED BY <1>2, LeastIs
<1>4. PICK x \in S : r = n - x
  BY <1>3
<1>5. \A j \in S : j <= x
  <2> SUFFICES ASSUME NEW j \in S PROVE j <= x
    OBVIOUS
  <2>1. r <= n - j
    BY <1>3
  <2> QED BY <1>1, <1>4, <2>1
<1> QED BY <1>5 DEF Max

LEMMA FiniteUpTo ==
    ASSUME NEW n \in Nat, NEW T, T \subseteq 1..n
    PROVE  IsFiniteSet(T) /\ Cardinality(T) \in Nat
<1>1. 1 \in Int /\ n \in Int
  OBVIOUS
<1>2. IsFiniteSet(1..n)
  BY <1>1, FS_Interval
<1>3. T \in SUBSET (1..n)
  OBVIOUS
<1>4. IsFiniteSet(T)
  BY <1>2, <1>3, FS_Subset
<1> QED BY <1>4, FS_CardinalityType

\* How many of S are at most x.
Count(S, x) == Cardinality({y \in S : y <= x})

LEMMA CountIs ==
    ASSUME NEW n \in Nat, NEW S, S \subseteq 1..n
    PROVE  /\ IsFiniteSet(S) /\ Cardinality(S) \in Nat
           /\ \A x \in 0..n : Count(S, x) \in Nat
           /\ Count(S, 0) = 0 /\ Count(S, n) = Cardinality(S)
           /\ \A x \in 1..n : Count(S, x) = Count(S, x - 1) + (IF x \in S THEN 1 ELSE 0)
<1>1. \A y \in S : y \in Nat /\ 1 <= y /\ y <= n
  OBVIOUS
<1>2. \A x \in 0..n : {y \in S : y <= x} \subseteq 1..n
  OBVIOUS
<1>3. {y \in S : y <= 0} = {} /\ {y \in S : y <= n} = S
  <2>1. \A y \in S : ~(y <= 0) /\ y <= n
    BY <1>1
  <2> QED BY <2>1
<1>4. ASSUME NEW x \in 1..n
      PROVE  Count(S, x) = Count(S, x - 1) + (IF x \in S THEN 1 ELSE 0)
  <2> DEFINE A == {y \in S : y <= x - 1}
  <2>1. A \subseteq 1..n /\ x \notin A
    <3>1. x \in Nat /\ ~(x <= x - 1)
      OBVIOUS
    <3> QED BY <3>1
  <2>2. IsFiniteSet(A) /\ Cardinality(A) \in Nat
    BY <2>1, FiniteUpTo
  <2>3. \A y \in S : y <= x <=> (y <= x - 1 \/ y = x)
    BY <1>1
  <2>4. CASE x \in S
    <3>1. {y \in S : y <= x} = A \cup {x}
      BY <2>3, <2>4
    <3>2. Cardinality(A \cup {x}) = Cardinality(A) + 1
      <4> HIDE DEF A
      <4> QED BY <2>1, <2>2, FS_AddElement
    <3> QED BY <2>4, <3>1, <3>2 DEF Count
  <2>5. CASE x \notin S
    <3>1. {y \in S : y <= x} = A
      BY <2>3, <2>5
    <3> QED BY <2>2, <2>5, <3>1 DEF Count
  <2> QED BY <2>4, <2>5
<1>5. \A x \in 0..n : Count(S, x) \in Nat
  BY <1>2, FiniteUpTo DEF Count
<1>6. Count(S, 0) = 0 /\ Count(S, n) = Cardinality(S)
  BY <1>3, FS_EmptySet DEF Count
<1> QED BY <1>4, <1>5, <1>6, FiniteUpTo

LEMMA CountGrows ==
    ASSUME NEW n \in Nat, NEW S, S \subseteq 1..n, NEW x \in 0..n, NEW z \in S, x < z
    PROVE  Count(S, x) < Count(S, z)
<1> DEFINE A == {y \in S : y <= x}
           B == {y \in S : y <= z}
<1>1. \A y \in S : y \in Nat /\ y \in 1..n
  OBVIOUS
<1>2. A \subseteq 1..n /\ B \subseteq 1..n
  OBVIOUS
<1>3. A \cup {z} \subseteq B /\ z \notin A
  <2>1. x \in Nat /\ z <= z /\ ~(z <= x)
    BY <1>1
  <2>2. \A y \in S : y <= x => y <= z
    BY <1>1, <2>1
  <2> QED BY <2>1, <2>2
<1> HIDE DEF A, B
<1>4. IsFiniteSet(A) /\ IsFiniteSet(B) /\ Cardinality(A) \in Nat /\ Cardinality(B) \in Nat
  BY <1>2, FiniteUpTo
<1>5. Cardinality(A \cup {z}) = Cardinality(A) + 1
  BY <1>3, <1>4, FS_AddElement
<1>6. Cardinality(A \cup {z}) <= Cardinality(B)
  BY <1>3, <1>4, FS_Subset
<1>7. Cardinality(A) < Cardinality(B)
  BY <1>4, <1>5, <1>6
<1> QED BY <1>7 DEF Count, A, B

LEMMA NthOf ==
    ASSUME NEW n \in Nat, NEW S, S \subseteq 1..n, NEW x \in S
    PROVE  Nth(S, Count(S, x)) = x /\ Count(S, x) \in 1..Cardinality(S)
<1>1. /\ \A z \in S : z \in 1..n /\ z \in 0..n /\ Count(S, z) \in Nat
      /\ 0 \in 0..n /\ 0 < x /\ n \in 0..n /\ x <= n
  <2>1. \A z \in S : z \in 1..n /\ z \in 0..n
    OBVIOUS
  <2>2. 0 \in 0..n /\ 0 < x /\ n \in 0..n /\ x <= n
    BY <2>1
  <2>3. \A z \in 0..n : Count(S, z) \in Nat
    BY CountIs
  <2> QED BY <2>1, <2>2, <2>3
<1>2. \A z \in S : Count(S, z) = Count(S, x) => z = x
  <2> SUFFICES ASSUME NEW z \in S, z # x PROVE Count(S, z) # Count(S, x)
    OBVIOUS
  <2>1. z < x \/ x < z
    BY <1>1
  <2>2. Count(S, z) < Count(S, x) \/ Count(S, x) < Count(S, z)
    BY <1>1, <2>1, CountGrows
  <2> QED BY <1>1, <2>2
<1>3. Nth(S, Count(S, x)) = x
  BY <1>2 DEF Nth, Count
<1>4. Count(S, 0) < Count(S, x)
  BY <1>1, CountGrows
<1>5. Count(S, x) <= Cardinality(S)
  <2>1. {y \in S : y <= x} \in SUBSET S
    OBVIOUS
  <2> QED BY <2>1, FiniteUpTo, FS_Subset DEF Count
<1>6. Count(S, 0) = 0 /\ Cardinality(S) \in Nat
  BY CountIs
<1> QED BY <1>1, <1>3, <1>4, <1>5, <1>6

LEMMA NthIs ==
    ASSUME NEW n \in Nat, NEW S, S \subseteq 1..n, NEW i \in 1..Cardinality(S)
    PROVE  Nth(S, i) \in S /\ Count(S, Nth(S, i)) = i
<1>1. /\ Cardinality(S) \in Nat /\ Count(S, 0) = 0 /\ Count(S, n) = Cardinality(S)
      /\ \A x \in 0..n : Count(S, x) \in Nat
      /\ \A x \in 1..n : Count(S, x) = Count(S, x - 1) + (IF x \in S THEN 1 ELSE 0)
  BY CountIs
<1>2. i \in Nat /\ 1 <= i /\ i <= Cardinality(S)
  BY <1>1
<1> DEFINE far == {x \in 0..n : Count(S, x) >= i}
<1>3. n \in far /\ far \subseteq Nat
  BY <1>1, <1>2
<1>4. PICK x \in far : \A z \in far : x <= z
  <2> HIDE DEF far
  <2>1. far # {}
    BY <1>3
  <2> QED BY <1>3, <2>1, LeastIs
<1>5. x \in 1..n /\ x \in 0..n /\ x - 1 \in 0..n
  <2>1. x \in 0..n /\ Count(S, x) >= i
    BY <1>4
  <2>2. x # 0
    BY <1>1, <1>2, <2>1
  <2> QED BY <2>1, <2>2
<1>6. Count(S, x - 1) < i
  <2>1. x - 1 \notin far
    BY <1>4, <1>5
  <2>2. Count(S, x - 1) \in Nat
    BY <1>1, <1>5
  <2> QED BY <1>2, <1>5, <2>1, <2>2
<1>7. Count(S, x) >= i
  BY <1>4
<1>8. Count(S, x) = Count(S, x - 1) + (IF x \in S THEN 1 ELSE 0)
  BY <1>1, <1>5
<1>9. Count(S, x - 1) \in Nat
  BY <1>1, <1>5
<1>10. x \in S /\ Count(S, x) = i
  BY <1>2, <1>6, <1>7, <1>8, <1>9
<1>11. Nth(S, Count(S, x)) = x
  BY <1>10, NthOf
<1> QED BY <1>10, <1>11

\* The images of an increasing function, in order.
LEMMA Enumerated ==
    ASSUME NEW n \in Nat, NEW g \in [1..n -> Nat \ {0}],
           \A i, j \in 1..n : i < j => g[i] < g[j]
    PROVE  LET S == {g[i] : i \in 1..n} IN
           Cardinality(S) = n /\ \A i \in 1..n : Nth(S, i) = g[i]
<1> DEFINE A(m) == {g[i] : i \in 1..m}
           S == A(n)
           good == {m \in 0..n : IsFiniteSet(A(m)) /\ Cardinality(A(m)) = m}
<1>1. 0 \in good
  <2>1. A(0) = {}
    OBVIOUS
  <2>2. 0 \in 0..n
    OBVIOUS
  <2> HIDE DEF A
  <2> QED BY <2>1, <2>2, FS_EmptySet
<1>2. ASSUME NEW m \in 0..(n - 1), m \in good PROVE m + 1 \in good
  <2>1. m + 1 \in 1..n /\ m + 1 \in 0..n
    OBVIOUS
  <2>2. A(m + 1) = A(m) \cup {g[m + 1]}
    <3>1. 1..(m + 1) = 1..m \cup {m + 1}
      OBVIOUS
    <3> QED BY <3>1
  <2>3. g[m + 1] \notin A(m)
    <3>1. \A i \in 1..m : i \in 1..n /\ i < m + 1 /\ g[i] < g[m + 1] /\ g[i] \in Nat /\ g[m + 1] \in Nat
      BY <2>1
    <3>2. \A i \in 1..m : g[i] # g[m + 1]
      BY <3>1
    <3> QED BY <3>2
  <2>4. IsFiniteSet(A(m)) /\ Cardinality(A(m)) = m
    BY <1>2
  <2> HIDE DEF A
  <2>5. IsFiniteSet(A(m + 1)) /\ Cardinality(A(m + 1)) = m + 1
    BY <2>2, <2>3, <2>4, FS_AddElement
  <2> QED BY <2>1, <2>5
<1>3. 0..n \subseteq good
  <2> HIDE DEF good
  <2> QED BY <1>1, <1>2, UpTo
<1>4. \A m \in 0..n : Cardinality(A(m)) = m /\ IsFiniteSet(A(m))
  BY <1>3
<1>5. \A i \in 1..n : {y \in S : y <= g[i]} = A(i)
  <2> SUFFICES ASSUME NEW i \in 1..n PROVE {y \in S : y <= g[i]} = A(i)
    OBVIOUS
  <2>1. \A j \in 1..n : g[j] <= g[i] <=> j <= i
    <3> SUFFICES ASSUME NEW j \in 1..n PROVE g[j] <= g[i] <=> j <= i
      OBVIOUS
    <3>1. g[j] \in Nat /\ g[i] \in Nat
      OBVIOUS
    <3>2. (i < j => g[i] < g[j]) /\ (j < i => g[j] < g[i])
      OBVIOUS
    <3> QED BY <3>1, <3>2
  <2> QED BY <2>1
<1>6. ASSUME NEW i \in 1..n PROVE Nth(S, i) = g[i]
  <2>1. \A j \in 1..n : Cardinality({y \in S : y <= g[j]}) = j
    <3> SUFFICES ASSUME NEW j \in 1..n PROVE Cardinality({y \in S : y <= g[j]}) = j
      OBVIOUS
    <3>1. j \in 0..n
      OBVIOUS
    <3>2. Cardinality(A(j)) = j
      BY <1>4, <3>1
    <3>3. {y \in S : y <= g[j]} = A(j)
      BY <1>5
    <3> HIDE DEF A
    <3> QED BY <3>2, <3>3
  <2>2. g[i] \in S
    OBVIOUS
  <2>3. \A x \in S : \E j \in 1..n : x = g[j]
    OBVIOUS
  <2> HIDE DEF S
  <2>4. \A x \in S : Cardinality({y \in S : y <= x}) = i <=> x = g[i]
    BY <2>1, <2>3
  <2> QED BY <2>2, <2>4 DEF Nth
<1>7. Cardinality(S) = n
  <2>1. n \in 0..n
    OBVIOUS
  <2> QED BY <1>4, <2>1
<1> QED BY <1>6, <1>7

-----------------------------------------------------------------------------
(* A page as its parts, and as text (dump_page).                           *)

Names == Titles \cup DOMAIN Alias
Line ==
    {Head2(x) : x \in Names} \cup {Opens, Closes, Escaped, Glued}
      \cup {Prose(w) : w \in Humans \cup {"agent"}} \cup {ItemLine(i, x) : i \in BlockIds, x \in {"a", "b"}}
Section == [title : Names, body : Seq(Line), bare : BOOLEAN]
PageRec == [pre : Seq(Line), bare : BOOLEAN, sections : Seq(Section)]

\* Only the last part of a page may lack its newline, and it has a line then.
EndsWell(p) ==
    /\ p.bare => p.sections = <<>> /\ p.pre # <<>>
    /\ \A i \in DOMAIN p.sections : p.sections[i].bare => i = Len(p.sections) /\ p.sections[i].body # <<>>

\* No line of a part is a header.
NoHeads(p) ==
    /\ Headers(p.pre) = {}
    /\ \A i \in DOMAIN p.sections : Headers(p.sections[i].body) = {}

HeadAt(p, i) == IF Unended(p, i - 1) THEN Glued ELSE Head2(p.sections[i].title)

LEMMA SectionsAre ==
    ASSUME NEW p \in PageRec
    PROVE  /\ p.pre \in Seq(Line) /\ p.bare \in BOOLEAN /\ p.sections \in Seq(Section)
           /\ Len(p.sections) \in Nat /\ DOMAIN p.sections = 1..Len(p.sections)
           /\ \A i \in 1..Len(p.sections) :
                /\ p.sections[i] \in Section /\ p.sections[i].title \in Names
                /\ p.sections[i].body \in Seq(Line) /\ p.sections[i].bare \in BOOLEAN
<1>1. p.pre \in Seq(Line) /\ p.bare \in BOOLEAN /\ p.sections \in Seq(Section)
  BY DEF PageRec
<1>2. Len(p.sections) \in Nat /\ DOMAIN p.sections = 1..Len(p.sections)
  BY <1>1, LenProperties
<1>3. \A i \in 1..Len(p.sections) : p.sections[i] \in Section
  BY <1>1, ElementOfSeq
<1> QED BY <1>1, <1>2, <1>3 DEF Section

\* The text grows by a header and a body with each section.
LEMMA TextGrows ==
    ASSUME NEW p \in PageRec
    PROVE  /\ TextTo(p)[0] = p.pre
           /\ \A i \in 1..Len(p.sections) :
                TextTo(p)[i] = TextTo(p)[i - 1] \o <<HeadAt(p, i)>> \o p.sections[i].body
<1> DEFINE n == Len(p.sections)
           more(i, x) == x \o <<IF Unended(p, i - 1) THEN Glued ELSE Head2(p.sections[i].title)>>
                           \o p.sections[i].body
           grown == {m \in 0..n :
                       \E f : f = [i \in 0..m |-> IF i = 0 THEN p.pre ELSE more(i, f[i - 1])]}
<1>1. n \in Nat
  BY SectionsAre
<1>2. TextTo(p) = CHOOSE f : f = [i \in 0..n |-> IF i = 0 THEN p.pre ELSE more(i, f[i - 1])]
  BY DEF TextTo
<1>3. \A i, x : more(i, x) = x \o <<HeadAt(p, i)>> \o p.sections[i].body
  BY DEF HeadAt
<1> HIDE DEF more, n
<1>4. 0 \in grown
  <2> DEFINE f == [i \in 0..0 |-> p.pre]
  <2>1. f = [i \in 0..0 |-> IF i = 0 THEN p.pre ELSE more(i, f[i - 1])]
    OBVIOUS
  <2>2. \E g : g = [i \in 0..0 |-> IF i = 0 THEN p.pre ELSE more(i, g[i - 1])]
    BY <2>1
  <2>3. 0 \in 0..n
    BY <1>1
  <2> QED BY <2>2, <2>3
<1>5. ASSUME NEW m \in 0..(n - 1), m \in grown PROVE m + 1 \in grown
  <2>1. PICK f : f = [i \in 0..m |-> IF i = 0 THEN p.pre ELSE more(i, f[i - 1])]
    BY <1>5
  <2> DEFINE g == [i \in 0..(m + 1) |-> IF i <= m THEN f[i] ELSE more(m + 1, f[m])]
  <2>2. \A i \in 0..m : f[i] = IF i = 0 THEN p.pre ELSE more(i, f[i - 1])
    BY <2>1
  <2>3. ASSUME NEW i \in 0..(m + 1)
        PROVE  g[i] = IF i = 0 THEN p.pre ELSE more(i, g[i - 1])
    <3>1. CASE i = m + 1
      <4>1. g[i] = more(m + 1, f[m])
        BY <1>1, <3>1
      <4>2. g[i - 1] = f[m] /\ i # 0
        BY <1>1, <3>1
      <4> QED BY <3>1, <4>1, <4>2
    <3>2. CASE i \in 0..m
      <4>1. g[i] = f[i]
        BY <1>1, <3>2
      <4>2. i # 0 => g[i - 1] = f[i - 1]
        BY <1>1, <3>2
      <4> HIDE DEF g
      <4> QED BY <2>2, <3>2, <4>1, <4>2
    <3> QED BY <1>1, <3>1, <3>2
  <2>4. g = [i \in 0..(m + 1) |-> IF i = 0 THEN p.pre ELSE more(i, g[i - 1])]
    <3>1. g = [i \in 0..(m + 1) |-> g[i]]
      OBVIOUS
    <3> HIDE DEF g
    <3> QED BY <2>3, <3>1
  <2>5. \E h : h = [i \in 0..(m + 1) |-> IF i = 0 THEN p.pre ELSE more(i, h[i - 1])]
    BY <2>4
  <2>6. m + 1 \in 0..n
    BY <1>1
  <2> QED BY <2>5, <2>6
<1>6. 0..n \subseteq grown
  <2> HIDE DEF grown
  <2> QED BY <1>1, <1>4, <1>5, UpTo
<1>7. n \in grown
  BY <1>1, <1>6
<1>8. \E f : f = [i \in 0..n |-> IF i = 0 THEN p.pre ELSE more(i, f[i - 1])]
  BY <1>7
<1> DEFINE t == TextTo(p)
<1>9. t = [i \in 0..n |-> IF i = 0 THEN p.pre ELSE more(i, t[i - 1])]
  BY <1>2, <1>8
<1> HIDE DEF t
<1>10. t[0] = p.pre
  BY <1>1, <1>9
<1>11. \A i \in 1..n : t[i] = more(i, t[i - 1])
  <2> SUFFICES ASSUME NEW i \in 1..n PROVE t[i] = more(i, t[i - 1])
    OBVIOUS
  <2>1. i \in 0..n /\ i # 0
    BY <1>1
  <2> QED BY <1>9, <2>1
<1> QED BY <1>3, <1>10, <1>11 DEF t, n

LEMMA LineIs ==
    /\ \A x \in Names : Head2(x) \in Line /\ Head2(x).is = "head" /\ Head2(x).title = x
    /\ \A x \in Line : x.is = "head" => x.title \in Names
    /\ {Opens, Closes, Escaped, Glued} \subseteq Line
    /\ Opens.is = "open" /\ Closes.is = "close" /\ Escaped.is = "escaped" /\ Glued.is = "glued"
    /\ \A w : Prose(w).is = "prose"
    /\ \A i, x : ItemLine(i, x).is = "item"
<1>1. \A x : Head2(x).is = "head" /\ Head2(x).title = x
  BY DEF Head2
<1>2. Opens.is = "open" /\ Closes.is = "close" /\ Escaped.is = "escaped" /\ Glued.is = "glued"
  BY DEF Opens, Closes, Escaped, Glued
<1>3. \A w : Prose(w).is = "prose"
  BY DEF Prose
<1>4. \A i, x : ItemLine(i, x).is = "item"
  BY DEF ItemLine
<1>5. \A x \in Line : x.is = "head" => x.title \in Names
  BY <1>1, <1>2, <1>3, <1>4 DEF Line
<1>6. {Opens, Closes, Escaped, Glued} \subseteq Line /\ \A x \in Names : Head2(x) \in Line
  BY DEF Line
<1> QED BY <1>1, <1>2, <1>3, <1>4, <1>5, <1>6

LEMMA HeadAtIs ==
    ASSUME NEW p \in PageRec, NEW i \in 1..Len(p.sections)
    PROVE  HeadAt(p, i) \in Line
BY SectionsAre, LineIs DEF HeadAt

LEMMA Joined ==
    ASSUME NEW E, NEW t \in Seq(E), NEW h \in E, NEW b \in Seq(E)
    PROVE  LET r == t \o <<h>> \o b IN
           /\ r \in Seq(E) /\ Len(t) \in Nat /\ Len(b) \in Nat /\ Len(r) = Len(t) + 1 + Len(b)
           /\ \A k \in 1..Len(t) : r[k] = t[k]
           /\ r[Len(t) + 1] = h
           /\ \A k \in 1..Len(b) : r[Len(t) + 1 + k] = b[k]
<1> DEFINE s == t \o <<h>>
           r == s \o b
<1>1. <<h>> \in Seq(E) /\ Len(<<h>>) = 1 /\ <<h>>[1] = h
  OBVIOUS
<1>2. Len(t) \in Nat /\ Len(b) \in Nat
  BY LenProperties
<1>3. /\ s \in Seq(E) /\ Len(s) = Len(t) + 1
      /\ \A k \in 1..(Len(t) + 1) : s[k] = IF k <= Len(t) THEN t[k] ELSE <<h>>[k - Len(t)]
  BY <1>1, ConcatProperties
<1> HIDE DEF s
<1>4. /\ r \in Seq(E) /\ Len(r) = Len(s) + Len(b)
      /\ \A k \in 1..(Len(s) + Len(b)) : r[k] = IF k <= Len(s) THEN s[k] ELSE b[k - Len(s)]
  <2>1. s \in Seq(E)
    BY <1>3
  <2> QED BY ONLY <2>1, b \in Seq(E), ConcatProperties
<1> HIDE DEF r
<1>5. \A k \in 1..Len(t) : r[k] = t[k]
  BY <1>2, <1>3, <1>4
<1>6. r[Len(t) + 1] = h
  BY <1>1, <1>2, <1>3, <1>4
<1>7. \A k \in 1..Len(b) : r[Len(t) + 1 + k] = b[k]
  <2> SUFFICES ASSUME NEW k \in 1..Len(b) PROVE r[Len(t) + 1 + k] = b[k]
    OBVIOUS
  <2>1. Len(t) + 1 + k \in 1..(Len(s) + Len(b)) /\ ~(Len(t) + 1 + k <= Len(s)) /\ (Len(t) + 1 + k) - Len(s) = k
    BY <1>2, <1>3
  <2> QED BY <1>4, <2>1
<1> QED BY <1>2, <1>3, <1>4, <1>5, <1>6, <1>7 DEF s, r

\* Where the header of the i-th section is in the text.
HeaderOf(p, i) == Len(TextTo(p)[i - 1]) + 1

LaidOut(p, m) ==
    LET t == TextTo(p)[m] IN
    /\ t \in Seq(Line)
    /\ \A k \in 1..Len(p.pre) : k \in 1..Len(t) /\ t[k] = p.pre[k]
    /\ \A i \in 1..m :
        /\ HeaderOf(p, i) \in Nat \ {0}
        /\ HeaderOf(p, i) + Len(p.sections[i].body) = Len(TextTo(p)[i])
        /\ Len(TextTo(p)[i]) <= Len(t)
        /\ t[HeaderOf(p, i)] = HeadAt(p, i)
        /\ \A k \in 1..Len(p.sections[i].body) : t[HeaderOf(p, i) + k] = p.sections[i].body[k]
    /\ \A k \in 1..Len(t) :
        \/ k \in 1..Len(p.pre)
        \/ \E i \in 1..m : k = HeaderOf(p, i) \/ \E j \in 1..Len(p.sections[i].body) : k = HeaderOf(p, i) + j

LEMMA TextIsLaidOut ==
    ASSUME NEW p \in PageRec
    PROVE  \A m \in 0..Len(p.sections) : LaidOut(p, m)
<1> DEFINE n == Len(p.sections)
           T == TextTo(p)
           good == {m \in 0..n : LaidOut(p, m)}
<1>1. n \in Nat
  BY SectionsAre
<1>2. 0 \in good
  <2>1. T[0] = p.pre /\ p.pre \in Seq(Line)
    BY TextGrows, SectionsAre
  <2>2. LaidOut(p, 0)
    BY <2>1 DEF LaidOut
  <2> QED BY <1>1, <2>2
<1>3. ASSUME NEW m \in 0..(n - 1), m \in good PROVE m + 1 \in good
  <2> DEFINE i == m + 1
             s == T[m]
             h == HeadAt(p, i)
             b == p.sections[i].body
             t == T[i]
  <2>1. i \in 1..n /\ i \in 0..n /\ i - 1 = m
    BY <1>1
  <2>2. LaidOut(p, m)
    BY <1>3
  <2>3. s \in Seq(Line) /\ h \in Line /\ b \in Seq(Line) /\ t = s \o <<h>> \o b
    BY <2>1, <2>2, TextGrows, SectionsAre, HeadAtIs DEF LaidOut
  <2>4. /\ t \in Seq(Line) /\ Len(s) \in Nat /\ Len(b) \in Nat /\ Len(t) = Len(s) + 1 + Len(b)
        /\ \A k \in 1..Len(s) : t[k] = s[k]
        /\ t[Len(s) + 1] = h
        /\ \A k \in 1..Len(b) : t[Len(s) + 1 + k] = b[k]
    <3> HIDE DEF s, h, b, t
    <3> QED BY <2>3, Joined
  <2>5. HeaderOf(p, i) = Len(s) + 1
    BY <2>1 DEF HeaderOf
  <2>6. ASSUME NEW k \in 1..Len(p.pre) PROVE k \in 1..Len(t) /\ t[k] = p.pre[k]
    <3>1. k \in 1..Len(s) /\ s[k] = p.pre[k]
      BY <2>2, <2>6 DEF LaidOut
    <3> HIDE DEF s, t, b
    <3> QED BY <2>4, <3>1
  <2>7. ASSUME NEW j \in 1..i
        PROVE  /\ HeaderOf(p, j) \in Nat \ {0}
               /\ HeaderOf(p, j) + Len(p.sections[j].body) = Len(T[j])
               /\ Len(T[j]) <= Len(t)
               /\ t[HeaderOf(p, j)] = HeadAt(p, j)
               /\ \A k \in 1..Len(p.sections[j].body) : t[HeaderOf(p, j) + k] = p.sections[j].body[k]
    <3>1. CASE j = i
      <4>1. /\ HeaderOf(p, i) \in Nat \ {0}
            /\ HeaderOf(p, i) + Len(b) = Len(t) /\ Len(t) <= Len(t)
            /\ t[HeaderOf(p, i)] = h
            /\ \A k \in 1..Len(b) : t[HeaderOf(p, i) + k] = b[k]
        <5> HIDE DEF s, h, b, t
        <5> QED BY <2>4, <2>5
      <4> QED BY <3>1, <4>1
    <3>2. CASE j \in 1..m
      <4>1. /\ HeaderOf(p, j) \in Nat \ {0}
            /\ HeaderOf(p, j) + Len(p.sections[j].body) = Len(T[j])
            /\ Len(T[j]) <= Len(s)
            /\ s[HeaderOf(p, j)] = HeadAt(p, j)
            /\ \A k \in 1..Len(p.sections[j].body) : s[HeaderOf(p, j) + k] = p.sections[j].body[k]
        BY <2>2, <3>2 DEF LaidOut
      <4>2. Len(p.sections[j].body) \in Nat
        <5>1. j \in 1..n
          BY <1>1, <3>2
        <5>2. p.sections[j].body \in Seq(Line)
          BY <5>1, SectionsAre
        <5> QED BY <5>2, LenProperties
      <4>3. Len(T[j]) <= Len(t)
        <5> HIDE DEF s, t, b
        <5> QED BY <2>4, <4>1, <4>2
      <4> DEFINE at == HeaderOf(p, j)
                 l == Len(p.sections[j].body)
      <4>4. at + l <= Len(s) /\ at \in Nat \ {0} /\ l \in Nat /\ Len(s) \in Nat
        BY <2>4, <4>1, <4>2
      <4>5. at \in 1..Len(s) /\ \A k \in 1..l : at + k \in 1..Len(s)
        <5> HIDE DEF s, at, l
        <5> QED BY <4>4
      <4> HIDE DEF s, t
      <4> QED BY <2>4, <4>1, <4>3, <4>4, <4>5
    <3> QED BY <2>1, <3>1, <3>2
  <2>8. ASSUME NEW k \in 1..Len(t)
        PROVE  \/ k \in 1..Len(p.pre)
               \/ \E j \in 1..i : k = HeaderOf(p, j) \/ \E l \in 1..Len(p.sections[j].body) : k = HeaderOf(p, j) + l
    <3>1. CASE k \in 1..Len(s)
      <4>1. \/ k \in 1..Len(p.pre)
            \/ \E j \in 1..m : k = HeaderOf(p, j) \/ \E l \in 1..Len(p.sections[j].body) : k = HeaderOf(p, j) + l
        BY <2>2, <3>1 DEF LaidOut
      <4>2. \A j \in 1..m : j \in 1..i
        BY <2>1
      <4> QED BY <4>1, <4>2
    <3>2. CASE k = Len(s) + 1
      BY <2>1, <2>5, <3>2
    <3>3. CASE k \notin 1..Len(s) /\ k # Len(s) + 1
      <4> DEFINE l == k - (Len(s) + 1)
      <4>1. l \in 1..Len(b) /\ k = Len(s) + 1 + l
        <5> HIDE DEF s, t, b
        <5> QED BY <2>4, <2>8, <3>3
      <4>2. i \in 1..i
        BY <2>1
      <4> QED BY <2>5, <4>1, <4>2
    <3> QED BY <3>1, <3>2, <3>3
  <2>9. LaidOut(p, i)
    <3> HIDE DEF i, s, h, b
    <3> QED BY <2>4, <2>6, <2>7, <2>8 DEF LaidOut
  <2> QED BY <2>1, <2>9
<1>4. 0..n \subseteq good
  <2> HIDE DEF good, n
  <2> QED BY <1>1, <1>2, <1>3, UpTo
<1> QED BY <1>4

LEMMA Within ==
    ASSUME NEW a \in Nat \ {0}, NEW l \in Nat, NEW z \in Nat, a + l <= z
    PROVE  a \in 1..z /\ \A k \in 1..l : a + k \in 1..z
OBVIOUS

LEMMA SumIs == \A a, l \in Nat : a + l \in Nat
OBVIOUS

LEMMA Before ==
    ASSUME NEW x \in Nat, NEW a \in Nat, NEW l \in Nat, NEW z \in Nat, x < a, a + l <= z
    PROVE  x < z
OBVIOUS

\* The places of the headers, and where the sections end.
LEMMA HeadersInOrder ==
    ASSUME NEW p \in PageRec
    PROVE  LET n == Len(p.sections)
               t == TextTo(p)[n]
               last(i) == HeaderOf(p, i) + Len(p.sections[i].body) IN
           /\ n \in Nat /\ t \in Seq(Line) /\ Len(t) \in Nat
           /\ \A i \in 1..n : /\ HeaderOf(p, i) \in Nat \ {0} /\ Len(p.sections[i].body) \in Nat
                              /\ last(i) <= Len(t)
           /\ \A i, j \in 1..n : i < j => last(i) < HeaderOf(p, j)
           /\ \A i \in 1..n : i < n => HeaderOf(p, i + 1) = last(i) + 1
           /\ n > 0 => HeaderOf(p, 1) = Len(p.pre) + 1 /\ last(n) = Len(t)
           /\ n = 0 => t = p.pre
<1> DEFINE n == Len(p.sections)
           T == TextTo(p)
           last(i) == HeaderOf(p, i) + Len(p.sections[i].body)
<1>1. n \in Nat /\ \A m \in 0..n : LaidOut(p, m)
  BY SectionsAre, TextIsLaidOut
<1>2. T[n] \in Seq(Line) /\ Len(T[n]) \in Nat
  <2>1. LaidOut(p, n)
    BY <1>1
  <2>2. T[n] \in Seq(Line)
    BY <2>1 DEF LaidOut
  <2> QED BY <2>2, LenProperties
<1>3. \A m \in 0..n : \A i \in 1..m :
        HeaderOf(p, i) \in Nat \ {0} /\ last(i) = Len(T[i]) /\ last(i) <= Len(T[m])
  <2> SUFFICES ASSUME NEW m \in 0..n, NEW i \in 1..m
               PROVE  HeaderOf(p, i) \in Nat \ {0} /\ last(i) = Len(T[i]) /\ last(i) <= Len(T[m])
    OBVIOUS
  <2>1. LaidOut(p, m)
    BY <1>1
  <2> QED BY <2>1 DEF LaidOut
<1>4. \A i \in 1..n : Len(p.sections[i].body) \in Nat
  <2> SUFFICES ASSUME NEW i \in 1..n PROVE Len(p.sections[i].body) \in Nat
    OBVIOUS
  <2>1. p.sections[i].body \in Seq(Line)
    BY SectionsAre
  <2> QED BY <2>1, LenProperties
<1>5. \A i, j \in 1..n : i < j => last(i) < HeaderOf(p, j)
  <2> SUFFICES ASSUME NEW i \in 1..n, NEW j \in 1..n, i < j PROVE last(i) < HeaderOf(p, j)
    OBVIOUS
  <2>1. j - 1 \in 0..n /\ i \in 1..(j - 1) /\ j \in 1..j /\ j \in 0..n
    BY <1>1
  <2>2. last(i) <= Len(T[j - 1]) /\ HeaderOf(p, j) = Len(T[j - 1]) + 1
    BY <1>3, <2>1 DEF HeaderOf
  <2>3. HeaderOf(p, j) \in Nat /\ HeaderOf(p, i) \in Nat /\ Len(p.sections[i].body) \in Nat
    BY <1>3, <1>4, <2>1
  <2>4. last(i) = Len(T[i]) /\ LaidOut(p, j - 1)
    BY <1>1, <1>3, <2>1
  <2>5. Len(T[j - 1]) \in Nat
    <3>1. T[j - 1] \in Seq(Line)
      BY <2>4 DEF LaidOut
    <3> QED BY <3>1, LenProperties
  <2> QED BY <2>2, <2>3, <2>5
<1>6. \A i \in 1..n : i < n => HeaderOf(p, i + 1) = last(i) + 1
  <2> SUFFICES ASSUME NEW i \in 1..n, i < n PROVE HeaderOf(p, i + 1) = last(i) + 1
    OBVIOUS
  <2>1. (i + 1) - 1 = i /\ i \in 1..i /\ i \in 0..n
    BY <1>1
  <2>2. last(i) = Len(T[i])
    BY <1>3, <2>1
  <2> QED BY <2>1, <2>2 DEF HeaderOf
<1>7. n > 0 => HeaderOf(p, 1) = Len(p.pre) + 1 /\ last(n) = Len(T[n])
  <2> SUFFICES ASSUME n > 0 PROVE HeaderOf(p, 1) = Len(p.pre) + 1 /\ last(n) = Len(T[n])
    OBVIOUS
  <2>1. T[0] = p.pre
    BY TextGrows
  <2>2. n \in 1..n /\ n \in 0..n
    BY <1>1
  <2>3. last(n) = Len(T[n])
    BY <1>3, <2>2
  <2>4. HeaderOf(p, 1) = Len(T[0]) + 1
    BY DEF HeaderOf
  <2> HIDE DEF T, n, last
  <2> QED BY <2>1, <2>3, <2>4
<1>8. n = 0 => T[n] = p.pre
  BY TextGrows
<1>9. \A i \in 1..n : HeaderOf(p, i) \in Nat \ {0} /\ last(i) <= Len(T[n])
  <2>1. n \in 0..n
    BY <1>1
  <2> QED BY <1>3, <2>1
<1> QED BY <1>1, <1>2, <1>4, <1>5, <1>6, <1>7, <1>8, <1>9

\* Of a page that ends well, every header stands, and no other line is one.
LEMMA DumpedHeaders ==
    ASSUME NEW p \in PageRec, EndsWell(p), NoHeads(p)
    PROVE  LET n == Len(p.sections) IN
           RealHeaders(TextTo(p)[n], Unended(p, n)) = {HeaderOf(p, i) : i \in 1..n}
<1> DEFINE n == Len(p.sections)
           t == TextTo(p)[n]
           b == Unended(p, n)
           last(i) == HeaderOf(p, i) + Len(p.sections[i].body)
<1>1. /\ n \in Nat /\ t \in Seq(Line) /\ Len(t) \in Nat /\ DOMAIN t = 1..Len(t)
      /\ \A i \in 1..n : /\ HeaderOf(p, i) \in Nat \ {0} /\ Len(p.sections[i].body) \in Nat
                         /\ last(i) <= Len(t)
      /\ \A i, j \in 1..n : i < j => last(i) < HeaderOf(p, j)
  <2>1. t \in Seq(Line)
    BY HeadersInOrder
  <2> QED BY <2>1, HeadersInOrder, LenProperties
<1>2. LaidOut(p, n)
  BY <1>1, TextIsLaidOut
<1>3. DOMAIN p.sections = 1..n /\ \A i \in 1..n : p.sections[i].body \in Seq(Line)
  BY SectionsAre
<1>4. ASSUME NEW i \in 1..n PROVE HeaderOf(p, i) \in RealHeaders(t, b)
  <2>1. HeaderOf(p, i) \in 1..Len(t)
    <3>1. /\ HeaderOf(p, i) \in Nat \ {0} /\ Len(p.sections[i].body) \in Nat /\ Len(t) \in Nat
          /\ HeaderOf(p, i) + Len(p.sections[i].body) <= Len(t)
      BY <1>1
    <3> HIDE DEF t
    <3> QED BY <3>1, Within
  <2>2. ~Unended(p, i - 1)
    <3>1. CASE i = 1
      <4>1. p.sections # <<>>
        <5>1. Len(<<>>) = 0
          OBVIOUS
        <5> QED BY <1>1, <5>1
      <4> QED BY <3>1, <4>1 DEF EndsWell, Unended
    <3>2. CASE i # 1
      <4>1. i - 1 \in 1..n /\ i - 1 # n /\ i - 1 # 0
        BY <1>1, <3>2
      <4> QED BY <1>3, <4>1 DEF EndsWell, Unended
    <3> QED BY <3>1, <3>2
  <2>3. t[HeaderOf(p, i)].is = "head"
    <3>1. t[HeaderOf(p, i)] = Head2(p.sections[i].title)
      BY <1>2, <2>2 DEF LaidOut, HeadAt
    <3>2. p.sections[i].title \in Names
      BY SectionsAre
    <3> QED BY <3>1, <3>2, LineIs
  <2>4. b => HeaderOf(p, i) # Len(t)
    <3> SUFFICES ASSUME b PROVE HeaderOf(p, i) < Len(t)
      BY <1>1
    <3>1. n # 0 /\ n \in 1..n
      BY <1>1
    <3>2. p.sections[n].bare /\ p.sections[n].body # <<>>
      BY <1>3, <3>1 DEF EndsWell, Unended
    <3>3. Len(p.sections[n].body) > 0
      <4>1. Len(p.sections[n].body) \in Nat \ {0}
        BY <1>3, <3>1, <3>2, EmptySeq
      <4> QED BY <4>1
    <3>4. HeaderOf(p, n) < last(n) /\ last(n) <= Len(t) /\ HeaderOf(p, n) \in Nat
      BY <1>1, <3>1, <3>3
    <3>5. i = n \/ (HeaderOf(p, i) <= last(i) /\ last(i) < HeaderOf(p, n))
      BY <1>1, <3>1
    <3>6. HeaderOf(p, i) \in Nat /\ last(i) \in Nat /\ last(n) \in Nat
      <4>1. HeaderOf(p, i) \in Nat /\ Len(p.sections[i].body) \in Nat
        BY <1>1
      <4>2. HeaderOf(p, n) \in Nat /\ Len(p.sections[n].body) \in Nat
        BY <1>1, <3>1
      <4>3. last(i) \in Nat
        BY <4>1
      <4>4. last(n) \in Nat
        BY <4>2, SumIs
      <4> HIDE DEF last
      <4> QED BY <4>1, <4>3, <4>4
    <3> HIDE DEF last, t
    <3> QED BY <1>1, <3>4, <3>5, <3>6
  <2>5. HeaderOf(p, i) \in Headers(t)
    BY <1>1, <2>1, <2>3 DEF Headers
  <2> HIDE DEF t, b
  <2> QED BY <2>4, <2>5 DEF RealHeaders
<1>5. ASSUME NEW k \in Headers(t) PROVE \E i \in 1..n : k = HeaderOf(p, i)
  <2>1. k \in 1..Len(t) /\ t[k].is = "head"
    BY <1>1 DEF Headers
  <2>2. k \notin 1..Len(p.pre)
    <3> SUFFICES ASSUME k \in 1..Len(p.pre) PROVE FALSE
      OBVIOUS
    <3>1. p.pre[k].is = "head"
      BY <1>2, <2>1 DEF LaidOut
    <3>2. DOMAIN p.pre = 1..Len(p.pre)
      BY SectionsAre, LenProperties
    <3> QED BY <3>1, <3>2 DEF NoHeads, Headers
  <2>3. \A i \in 1..n : \A j \in 1..Len(p.sections[i].body) : k # HeaderOf(p, i) + j
    <3> SUFFICES ASSUME NEW i \in 1..n, NEW j \in 1..Len(p.sections[i].body), k = HeaderOf(p, i) + j PROVE FALSE
      OBVIOUS
    <3>1. p.sections[i].body[j].is = "head"
      BY <1>2, <2>1 DEF LaidOut
    <3>2. DOMAIN p.sections[i].body = 1..Len(p.sections[i].body)
      BY <1>3, LenProperties
    <3>3. Headers(p.sections[i].body) = {}
      BY <1>3 DEF NoHeads
    <3> QED BY <3>1, <3>2, <3>3 DEF Headers
  <2> QED BY <1>2, <2>1, <2>2, <2>3 DEF LaidOut
<1>6. RealHeaders(t, b) \subseteq Headers(t)
  BY DEF RealHeaders
<1> HIDE DEF t, b, n
<1>7. RealHeaders(t, b) = {HeaderOf(p, i) : i \in 1..n}
  BY <1>4, <1>5, <1>6
<1> QED BY <1>7 DEF t, b, n

LEMMA SameLines ==
    ASSUME NEW t \in Seq(Line), NEW a \in Nat, NEW s \in Seq(Line), a + Len(s) <= Len(t),
           \A k \in 1..Len(s) : t[a + k] = s[k]
    PROVE  SubSeq(t, a + 1, a + Len(s)) = s
<1> DEFINE m == a + 1
           n == a + Len(s)
           r == SubSeq(t, m, n)
<1>1. Len(s) \in Nat /\ Len(t) \in Nat /\ t \in [1..Len(t) -> Line]
  BY LenProperties
<1>2. m \in Int /\ n \in Int
  BY <1>1
<1>3. \A i \in m..n : t[i] \in Line
  BY <1>1
<1>4. r \in Seq(Line) /\ Len(r) = (IF m <= n THEN n - m + 1 ELSE 0) /\ \A i \in 1..(n - m + 1) : r[i] = t[m + i - 1]
  <2> HIDE DEF m, n
  <2> QED BY <1>2, <1>3, SubSeqProperties
<1>5. Len(r) = Len(s)
  <2> HIDE DEF r
  <2> QED BY <1>1, <1>4
<1>6. \A k \in 1..Len(s) : r[k] = s[k]
  <2> SUFFICES ASSUME NEW k \in 1..Len(s) PROVE r[k] = s[k]
    OBVIOUS
  <2>1. k \in 1..(n - m + 1) /\ m + k - 1 = a + k
    BY <1>1
  <2>2. r[k] = t[m + k - 1]
    BY <1>4, <2>1
  <2> QED BY <2>1, <2>2
<1> HIDE DEF r
<1>7. r = s
  BY <1>4, <1>5, <1>6, SeqEqual
<1> QED BY <1>7 DEF r

\* What was dumped parses back (parse_page after dump_page).
LEMMA DumpParses ==
    ASSUME NEW p \in PageRec, EndsWell(p), NoHeads(p)
    PROVE  Parse(DumpFrom(p).lines, DumpFrom(p).bare) = p
<1> DEFINE n == Len(p.sections)
           t == TextTo(p)[n]
           b == Unended(p, n)
           hs == RealHeaders(t, b)
           body(i) == p.sections[i].body
           last(i) == HeaderOf(p, i) + Len(body(i))
           g == [i \in 1..n |-> HeaderOf(p, i)]
<1>1. DumpFrom(p).lines = t /\ DumpFrom(p).bare = b
  BY DEF DumpFrom
<1>2. /\ n \in Nat /\ t \in Seq(Line) /\ Len(t) \in Nat
      /\ \A i \in 1..n : HeaderOf(p, i) \in Nat \ {0} /\ Len(body(i)) \in Nat /\ last(i) <= Len(t)
      /\ \A i, j \in 1..n : i < j => last(i) < HeaderOf(p, j)
      /\ \A i \in 1..n : i < n => HeaderOf(p, i + 1) = last(i) + 1
      /\ n > 0 => HeaderOf(p, 1) = Len(p.pre) + 1 /\ last(n) = Len(t)
      /\ n = 0 => t = p.pre
  BY HeadersInOrder
<1>3. LaidOut(p, n)
  BY <1>2, TextIsLaidOut
<1>4. /\ p.pre \in Seq(Line) /\ Len(p.pre) \in Nat /\ p.bare \in BOOLEAN /\ p.sections \in Seq(Section)
      /\ DOMAIN p.sections = 1..n
      /\ \A i \in 1..n : /\ p.sections[i] \in Section /\ p.sections[i].title \in Names
                         /\ body(i) \in Seq(Line) /\ p.sections[i].bare \in BOOLEAN
  BY SectionsAre, LenProperties
<1>5. hs = {HeaderOf(p, i) : i \in 1..n}
  BY DumpedHeaders
<1>6. \A i, j \in 1..n : i < j => HeaderOf(p, i) < HeaderOf(p, j)
  <2> SUFFICES ASSUME NEW i \in 1..n, NEW j \in 1..n, i < j PROVE HeaderOf(p, i) < HeaderOf(p, j)
    OBVIOUS
  <2>1. last(i) < HeaderOf(p, j) /\ HeaderOf(p, i) \in Nat /\ Len(body(i)) \in Nat /\ HeaderOf(p, j) \in Nat
    BY <1>2
  <2> QED BY <2>1
<1>7. Cardinality(hs) = n /\ \A i \in 1..n : Nth(hs, i) = HeaderOf(p, i)
  <2>1. g \in [1..n -> Nat \ {0}] /\ \A i, j \in 1..n : i < j => g[i] < g[j]
    BY <1>2, <1>6
  <2>2. {g[i] : i \in 1..n} = hs
    BY <1>5
  <2>3. \A i \in 1..n : g[i] = HeaderOf(p, i)
    OBVIOUS
  <2> HIDE DEF g, hs, n
  <2>4. LET S == {g[i] : i \in 1..n} IN Cardinality(S) = n /\ \A i \in 1..n : Nth(S, i) = g[i]
    BY <1>2, <2>1, Enumerated
  <2> QED BY <2>2, <2>3, <2>4
<1>8. hs \subseteq Nat
  BY <1>2, <1>5
<1>9. EndOf(t, b, 0) = Len(p.pre)
  <2>1. CASE n = 0
    <3>1. hs = {}
      BY <1>5, <2>1
    <3>2. Above(hs, 0) = {}
      BY <3>1 DEF Above
    <3> QED BY <1>2, <2>1, <3>2 DEF EndOf
  <2>2. CASE n # 0
    <3>1. 1 \in 1..n /\ HeaderOf(p, 1) = Len(p.pre) + 1
      BY <1>2, <2>2
    <3>2. Above(hs, 0) = hs
      <4>1. \A x \in hs : x > 0
        BY <1>2, <1>5
      <4> QED BY <4>1 DEF Above
    <3>3. HeaderOf(p, 1) \in hs /\ \A x \in hs : HeaderOf(p, 1) <= x
      <4>1. \A i \in 1..n : HeaderOf(p, 1) <= HeaderOf(p, i)
        <5> SUFFICES ASSUME NEW i \in 1..n PROVE HeaderOf(p, 1) <= HeaderOf(p, i)
          OBVIOUS
        <5>1. i = 1 \/ 1 < i
          OBVIOUS
        <5>2. HeaderOf(p, 1) \in Nat /\ HeaderOf(p, i) \in Nat
          BY <1>2, <3>1
        <5> QED BY <1>6, <3>1, <5>1, <5>2
      <4> QED BY <1>5, <3>1, <4>1
    <3>4. Min(hs) = HeaderOf(p, 1)
      <4> HIDE DEF hs
      <4> QED BY <1>8, <3>3, MinIs
    <3>5. Above(hs, 0) # {}
      BY <3>2, <3>3
    <3> HIDE DEF hs, t, b
    <3>6. EndOf(t, b, 0) = HeaderOf(p, 1) - 1
      BY <3>2, <3>4, <3>5 DEF EndOf, hs
    <3> QED BY <1>4, <3>1, <3>6
  <2> QED BY <2>1, <2>2
<1>10. ASSUME NEW i \in 1..n PROVE EndOf(t, b, HeaderOf(p, i)) = last(i)
  <2> DEFINE A == Above(hs, HeaderOf(p, i))
  <2>0. HeaderOf(p, i) \in Nat /\ Len(body(i)) \in Nat /\ last(i) \in Nat
    <3>1. HeaderOf(p, i) \in Nat /\ Len(body(i)) \in Nat
      BY <1>2
    <3> QED BY <3>1
  <2>1. \A j \in 1..n : HeaderOf(p, j) > HeaderOf(p, i) <=> j > i
    <3> SUFFICES ASSUME NEW j \in 1..n PROVE HeaderOf(p, j) > HeaderOf(p, i) <=> j > i
      OBVIOUS
    <3>1. j = i \/ i < j \/ j < i
      OBVIOUS
    <3>2. HeaderOf(p, j) \in Nat /\ HeaderOf(p, i) \in Nat /\ j \in Nat /\ i \in Nat
      BY <1>2
    <3>3. (i < j => HeaderOf(p, i) < HeaderOf(p, j)) /\ (j < i => HeaderOf(p, j) < HeaderOf(p, i))
      BY <1>6
    <3> QED BY <3>1, <3>2, <3>3
  <2>2. A = {HeaderOf(p, j) : j \in {k \in 1..n : k > i}}
    BY <1>5, <2>1 DEF Above
  <2>3. CASE i = n
    <3>1. A = {}
      <4>1. {k \in 1..n : k > i} = {}
        <5>1. \A k \in 1..n : ~(k > i)
          BY <1>2, <2>3
        <5> QED BY <5>1
      <4> QED BY <2>2, <4>1
    <3>2. n > 0
      BY <1>2, <2>3
    <3> HIDE DEF t, b
    <3> QED BY <1>2, <2>3, <3>1, <3>2 DEF EndOf
  <2>4. CASE i # n
    <3>1. i < n /\ i + 1 \in 1..n /\ i + 1 > i
      BY <1>2, <2>4
    <3>2. HeaderOf(p, i + 1) = last(i) + 1
      BY <1>2, <3>1
    <3>3. HeaderOf(p, i + 1) \in A
      BY <2>2, <3>1
    <3>4. \A x \in A : HeaderOf(p, i + 1) <= x
      <4>1. ASSUME NEW j \in 1..n, j > i PROVE HeaderOf(p, i + 1) <= HeaderOf(p, j)
        <5>1. j = i + 1 \/ i + 1 < j
          BY <4>1
        <5>2. HeaderOf(p, i + 1) \in Nat /\ HeaderOf(p, j) \in Nat
          BY <1>2, <3>1
        <5> QED BY <1>6, <3>1, <5>1, <5>2
      <4> QED BY <2>2, <4>1
    <3>5. A \subseteq Nat
      BY <1>2, <2>2
    <3>6. Min(A) = HeaderOf(p, i + 1)
      <4> HIDE DEF A
      <4> QED BY <3>3, <3>4, <3>5, MinIs
    <3>7. EndOf(t, b, HeaderOf(p, i)) = HeaderOf(p, i + 1) - 1
      <4> HIDE DEF t, b
      <4> QED BY <3>3, <3>6 DEF EndOf
    <3> HIDE DEF last
    <3> QED BY <2>0, <3>2, <3>7
  <2> QED BY <2>3, <2>4
<1>11. SubSeq(t, 1, Len(p.pre)) = p.pre
  <2>1. \A k \in 1..Len(p.pre) : t[0 + k] = p.pre[k] /\ k \in 1..Len(t)
    BY <1>3 DEF LaidOut
  <2> HIDE DEF t
  <2>2. 0 + Len(p.pre) <= Len(t)
    <3>1. Len(p.pre) = 0 \/ Len(p.pre) \in 1..Len(p.pre)
      BY <1>4
    <3> QED BY <1>2, <1>4, <2>1, <3>1
  <2>3. SubSeq(t, 0 + 1, 0 + Len(p.pre)) = p.pre
    BY <1>2, <1>4, <2>1, <2>2, SameLines
  <2> QED BY <1>4, <2>3
<1>12. ASSUME NEW i \in 1..n PROVE SubSeq(t, HeaderOf(p, i) + 1, last(i)) = body(i)
  <2>1. \A k \in 1..Len(body(i)) : t[HeaderOf(p, i) + k] = body(i)[k]
    BY <1>3 DEF LaidOut
  <2>2. body(i) \in Seq(Line) /\ HeaderOf(p, i) \in Nat /\ last(i) <= Len(t)
    BY <1>2, <1>4
  <2> HIDE DEF t
  <2> QED BY <1>2, <2>1, <2>2, SameLines
<1>13. ASSUME NEW i \in 1..n
       PROVE  p.sections[i].bare <=> b /\ last(i) = Len(t) /\ HeaderOf(p, i) < Len(t)
  <2>1. HeaderOf(p, i) \in Nat /\ Len(body(i)) \in Nat
    BY <1>2
  <2>2. CASE i = n
    <3>1. last(i) = Len(t) /\ n > 0
      BY <1>2, <2>2
    <3>2. b = p.sections[i].bare
      BY <1>2, <2>2 DEF Unended
    <3>3. p.sections[i].bare => Len(body(i)) > 0
      <4>1. p.sections[i].bare => body(i) # <<>>
        BY <1>4 DEF EndsWell
      <4>2. body(i) # <<>> => Len(body(i)) \in Nat \ {0}
        BY <1>4, EmptySeq
      <4> QED BY <4>1, <4>2
    <3> HIDE DEF t, b
    <3> QED BY <2>1, <3>1, <3>2, <3>3
  <2>3. CASE i # n
    <3>1. ~p.sections[i].bare
      BY <1>4, <2>3 DEF EndsWell
    <3>2. last(i) < Len(t)
      <4>1. i < n /\ n \in 1..n
        BY <1>2, <2>3
      <4>2. last(i) < HeaderOf(p, n) /\ HeaderOf(p, n) + Len(body(n)) <= Len(t)
        BY <1>2, <4>1
      <4>3. HeaderOf(p, n) \in Nat /\ Len(body(n)) \in Nat
        BY <1>2, <4>1
      <4>4. last(i) \in Nat /\ Len(t) \in Nat
        BY <1>2, <2>1, SumIs
      <4> HIDE DEF t, n, last
      <4> QED BY <4>2, <4>3, <4>4, Before
    <3> HIDE DEF t, b
    <3> QED BY <1>2, <2>1, <3>1, <3>2
  <2> QED BY <2>2, <2>3
<1>14. ASSUME NEW i \in 1..n PROVE SectionAt(t, b, HeaderOf(p, i)) = p.sections[i]
  <2>1. t[HeaderOf(p, i)].title = p.sections[i].title
    <3>1. HeaderOf(p, i) \in hs
      BY <1>5
    <3>2. t[HeaderOf(p, i)].is = "head"
      BY <3>1 DEF RealHeaders, Headers
    <3>3. t[HeaderOf(p, i)] = HeadAt(p, i)
      BY <1>3 DEF LaidOut
    <3>4. t[HeaderOf(p, i)] = Head2(p.sections[i].title)
      <4>1. Glued.is # "head"
        BY DEF Glued
      <4> HIDE DEF t
      <4> QED BY <3>2, <3>3, <4>1 DEF HeadAt
    <3> QED BY <3>4 DEF Head2
  <2>2. SectionAt(t, b, HeaderOf(p, i)) =
          [title |-> p.sections[i].title, body |-> body(i), bare |-> p.sections[i].bare]
    <3>1. EndOf(t, b, HeaderOf(p, i)) = last(i)
      BY <1>10
    <3>2. SubSeq(t, HeaderOf(p, i) + 1, last(i)) = body(i)
      BY <1>12
    <3>3. p.sections[i].bare = (b /\ last(i) = Len(t) /\ HeaderOf(p, i) < Len(t))
      <4>1. p.sections[i].bare \in BOOLEAN
        BY <1>4
      <4> HIDE DEF b, t, last
      <4> QED BY <1>13, <4>1
    <3> HIDE DEF t, b, last
    <3> QED BY <2>1, <3>1, <3>2, <3>3 DEF SectionAt
  <2>3. p.sections[i] = [title |-> p.sections[i].title, body |-> body(i), bare |-> p.sections[i].bare]
    BY <1>4 DEF Section
  <2> QED BY <2>2, <2>3
<1>15. [i \in 1..n |-> SectionAt(t, b, Nth(hs, i))] = p.sections
  <2>1. p.sections = [i \in 1..n |-> p.sections[i]]
    <3>1. p.sections \in [1..n -> Section]
      BY <1>4, LenProperties
    <3> QED BY <3>1
  <2>2. \A i \in 1..n : SectionAt(t, b, Nth(hs, i)) = p.sections[i]
    <3> HIDE DEF hs, t, b, n
    <3> QED BY <1>7, <1>14
  <2> HIDE DEF hs, t, b, n
  <2> QED BY <2>1, <2>2
<1>16. (b /\ hs = {} /\ t # <<>>) = p.bare
  <2>1. CASE n = 0
    <3>1. b = p.bare /\ t = p.pre
      BY <1>2, <2>1 DEF Unended
    <3>2. hs = {}
      BY <1>5, <2>1
    <3>3. p.bare => p.pre # <<>>
      BY DEF EndsWell
    <3> HIDE DEF hs, t, b
    <3> QED BY <1>4, <3>1, <3>2, <3>3
  <2>2. CASE n # 0
    <3>1. hs # {}
      <4>1. 1 \in 1..n
        BY <1>2, <2>2
      <4> QED BY <1>5, <4>1
    <3>2. ~p.bare
      <4>1. Len(<<>>) = 0
        OBVIOUS
      <4> QED BY <2>2, <4>1 DEF EndsWell
    <3> HIDE DEF hs, t, b
    <3> QED BY <1>4, <3>1, <3>2
  <2> QED BY <2>1, <2>2
<1>17. p = [pre |-> p.pre, bare |-> p.bare, sections |-> p.sections]
  BY DEF PageRec
<1>18. Parse(t, b) = [pre |-> p.pre, bare |-> p.bare, sections |-> p.sections]
  <2>1. Parse(t, b) = [pre |-> SubSeq(t, 1, EndOf(t, b, 0)), bare |-> b /\ hs = {} /\ t # <<>>,
                       sections |-> [i \in 1..Cardinality(hs) |-> SectionAt(t, b, Nth(hs, i))]]
    BY DEF Parse
  <2> HIDE DEF hs, t, b, n
  <2> QED BY <1>7, <1>9, <1>11, <1>15, <1>16, <2>1
<1> QED BY <1>1, <1>17, <1>18

-----------------------------------------------------------------------------
(* Parsing (parse_page).                                                   *)

LEMMA PartIs ==
    ASSUME NEW E, NEW t \in Seq(E), NEW a \in Nat, NEW e \in Nat, a <= e, e <= Len(t)
    PROVE  LET r == SubSeq(t, a + 1, e) IN
           /\ r \in Seq(E) /\ Len(r) = e - a /\ e - a \in Nat
           /\ \A k \in 1..(e - a) : r[k] = t[a + k]
<1> DEFINE m == a + 1
           r == SubSeq(t, m, e)
<1>1. m \in Int /\ e \in Int /\ Len(t) \in Nat /\ t \in [1..Len(t) -> E]
  BY LenProperties
<1>2. \A i \in m..e : t[i] \in E
  BY <1>1
<1>3. r \in Seq(E) /\ Len(r) = (IF m <= e THEN e - m + 1 ELSE 0) /\ \A i \in 1..(e - m + 1) : r[i] = t[m + i - 1]
  <2> HIDE DEF m
  <2> QED BY <1>1, <1>2, SubSeqProperties
<1>4. Len(r) = e - a
  <2> HIDE DEF r
  <2> QED BY <1>1, <1>3
<1>5. \A k \in 1..(e - a) : r[k] = t[a + k]
  <2> SUFFICES ASSUME NEW k \in 1..(e - a) PROVE r[k] = t[a + k]
    OBVIOUS
  <2>1. k \in 1..(e - m + 1) /\ m + k - 1 = a + k
    OBVIOUS
  <2>2. r[k] = t[m + k - 1]
    BY <1>3, <2>1
  <2> QED BY <2>1, <2>2
<1> QED BY <1>3, <1>4, <1>5

LEMMA HeadersAre ==
    ASSUME NEW t \in Seq(Line), NEW b \in BOOLEAN
    PROVE  /\ Len(t) \in Nat /\ DOMAIN t = 1..Len(t)
           /\ RealHeaders(t, b) \subseteq 1..Len(t)
           /\ \A h \in RealHeaders(t, b) : h \in Nat /\ t[h].is = "head" /\ t[h].title \in Names
           /\ \A h \in 1..Len(t) : t[h].is = "head" => h \in RealHeaders(t, b) \/ (b /\ h = Len(t))
<1>1. Len(t) \in Nat /\ DOMAIN t = 1..Len(t)
  BY LenProperties
<1>2. \A h \in 1..Len(t) : t[h] \in Line
  BY ElementOfSeq
<1>3. RealHeaders(t, b) \subseteq 1..Len(t) /\ \A h \in RealHeaders(t, b) : t[h].is = "head"
  BY <1>1 DEF RealHeaders, Headers
<1>4. \A h \in RealHeaders(t, b) : t[h].title \in Names
  BY <1>2, <1>3, LineIs
<1>5. \A h \in 1..Len(t) : t[h].is = "head" => h \in RealHeaders(t, b) \/ (b /\ h = Len(t))
  <2>1. CASE b
    <3>1. RealHeaders(t, b) = Headers(t) \ {Len(t)}
      BY <2>1 DEF RealHeaders
    <3> QED BY <1>1, <2>1, <3>1 DEF Headers
  <2>2. CASE ~b
    <3>1. RealHeaders(t, b) = Headers(t) \ {}
      BY <2>2 DEF RealHeaders
    <3> QED BY <1>1, <3>1 DEF Headers
  <2> QED BY <2>1, <2>2
<1>6. \A h \in RealHeaders(t, b) : h \in Nat
  BY <1>1, <1>3
<1> QED BY <1>1, <1>3, <1>4, <1>5, <1>6

\* A section ends before the next header, or with the text.
LEMMA EndIs ==
    ASSUME NEW t \in Seq(Line), NEW b \in BOOLEAN, NEW i \in 0..Len(t)
    PROVE  LET e == EndOf(t, b, i) IN
           /\ e \in Nat /\ i <= e /\ e <= Len(t)
           /\ \A k \in RealHeaders(t, b) : k <= i \/ k > e
           /\ e = Len(t) \/ e + 1 \in RealHeaders(t, b)
           /\ RealHeaders(t, b) = {} => e = Len(t)
<1> DEFINE hs == RealHeaders(t, b)
           A == Above(hs, i)
<1>1. Len(t) \in Nat /\ i \in Nat /\ i <= Len(t) /\ hs \subseteq 1..Len(t)
  BY HeadersAre
<1>2. A \subseteq hs /\ \A k \in hs : k \in Nat /\ k <= Len(t) /\ (k > i <=> k \in A)
  BY <1>1 DEF Above
<1> HIDE DEF hs, A
<1>3. CASE A = {}
  <2>1. EndOf(t, b, i) = Len(t)
    BY <1>3 DEF EndOf, A, hs
  <2>2. \A k \in hs : k <= i
    BY <1>1, <1>2, <1>3
  <2> QED BY <1>1, <2>1, <2>2 DEF hs
<1>4. CASE A # {}
  <2>1. EndOf(t, b, i) = Min(A) - 1
    BY <1>4 DEF EndOf, A, hs
  <2>2. Min(A) \in A /\ \A j \in A : Min(A) <= j
    BY <1>2, <1>4, LeastIs
  <2> DEFINE m == Min(A)
  <2>3. m \in hs /\ m \in Nat /\ m <= Len(t) /\ m > i
    BY <1>2, <2>2
  <2>4. \A k \in hs : k <= i \/ m <= k
    BY <1>1, <1>2, <2>2
  <2> HIDE DEF m
  <2>5. m - 1 \in Nat /\ i <= m - 1 /\ m - 1 <= Len(t) /\ (m - 1) + 1 = m
    BY <1>1, <2>3
  <2>6. \A k \in hs : k <= i \/ k > m - 1
    BY <1>2, <2>3, <2>4
  <2> QED BY <2>1, <2>3, <2>5, <2>6 DEF m, hs
<1> QED BY <1>3, <1>4

\* A header the parse does not see can only be a part's last line.
HeadsLast(p) ==
    /\ Headers(p.pre) \subseteq {Len(p.pre)}
    /\ \A i \in DOMAIN p.sections : Headers(p.sections[i].body) \subseteq {Len(p.sections[i].body)}

\* Whether the text ends in a header without a newline.
HeaderEnds(t, b) == b /\ t[Len(t)].is = "head"

\* The lines from a+1 to e, none of them a real header.
LEMMA BodyIs ==
    ASSUME NEW t \in Seq(Line), NEW b \in BOOLEAN, NEW a \in Nat, NEW e \in Nat, a <= e, e <= Len(t),
           \A k \in RealHeaders(t, b) : k <= a \/ k > e
    PROVE  LET r == SubSeq(t, a + 1, e) IN
           Headers(r) \subseteq {Len(r)} /\ (~HeaderEnds(t, b) => Headers(r) = {})
<1> DEFINE r == SubSeq(t, a + 1, e)
<1>1. r \in Seq(Line) /\ Len(r) = e - a /\ e - a \in Nat /\ \A k \in 1..(e - a) : r[k] = t[a + k]
  BY PartIs
<1> HIDE DEF r
<1>2. DOMAIN r = 1..(e - a)
  BY <1>1, LenProperties
<1>3. Len(t) \in Nat
  BY LenProperties
<1>4. ASSUME NEW k \in Headers(r) PROVE b /\ a + k = Len(t) /\ k = e - a
  <2>1. k \in 1..(e - a) /\ t[a + k].is = "head"
    BY <1>1, <1>2 DEF Headers
  <2>2. a + k \in 1..Len(t) /\ a + k <= e /\ ~(a + k <= a) /\ ~(a + k > e)
    BY <1>3, <2>1
  <2>3. b /\ a + k = Len(t)
    BY <2>1, <2>2, HeadersAre
  <2>4. k = e - a
    BY <1>3, <2>1, <2>2, <2>3
  <2> QED BY <2>3, <2>4
<1>5. Headers(r) \subseteq {Len(r)}
  BY <1>1, <1>4
<1>6. ASSUME ~HeaderEnds(t, b), NEW k \in Headers(r) PROVE FALSE
  <2>1. b /\ a + k = Len(t)
    BY <1>4, <1>6
  <2>2. t[a + k].is = "head"
    BY <1>1, <1>2, <1>6 DEF Headers
  <2> QED BY <1>6, <2>1, <2>2 DEF HeaderEnds
<1> QED BY <1>5, <1>6 DEF r

LEMMA SectionAtIs ==
    ASSUME NEW t \in Seq(Line), NEW b \in BOOLEAN, NEW h \in RealHeaders(t, b)
    PROVE  LET s == SectionAt(t, b, h)
               e == EndOf(t, b, h) IN
           /\ s \in Section
           /\ s.bare => e = Len(t) /\ s.body # <<>>
           /\ Headers(s.body) \subseteq {Len(s.body)}
           /\ ~HeaderEnds(t, b) => Headers(s.body) = {}
           /\ h \in Nat /\ e \in Nat /\ h <= e /\ e <= Len(t)
           /\ s.body \in Seq(Line) /\ Len(s.body) = e - h
           /\ \A k \in 1..(e - h) : s.body[k] = t[h + k]
<1> DEFINE s == SectionAt(t, b, h)
           e == EndOf(t, b, h)
           r == SubSeq(t, h + 1, e)
<1>1. h \in Nat /\ h \in 1..Len(t) /\ h \in 0..Len(t) /\ t[h].title \in Names /\ Len(t) \in Nat
  <2>1. h \in 1..Len(t) /\ t[h].title \in Names /\ Len(t) \in Nat
    BY HeadersAre
  <2> QED BY <2>1
<1>2. e \in Nat /\ h <= e /\ e <= Len(t) /\ \A k \in RealHeaders(t, b) : k <= h \/ k > e
  BY <1>1, EndIs
<1> HIDE DEF e
<1>3. r \in Seq(Line) /\ Len(r) = e - h /\ \A k \in 1..(e - h) : r[k] = t[h + k]
  <2>1. h \in Nat /\ e \in Nat /\ h <= e /\ e <= Len(t)
    BY <1>1, <1>2
  <2> QED BY ONLY <2>1, t \in Seq(Line), PartIs
<1>4. Headers(r) \subseteq {Len(r)} /\ (~HeaderEnds(t, b) => Headers(r) = {})
  BY <1>1, <1>2, BodyIs
<1> DEFINE w == b /\ e = Len(t) /\ h < Len(t)
<1>5. s = [title |-> t[h].title, body |-> r, bare |-> w] /\ w \in BOOLEAN
  BY DEF SectionAt, e
<1> HIDE DEF r, s, w
<1>6. s.title = t[h].title /\ s.body = r /\ s.bare = w
  BY <1>5
<1>7. s \in Section
  BY <1>1, <1>3, <1>5 DEF Section
<1>8. s.bare => e = Len(t) /\ s.body # <<>>
  <2> SUFFICES ASSUME s.bare PROVE e = Len(t) /\ s.body # <<>>
    OBVIOUS
  <2>1. e = Len(t) /\ h < Len(t)
    BY <1>6 DEF w
  <2>2. Len(r) # 0
    BY <1>1, <1>3, <2>1
  <2>3. Len(<<>>) = 0
    OBVIOUS
  <2> QED BY <1>6, <2>1, <2>2, <2>3
<1> QED BY <1>1, <1>2, <1>3, <1>4, <1>6, <1>7, <1>8 DEF s, e

\* A parse, part by part.
LEMMA ParsedParts ==
    ASSUME NEW t \in Seq(Line), NEW b \in BOOLEAN
    PROVE  LET p == Parse(t, b)
               hs == RealHeaders(t, b)
               n == Cardinality(hs) IN
           /\ n \in Nat
           /\ p.pre = SubSeq(t, 1, EndOf(t, b, 0)) /\ p.bare = (b /\ hs = {} /\ t # <<>>)
           /\ p.sections \in Seq(Section) /\ Len(p.sections) = n /\ DOMAIN p.sections = 1..n
           /\ \A i \in 1..n : Nth(hs, i) \in hs /\ p.sections[i] = SectionAt(t, b, Nth(hs, i))
           /\ p = [pre |-> p.pre, bare |-> p.bare, sections |-> p.sections]
<1> DEFINE p == Parse(t, b)
           hs == RealHeaders(t, b)
           n == Cardinality(hs)
           ss == [i \in 1..n |-> SectionAt(t, b, Nth(hs, i))]
<1>1. Len(t) \in Nat /\ hs \subseteq 1..Len(t)
  BY HeadersAre
<1>2. n \in Nat
  BY <1>1, FiniteUpTo
<1>3. \A i \in 1..n : Nth(hs, i) \in hs
  <2> SUFFICES ASSUME NEW i \in 1..n PROVE Nth(hs, i) \in hs
    OBVIOUS
  <2> HIDE DEF hs
  <2> QED BY <1>1, NthIs
<1>4. \A i \in 1..n : SectionAt(t, b, Nth(hs, i)) \in Section
  <2> SUFFICES ASSUME NEW i \in 1..n PROVE SectionAt(t, b, Nth(hs, i)) \in Section
    OBVIOUS
  <2>1. Nth(hs, i) \in RealHeaders(t, b)
    BY <1>3
  <2> QED BY <2>1, SectionAtIs
<1> DEFINE w == b /\ hs = {} /\ t # <<>>
<1>5. p = [pre |-> SubSeq(t, 1, EndOf(t, b, 0)), bare |-> w, sections |-> ss]
  BY DEF Parse
<1> HIDE DEF hs, n, p, w
<1>6. \A i \in 1..n : ss[i] = SectionAt(t, b, Nth(hs, i))
  OBVIOUS
<1>7. ss \in [1..n -> Section] /\ DOMAIN ss = 1..n
  BY <1>4
<1> HIDE DEF ss
<1>8. ss \in Seq(Section)
  BY <1>2, <1>7
<1>9. Len(ss) = n
  <2>1. Len(ss) \in Nat /\ DOMAIN ss = 1..Len(ss)
    BY <1>8, LenProperties
  <2> QED BY <1>2, <1>7, <2>1
<1>10. p.pre = SubSeq(t, 1, EndOf(t, b, 0)) /\ p.bare = w /\ p.sections = ss
  BY <1>5
<1>11. p = [pre |-> p.pre, bare |-> p.bare, sections |-> p.sections]
  BY <1>5, <1>10
<1>12. p.sections \in Seq(Section) /\ Len(p.sections) = n /\ DOMAIN p.sections = 1..n
  BY <1>7, <1>8, <1>9, <1>10
<1>13. \A i \in 1..n : Nth(hs, i) \in hs /\ p.sections[i] = SectionAt(t, b, Nth(hs, i))
  BY <1>3, <1>6, <1>10
<1> QED BY <1>2, <1>10, <1>11, <1>12, <1>13 DEF hs, n, p, w

\* What parse_page returns is a page, of which only the last part is unended.
LEMMA ParseIs ==
    ASSUME NEW t \in Seq(Line), NEW b \in BOOLEAN
    PROVE  LET p == Parse(t, b) IN
           /\ p \in PageRec /\ EndsWell(p) /\ HeadsLast(p)
           /\ ~HeaderEnds(t, b) => NoHeads(p)
<1> DEFINE p == Parse(t, b)
           hs == RealHeaders(t, b)
           n == Cardinality(hs)
           e == EndOf(t, b, 0)
           w == b /\ hs = {} /\ t # <<>>
<1>1. /\ n \in Nat /\ p.pre = SubSeq(t, 0 + 1, e) /\ p.bare = w
      /\ p.sections \in Seq(Section) /\ Len(p.sections) = n /\ DOMAIN p.sections = 1..n
      /\ \A i \in 1..n : Nth(hs, i) \in hs /\ p.sections[i] = SectionAt(t, b, Nth(hs, i))
      /\ p = [pre |-> p.pre, bare |-> p.bare, sections |-> p.sections]
  <2>1. 0 + 1 = 1
    OBVIOUS
  <2> QED BY <2>1, ParsedParts
<1>2. Len(t) \in Nat /\ 0 \in 0..Len(t) /\ hs \subseteq 1..Len(t)
  <2>1. Len(t) \in Nat /\ hs \subseteq 1..Len(t)
    BY HeadersAre
  <2> QED BY <2>1
<1>3. /\ e \in Nat /\ 0 <= e /\ e <= Len(t) /\ \A k \in hs : k <= 0 \/ k > e
      /\ hs = {} => e = Len(t)
  BY <1>2, EndIs
<1>4. p.pre \in Seq(Line) /\ Len(p.pre) = e - 0
  <2> HIDE DEF e, p
  <2> QED BY <1>1, <1>3, PartIs
<1>5. Headers(p.pre) \subseteq {Len(p.pre)} /\ (~HeaderEnds(t, b) => Headers(p.pre) = {})
  <2> DEFINE r == SubSeq(t, 0 + 1, e)
  <2> HIDE DEF e, p
  <2>1. Headers(r) \subseteq {Len(r)} /\ (~HeaderEnds(t, b) => Headers(r) = {})
    BY <1>3, BodyIs
  <2> HIDE DEF r
  <2>2. p.pre = r
    BY <1>1 DEF r
  <2> QED BY <2>1, <2>2
<1>6. w \in BOOLEAN
  OBVIOUS
<1>7. p \in PageRec
  <2> HIDE DEF p, w, n, hs
  <2> QED BY <1>1, <1>4, <1>6 DEF PageRec
<1>8. \A i \in 1..n : LET s == p.sections[i] IN
        /\ s.bare => EndOf(t, b, Nth(hs, i)) = Len(t) /\ s.body # <<>>
        /\ Headers(s.body) \subseteq {Len(s.body)}
        /\ ~HeaderEnds(t, b) => Headers(s.body) = {}
  <2> SUFFICES ASSUME NEW i \in 1..n
               PROVE  LET s == p.sections[i] IN
                      /\ s.bare => EndOf(t, b, Nth(hs, i)) = Len(t) /\ s.body # <<>>
                      /\ Headers(s.body) \subseteq {Len(s.body)}
                      /\ ~HeaderEnds(t, b) => Headers(s.body) = {}
    OBVIOUS
  <2> DEFINE h == Nth(hs, i)
             s == SectionAt(t, b, h)
  <2>1. h \in RealHeaders(t, b) /\ p.sections[i] = s
    BY <1>1
  <2> HIDE DEF h
  <2>2. /\ s.bare => EndOf(t, b, h) = Len(t) /\ s.body # <<>>
        /\ Headers(s.body) \subseteq {Len(s.body)}
        /\ ~HeaderEnds(t, b) => Headers(s.body) = {}
    BY <2>1, SectionAtIs
  <2> HIDE DEF s, p
  <2> QED BY <2>1, <2>2 DEF h
<1>9. ASSUME NEW i \in 1..n, EndOf(t, b, Nth(hs, i)) = Len(t) PROVE i = n
  <2> DEFINE h == Nth(hs, i)
  <2>1. h \in hs /\ Count(hs, h) = i
    <3> HIDE DEF hs
    <3> QED BY <1>2, NthIs
  <2>2. h \in 0..Len(t)
    BY <1>2, <2>1
  <2>3. \A k \in hs : k <= h \/ k > Len(t)
    <3> HIDE DEF h
    <3> QED BY <1>9, <2>2, EndIs DEF h
  <2>4. \A k \in hs : k <= h
    BY <1>2, <2>3
  <2> HIDE DEF h, hs
  <2>5. {y \in hs : y <= h} = hs
    BY <2>4
  <2> QED BY <2>1, <2>5 DEF Count, hs
<1>10. EndsWell(p)
  <2>1. p.bare => p.sections = <<>> /\ p.pre # <<>>
    <3> SUFFICES ASSUME w PROVE p.sections = <<>> /\ p.pre # <<>>
      BY <1>1
    <3>1. hs = {} /\ t # <<>>
      OBVIOUS
    <3>2. n = 0
      BY <3>1, FS_EmptySet
    <3>3. Len(p.pre) = Len(t) /\ Len(t) # 0
      <4>1. Len(t) \in Nat \ {0}
        BY <1>2, <3>1, EmptySeq
      <4> HIDE DEF e, p, hs
      <4> QED BY <1>3, <1>4, <3>1, <4>1
    <3>4. Len(<<>>) = 0
      OBVIOUS
    <3>5. p.sections = <<>>
      BY <1>1, <3>2, EmptySeq
    <3> QED BY <3>3, <3>4, <3>5
  <2>2. \A i \in 1..n : p.sections[i].bare => i = n /\ p.sections[i].body # <<>>
    BY <1>8, <1>9
  <2> HIDE DEF p, n
  <2> QED BY <1>1, <2>1, <2>2 DEF EndsWell
<1>11. HeadsLast(p)
  <2> HIDE DEF p, n
  <2> QED BY <1>1, <1>5, <1>8 DEF HeadsLast
<1>12. ~HeaderEnds(t, b) => NoHeads(p)
  <2> HIDE DEF p, n
  <2> QED BY <1>1, <1>5, <1>8 DEF NoHeads
<1> QED BY <1>7, <1>10, <1>11, <1>12

\* Every line that is no header is in some part, at a place counted from its
\* header.
LEMMA LineInPart ==
    ASSUME NEW t \in Seq(Line), NEW b \in BOOLEAN, NEW k \in 1..Len(t), t[k].is # "head"
    PROVE  LET p == Parse(t, b) IN
           \/ Has(p.pre, t[k])
           \/ \E i \in DOMAIN p.sections :
                \E h \in 1..Len(t), j \in DOMAIN p.sections[i].body :
                   /\ k = h + j
                   /\ h + Len(p.sections[i].body) <= Len(t)
                   /\ \A l \in DOMAIN p.sections[i].body : p.sections[i].body[l] = t[h + l]
<1> DEFINE p == Parse(t, b)
           hs == RealHeaders(t, b)
           n == Cardinality(hs)
<1>1. /\ n \in Nat /\ p.pre = SubSeq(t, 0 + 1, EndOf(t, b, 0))
      /\ DOMAIN p.sections = 1..n
      /\ \A i \in 1..n : Nth(hs, i) \in hs /\ p.sections[i] = SectionAt(t, b, Nth(hs, i))
  <2>1. 0 + 1 = 1
    OBVIOUS
  <2> QED BY <2>1, ParsedParts
<1>2. Len(t) \in Nat /\ 0 \in 0..Len(t) /\ hs \subseteq 1..Len(t) /\ \A h \in hs : h \in Nat /\ h \in 0..Len(t)
  <2>1. Len(t) \in Nat /\ hs \subseteq 1..Len(t)
    BY HeadersAre
  <2> QED BY <2>1
<1>3. CASE k <= EndOf(t, b, 0)
  <2> DEFINE e == EndOf(t, b, 0)
  <2>1. e \in Nat /\ 0 <= e /\ e <= Len(t)
    BY <1>2, EndIs
  <2> HIDE DEF e, p
  <2>2. p.pre \in Seq(Line) /\ Len(p.pre) = e - 0 /\ \A i \in 1..(e - 0) : p.pre[i] = t[0 + i]
    BY <1>1, <2>1, PartIs DEF e
  <2>3. k \in 1..(e - 0) /\ 0 + k = k
    BY <1>3, <2>1 DEF e
  <2>4. DOMAIN p.pre = 1..(e - 0)
    BY <2>2, LenProperties
  <2>5. Has(p.pre, t[k])
    BY <2>2, <2>3, <2>4 DEF Has
  <2> QED BY <2>5 DEF p
<1>4. CASE ~(k <= EndOf(t, b, 0))
  <2> DEFINE up == {x \in hs : x <= k}
  <2>1. up # {} /\ up \subseteq 0..Len(t)
    <3>1. /\ EndOf(t, b, 0) \in Nat
          /\ EndOf(t, b, 0) = Len(t) \/ EndOf(t, b, 0) + 1 \in hs
      BY <1>2, EndIs
    <3>2. EndOf(t, b, 0) + 1 <= k /\ EndOf(t, b, 0) # Len(t)
      BY <1>2, <1>4, <3>1
    <3> QED BY <1>2, <3>1, <3>2
  <2> DEFINE h == Max(up)
  <2>2. h \in up /\ \A x \in up : x <= h
    <3> HIDE DEF up
    <3> QED BY <1>2, <2>1, GreatestIs
  <2>3. h \in hs /\ h <= k
    BY <2>2
  <2> HIDE DEF h
  <2>4. PICK i \in 1..n : Nth(hs, i) = h
    <3> HIDE DEF hs
    <3> QED BY <1>2, <2>3, NthOf
  <2> DEFINE e == EndOf(t, b, h)
             s == SectionAt(t, b, h)
  <2>5. p.sections[i] = s /\ i \in DOMAIN p.sections
    BY <1>1, <2>4
  <2>6. /\ e \in Nat /\ h \in Nat /\ h <= e /\ e <= Len(t)
        /\ s.body \in Seq(Line) /\ Len(s.body) = e - h
        /\ \A l \in 1..(e - h) : s.body[l] = t[h + l]
    <3> HIDE DEF s
    <3> QED BY <2>3, SectionAtIs DEF s
  <2>7. e = Len(t) \/ e + 1 \in hs
    BY <1>2, <2>3, EndIs
  <2>8. t[h].is = "head"
    BY <2>3, HeadersAre
  <2> HIDE DEF s, e, p
  <2>9. DOMAIN s.body = 1..(e - h)
    BY <2>6, LenProperties
  <2>10. k <= e
    <3> SUFFICES ASSUME k > e PROVE FALSE
      BY <2>6
    <3>1. e + 1 \in hs /\ e + 1 <= k
      BY <1>2, <2>6, <2>7
    <3>2. e + 1 <= h
      BY <2>2, <3>1
    <3> QED BY <2>6, <3>2
  <2>11. h # k
    BY <2>8
  <2>12. k - h \in 1..(e - h) /\ k = h + (k - h) /\ h \in 1..Len(t) /\ h + (e - h) <= Len(t)
    BY <1>2, <2>3, <2>6, <2>10, <2>11
  <2>13. /\ k = h + (k - h) /\ h + Len(s.body) <= Len(t) /\ h \in 1..Len(t) /\ k - h \in DOMAIN s.body
         /\ \A l \in DOMAIN s.body : s.body[l] = t[h + l]
    BY <2>6, <2>9, <2>12
  <2> QED BY <2>5, <2>13 DEF p
<1> QED BY <1>3, <1>4

-----------------------------------------------------------------------------
(* Reading a text and writing it back.                                     *)

\* The next header of a text is the one right after a section's end.
LEMMA NextHeader ==
    ASSUME NEW t \in Seq(Line), NEW b \in BOOLEAN, NEW h \in 0..Len(t),
           h = 0 \/ h \in RealHeaders(t, b)
    PROVE  LET hs == RealHeaders(t, b)
               e == EndOf(t, b, h)
               i == Count(hs, h) IN
           /\ i \in 0..Cardinality(hs)
           /\ i < Cardinality(hs) => Nth(hs, i + 1) = e + 1
           /\ i = Cardinality(hs) => e = Len(t)
<1> DEFINE hs == RealHeaders(t, b)
           n == Cardinality(hs)
           e == EndOf(t, b, h)
           i == Count(hs, h)
<1>1. Len(t) \in Nat /\ hs \subseteq 1..Len(t) /\ h \in Nat /\ h <= Len(t)
  BY HeadersAre
<1>2. /\ e \in Nat /\ h <= e /\ e <= Len(t)
      /\ \A k \in hs : k <= h \/ k > e
      /\ e = Len(t) \/ e + 1 \in hs
  BY EndIs
<1> HIDE DEF hs, e
<1>3. n \in Nat /\ \A x \in 0..Len(t) : Count(hs, x) \in Nat
  BY <1>1, CountIs
<1>4. i \in 0..n
  <2>1. h = 0 => Count(hs, h) = 0
    BY <1>1, CountIs
  <2>2. h \in hs => Count(hs, h) \in 1..n
    BY <1>1, NthOf
  <2> QED BY <1>3, <2>1, <2>2 DEF hs
<1>5. \A k \in hs : k <= e <=> k <= h
  BY <1>1, <1>2
<1>6. Count(hs, e) = i
  <2>1. {y \in hs : y <= e} = {y \in hs : y <= h}
    BY <1>5
  <2> QED BY <2>1 DEF Count
<1>7. CASE e = Len(t)
  <2>1. Count(hs, Len(t)) = n
    BY <1>1, CountIs
  <2> HIDE DEF i, n
  <2>2. i = n
    BY <1>6, <1>7, <2>1
  <2> QED BY <1>3, <1>4, <1>7, <2>2 DEF i, n, e, hs
<1>8. CASE e # Len(t)
  <2> DEFINE z == e + 1
  <2>1. z \in hs /\ z \in 1..Len(t) /\ z - 1 = e
    BY <1>1, <1>2, <1>8
  <2> HIDE DEF z
  <2>2. Count(hs, z) = Count(hs, z - 1) + (IF z \in hs THEN 1 ELSE 0)
    BY <1>1, <2>1, CountIs
  <2>3. Nth(hs, Count(hs, z)) = z /\ Count(hs, z) \in 1..n
    BY <1>1, <2>1, NthOf
  <2> HIDE DEF i, n
  <2>4. Count(hs, z) = i + 1
    BY <1>6, <2>1, <2>2
  <2>5. i < n /\ i # n
    BY <1>3, <1>4, <2>3, <2>4
  <2>6. Nth(hs, i + 1) = e + 1
    BY <2>3, <2>4 DEF z
  <2> QED BY <1>4, <2>5, <2>6 DEF i, n, e, hs
<1> QED BY <1>7, <1>8

\* In the text of a parsed page every header is where it was.
LEMMA HeadersStand ==
    ASSUME NEW t \in Seq(Line), NEW b \in BOOLEAN
    PROVE  LET p == Parse(t, b)
               hs == RealHeaders(t, b) IN
           \A i \in 1..Cardinality(hs) : HeaderOf(p, i) = Nth(hs, i)
<1> DEFINE p == Parse(t, b)
           hs == RealHeaders(t, b)
           n == Cardinality(hs)
           e(i) == EndOf(t, b, IF i = 0 THEN 0 ELSE Nth(hs, i))
           good == {m \in 0..n : m = 0 \/ HeaderOf(p, m) = Nth(hs, m)}
<1>1. /\ n \in Nat /\ p.pre = SubSeq(t, 1, EndOf(t, b, 0)) /\ Len(p.sections) = n
      /\ \A i \in 1..n : Nth(hs, i) \in hs /\ p.sections[i] = SectionAt(t, b, Nth(hs, i))
  BY ParsedParts
<1>2. p \in PageRec
  BY ParseIs
<1>3. Len(t) \in Nat /\ hs \subseteq 1..Len(t) /\ 0 \in 0..Len(t) /\ \A h \in hs : h \in 0..Len(t)
  <2>1. Len(t) \in Nat /\ hs \subseteq 1..Len(t)
    BY HeadersAre
  <2> QED BY <2>1
<1> HIDE DEF p
<1>4. /\ \A i \in 1..n : i < n => HeaderOf(p, i + 1) = HeaderOf(p, i) + Len(p.sections[i].body) + 1
      /\ n > 0 => HeaderOf(p, 1) = Len(p.pre) + 1
  <2>1. LET l == Len(p.sections)
            last(i) == HeaderOf(p, i) + Len(p.sections[i].body) IN
        /\ \A i \in 1..l : i < l => HeaderOf(p, i + 1) = last(i) + 1
        /\ l > 0 => HeaderOf(p, 1) = Len(p.pre) + 1
    BY <1>2, HeadersInOrder
  <2> QED BY <1>1, <2>1
<1>5. 0 \in good
  BY <1>1
<1>6. ASSUME NEW m \in 0..(n - 1), m \in good PROVE m + 1 \in good
  <2> DEFINE h == IF m = 0 THEN 0 ELSE Nth(hs, m)
             end == EndOf(t, b, h)
  <2>1. h \in 0..Len(t) /\ (h = 0 \/ h \in hs) /\ (m # 0 => m \in 1..n)
    <3>1. m # 0 => m \in 1..n
      BY <1>1
    <3> QED BY <1>1, <1>3, <3>1
  <2>2. Count(hs, h) = m
    <3>1. CASE m = 0
      <4>1. Count(hs, 0) = 0
        <5> HIDE DEF hs
        <5> QED BY <1>3, CountIs
      <4> QED BY <3>1, <4>1
    <3>2. CASE m # 0
      <4>1. Count(hs, Nth(hs, m)) = m
        <5> HIDE DEF hs
        <5> QED BY <1>3, <2>1, <3>2, NthIs DEF hs
      <4> QED BY <3>2, <4>1
    <3> QED BY <3>1, <3>2
  <2>3. Count(hs, h) < n => Nth(hs, Count(hs, h) + 1) = end + 1
    <3> HIDE DEF h
    <3> QED BY <2>1, NextHeader
  <2>4. m < n /\ m + 1 \in 0..n
    BY <1>1
  <2>5. Nth(hs, m + 1) = end + 1
    BY <2>2, <2>3, <2>4
  <2>6. HeaderOf(p, m + 1) = end + 1
    <3>1. CASE m = 0
      <4>1. end \in Nat /\ 0 <= end /\ end <= Len(t)
        BY <1>3, <3>1, EndIs
      <4> HIDE DEF end
      <4>2. Len(SubSeq(t, 0 + 1, end)) = end - 0
        BY <4>1, PartIs
      <4>3. Len(p.pre) = end
        <5>1. 0 + 1 = 1 /\ end - 0 = end
          BY <4>1
        <5> QED BY <1>1, <3>1, <4>2, <5>1 DEF end
      <4>4. HeaderOf(p, 1) = Len(p.pre) + 1 /\ m + 1 = 1
        BY <1>4, <2>4, <3>1
      <4> QED BY <4>3, <4>4
    <3>2. CASE m # 0
      <4>1. HeaderOf(p, m) = h /\ h \in hs /\ p.sections[m] = SectionAt(t, b, h) /\ m \in 1..n
        BY <1>1, <1>6, <2>1, <3>2
      <4>2. HeaderOf(p, m + 1) = HeaderOf(p, m) + Len(p.sections[m].body) + 1
        BY <1>4, <2>4, <4>1
      <4> HIDE DEF h
      <4>3. h \in Nat /\ end \in Nat /\ Len(SectionAt(t, b, h).body) = end - h
        BY <4>1, SectionAtIs
      <4> QED BY <4>1, <4>2, <4>3
    <3> QED BY <3>1, <3>2
  <2> QED BY <2>4, <2>5, <2>6
<1>7. 0..n \subseteq good
  <2> HIDE DEF good
  <2> QED BY <1>1, <1>5, <1>6, UpTo
<1>8. \A i \in 1..n : HeaderOf(p, i) = Nth(hs, i)
  <2> SUFFICES ASSUME NEW i \in 1..n PROVE HeaderOf(p, i) = Nth(hs, i)
    OBVIOUS
  <2>1. i \in 0..n /\ i # 0
    BY <1>1
  <2> QED BY <1>7, <2>1
<1> QED BY <1>8 DEF p

\* What was read is written back as it was.
LEMMA ReadingKeeps ==
    ASSUME NEW t \in Seq(Line), NEW b \in BOOLEAN, b => t # <<>>
    PROVE  DumpFrom(Parse(t, b)) = [lines |-> t, bare |-> b]
<1> DEFINE p == Parse(t, b)
           hs == RealHeaders(t, b)
           n == Cardinality(hs)
           T == TextTo(p)[n]
<1>1. /\ n \in Nat /\ p.pre = SubSeq(t, 0 + 1, EndOf(t, b, 0)) /\ Len(p.sections) = n
      /\ p.bare = (b /\ hs = {} /\ t # <<>>) /\ DOMAIN p.sections = 1..n
      /\ \A i \in 1..n : Nth(hs, i) \in hs /\ p.sections[i] = SectionAt(t, b, Nth(hs, i))
  <2>1. 0 + 1 = 1
    OBVIOUS
  <2> QED BY <2>1, ParsedParts
<1>2. p \in PageRec /\ EndsWell(p)
  BY ParseIs
<1>3. Len(t) \in Nat /\ hs \subseteq 1..Len(t) /\ 0 \in 0..Len(t) /\ \A h \in hs : h \in 0..Len(t) /\ h \in Nat
  <2>1. Len(t) \in Nat /\ hs \subseteq 1..Len(t)
    BY HeadersAre
  <2> QED BY <2>1
<1>4. \A i \in 1..n : HeaderOf(p, i) = Nth(hs, i)
  BY HeadersStand
<1> HIDE DEF p
<1>5. /\ T \in Seq(Line) /\ Len(T) \in Nat
      /\ n > 0 => HeaderOf(p, n) + Len(p.sections[n].body) = Len(T)
      /\ n = 0 => T = p.pre
  <2>1. LET l == Len(p.sections)
            x == TextTo(p)[l] IN
        /\ x \in Seq(Line) /\ Len(x) \in Nat
        /\ l > 0 => HeaderOf(p, l) + Len(p.sections[l].body) = Len(x)
        /\ l = 0 => x = p.pre
    BY <1>2, HeadersInOrder
  <2> QED BY <1>1, <2>1
<1>6. LaidOut(p, n)
  <2>1. n \in 0..Len(p.sections)
    BY <1>1
  <2> QED BY <1>2, <2>1, TextIsLaidOut
<1>7. /\ EndOf(t, b, 0) \in Nat /\ 0 <= EndOf(t, b, 0) /\ EndOf(t, b, 0) <= Len(t)
      /\ hs = {} => EndOf(t, b, 0) = Len(t)
  BY <1>3, EndIs
<1>8. \A k \in 1..Len(p.pre) : p.pre[k] = t[k] /\ k \in 1..Len(t)
  <2> DEFINE e == EndOf(t, b, 0)
  <2>1. e \in Nat /\ 0 <= e /\ e <= Len(t)
    BY <1>7
  <2>2. p.pre = SubSeq(t, 0 + 1, e)
    BY <1>1
  <2> HIDE DEF e
  <2>3. Len(p.pre) = e - 0 /\ \A k \in 1..(e - 0) : p.pre[k] = t[0 + k]
    BY <2>1, <2>2, PartIs
  <2> QED BY <1>3, <2>1, <2>3
<1>9. ASSUME NEW i \in 1..n
      PROVE  LET h == Nth(hs, i) IN
             /\ HeadAt(p, i) = t[h]
             /\ h \in Nat /\ h + Len(p.sections[i].body) = EndOf(t, b, h) /\ EndOf(t, b, h) <= Len(t)
             /\ \A k \in 1..Len(p.sections[i].body) : p.sections[i].body[k] = t[h + k]
  <2> DEFINE h == Nth(hs, i)
             e == EndOf(t, b, h)
             s == SectionAt(t, b, h)
  <2>1. h \in RealHeaders(t, b) /\ p.sections[i] = s
    BY <1>1
  <2> HIDE DEF h
  <2>2. /\ h \in Nat /\ e \in Nat /\ h <= e /\ e <= Len(t) /\ Len(s.body) = e - h
        /\ \A k \in 1..(e - h) : s.body[k] = t[h + k]
    BY <2>1, SectionAtIs
  <2>3. s.title = t[h].title
    BY DEF SectionAt
  <2> HIDE DEF e, s
  <2>4. HeadAt(p, i) = t[h]
    <3>1. ~Unended(p, i - 1)
      <4>1. CASE i = 1
        <5>1. p.sections # <<>>
          <6>1. Len(<<>>) = 0
            OBVIOUS
          <6> QED BY <1>1, <6>1
        <5> QED BY <1>2, <4>1, <5>1 DEF EndsWell, Unended
      <4>2. CASE i # 1
        <5>1. i - 1 \in 1..n /\ i - 1 # n /\ i - 1 # 0
          BY <1>1, <4>2
        <5> QED BY <1>1, <1>2, <5>1 DEF EndsWell, Unended
      <4> QED BY <4>1, <4>2
    <3>2. t[h].is = "head" /\ t[h] \in Line
      BY <1>3, <2>1, HeadersAre, ElementOfSeq
    <3>3. t[h] = Head2(t[h].title)
      <4>1. \A x : x.is = "head" /\ x \in Line => \E y : x = Head2(y)
        BY LineIs DEF Line
      <4>2. PICK y : t[h] = Head2(y)
        BY <3>2, <4>1
      <4>3. Head2(y).title = y
        BY DEF Head2
      <4> QED BY <4>2, <4>3
    <3> QED BY <2>1, <2>3, <3>1, <3>3 DEF HeadAt
  <2>5. h + Len(s.body) = e
    BY <2>2
  <2> QED BY <2>1, <2>2, <2>4, <2>5 DEF h, e
<1>10. Len(T) = Len(t)
  <2>1. CASE n = 0
    <3>1. hs = {}
      <4>1. IsFiniteSet(hs)
        BY <1>3, FiniteUpTo
      <4> QED BY <2>1, <4>1, FS_EmptySet
    <3> DEFINE e == EndOf(t, b, 0)
    <3>2. e \in Nat /\ 0 <= e /\ e <= Len(t) /\ e = Len(t) /\ p.pre = SubSeq(t, 0 + 1, e)
      BY <1>1, <1>7, <3>1
    <3> HIDE DEF e
    <3>3. Len(p.pre) = e - 0
      BY <3>2, PartIs
    <3> QED BY <1>5, <2>1, <3>2, <3>3
  <2>2. CASE n # 0
    <3> DEFINE h == Nth(hs, n)
    <3>1. n \in 1..n /\ n > 0
      BY <1>1, <2>2
    <3>2. h + Len(p.sections[n].body) = EndOf(t, b, h) /\ HeaderOf(p, n) = h /\ h \in hs
      BY <1>1, <1>4, <1>9, <3>1
    <3>3. Count(hs, h) = n
      <4> HIDE DEF hs
      <4> QED BY <1>3, <3>1, NthIs
    <3>4. EndOf(t, b, h) = Len(t)
      <4>1. h \in 0..Len(t) /\ h \in RealHeaders(t, b)
        BY <1>3, <3>2
      <4> HIDE DEF h
      <4> QED BY <3>3, <4>1, NextHeader
    <3> HIDE DEF h, T
    <3> QED BY <1>5, <3>1, <3>2, <3>4
  <2> QED BY <2>1, <2>2
<1>11. ASSUME NEW k \in 1..Len(T) PROVE T[k] = t[k]
  <2>1. \/ k \in 1..Len(p.pre)
        \/ \E i \in 1..n : k = HeaderOf(p, i) \/ \E j \in 1..Len(p.sections[i].body) : k = HeaderOf(p, i) + j
    BY <1>6 DEF LaidOut
  <2>2. CASE k \in 1..Len(p.pre)
    <3>1. T[k] = p.pre[k]
      BY <1>6, <2>2 DEF LaidOut
    <3> QED BY <1>8, <2>2, <3>1
  <2>3. ASSUME NEW i \in 1..n, k = HeaderOf(p, i) PROVE T[k] = t[k]
    <3>1. T[HeaderOf(p, i)] = HeadAt(p, i)
      BY <1>6 DEF LaidOut
    <3> QED BY <1>4, <1>9, <2>3, <3>1
  <2>4. ASSUME NEW i \in 1..n, NEW j \in 1..Len(p.sections[i].body), k = HeaderOf(p, i) + j PROVE T[k] = t[k]
    <3>1. T[HeaderOf(p, i) + j] = p.sections[i].body[j]
      BY <1>6 DEF LaidOut
    <3>2. p.sections[i].body[j] = t[Nth(hs, i) + j]
      BY <1>9
    <3> QED BY <1>4, <2>4, <3>1, <3>2
  <2> QED BY <2>1, <2>2, <2>3, <2>4
<1>12. T = t
  <2> HIDE DEF T
  <2> QED BY <1>5, <1>10, <1>11, SeqEqual
<1>13. Unended(p, n) = b
  <2>1. CASE n = 0
    <3>1. hs = {}
      <4>1. IsFiniteSet(hs)
        BY <1>3, FiniteUpTo
      <4> QED BY <2>1, <4>1, FS_EmptySet
    <3>2. Unended(p, n) = (b /\ hs = {} /\ t # <<>>)
      BY <1>1, <2>1 DEF Unended
    <3> HIDE DEF hs, n
    <3> QED BY <3>1, <3>2
  <2>2. CASE n # 0
    <3> DEFINE h == Nth(hs, n)
               e == EndOf(t, b, h)
    <3>1. n \in 1..n
      BY <1>1, <2>2
    <3>2. h \in hs /\ p.sections[n] = SectionAt(t, b, h)
      BY <1>1, <3>1
    <3>3. Count(hs, h) = n
      <4> HIDE DEF hs
      <4> QED BY <1>3, <3>1, NthIs
    <3>4. e = Len(t)
      <4>1. h \in 0..Len(t) /\ h \in RealHeaders(t, b)
        BY <1>3, <3>2
      <4> HIDE DEF h
      <4> QED BY <3>3, <4>1, NextHeader
    <3>5. b => h < Len(t)
      <4>1. b => h # Len(t)
        BY <3>2 DEF RealHeaders
      <4>2. h \in 1..Len(t)
        BY <1>3, <3>2
      <4> HIDE DEF h, hs
      <4> QED BY <1>3, <4>1, <4>2
    <3>6. Unended(p, n) = p.sections[n].bare
      BY <2>2 DEF Unended
    <3>7. p.sections[n].bare = (b /\ e = Len(t) /\ h < Len(t))
      BY <3>2 DEF SectionAt
    <3> HIDE DEF h, e, n
    <3> QED BY <3>4, <3>5, <3>6, <3>7
  <2> QED BY <2>1, <2>2
<1>14. DumpFrom(p) = [lines |-> T, bare |-> Unended(p, n)]
  <2>1. Len(p.sections) = n
    BY <1>1
  <2> QED BY <2>1 DEF DumpFrom
<1> HIDE DEF T, n
<1> QED BY <1>12, <1>13, <1>14 DEF p

-----------------------------------------------------------------------------
(* What the editor does to a page (editor.py).                             *)

\* A page that was read: only its last part is unended, and a header that the
\* parse did not see is the last line of a part.
Tidy(p) == p \in PageRec /\ EndsWell(p) /\ HeadsLast(p)

\* Whether x is a line of the page that is no header, and one outside fences.
Says(p, x) == Has(p.pre, x) \/ \E i \in DOMAIN p.sections : Has(p.sections[i].body, x)
Free(p, x) ==
    \/ Has(p.pre, x)
    \/ \E i \in DOMAIN p.sections :
         \E k \in DOMAIN p.sections[i].body :
            p.sections[i].body[k] = x /\ ~InsideFence(p.sections[i].body, k)

LEMMA SkeletonIs ==
    ASSUME NEW ti \in Titles
    PROVE  Skeleton(ti) \in Seq(Line) /\ Headers(Skeleton(ti)) = {} /\ ti \in Names
<1>1. Opens \in Line /\ Closes \in Line /\ Opens.is # "head" /\ Closes.is # "head"
  BY LineIs
<1>2. <<Opens, Closes>> \in Seq(Line) /\ DOMAIN <<Opens, Closes>> = 1..2
  BY <1>1
<1>3. \A k \in 1..2 : <<Opens, Closes>>[k].is # "head"
  BY <1>1
<1>4. Headers(<<Opens, Closes>>) = {}
  BY <1>2, <1>3 DEF Headers
<1>5. <<>> \in Seq(Line) /\ Headers(<<>>) = {}
  BY DEF Headers
<1>6. ti \in Names
  BY DEF Names
<1> QED BY <1>2, <1>4, <1>5, <1>6 DEF Skeleton

\* _with_section, where the section is missing.
LEMMA Inserted ==
    ASSUME NEW p \in PageRec, NEW ti \in Titles, Matches(p, ti) = {}
    PROVE  LET q == WithSection(p, ti)
               n == Len(p.sections) IN
           /\ n \in Nat /\ q.pre = p.pre /\ q.bare \in BOOLEAN /\ q.sections \in Seq(Section)
           /\ q = [pre |-> q.pre, bare |-> q.bare, sections |-> q.sections]
           /\ Len(q.sections) = n + 1
           /\ p.sections = <<>> => ~q.bare
           /\ p.sections # <<>> => (q.bare => p.bare)
           /\ \E at \in 1..(n + 1) :
                /\ q.sections[at] = [title |-> ti, body |-> Skeleton(ti), bare |-> FALSE]
                /\ \A i \in 1..(at - 1) : /\ q.sections[i].body = p.sections[i].body
                                          /\ q.sections[i].bare => p.sections[i].bare /\ i # at - 1
                /\ \A i \in at..n : q.sections[i + 1] = p.sections[i]
<1> DEFINE n == Len(p.sections)
           at == IF Later(p, ti) = {} THEN n + 1 ELSE Min(Later(p, ti))
           ended == [i \in 1..(at - 1) |-> IF i = at - 1 THEN [p.sections[i] EXCEPT !.bare = FALSE]
                                           ELSE p.sections[i]]
           new == [title |-> ti, body |-> Skeleton(ti), bare |-> FALSE]
           tail == SubSeq(p.sections, at, n)
           q == WithSection(p, ti)
<1>1. /\ n \in Nat /\ DOMAIN p.sections = 1..n /\ p.sections \in Seq(Section) /\ p.bare \in BOOLEAN
      /\ \A i \in 1..n : p.sections[i] \in Section
      /\ p = [pre |-> p.pre, bare |-> p.bare, sections |-> p.sections]
  <2>1. p = [pre |-> p.pre, bare |-> p.bare, sections |-> p.sections]
    BY DEF PageRec
  <2> QED BY <2>1, SectionsAre
<1>2. at \in 1..(n + 1)
  <2>1. Later(p, ti) \subseteq 1..n
    BY <1>1 DEF Later
  <2>2. Later(p, ti) # {} => Min(Later(p, ti)) \in Later(p, ti)
    <3>1. Later(p, ti) \subseteq Nat
      BY <2>1
    <3> QED BY <3>1, LeastIs
  <2> QED BY <1>1, <2>1, <2>2
<1>3. q = [p EXCEPT !.bare = IF at = 1 THEN FALSE ELSE @, !.sections = ended \o <<new>> \o tail]
  BY DEF WithSection
<1> HIDE DEF at
<1>4. new \in Section
  BY SkeletonIs DEF Section
<1>5. \A i \in 1..(at - 1) : ended[i] \in Section /\ ended[i].body = p.sections[i].body
                             /\ (ended[i].bare => p.sections[i].bare /\ i # at - 1)
  <2> SUFFICES ASSUME NEW i \in 1..(at - 1)
               PROVE  ended[i] \in Section /\ ended[i].body = p.sections[i].body
                      /\ (ended[i].bare => p.sections[i].bare /\ i # at - 1)
    OBVIOUS
  <2>1. p.sections[i] \in Section
    BY <1>1, <1>2
  <2>2. CASE i = at - 1
    <3>1. ended[i] = [p.sections[i] EXCEPT !.bare = FALSE]
      BY <2>2
    <3> HIDE DEF ended
    <3> QED BY <2>1, <3>1 DEF Section
  <2>3. CASE i # at - 1
    <3>1. ended[i] = p.sections[i]
      BY <2>3
    <3> HIDE DEF ended
    <3> QED BY <2>1, <2>3, <3>1
  <2> QED BY <2>2, <2>3
<1>6. ended \in Seq(Section) /\ Len(ended) = at - 1 /\ at - 1 \in Nat
  <2>1. at - 1 \in Nat
    BY <1>2
  <2>2. ended \in [1..(at - 1) -> Section] /\ DOMAIN ended = 1..(at - 1)
    <3>1. ended = [i \in 1..(at - 1) |-> ended[i]]
      OBVIOUS
    <3> HIDE DEF ended
    <3> QED BY <1>5, <3>1
  <2> HIDE DEF ended
  <2>3. ended \in Seq(Section)
    BY <2>1, <2>2
  <2>4. Len(ended) \in Nat /\ DOMAIN ended = 1..Len(ended)
    BY <2>3, LenProperties
  <2> QED BY <2>1, <2>2, <2>3, <2>4
<1>7. tail \in Seq(Section) /\ Len(tail) = n - (at - 1) /\ n - (at - 1) \in Nat
      /\ \A k \in 1..(n - (at - 1)) : tail[k] = p.sections[(at - 1) + k]
  <2>1. (at - 1) + 1 = at /\ at - 1 <= n
    BY <1>1, <1>2
  <2> HIDE DEF n
  <2>2. LET r == SubSeq(p.sections, (at - 1) + 1, n) IN
        /\ r \in Seq(Section) /\ Len(r) = n - (at - 1) /\ n - (at - 1) \in Nat
        /\ \A k \in 1..(n - (at - 1)) : r[k] = p.sections[(at - 1) + k]
    <3>1. n <= Len(p.sections)
      BY <1>1 DEF n
    <3> QED BY <1>1, <1>6, <2>1, <3>1, PartIs
  <2> QED BY <2>1, <2>2
<1> DEFINE ss == ended \o <<new>> \o tail
<1> HIDE DEF ended, new, tail
<1>8. /\ ss \in Seq(Section) /\ Len(ss) = Len(ended) + 1 + Len(tail)
      /\ \A k \in 1..Len(ended) : ss[k] = ended[k]
      /\ ss[Len(ended) + 1] = new
      /\ \A k \in 1..Len(tail) : ss[Len(ended) + 1 + k] = tail[k]
  <2>1. ended \in Seq(Section) /\ new \in Section /\ tail \in Seq(Section)
    BY <1>4, <1>6, <1>7
  <2> QED BY ONLY <2>1, Joined
<1> HIDE DEF ss
<1>9. Len(ss) = n + 1
  <2> HIDE DEF n
  <2> QED BY <1>1, <1>2, <1>6, <1>7, <1>8
<1>10. ss[at] = new
  <2>1. Len(ended) + 1 = at
    BY <1>2, <1>6
  <2> QED BY <1>8, <2>1
<1>11. \A i \in 1..(at - 1) : ss[i].body = p.sections[i].body /\ (ss[i].bare => p.sections[i].bare /\ i # at - 1)
  BY <1>5, <1>6, <1>8
<1>12. \A i \in at..n : ss[i + 1] = p.sections[i]
  <2> HIDE DEF n
  <2> SUFFICES ASSUME NEW i \in at..n PROVE ss[i + 1] = p.sections[i]
    OBVIOUS
  <2> DEFINE k == i - (at - 1)
  <2>1. k \in 1..(n - (at - 1)) /\ Len(ended) + 1 + k = i + 1 /\ (at - 1) + k = i
    <3>1. n \in Nat /\ at \in Nat /\ i \in Nat /\ at <= i /\ i <= n
      BY <1>1, <1>2
    <3>2. k \in 1..(n - (at - 1)) /\ (at - 1) + 1 + k = i + 1 /\ (at - 1) + k = i
      BY <3>1
    <3> QED BY <1>6, <3>2
  <2> HIDE DEF k
  <2>2. ss[Len(ended) + 1 + k] = tail[k]
    BY <1>7, <1>8, <2>1
  <2> QED BY <1>7, <2>1, <2>2
<1>13. q.pre = p.pre /\ q.bare = (IF at = 1 THEN FALSE ELSE p.bare) /\ q.sections = ss
       /\ q = [pre |-> q.pre, bare |-> q.bare, sections |-> q.sections]
  <2> HIDE DEF q, n
  <2> QED BY <1>1, <1>3 DEF ss
<1> HIDE DEF q
<1>14. p.sections = <<>> => ~q.bare
  <2>1. p.sections = <<>> => n = 0
    OBVIOUS
  <2>2. p.sections = <<>> => at = 1
    BY <1>2, <2>1
  <2> QED BY <1>13, <2>2
<1> HIDE DEF n
<1> QED BY <1>1, <1>2, <1>8, <1>9, <1>10, <1>11, <1>12, <1>13, <1>14 DEF new, q, n

\* _with_section: the section is there then, and nothing else is lost.
LEMMA SectionThere ==
    ASSUME NEW p, Tidy(p), NEW ti \in Titles
    PROVE  LET q == WithSection(p, ti) IN
           /\ Tidy(q)
           /\ NoHeads(p) => NoHeads(q)
           /\ At(q, ti) \in DOMAIN q.sections
           /\ \A x : Free(p, x) => Free(q, x)
<1> DEFINE q == WithSection(p, ti)
           n == Len(p.sections)
<1>1. p \in PageRec /\ EndsWell(p) /\ HeadsLast(p)
  BY DEF Tidy
<1>2. n \in Nat /\ DOMAIN p.sections = 1..n /\ p.pre \in Seq(Line)
  BY <1>1, SectionsAre
<1>3. Matches(q, ti) # {} /\ Matches(q, ti) \subseteq Nat => At(q, ti) \in DOMAIN q.sections
  <2> HIDE DEF q
  <2> SUFFICES ASSUME Matches(q, ti) # {}, Matches(q, ti) \subseteq Nat PROVE At(q, ti) \in DOMAIN q.sections
    OBVIOUS
  <2>1. At(q, ti) \in Matches(q, ti)
    BY LeastIs DEF At
  <2> QED BY <2>1 DEF Matches
<1>4. CASE Matches(p, ti) # {}
  <2>1. q = p
    BY <1>4 DEF WithSection
  <2>2. Matches(q, ti) \subseteq Nat
    BY <1>2, <2>1 DEF Matches
  <2> HIDE DEF q
  <2> QED BY <1>3, <1>4, <2>1, <2>2 DEF q
<1>5. CASE Matches(p, ti) = {}
  <2>1. /\ q.pre = p.pre /\ q.bare \in BOOLEAN /\ q.sections \in Seq(Section)
        /\ q = [pre |-> q.pre, bare |-> q.bare, sections |-> q.sections]
        /\ Len(q.sections) = n + 1
        /\ p.sections = <<>> => ~q.bare
        /\ p.sections # <<>> => (q.bare => p.bare)
    BY <1>1, <1>5, Inserted
  <2>2. PICK at \in 1..(n + 1) :
          /\ q.sections[at] = [title |-> ti, body |-> Skeleton(ti), bare |-> FALSE]
          /\ \A i \in 1..(at - 1) : /\ q.sections[i].body = p.sections[i].body
                                    /\ q.sections[i].bare => p.sections[i].bare /\ i # at - 1
          /\ \A i \in at..n : q.sections[i + 1] = p.sections[i]
    BY <1>1, <1>5, Inserted
  <2> HIDE DEF q, n
  <2>3. DOMAIN q.sections = 1..(n + 1)
    BY <2>1, LenProperties
  <2>4. q \in PageRec
    BY <1>2, <2>1 DEF PageRec
  <2>5. ASSUME NEW i \in 1..n
        PROVE  \E j \in 1..(n + 1) : q.sections[j].body = p.sections[i].body
    <3>1. CASE i < at
      <4>1. i \in 1..(at - 1) /\ i \in 1..(n + 1)
        BY <1>2, <3>1
      <4> QED BY <2>2, <4>1
    <3>2. CASE ~(i < at)
      <4>1. i \in at..n /\ i + 1 \in 1..(n + 1)
        BY <1>2, <3>2
      <4>2. q.sections[i + 1] = p.sections[i]
        BY <2>2, <4>1
      <4> QED BY <4>1, <4>2
    <3> QED BY <3>1, <3>2
  <2>6. ASSUME NEW j \in 1..(n + 1)
        PROVE  \/ q.sections[j].body = Skeleton(ti) /\ ~q.sections[j].bare
               \/ \E i \in 1..n : /\ q.sections[j].body = p.sections[i].body
                                  /\ q.sections[j].bare => p.sections[i].bare /\ (i = n => j = n + 1)
    <3>1. CASE j < at
      <4>1. j \in 1..(at - 1) /\ j \in 1..n /\ (j = n => j = at - 1)
        BY <1>2, <3>1
      <4>2. q.sections[j].body = p.sections[j].body
        BY <2>2, <4>1
      <4>3. q.sections[j].bare => p.sections[j].bare /\ j # at - 1
        BY <2>2, <4>1
      <4> QED BY <4>1, <4>2, <4>3
    <3>2. CASE j = at
      BY <2>2, <3>2
    <3>3. CASE ~(j < at) /\ j # at
      <4> DEFINE i == j - 1
      <4>1. i \in at..n /\ i \in 1..n /\ i + 1 = j /\ (i = n => j = n + 1)
        BY <1>2, <3>3
      <4> HIDE DEF i
      <4>2. q.sections[j] = p.sections[i]
        BY <2>2, <4>1
      <4> QED BY <4>1, <4>2
    <3> QED BY <3>1, <3>2, <3>3
  <2>7. EndsWell(q)
    <3>1. q.bare => q.sections = <<>> /\ q.pre # <<>>
      BY <1>1, <2>1 DEF EndsWell
    <3>2. ASSUME NEW j \in 1..(n + 1), q.sections[j].bare
          PROVE  j = Len(q.sections) /\ q.sections[j].body # <<>>
      <4>1. PICK i \in 1..n : /\ q.sections[j].body = p.sections[i].body
                              /\ q.sections[j].bare => p.sections[i].bare /\ (i = n => j = n + 1)
        BY <2>6, <3>2
      <4>2. i = n /\ p.sections[i].body # <<>>
        BY <1>1, <1>2, <3>2, <4>1 DEF EndsWell, n
      <4> QED BY <2>1, <3>2, <4>1, <4>2
    <3> QED BY <2>3, <3>1, <3>2 DEF EndsWell
  <2>8. \A j \in 1..(n + 1) : q.sections[j].body = Skeleton(ti) \/ \E i \in DOMAIN p.sections : q.sections[j].body = p.sections[i].body
    BY <1>2, <2>6
  <2>9. HeadsLast(q)
    BY <1>1, <2>1, <2>3, <2>8, SkeletonIs DEF HeadsLast
  <2>10. NoHeads(p) => NoHeads(q)
    BY <2>1, <2>3, <2>8, SkeletonIs DEF NoHeads
  <2>11. At(q, ti) \in DOMAIN q.sections
    <3>1. at \in Matches(q, ti)
      BY <2>2, <2>3 DEF Matches
    <3>2. Matches(q, ti) \subseteq Nat
      BY <2>3 DEF Matches
    <3> QED BY <1>3, <3>1, <3>2
  <2>12. \A x : Free(p, x) => Free(q, x)
    BY <1>2, <2>1, <2>3, <2>5 DEF Free
  <2> QED BY <2>4, <2>7, <2>9, <2>10, <2>11, <2>12 DEF Tidy, q
<1> QED BY <1>4, <1>5

\* The page with another body for one section.
LEMMA Rebodied ==
    ASSUME NEW p, Tidy(p), NEW ti, At(p, ti) \in DOMAIN p.sections,
           NEW t \in Seq(Line), NEW b \in BOOLEAN,
           b => p.sections[At(p, ti)].bare /\ t # <<>>
    PROVE  LET q == WithBody(p, ti, t, b) IN
           /\ q \in PageRec /\ EndsWell(q)
           /\ NoHeads(p) /\ Headers(t) = {} => NoHeads(q)
           /\ \A x : Has(t, x) => Says(q, x)
           /\ \A x : Has(p.pre, x) => Says(q, x)
           /\ \A x : \A i \in DOMAIN p.sections : i # At(p, ti) /\ Has(p.sections[i].body, x) => Says(q, x)
<1> DEFINE q == WithBody(p, ti, t, b)
           n == Len(p.sections)
           a == At(p, ti)
           s == [p.sections[a] EXCEPT !.body = t, !.bare = b]
<1>1. p \in PageRec /\ EndsWell(p)
  BY DEF Tidy
<1>2. /\ n \in Nat /\ DOMAIN p.sections = 1..n /\ p.sections \in Seq(Section) /\ p.pre \in Seq(Line)
      /\ p.bare \in BOOLEAN /\ \A i \in 1..n : p.sections[i] \in Section
      /\ p = [pre |-> p.pre, bare |-> p.bare, sections |-> p.sections]
  <2>1. p = [pre |-> p.pre, bare |-> p.bare, sections |-> p.sections]
    BY <1>1 DEF PageRec
  <2> QED BY <1>1, <2>1, SectionsAre
<1>3. q = [p EXCEPT !.sections[a] = s]
  BY DEF WithBody
<1>4. a \in 1..n
  BY <1>2
<1> HIDE DEF a, q
<1>5. s \in Section /\ s.body = t /\ s.bare = b
  BY <1>2, <1>4 DEF Section
<1> HIDE DEF s
<1> DEFINE ss == [p.sections EXCEPT ![a] = s]
<1>6. q.pre = p.pre /\ q.bare = p.bare /\ q.sections = ss
      /\ q = [pre |-> q.pre, bare |-> q.bare, sections |-> q.sections]
  BY <1>2, <1>3
<1>7. /\ ss \in Seq(Section) /\ Len(ss) = n /\ DOMAIN ss = 1..n
      /\ ss[a] = s /\ \A i \in 1..n : i # a => ss[i] = p.sections[i]
  <2>1. ss \in Seq(Section) /\ Len(ss) = n
    <3>1. a \in 1..Len(p.sections)
      BY <1>4
    <3> QED BY <1>2, <1>5, <3>1, ExceptSeq
  <2>2. DOMAIN ss = 1..n /\ ss[a] = s /\ \A i \in 1..n : i # a => ss[i] = p.sections[i]
    BY <1>2, <1>4
  <2> QED BY <2>1, <2>2
<1> HIDE DEF ss
<1>8. q \in PageRec
  BY <1>2, <1>6, <1>7 DEF PageRec
<1>9. EndsWell(q)
  <2>1. ~q.bare
    <3>1. n # 0
      BY <1>2, <1>4
    <3>2. Len(<<>>) = 0
      OBVIOUS
    <3> QED BY <1>1, <1>6, <3>1, <3>2 DEF EndsWell
  <2>2. \A i \in 1..n : ss[i].bare => i = n /\ ss[i].body # <<>>
    <3> SUFFICES ASSUME NEW i \in 1..n, ss[i].bare PROVE i = n /\ ss[i].body # <<>>
      OBVIOUS
    <3>1. CASE i = a
      <4>1. b
        BY <1>5, <1>7, <3>1
      <4>2. p.sections[a].bare /\ t # <<>>
        BY <4>1 DEF a
      <4> QED BY <1>1, <1>2, <1>4, <1>5, <1>7, <3>1, <4>2 DEF EndsWell
    <3>2. CASE i # a
      BY <1>1, <1>2, <1>7, <3>2 DEF EndsWell
    <3> QED BY <3>1, <3>2
  <2> HIDE DEF n
  <2> QED BY <1>6, <1>7, <2>1, <2>2 DEF EndsWell
<1>10. NoHeads(p) /\ Headers(t) = {} => NoHeads(q)
  BY <1>2, <1>5, <1>6, <1>7 DEF NoHeads
<1>11. \A x : Has(t, x) => Says(q, x)
  BY <1>4, <1>5, <1>6, <1>7 DEF Says
<1>12. \A x : Has(p.pre, x) => Says(q, x)
  BY <1>6 DEF Says
<1>13. \A x : \A i \in DOMAIN p.sections : i # a /\ Has(p.sections[i].body, x) => Says(q, x)
  BY <1>2, <1>6, <1>7 DEF Says
<1> QED BY <1>8, <1>9, <1>10, <1>11, <1>12, <1>13 DEF q, a

LEMMA Both ==
    ASSUME NEW s \in Seq(Line), NEW t \in Seq(Line)
    PROVE  /\ s \o t \in Seq(Line)
           /\ s # <<>> \/ t # <<>> => s \o t # <<>>
           /\ Headers(s) = {} /\ Headers(t) = {} => Headers(s \o t) = {}
           /\ \A x : Has(s, x) \/ Has(t, x) => Has(s \o t, x)
<1> DEFINE r == s \o t
           m == Len(s)
           n == Len(t)
<1>1. m \in Nat /\ n \in Nat /\ DOMAIN s = 1..m /\ DOMAIN t = 1..n
      /\ (s # <<>> => m # 0) /\ (t # <<>> => n # 0)
  BY LenProperties, EmptySeq
<1>2. /\ r \in Seq(Line) /\ Len(r) = m + n
      /\ \A i \in 1..(m + n) : r[i] = IF i <= m THEN s[i] ELSE t[i - m]
  BY ConcatProperties
<1> HIDE DEF r
<1>3. DOMAIN r = 1..(m + n)
  BY <1>2, LenProperties
<1> HIDE DEF m, n
<1>4. \A i \in 1..m : i \in 1..(m + n) /\ r[i] = s[i]
  BY <1>1, <1>2
<1>5. \A i \in 1..n : m + i \in 1..(m + n) /\ r[m + i] = t[i]
  <2> SUFFICES ASSUME NEW i \in 1..n PROVE m + i \in 1..(m + n) /\ r[m + i] = t[i]
    OBVIOUS
  <2>1. m + i \in 1..(m + n) /\ ~(m + i <= m) /\ (m + i) - m = i
    BY <1>1
  <2> QED BY <1>2, <2>1
<1>6. \A i \in 1..(m + n) : i \in 1..m \/ (i - m \in 1..n /\ m + (i - m) = i)
  BY <1>1
<1>7. s # <<>> \/ t # <<>> => r # <<>>
  <2>1. s # <<>> \/ t # <<>> => m + n # 0
    BY <1>1
  <2>2. Len(<<>>) = 0
    OBVIOUS
  <2> QED BY <1>2, <2>1, <2>2
<1>8. Headers(s) = {} /\ Headers(t) = {} => Headers(r) = {}
  <2> SUFFICES ASSUME Headers(s) = {}, Headers(t) = {}, NEW i \in Headers(r) PROVE FALSE
    OBVIOUS
  <2>1. i \in 1..(m + n) /\ r[i].is = "head"
    BY <1>3 DEF Headers
  <2>2. CASE i \in 1..m
    BY <1>1, <1>4, <2>1, <2>2 DEF Headers
  <2>3. CASE i - m \in 1..n /\ m + (i - m) = i
    <3>1. r[i] = t[i - m]
      BY <1>5, <2>3
    <3> QED BY <1>1, <2>1, <2>3, <3>1 DEF Headers
  <2> QED BY <1>6, <2>1, <2>2, <2>3
<1>9. \A x : Has(s, x) \/ Has(t, x) => Has(r, x)
  BY <1>1, <1>3, <1>4, <1>5 DEF Has
<1> QED BY <1>2, <1>7, <1>8, <1>9 DEF r

LEMMA Neutralised ==
    ASSUME NEW t \in Seq(Line)
    PROVE  Neutralise(t) \in Seq(Line) /\ Headers(Neutralise(t)) = {}
<1> DEFINE r == Neutralise(t)
<1>1. Len(t) \in Nat /\ DOMAIN t = 1..Len(t) /\ \A i \in 1..Len(t) : t[i] \in Line
  BY LenProperties, ElementOfSeq
<1>2. r = [i \in DOMAIN t |-> IF t[i].is \in {"head", "open", "close"} THEN Escaped ELSE t[i]]
  BY DEF Neutralise
<1>3. Escaped \in Line /\ Escaped.is # "head"
  BY LineIs
<1>4. DOMAIN r = 1..Len(t) /\ \A i \in 1..Len(t) : r[i] \in Line /\ r[i].is # "head"
  BY <1>1, <1>2, <1>3
<1>5. r \in [1..Len(t) -> Line]
  BY <1>1, <1>2, <1>4
<1> HIDE DEF r
<1>6. r \in Seq(Line)
  BY <1>1, <1>5
<1> QED BY <1>4, <1>6 DEF r, Headers

LEMMA Picked ==
    ASSUME NEW E, NEW t \in Seq(E), NEW S, S \subseteq DOMAIN t
    PROVE  Pick(t, S) \in Seq(E)
<1> DEFINE c == Cardinality(S)
           r == Pick(t, S)
<1>1. Len(t) \in Nat /\ DOMAIN t = 1..Len(t) /\ \A i \in 1..Len(t) : t[i] \in E
  BY LenProperties, ElementOfSeq
<1>2. S \subseteq 1..Len(t)
  BY <1>1
<1>3. c \in Nat
  BY <1>1, <1>2, FiniteUpTo
<1>4. \A k \in 1..c : Nth(S, k) \in S
  BY <1>1, <1>2, NthIs
<1>5. r = [k \in 1..c |-> t[Nth(S, k)]]
  BY DEF Pick
<1> HIDE DEF c, r
<1>6. r \in [1..c -> E]
  BY <1>1, <1>2, <1>4, <1>5
<1> QED BY <1>3, <1>6 DEF r

LEMMA PartHas ==
    ASSUME NEW t \in Seq(Line), NEW a \in Nat, NEW e \in Nat, a <= e, e <= Len(t)
    PROVE  LET r == SubSeq(t, a + 1, e) IN
           /\ r \in Seq(Line) /\ (a # e => r # <<>>)
           /\ Headers(t) = {} => Headers(r) = {}
           /\ \A k \in (a + 1)..e : Has(r, t[k])
<1> DEFINE r == SubSeq(t, a + 1, e)
<1>1. r \in Seq(Line) /\ Len(r) = e - a /\ e - a \in Nat /\ \A k \in 1..(e - a) : r[k] = t[a + k]
  BY PartIs
<1> HIDE DEF r
<1>2. DOMAIN r = 1..(e - a) /\ Len(t) \in Nat /\ DOMAIN t = 1..Len(t)
  BY <1>1, LenProperties
<1>3. a # e => r # <<>>
  <2>1. Len(<<>>) = 0
    OBVIOUS
  <2>2. a # e => e - a # 0
    OBVIOUS
  <2> QED BY <1>1, <2>1, <2>2
<1>4. \A k \in 1..(e - a) : a + k \in 1..Len(t)
  BY <1>2
<1>5. Headers(t) = {} => Headers(r) = {}
  BY <1>1, <1>2, <1>4 DEF Headers
<1>6. ASSUME NEW k \in (a + 1)..e PROVE Has(r, t[k])
  <2>1. k - a \in 1..(e - a) /\ a + (k - a) = k
    OBVIOUS
  <2>2. r[k - a] = t[k]
    BY <1>1, <2>1
  <2> QED BY <1>2, <2>1, <2>2 DEF Has
<1> QED BY <1>1, <1>3, <1>5, <1>6 DEF r

\* _split_fence: nothing that is not inside the fence is inside of what it
\* splits off.
LEMMA FenceIs ==
    ASSUME NEW t \in Seq(Line), NEW b \in BOOLEAN
    PROVE  LET f == SplitFence(t, b) IN
           /\ f.before \in Seq(Line) /\ f.before # <<>>
           /\ f.inner \in Seq(Line) /\ f.after \in Seq(Line)
           /\ f.bare \in BOOLEAN /\ (f.bare => b)
           /\ Headers(t) = {} => Headers(f.before) = {} /\ Headers(f.inner) = {} /\ Headers(f.after) = {}
           /\ Headers(t) \subseteq {Len(t)} =>
                \A k \in DOMAIN t : Has(f.before, t[k]) \/ Has(f.after, t[k]) \/ InsideFence(t, k)
<1> DEFINE f == SplitFence(t, b)
           open == IF Where(t, "open") = {} THEN 0 ELSE Min(Where(t, "open"))
           ends == Above(Where(t, "close"), open)
           z == Min(ends)
<1>1. Len(t) \in Nat /\ DOMAIN t = 1..Len(t)
  BY LenProperties
<1>2. Where(t, "open") \subseteq 1..Len(t) /\ Where(t, "close") \subseteq 1..Len(t)
  BY <1>1 DEF Where
<1>3. open \in 0..Len(t) /\ (open # 0 => open \in Where(t, "open"))
  <2>1. Where(t, "open") # {} => Min(Where(t, "open")) \in Where(t, "open")
    <3>1. Where(t, "open") \subseteq Nat
      BY <1>2
    <3> QED BY <3>1, LeastIs
  <2> QED BY <1>1, <1>2, <2>1
<1>4. Opens \in Line /\ Closes \in Line /\ Opens.is # "head" /\ Closes.is # "head"
  BY LineIs
<1>5. f = IF open = 0 \/ ends = {}
          THEN [before |-> t \o <<Opens>>, inner |-> <<>>, after |-> <<Closes>>, bare |-> FALSE]
          ELSE [before |-> SubSeq(t, 1, open), inner |-> SubSeq(t, open + 1, z - 1),
                after |-> SubSeq(t, z, Len(t)), bare |-> b]
  BY DEF SplitFence
<1> HIDE DEF open, f
<1>6. CASE open = 0 \/ ends = {}
  <2> DEFINE o == <<Opens>>
             c == <<Closes>>
  <2>1. f.before = t \o o /\ f.inner = <<>> /\ f.after = c /\ f.bare = FALSE
    BY <1>5, <1>6
  <2>2. o \in Seq(Line) /\ c \in Seq(Line) /\ <<>> \in Seq(Line)
    BY <1>4
  <2>3. Headers(o) = {} /\ Headers(c) = {} /\ Headers(<<>>) = {}
    BY <1>4 DEF Headers
  <2>4. Has(o, Opens)
    BY DEF Has
  <2> HIDE DEF o, c
  <2>5. /\ t \o o \in Seq(Line) /\ (Headers(t) = {} => Headers(t \o o) = {})
        /\ \A x : Has(t, x) \/ Has(o, x) => Has(t \o o, x)
    BY <2>2, <2>3, Both
  <2>6. t \o o # <<>>
    <3>1. Has(t \o o, Opens)
      BY <2>4, <2>5
    <3>2. ~Has(<<>>, Opens)
      BY DEF Has
    <3> QED BY <3>1, <3>2
  <2>7. \A k \in DOMAIN t : Has(t \o o, t[k])
    BY <2>5 DEF Has
  <2> QED BY <2>1, <2>2, <2>3, <2>5, <2>6, <2>7 DEF f
<1>7. CASE open # 0 /\ ends # {}
  <2>1. /\ f.before = SubSeq(t, 1, open) /\ f.inner = SubSeq(t, open + 1, z - 1)
        /\ f.after = SubSeq(t, z, Len(t)) /\ f.bare = b
    BY <1>5, <1>7
  <2>2. z \in ends /\ \A j \in ends : z <= j
    <3>1. ends \subseteq Nat
      BY <1>2 DEF Above
    <3> HIDE DEF ends
    <3> QED BY <1>7, <3>1, LeastIs
  <2>3. z \in Where(t, "close") /\ z > open
    BY <2>2 DEF Above
  <2> HIDE DEF z
  <2>4. z \in Nat /\ z - 1 \in Nat /\ open \in Nat /\ open <= z - 1 /\ z <= Len(t) /\ z - 1 <= Len(t)
        /\ (z - 1) + 1 = z /\ 0 + 1 = 1 /\ z - 1 # Len(t) /\ open <= Len(t) /\ 0 <= open
    BY <1>1, <1>2, <1>3, <2>3
  <2>5. /\ f.before \in Seq(Line) /\ f.before # <<>>
        /\ Headers(t) = {} => Headers(f.before) = {}
        /\ \A k \in 1..open : Has(f.before, t[k])
    <3>1. LET r == SubSeq(t, 0 + 1, open) IN
          /\ r \in Seq(Line) /\ (0 # open => r # <<>>)
          /\ Headers(t) = {} => Headers(r) = {}
          /\ \A k \in (0 + 1)..open : Has(r, t[k])
      BY <2>4, PartHas
    <3> QED BY <1>7, <2>1, <2>4, <3>1
  <2>6. f.inner \in Seq(Line) /\ (Headers(t) = {} => Headers(f.inner) = {})
    BY <2>1, <2>4, PartHas
  <2>7. /\ f.after \in Seq(Line)
        /\ Headers(t) = {} => Headers(f.after) = {}
        /\ \A k \in z..Len(t) : Has(f.after, t[k])
    <3> DEFINE y == z - 1
    <3>1. y \in Nat /\ Len(t) \in Nat /\ y <= Len(t) /\ Len(t) <= Len(t) /\ y + 1 = z
      BY <1>1, <2>4
    <3> HIDE DEF y
    <3>2. LET r == SubSeq(t, y + 1, Len(t)) IN
          /\ r \in Seq(Line)
          /\ Headers(t) = {} => Headers(r) = {}
          /\ \A k \in (y + 1)..Len(t) : Has(r, t[k])
      BY <3>1, PartHas
    <3> QED BY <2>1, <3>1, <3>2
  <2>8. ASSUME Headers(t) \subseteq {Len(t)}, NEW k \in DOMAIN t, ~(k <= open), ~(z <= k)
        PROVE  InsideFence(t, k)
    <3>1. open \in Where(t, "open") /\ open < k /\ k \in Nat
      BY <1>1, <1>3, <1>7, <2>4, <2>8
    <3>2. ASSUME NEW j \in (open + 1)..(k - 1) PROVE t[j].is \notin {"close", "head"}
      <4>1. j \in 1..Len(t) /\ j > open /\ ~(z <= j) /\ j # Len(t)
        <5>1. k \in Nat /\ k <= Len(t) /\ Len(t) \in Nat /\ z \in Nat /\ open \in Nat /\ k < z
          BY <1>1, <2>4, <2>8
        <5> HIDE DEF ends
        <5> QED BY <3>2, <5>1
      <4>2. t[j].is # "head"
        BY <1>1, <2>8, <4>1 DEF Headers
      <4>3. t[j].is # "close"
        <5>1. j \notin ends
          BY <2>2, <4>1
        <5>2. j \notin Where(t, "close")
          BY <4>1, <5>1 DEF Above
        <5> QED BY <1>1, <4>1, <5>2 DEF Where
      <4> QED BY <4>2, <4>3
    <3> QED BY <3>1, <3>2 DEF InsideFence
  <2>9. \A k \in DOMAIN t : k <= open => k \in 1..open
    BY <1>1, <2>4
  <2>10. \A k \in DOMAIN t : z <= k => k \in z..Len(t)
    BY <1>1, <2>4
  <2> HIDE DEF ends
  <2> QED BY <2>1, <2>5, <2>6, <2>7, <2>8, <2>9, <2>10 DEF f
<1> QED BY <1>6, <1>7

\* q is p edited by the editor: a page that ends well, without a line that
\* would be a header, with every line that stood outside the fences of p.
Edited(p, q) ==
    /\ q \in PageRec /\ EndsWell(q)
    /\ NoHeads(p) => NoHeads(q)
    /\ \A x : Free(p, x) => Says(q, x)

LEMMA BodyOf ==
    ASSUME NEW p, Tidy(p), NEW i \in DOMAIN p.sections
    PROVE  LET s == p.sections[i] IN
           /\ s.body \in Seq(Line) /\ s.bare \in BOOLEAN
           /\ Headers(s.body) \subseteq {Len(s.body)}
           /\ NoHeads(p) => Headers(s.body) = {}
BY SectionsAre DEF Tidy, HeadsLast, NoHeads

\* A section whose text is changed up to the end of its fence.
LEMMA Refenced ==
    ASSUME NEW p, Tidy(p), NEW ti, At(p, ti) \in DOMAIN p.sections, NEW u \in Seq(Line), u # <<>>,
           NoHeads(p) => Headers(u) = {},
           \A x : Has(FenceOf(p, ti).before, x) => Has(u, x)
    PROVE  Edited(p, WithBody(p, ti, u \o FenceOf(p, ti).after, FenceOf(p, ti).bare))
<1> DEFINE a == At(p, ti)
           s == p.sections[a]
           f == FenceOf(p, ti)
           t == u \o f.after
           q == WithBody(p, ti, t, f.bare)
<1>1. /\ s.body \in Seq(Line) /\ s.bare \in BOOLEAN
      /\ Headers(s.body) \subseteq {Len(s.body)}
      /\ NoHeads(p) => Headers(s.body) = {}
  BY BodyOf
<1>2. f = SplitFence(s.body, s.bare)
  BY DEF FenceOf
<1> HIDE DEF f
<1>3. /\ f.after \in Seq(Line) /\ f.bare \in BOOLEAN /\ (f.bare => s.bare)
      /\ NoHeads(p) => Headers(f.after) = {}
      /\ \A k \in DOMAIN s.body : Has(f.before, s.body[k]) \/ Has(f.after, s.body[k]) \/ InsideFence(s.body, k)
  <2> HIDE DEF s
  <2> QED BY <1>1, <1>2, FenceIs
<1>4. /\ t \in Seq(Line) /\ t # <<>>
      /\ NoHeads(p) => Headers(t) = {}
      /\ \A x : Has(f.before, x) \/ Has(f.after, x) => Has(t, x)
  <2>1. \A x : Has(f.before, x) => Has(u, x)
    BY DEF f
  <2> QED BY <1>3, <2>1, Both
<1> HIDE DEF t
<1>5. /\ q \in PageRec /\ EndsWell(q)
      /\ NoHeads(p) => NoHeads(q)
      /\ \A x : Has(t, x) => Says(q, x)
      /\ \A x : Has(p.pre, x) => Says(q, x)
      /\ \A x : \A i \in DOMAIN p.sections : i # a /\ Has(p.sections[i].body, x) => Says(q, x)
  BY <1>3, <1>4, Rebodied
<1> HIDE DEF q
<1>6. ASSUME NEW x, Free(p, x) PROVE Says(q, x)
  <2>1. CASE Has(p.pre, x)
    BY <1>5, <2>1
  <2>2. CASE ~Has(p.pre, x)
    <3>1. PICK i \in DOMAIN p.sections : \E k \in DOMAIN p.sections[i].body :
             p.sections[i].body[k] = x /\ ~InsideFence(p.sections[i].body, k)
      BY <1>6, <2>2 DEF Free
    <3>2. CASE i = a
      <4>1. Has(f.before, x) \/ Has(f.after, x)
        BY <1>3, <3>1, <3>2
      <4> QED BY <1>4, <1>5, <4>1
    <3>3. CASE i # a
      <4>1. Has(p.sections[i].body, x)
        BY <3>1 DEF Has
      <4> QED BY <1>5, <3>3, <4>1
    <3> QED BY <3>2, <3>3
  <2> QED BY <2>1, <2>2
<1> QED BY <1>5, <1>6 DEF Edited, q, t, f

\* An edit of the page with the section is one of the page.
LEMMA EditedThere ==
    ASSUME NEW p, Tidy(p), NEW ti \in Titles, NEW q, Edited(WithSection(p, ti), q)
    PROVE  Edited(p, q)
<1>1. (NoHeads(p) => NoHeads(WithSection(p, ti))) /\ \A x : Free(p, x) => Free(WithSection(p, ti), x)
  BY SectionThere
<1> QED BY <1>1 DEF Edited

\* set_fenced.
LEMMA FencedSet ==
    ASSUME NEW p, Tidy(p), NEW ti \in Titles, NEW t \in Seq(Line)
    PROVE  Edited(p, SetFenced(p, ti, t))
<1> DEFINE w == WithSection(p, ti)
           f == FenceOf(w, ti)
           a == At(w, ti)
           u == f.before \o Neutralise(t)
<1>1. Tidy(w) /\ a \in DOMAIN w.sections
  BY SectionThere
<1>2. SetFenced(p, ti, t) = WithBody(w, ti, u \o f.after, f.bare)
  BY DEF SetFenced
<1> HIDE DEF w
<1>3. f.before \in Seq(Line) /\ f.before # <<>> /\ (NoHeads(w) => Headers(f.before) = {})
  <2> DEFINE s == w.sections[a]
  <2>1. s.body \in Seq(Line) /\ s.bare \in BOOLEAN /\ (NoHeads(w) => Headers(s.body) = {})
    BY <1>1, BodyOf
  <2>2. f = SplitFence(s.body, s.bare)
    BY DEF FenceOf
  <2> HIDE DEF s, f
  <2> QED BY <2>1, <2>2, FenceIs
<1>4. /\ u \in Seq(Line) /\ u # <<>> /\ (NoHeads(w) => Headers(u) = {})
      /\ \A x : Has(f.before, x) => Has(u, x)
  <2> HIDE DEF f
  <2> QED BY <1>3, Neutralised, Both
<1> HIDE DEF u
<1>5. Edited(w, WithBody(w, ti, u \o f.after, f.bare))
  BY <1>1, <1>4, Refenced
<1> QED BY <1>2, <1>5, EditedThere DEF w

\* append_lines, inside a fence and at a section's end.
LEMMA LinesAppended ==
    ASSUME NEW p, Tidy(p), NEW ti \in Titles, NEW t \in Seq(Line)
    PROVE  Edited(p, AppendLines(p, ti, t))
<1> DEFINE w == WithSection(p, ti)
           f == FenceOf(w, ti)
           a == At(w, ti)
           s == w.sections[a]
           m == Neutralise(t)
           i == f.before \o f.inner
           u == i \o m
<1>1. Tidy(w) /\ a \in DOMAIN w.sections
  BY SectionThere
<1>2. AppendLines(p, ti, t) =
        IF t = <<>> THEN p
        ELSE IF Owner[ti] = "append" THEN WithBody(w, ti, u \o f.after, f.bare)
        ELSE WithBody(w, ti, s.body \o m, FALSE)
  BY DEF AppendLines
<1>3. Edited(p, p)
  <2>1. \A x : Free(p, x) => Says(p, x)
    BY DEF Free, Says, Has
  <2> QED BY <2>1 DEF Edited, Tidy
<1> HIDE DEF w
<1>4. s.body \in Seq(Line) /\ s.bare \in BOOLEAN /\ (NoHeads(w) => Headers(s.body) = {})
  BY <1>1, BodyOf
<1>5. m \in Seq(Line) /\ Headers(m) = {}
  BY Neutralised
<1> HIDE DEF m
<1>6. Edited(w, WithBody(w, ti, u \o f.after, f.bare))
  <2>1. f = SplitFence(s.body, s.bare)
    BY DEF FenceOf
  <2>2. /\ f.before \in Seq(Line) /\ f.before # <<>> /\ (NoHeads(w) => Headers(f.before) = {})
        /\ f.inner \in Seq(Line) /\ (NoHeads(w) => Headers(f.inner) = {})
    <3> HIDE DEF s, f
    <3> QED BY <1>4, <2>1, FenceIs
  <2>3. /\ i \in Seq(Line) /\ i # <<>> /\ (NoHeads(w) => Headers(i) = {})
        /\ \A x : Has(f.before, x) => Has(i, x)
    <3> HIDE DEF f
    <3> QED BY <2>2, Both
  <2> HIDE DEF i
  <2>4. /\ u \in Seq(Line) /\ u # <<>> /\ (NoHeads(w) => Headers(u) = {})
        /\ \A x : Has(f.before, x) => Has(u, x)
    <3>1. /\ u \in Seq(Line) /\ u # <<>> /\ (Headers(i) = {} => Headers(u) = {})
          /\ \A x : Has(i, x) => Has(u, x)
      BY <1>5, <2>3, Both
    <3> QED BY <2>3, <3>1
  <2> HIDE DEF u
  <2> QED BY <1>1, <2>4, Refenced
<1>7. Edited(w, WithBody(w, ti, s.body \o m, FALSE))
  <2> DEFINE b == s.body \o m
             q == WithBody(w, ti, b, FALSE)
  <2>1. /\ b \in Seq(Line) /\ (NoHeads(w) => Headers(b) = {})
        /\ \A x : Has(s.body, x) => Has(b, x)
    BY <1>4, <1>5, Both
  <2> HIDE DEF b
  <2>2. /\ q \in PageRec /\ EndsWell(q)
        /\ NoHeads(w) => NoHeads(q)
        /\ \A x : Has(b, x) => Says(q, x)
        /\ \A x : Has(w.pre, x) => Says(q, x)
        /\ \A x : \A j \in DOMAIN w.sections : j # a /\ Has(w.sections[j].body, x) => Says(q, x)
    BY <1>1, <2>1, Rebodied
  <2> HIDE DEF q
  <2>3. ASSUME NEW x, Free(w, x) PROVE Says(q, x)
    <3>1. Has(w.pre, x) \/ \E j \in DOMAIN w.sections : Has(w.sections[j].body, x)
      BY <2>3 DEF Free, Has
    <3> QED BY <2>1, <2>2, <3>1
  <2> QED BY <2>2, <2>3 DEF Edited, q, b
<1>8. \A q : Edited(w, q) => Edited(p, q)
  BY EditedThere DEF w
<1> HIDE DEF u, f, s
<1> QED BY <1>2, <1>3, <1>6, <1>7, <1>8

\* append_items.
LEMMA ItemsAppended ==
    ASSUME NEW p, Tidy(p), NEW ti \in Titles, NEW xs \in Seq(Line)
    PROVE  Edited(p, AppendItems(p, ti, xs))
<1>1. NewItems(p, ti, xs) \in Seq(Line)
  BY Picked DEF NewItems
<1> QED BY <1>1, LinesAppended DEF AppendItems

\* upsert_items.
LEMMA ItemsUpserted ==
    ASSUME NEW p, Tidy(p), NEW ti \in Titles, NEW xs \in Seq(Line)
    PROVE  Edited(p, UpsertItems(p, ti, xs))
<1> DEFINE w == WithSection(p, ti)
           f == FenceOf(w, ti)
           a == At(w, ti)
           ids == {xs[j].id : j \in DOMAIN xs}
           new(id) == xs[Max({j \in DOMAIN xs : xs[j].id = id})]
           first(i) == \A j \in Where(f.inner, "item") : f.inner[j].id = f.inner[i].id => i <= j
           kept == [i \in DOMAIN f.inner |->
                      IF f.inner[i].is = "item" /\ f.inner[i].id \in ids /\ first(i)
                      THEN new(f.inner[i].id) ELSE f.inner[i]]
           rest == Pick(xs, {j \in DOMAIN xs : \A y \in Items(f.inner) : y.id # xs[j].id})
           m == kept \o rest
           u == f.before \o Neutralise(m)
<1>1. Tidy(w) /\ a \in DOMAIN w.sections
  BY SectionThere
<1>2. UpsertItems(p, ti, xs) = WithBody(w, ti, u \o f.after, f.bare)
  BY DEF UpsertItems
<1> HIDE DEF w
<1>3. /\ f.before \in Seq(Line) /\ f.before # <<>> /\ (NoHeads(w) => Headers(f.before) = {})
      /\ f.inner \in Seq(Line)
  <2> DEFINE s == w.sections[a]
  <2>1. s.body \in Seq(Line) /\ s.bare \in BOOLEAN /\ (NoHeads(w) => Headers(s.body) = {})
    BY <1>1, BodyOf
  <2>2. f = SplitFence(s.body, s.bare)
    BY DEF FenceOf
  <2> HIDE DEF s, f
  <2> QED BY <2>1, <2>2, FenceIs
<1> HIDE DEF f
<1>4. rest \in Seq(Line)
  BY Picked
<1>5. \A id \in ids : new(id) \in Line
  <2> SUFFICES ASSUME NEW id \in ids PROVE new(id) \in Line
    OBVIOUS
  <2> DEFINE S == {j \in DOMAIN xs : xs[j].id = id}
  <2>1. Len(xs) \in Nat /\ DOMAIN xs = 1..Len(xs) /\ \A j \in 1..Len(xs) : xs[j] \in Line
    BY LenProperties, ElementOfSeq
  <2>2. S # {} /\ S \subseteq 0..Len(xs)
    BY <2>1
  <2>3. Max(S) \in S
    <3> HIDE DEF S
    <3> QED BY <2>1, <2>2, GreatestIs
  <2> QED BY <2>1, <2>3
<1> HIDE DEF rest, new, first, ids
<1>6. kept \in Seq(Line)
  <2>1. /\ Len(f.inner) \in Nat /\ DOMAIN f.inner = 1..Len(f.inner)
        /\ \A i \in 1..Len(f.inner) : f.inner[i] \in Line
    BY <1>3, LenProperties, ElementOfSeq
  <2>2. \A i \in 1..Len(f.inner) : kept[i] \in Line
    BY <1>5, <2>1
  <2>3. kept = [i \in 1..Len(f.inner) |-> kept[i]]
    BY <2>1
  <2> HIDE DEF kept
  <2>4. kept \in [1..Len(f.inner) -> Line]
    BY <2>2, <2>3
  <2> QED BY <2>1, <2>4
<1> HIDE DEF kept
<1>7. m \in Seq(Line)
  BY <1>4, <1>6, Both
<1> HIDE DEF m
<1>8. /\ u \in Seq(Line) /\ u # <<>> /\ (NoHeads(w) => Headers(u) = {})
      /\ \A x : Has(f.before, x) => Has(u, x)
  BY <1>3, <1>7, Neutralised, Both
<1> HIDE DEF u
<1>9. Edited(w, WithBody(w, ti, u \o f.after, f.bare))
  BY <1>1, <1>8, Refenced DEF f
<1> QED BY <1>2, <1>9, EditedThere DEF w

\* Lint's repair: skeletons after the last section. After a text that has its
\* final newline the page still ends well.
LEMMA Repaired ==
    ASSUME NEW p, Tidy(p)
    PROVE  LET q == Repair(p) IN
           /\ q \in PageRec /\ q.pre = p.pre /\ q.bare = p.bare
           /\ NoHeads(p) => NoHeads(q)
           /\ \A x : Free(p, x) => Says(q, x)
           /\ ~p.bare /\ (\A i \in DOMAIN p.sections : ~p.sections[i].bare) => EndsWell(q)
<1> DEFINE q == Repair(p)
           n == Len(p.sections)
           gone == Missing(p)
           more == [i \in DOMAIN gone |-> [title |-> gone[i], body |-> <<Opens, Closes>>, bare |-> FALSE]]
           k == Len(more)
           ss == p.sections \o more
<1>1. p \in PageRec
  BY DEF Tidy
<1>2. /\ n \in Nat /\ DOMAIN p.sections = 1..n /\ p.sections \in Seq(Section) /\ p.pre \in Seq(Line)
      /\ p.bare \in BOOLEAN /\ p = [pre |-> p.pre, bare |-> p.bare, sections |-> p.sections]
  <2>1. p = [pre |-> p.pre, bare |-> p.bare, sections |-> p.sections]
    BY <1>1 DEF PageRec
  <2> QED BY <1>1, <2>1, SectionsAre
<1>3. gone \in Seq(Titles)
  <2>1. Order \in Seq(Titles)
    BY PagesAssumption
  <2> QED BY <2>1, Picked DEF Missing
<1> HIDE DEF gone
<1>4. <<Opens, Closes>> \in Seq(Line) /\ Headers(<<Opens, Closes>>) = {}
  <2>1. Opens \in Line /\ Closes \in Line /\ Opens.is # "head" /\ Closes.is # "head"
    BY LineIs
  <2>2. \A i \in 1..2 : <<Opens, Closes>>[i].is # "head"
    BY <2>1
  <2>3. DOMAIN <<Opens, Closes>> = 1..2
    OBVIOUS
  <2> QED BY <2>1, <2>2, <2>3 DEF Headers
<1> DEFINE fence == <<Opens, Closes>>
<1> HIDE DEF fence
<1>5. more \in Seq(Section) /\ \A i \in DOMAIN more : more[i].body = fence /\ ~more[i].bare
  <2>1. Len(gone) \in Nat /\ DOMAIN gone = 1..Len(gone) /\ \A i \in 1..Len(gone) : gone[i] \in Titles
    BY <1>3, LenProperties, ElementOfSeq
  <2>2. \A i \in 1..Len(gone) : more[i] = [title |-> gone[i], body |-> fence, bare |-> FALSE]
    BY <2>1 DEF fence
  <2>3. \A i \in 1..Len(gone) : more[i] \in Section
    BY <1>4, <2>1, <2>2 DEF Section, Names, fence
  <2>4. more = [i \in 1..Len(gone) |-> more[i]]
    BY <2>1
  <2>5. DOMAIN more = 1..Len(gone)
    BY <2>1
  <2> HIDE DEF more
  <2>6. more \in [1..Len(gone) -> Section]
    BY <2>3, <2>4
  <2> QED BY <2>1, <2>2, <2>5, <2>6
<1> HIDE DEF more
<1>6. k \in Nat /\ DOMAIN more = 1..k
  BY <1>5, LenProperties
<1>7. /\ ss \in Seq(Section) /\ Len(ss) = n + k
      /\ \A i \in 1..(n + k) : ss[i] = IF i <= n THEN p.sections[i] ELSE more[i - n]
  BY <1>2, <1>5, ConcatProperties
<1>8. q = [p EXCEPT !.sections = ss]
  BY DEF Repair, more, gone
<1> HIDE DEF q, ss
<1>9. q.pre = p.pre /\ q.bare = p.bare /\ q.sections = ss
      /\ q = [pre |-> q.pre, bare |-> q.bare, sections |-> q.sections]
  BY <1>2, <1>8
<1>10. DOMAIN ss = 1..(n + k)
  BY <1>7, LenProperties
<1> HIDE DEF n, k
<1>11. \A i \in 1..n : i \in 1..(n + k) /\ ss[i] = p.sections[i]
  BY <1>2, <1>6, <1>7
<1>12. \A i \in 1..(n + k) : \/ i \in 1..n /\ ss[i] = p.sections[i]
                             \/ ss[i].body = fence /\ ~ss[i].bare
  <2> SUFFICES ASSUME NEW i \in 1..(n + k), i \notin 1..n PROVE ss[i].body = fence /\ ~ss[i].bare
    BY <1>11
  <2>1. ~(i <= n) /\ i - n \in 1..k
    BY <1>2, <1>6
  <2> QED BY <1>5, <1>6, <1>7, <2>1
<1>13. q \in PageRec
  BY <1>2, <1>7, <1>9 DEF PageRec
<1>14. NoHeads(p) => NoHeads(q)
  BY <1>2, <1>4, <1>9, <1>10, <1>12 DEF NoHeads, fence
<1>15. \A x : Free(p, x) => Says(q, x)
  BY <1>2, <1>9, <1>10, <1>11 DEF Free, Says, Has
<1>16. ~p.bare /\ (\A i \in DOMAIN p.sections : ~p.sections[i].bare) => EndsWell(q)
  BY <1>2, <1>9, <1>10, <1>12 DEF EndsWell
<1> QED BY <1>9, <1>13, <1>14, <1>15, <1>16 DEF q

\* The text of a page is lines again, and says what the page says.
LEMMA DumpIs ==
    ASSUME NEW p \in PageRec, p.sections = <<>> /\ p.bare => p.pre # <<>>
    PROVE  LET d == DumpFrom(p) IN
           /\ d.lines \in Seq(Line) /\ d.bare \in BOOLEAN
           /\ d.bare => d.lines # <<>>
           /\ \A x : Says(p, x) => Has(d.lines, x)
<1> DEFINE n == Len(p.sections)
           t == TextTo(p)[n]
           b == Unended(p, n)
<1>1. DumpFrom(p).lines = t /\ DumpFrom(p).bare = b
  BY DEF DumpFrom
<1>2. /\ n \in Nat /\ t \in Seq(Line) /\ Len(t) \in Nat
      /\ \A i \in 1..n : /\ HeaderOf(p, i) \in Nat \ {0} /\ Len(p.sections[i].body) \in Nat
                         /\ HeaderOf(p, i) + Len(p.sections[i].body) <= Len(t)
      /\ n = 0 => t = p.pre
  BY HeadersInOrder
<1>3. LaidOut(p, n)
  BY <1>2, TextIsLaidOut
<1>4. /\ p.pre \in Seq(Line) /\ p.bare \in BOOLEAN /\ p.sections \in Seq(Section)
      /\ DOMAIN p.sections = 1..n
      /\ \A i \in 1..n : p.sections[i].body \in Seq(Line) /\ p.sections[i].bare \in BOOLEAN
  BY SectionsAre
<1>5. b \in BOOLEAN
  <2>1. n = 0 \/ n \in 1..n
    BY <1>2
  <2> QED BY <1>4, <2>1 DEF Unended
<1>6. DOMAIN t = 1..Len(t) /\ DOMAIN p.pre = 1..Len(p.pre)
  BY <1>2, <1>4, LenProperties
<1>7. b => t # <<>>
  <2> SUFFICES ASSUME b PROVE t # <<>>
    OBVIOUS
  <2>1. CASE n = 0
    <3>1. p.sections = <<>>
      BY <1>4, <2>1, EmptySeq
    <3> QED BY <1>2, <2>1, <3>1 DEF Unended
  <2>2. CASE n # 0
    <3>1. n \in 1..n
      BY <1>2, <2>2
    <3>2. HeaderOf(p, n) \in 1..Len(t)
      <4>1. /\ HeaderOf(p, n) \in Nat \ {0} /\ Len(p.sections[n].body) \in Nat
            /\ HeaderOf(p, n) + Len(p.sections[n].body) <= Len(t)
        BY <1>2, <3>1
      <4> HIDE DEF t, n
      <4> QED BY <1>2, <4>1, Within
    <3>3. Len(<<>>) = 0 /\ 1..0 = {}
      OBVIOUS
    <3> HIDE DEF t
    <3> QED BY <3>2, <3>3
  <2> QED BY <2>1, <2>2
<1>8. ASSUME NEW x, Says(p, x) PROVE Has(t, x)
  <2>1. CASE Has(p.pre, x)
    <3>1. PICK k \in 1..Len(p.pre) : p.pre[k] = x
      BY <1>6, <2>1 DEF Has
    <3>2. k \in 1..Len(t) /\ t[k] = x
      BY <1>3, <3>1 DEF LaidOut
    <3> QED BY <1>6, <3>2 DEF Has
  <2>2. CASE ~Has(p.pre, x)
    <3>1. PICK i \in 1..n : Has(p.sections[i].body, x)
      BY <1>4, <1>8, <2>2 DEF Says
    <3>2. PICK k \in 1..Len(p.sections[i].body) : p.sections[i].body[k] = x
      <4>1. DOMAIN p.sections[i].body = 1..Len(p.sections[i].body)
        BY <1>4, LenProperties
      <4> QED BY <3>1, <4>1 DEF Has
    <3>3. t[HeaderOf(p, i) + k] = x
      BY <1>3, <3>2 DEF LaidOut
    <3>4. HeaderOf(p, i) + k \in 1..Len(t)
      <4>1. /\ HeaderOf(p, i) \in Nat \ {0} /\ Len(p.sections[i].body) \in Nat
            /\ HeaderOf(p, i) + Len(p.sections[i].body) <= Len(t)
        BY <1>2
      <4> HIDE DEF t, n
      <4> QED BY <1>2, <4>1, Within
    <3> QED BY <1>6, <3>3, <3>4 DEF Has
  <2> QED BY <2>1, <2>2
<1> HIDE DEF t, b
<1> QED BY <1>1, <1>2, <1>5, <1>7, <1>8

\* A human's line outside the fences is outside those of its section.
LEMMA FreeLine ==
    ASSUME NEW t \in Seq(Line), NEW b \in BOOLEAN, NEW k \in DOMAIN t, t[k].is # "head", ~InsideFence(t, k)
    PROVE  Free(Parse(t, b), t[k])
<1> DEFINE p == Parse(t, b)
<1>1. Len(t) \in Nat /\ DOMAIN t = 1..Len(t)
  BY LenProperties
<1>2. CASE Has(p.pre, t[k])
  BY <1>2 DEF Free
<1>3. CASE ~Has(p.pre, t[k])
  <2>0. \/ Has(p.pre, t[k])
        \/ \E i \in DOMAIN p.sections :
             \E h \in 1..Len(t), j \in DOMAIN p.sections[i].body :
                /\ k = h + j
                /\ h + Len(p.sections[i].body) <= Len(t)
                /\ \A l \in DOMAIN p.sections[i].body : p.sections[i].body[l] = t[h + l]
    <3>1. k \in 1..Len(t)
      BY <1>1
    <3> QED BY ONLY <3>1, t \in Seq(Line), b \in BOOLEAN, t[k].is # "head", LineInPart
  <2>1. PICK i \in DOMAIN p.sections :
           \E h \in 1..Len(t), j \in DOMAIN p.sections[i].body :
              /\ k = h + j
              /\ h + Len(p.sections[i].body) <= Len(t)
              /\ \A l \in DOMAIN p.sections[i].body : p.sections[i].body[l] = t[h + l]
    BY <1>3, <2>0
  <2> DEFINE s == p.sections[i].body
  <2>2. PICK h \in 1..Len(t), j \in DOMAIN s :
           k = h + j /\ h + Len(s) <= Len(t) /\ \A l \in DOMAIN s : s[l] = t[h + l]
    BY <2>1
  <2>3. s \in Seq(Line)
    BY ParseIs, BodyOf DEF Tidy
  <2> HIDE DEF s, p
  <2>4. Len(s) \in Nat /\ DOMAIN s = 1..Len(s)
    BY <2>3, LenProperties
  <2>5. h \in Nat /\ j \in Nat /\ k \in Nat /\ 1 <= j /\ j <= Len(s) /\ k = h + j
    BY <1>1, <2>2, <2>4
  <2>6. ASSUME InsideFence(s, j) PROVE FALSE
    <3>1. PICK o \in Where(s, "open") : o < j /\ \A l \in (o + 1)..(j - 1) : s[l].is \notin {"close", "head"}
      BY <2>6 DEF InsideFence
    <3>2. o \in 1..Len(s) /\ s[o].is = "open" /\ o \in Nat
      BY <2>4, <3>1 DEF Where
    <3>3. h + o \in DOMAIN t /\ h + o < k
      <4>1. h + o \in 1..Len(t)
        BY <1>1, <2>2, <2>4, <2>5, <3>2
      <4>2. h + o < k
        BY <2>5, <3>1, <3>2
      <4> QED BY <1>1, <4>1, <4>2
    <3>4. h + o \in Where(t, "open")
      BY <2>2, <2>4, <3>2, <3>3 DEF Where
    <3>5. ASSUME NEW m \in ((h + o) + 1)..(k - 1) PROVE t[m].is \notin {"close", "head"}
      <4> DEFINE l == m - h
      <4>1. l \in (o + 1)..(j - 1) /\ l \in 1..Len(s) /\ h + l = m
        BY <2>4, <2>5, <3>1, <3>2
      <4> HIDE DEF l
      <4> QED BY <2>2, <2>4, <3>1, <4>1
    <3>6. InsideFence(t, k)
      BY <3>3, <3>4, <3>5 DEF InsideFence
    <3> QED BY <3>6
  <2>7. s[j] = t[k]
    BY <2>2
  <2> QED BY <2>2, <2>6, <2>7 DEF Free, s, p
<1> QED BY <1>2, <1>3

-----------------------------------------------------------------------------
(* Every write and every edit.                                             *)

TextTypeOK ==
    /\ lines \in Seq(Line) /\ bare \in BOOLEAN
    /\ bare => lines # <<>>
    /\ writes \in 0..MaxWrites /\ edits \in 0..MaxEdits

TextInv == TextTypeOK /\ RoundTrip

LEMMA PageIs ==
    ASSUME TextTypeOK
    PROVE  /\ Tidy(Page)
           /\ Ending \in {"ended", "bare"} => NoHeads(Page)
           /\ Ending = "ended" => ~Page.bare /\ \A i \in DOMAIN Page.sections : ~Page.sections[i].bare
           /\ \A x : \A k \in DOMAIN lines : lines[k] = x /\ x.is # "head" /\ ~InsideFence(lines, k) => Free(Page, x)
<1>1. lines \in Seq(Line) /\ bare \in BOOLEAN
  BY DEF TextTypeOK
<1>2. Tidy(Page) /\ (~HeaderEnds(lines, bare) => NoHeads(Page))
  BY <1>1, ParseIs DEF Page, Tidy
<1>3. Ending \in {"ended", "bare"} => ~HeaderEnds(lines, bare)
  BY DEF Ending, HeaderEnds
<1>4. ASSUME Ending = "ended" PROVE ~Page.bare /\ \A i \in DOMAIN Page.sections : ~Page.sections[i].bare
  <2>1. ~bare
    BY <1>1, <1>4 DEF Ending
  <2> DEFINE p == Parse(lines, bare)
             hs == RealHeaders(lines, bare)
             n == Cardinality(hs)
  <2>2. /\ p.bare = (bare /\ hs = {} /\ lines # <<>>)
        /\ DOMAIN p.sections = 1..n
        /\ \A i \in 1..n : p.sections[i] = SectionAt(lines, bare, Nth(hs, i))
    BY <1>1, ParsedParts
  <2>3. ~p.bare
    BY <2>1, <2>2
  <2>4. \A h : ~SectionAt(lines, bare, h).bare
    BY <2>1 DEF SectionAt
  <2> HIDE DEF p
  <2> QED BY <2>2, <2>3, <2>4 DEF p, Page
<1>5. ASSUME NEW k \in DOMAIN lines, lines[k].is # "head", ~InsideFence(lines, k) PROVE Free(Page, lines[k])
  BY <1>1, <1>5, FreeLine DEF Page
<1> QED BY <1>2, <1>3, <1>4, <1>5

\* What an agent writes, or lint, is text of a page again, and parses back to
\* the page that was meant.
LEMMA Saved ==
    ASSUME TextInv, NEW by, NEW q \in PageRec, Saves(by, q),
           q.sections = <<>> /\ q.bare => q.pre # <<>>,
           Ending = "ended" \/ (Ending = "bare" /\ by = "agent") => EndsWell(q) /\ NoHeads(q)
    PROVE  TextInv' /\ \A x : Says(q, x) => Has(lines', x)
<1> DEFINE d == DumpFrom(q)
<1>1. /\ lines' = d.lines /\ bare' = d.bare
      /\ made' = [by |-> by, page |-> q, was |-> Ending]
      /\ writes < MaxWrites /\ writes' = writes + 1 /\ edits' = edits
  BY DEF Saves
<1>2. /\ d.lines \in Seq(Line) /\ d.bare \in BOOLEAN
      /\ d.bare => d.lines # <<>>
      /\ \A x : Says(q, x) => Has(d.lines, x)
  BY DumpIs
<1>3. EndsWell(q) /\ NoHeads(q) => Parse(d.lines, d.bare) = q
  BY DumpParses
<1> HIDE DEF d
<1>4. writes' \in 0..MaxWrites /\ edits' \in 0..MaxEdits
  <2>1. writes \in Nat /\ MaxWrites \in Nat /\ edits \in 0..MaxEdits
    BY PagesAssumption DEF TextInv, TextTypeOK
  <2> QED BY <1>1, <2>1
<1>5. TextTypeOK'
  BY <1>1, <1>2, <1>4 DEF TextTypeOK
<1>6. RoundTrip'
  <2>1. made'.was = Ending /\ made'.by = by /\ made'.page = q
    BY <1>1
  <2> QED BY <1>1, <1>3, <2>1 DEF RoundTrip
<1> QED BY <1>1, <1>2, <1>5, <1>6 DEF TextInv

\* What a step says of the humans' text.
Keeps == \A h \in Humans, i \in DOMAIN lines :
            lines[i] = Prose(h) /\ ~InsideFence(lines, i) => Has(lines', Prose(h))

LEMMA AgentSaves ==
    ASSUME TextInv, NEW q, Edited(Page, q), Saves("agent", q)
    PROVE  TextInv' /\ Keeps
<1>1. TextTypeOK
  BY DEF TextInv
<1>2. q \in PageRec /\ EndsWell(q) /\ (NoHeads(Page) => NoHeads(q)) /\ \A x : Free(Page, x) => Says(q, x)
  BY DEF Edited
<1>3. q.sections = <<>> /\ q.bare => q.pre # <<>>
  BY <1>2 DEF EndsWell
<1>4. Ending \in {"ended", "bare"} => NoHeads(q)
  BY <1>1, <1>2, PageIs
<1>5. TextInv' /\ \A x : Says(q, x) => Has(lines', x)
  BY <1>2, <1>3, <1>4, Saved
<1>6. Keeps
  BY <1>1, <1>2, <1>5, PageIs, LineIs DEF Keeps
<1> QED BY <1>5, <1>6

LEMMA LintSaves ==
    ASSUME TextInv, Repairs
    PROVE  TextInv' /\ Keeps
<1> DEFINE q == Repair(Page)
<1>1. TextTypeOK /\ Tidy(Page)
  BY PageIs DEF TextInv
<1>2. /\ q \in PageRec /\ q.pre = Page.pre /\ q.bare = Page.bare
      /\ NoHeads(Page) => NoHeads(q)
      /\ \A x : Free(Page, x) => Says(q, x)
      /\ ~Page.bare /\ (\A i \in DOMAIN Page.sections : ~Page.sections[i].bare) => EndsWell(q)
  BY <1>1, Repaired
<1>3. q.sections = <<>> /\ q.bare => q.pre # <<>>
  BY <1>1, <1>2 DEF Tidy, EndsWell
<1>4. Ending = "ended" => EndsWell(q) /\ NoHeads(q)
  BY <1>1, <1>2, PageIs
<1>5. Saves("lint", q)
  BY DEF Repairs
<1> HIDE DEF q
<1>6. TextInv' /\ \A x : Says(q, x) => Has(lines', x)
  BY <1>2, <1>3, <1>4, <1>5, Saved
<1>7. Keeps
  BY <1>1, <1>2, <1>6, PageIs, LineIs DEF Keeps
<1> QED BY <1>6, <1>7

LEMMA WrittenIs ==
    ASSUME NEW ti \in Titles
    PROVE  (\A t \in Text : t \in Seq(Line)) /\ (\A xs \in ItemLists : xs \in Seq(Line))
<1>1. Order[1] \in Names
  <2>1. PICK i \in DOMAIN Order : ti = Order[i]
    BY DEF Titles
  <2>2. Order \in Seq(Titles)
    BY PagesAssumption
  <2>3. Len(Order) \in Nat /\ DOMAIN Order = 1..Len(Order)
    BY <2>2, LenProperties
  <2>4. 1 \in DOMAIN Order
    BY <2>1, <2>3
  <2> QED BY <2>4 DEF Titles, Names
<1>2. Prose("agent") \in Line /\ Head2(Order[1]) \in Line /\ Opens \in Line /\ Closes \in Line
  BY <1>1, LineIs DEF Line
<1>3. \A i \in BlockIds : ItemLine(i, "a") \in Line /\ ItemLine(i, "b") \in Line
  BY DEF Line
<1>4. \A t \in Text : t \in Seq(Line)
  <2> DEFINE a == Prose("agent")
             h == Head2(Order[1])
             o == Opens
             c == Closes
  <2>1. a \in Line /\ h \in Line /\ o \in Line /\ c \in Line
    BY <1>2
  <2>2. Text = {<<a>>, <<h>>, <<o, a, c>>}
    BY DEF Text
  <2> HIDE DEF a, h, o, c
  <2>3. <<a>> \in Seq(Line) /\ <<h>> \in Seq(Line) /\ <<o, a, c>> \in Seq(Line)
    BY <2>1
  <2> QED BY <2>2, <2>3
<1>5. \A xs \in ItemLists : xs \in Seq(Line)
  BY <1>3 DEF ItemLists
<1> QED BY <1>4, <1>5

LEMMA HumanEdits ==
    ASSUME TextInv, HumanAdds \/ HumanDeletes
    PROVE  TextInv' /\ made' = NoWrite
<1>1. lines \in Seq(Line) /\ bare \in BOOLEAN /\ Len(lines) \in Nat /\ DOMAIN lines = 1..Len(lines)
  BY LenProperties DEF TextInv, TextTypeOK
<1>2. made' = NoWrite /\ writes' \in 0..MaxWrites /\ edits' \in 0..MaxEdits
  <2>1. made' = NoWrite /\ writes' = writes /\ edits' = edits + 1 /\ edits < MaxEdits
    BY DEF HumanAdds, HumanDeletes
  <2>2. edits \in Nat /\ MaxEdits \in Nat /\ writes \in 0..MaxWrites
    BY PagesAssumption DEF TextInv, TextTypeOK
  <2> QED BY <2>1, <2>2
<1>3. lines' \in Seq(Line) /\ bare' \in BOOLEAN /\ (bare' => lines' # <<>>)
  <2>1. CASE HumanAdds
    <3>1. PICK x \in {Prose(h) : h \in Humans} \cup {Head2(a) : a \in DOMAIN Alias}, i \in 0..Len(lines) :
             /\ lines' = SubSeq(lines, 1, i) \o <<x>> \o SubSeq(lines, i + 1, Len(lines))
             /\ bare' \in IF i = Len(lines) /\ x.is = "prose" THEN BOOLEAN ELSE {bare}
      BY <2>1 DEF HumanAdds
    <3> DEFINE s == SubSeq(lines, 0 + 1, i)
               t == SubSeq(lines, i + 1, Len(lines))
    <3>2. x \in Line
      BY DEF Line, Names
    <3>3. i \in Nat /\ 0 <= i /\ i <= Len(lines) /\ Len(lines) <= Len(lines) /\ 0 + 1 = 1
      BY <1>1
    <3>4. s \in Seq(Line) /\ t \in Seq(Line)
      BY <1>1, <3>3, PartIs
    <3>5. lines' = s \o <<x>> \o t
      BY <3>1, <3>3
    <3> HIDE DEF s, t
    <3>6. /\ lines' \in Seq(Line) /\ Len(s) \in Nat /\ Len(t) \in Nat
          /\ Len(lines') = Len(s) + 1 + Len(t)
      BY <3>2, <3>4, <3>5, Joined
    <3>7. lines' # <<>>
      <4>1. Len(lines') # 0
        BY <3>6
      <4>2. Len(<<>>) = 0
        OBVIOUS
      <4> QED BY <4>1, <4>2
    <3> QED BY <1>1, <3>1, <3>6, <3>7
  <2>2. CASE HumanDeletes
    <3>1. PICK i \in DOMAIN lines :
             /\ lines' = SubSeq(lines, 1, i - 1) \o SubSeq(lines, i + 1, Len(lines))
             /\ bare' = (bare /\ i < Len(lines))
      BY <2>2 DEF HumanDeletes
    <3> DEFINE j == i - 1
               s == SubSeq(lines, 0 + 1, j)
               t == SubSeq(lines, i + 1, Len(lines))
    <3>2. /\ i \in Nat /\ j \in Nat /\ 0 <= j /\ j <= Len(lines) /\ i <= Len(lines)
          /\ Len(lines) <= Len(lines) /\ 0 + 1 = 1
      BY <1>1
    <3>3. lines' = s \o t
      BY <3>1, <3>2
    <3> HIDE DEF j
    <3>4. s \in Seq(Line) /\ t \in Seq(Line) /\ (i # Len(lines) => t # <<>>)
      BY <1>1, <3>2, PartHas
    <3> HIDE DEF s, t
    <3>5. s \o t \in Seq(Line) /\ (t # <<>> => s \o t # <<>>)
      BY <3>4, Both
    <3>6. bare' => i # Len(lines)
      <4>1. bare' => i < Len(lines)
        BY <3>1
      <4> QED BY <1>1, <3>2, <4>1
    <3>7. bare' \in BOOLEAN
      BY <3>1
    <3> QED BY <3>3, <3>4, <3>5, <3>6, <3>7
  <2> QED BY <2>1, <2>2
<1>4. RoundTrip'
  BY <1>2 DEF RoundTrip
<1> QED BY <1>2, <1>3, <1>4 DEF TextInv, TextTypeOK

LEMMA FirstText == Init => TextInv
<1> SUFFICES ASSUME Init PROVE TextInv
  OBVIOUS
<1> DEFINE ss == [i \in DOMAIN Order |-> [title |-> Order[i], body |-> Skeleton(Order[i]), bare |-> FALSE]]
           p == [pre |-> <<>>, bare |-> FALSE, sections |-> ss]
<1>1. Order \in Seq(Titles) /\ MaxWrites \in Nat /\ MaxEdits \in Nat
  BY PagesAssumption
<1>2. Len(Order) \in Nat /\ DOMAIN Order = 1..Len(Order) /\ \A i \in 1..Len(Order) : Order[i] \in Titles
  BY <1>1, LenProperties, ElementOfSeq
<1>3. \A i \in 1..Len(Order) : ss[i] \in Section
  <2> SUFFICES ASSUME NEW i \in 1..Len(Order) PROVE ss[i] \in Section
    OBVIOUS
  <2>1. ss[i] = [title |-> Order[i], body |-> Skeleton(Order[i]), bare |-> FALSE]
    BY <1>2
  <2> QED BY <1>2, <2>1, SkeletonIs DEF Section
<1>4. ss = [i \in 1..Len(Order) |-> ss[i]]
  BY <1>2
<1>5. lines = DumpFrom(p).lines
  BY DEF Init
<1> HIDE DEF ss
<1>6. ss \in [1..Len(Order) -> Section]
  BY <1>3, <1>4
<1>7. ss \in Seq(Section) /\ <<>> \in Seq(Line)
  BY <1>2, <1>6
<1>8. p \in PageRec /\ ~p.bare
  BY <1>7 DEF PageRec
<1> HIDE DEF p
<1>9. lines \in Seq(Line)
  BY <1>5, <1>8, DumpIs
<1>10. ~bare /\ made = NoWrite /\ bare \in BOOLEAN /\ writes = 0 /\ edits = 0
  BY DEF Init
<1>11. writes \in 0..MaxWrites /\ edits \in 0..MaxEdits
  BY <1>1, <1>10
<1> QED BY <1>9, <1>10, <1>11 DEF TextInv, TextTypeOK, RoundTrip

\* Every step keeps the invariant, and every agent's step the humans' text.
LEMMA TextStep ==
    TextInv /\ [Next]_vars => TextInv' /\ (made' # NoWrite /\ writes' # writes => Keeps)
<1> SUFFICES ASSUME TextInv, [Next]_vars
             PROVE  TextInv' /\ (made' # NoWrite /\ writes' # writes => Keeps)
  OBVIOUS
<1>0. Tidy(Page)
  BY PageIs DEF TextInv
<1>1. CASE Rewrite
  <2>1. PICK ti \in Titles, t \in Text : Saves("agent", SetFenced(Page, ti, t))
    BY <1>1 DEF Rewrite, OwnedBy
  <2>2. Edited(Page, SetFenced(Page, ti, t))
    BY <1>0, WrittenIs, FencedSet
  <2> QED BY <2>1, <2>2, AgentSaves
<1>2. CASE Adds
  <2>1. PICK ti \in Titles, t \in Text : Saves("agent", AppendLines(Page, ti, t))
    BY <1>2 DEF Adds, OwnedBy
  <2>2. Edited(Page, AppendLines(Page, ti, t))
    BY <1>0, WrittenIs, LinesAppended
  <2> QED BY <2>1, <2>2, AgentSaves
<1>3. CASE AddsItems
  <2>1. PICK ti \in Titles, xs \in ItemLists : Saves("agent", AppendItems(Page, ti, xs))
    BY <1>3 DEF AddsItems, OwnedBy
  <2>2. Edited(Page, AppendItems(Page, ti, xs))
    BY <1>0, WrittenIs, ItemsAppended
  <2> QED BY <2>1, <2>2, AgentSaves
<1>4. CASE Upserts
  <2>1. PICK ti \in Titles, xs \in ItemLists : Saves("agent", UpsertItems(Page, ti, xs))
    BY <1>4 DEF Upserts, OwnedBy
  <2>2. Edited(Page, UpsertItems(Page, ti, xs))
    BY <1>0, WrittenIs, ItemsUpserted
  <2> QED BY <2>1, <2>2, AgentSaves
<1>5. CASE Repairs
  BY <1>5, LintSaves
<1>6. CASE HumanAdds \/ HumanDeletes
  BY <1>6, HumanEdits
<1>7. CASE UNCHANGED vars
  BY <1>7 DEF vars, TextInv, TextTypeOK, RoundTrip
<1> QED BY <1>1, <1>2, <1>3, <1>4, <1>5, <1>6, <1>7 DEF Next

\* Whatever agents, lint and humans make of it, a page's text is lines of the
\* format, so that parse_page and dump_page see only pages of which at most
\* the last part is unended; and it parses back to what was meant.
THEOREM TextIsLines == Spec => []TextInv
<1>1. TextInv /\ [Next]_vars => TextInv'
  BY TextStep
<1> QED BY FirstText, <1>1, PTL DEF Spec

\* "Content can't break structure" (editor.py): for every page, whatever an
\* agent writes, and whatever humans made of the text before, the text parses
\* back to the page that was meant.
THEOREM TextRoundTrips == Spec => []RoundTrip
<1>1. TextInv => RoundTrip
  BY DEF TextInv
<1> QED BY TextIsLines, <1>1, PTL

\* "Bytes a human wrote before or after it survive every write" (editor.py):
\* no write takes away a human's line that no opening marker stands before.
THEOREM HumansTextStays == Spec => HumanTextKept
<1>1. TextInv /\ [Next]_vars => [made' # NoWrite /\ writes' # writes => Keeps]_vars
  BY TextStep
<1> QED BY TextIsLines, <1>1, PTL DEF Spec, HumanTextKept, Keeps

\* "dump_page(parse_page(text)) == text" (parser.py): reading a page and
\* writing it back changes nothing, whatever agents and humans made of it.
Untouched == DumpFrom(Page) = [lines |-> lines, bare |-> bare]
THEOREM ReadingLeavesText == Spec => []Untouched
<1>1. TextInv => Untouched
  BY ReadingKeeps DEF TextInv, TextTypeOK, Untouched, Page
<1> QED BY TextIsLines, <1>1, PTL

-----------------------------------------------------------------------------
(* The items of a page. An id of the page that the answer has used was     *)
(* given by the model, is that of the item with the text, or was minted    *)
(* when the shorter ones were taken (Whence): that is what keeps the id of *)
(* an item free until the item comes.                                      *)

ItemIds == {IdOf(k, t, w) : k \in Kinds, t \in Texts, w \in Widths \cup {12}}
Item == [kind : Kinds, text : Texts, id : ItemIds]

RevTypeOK ==
    /\ items \in Seq(Item) /\ rendered \in Seq(Item)
    /\ echoes \in Seq(ItemIds \cup {Forgotten}) /\ Len(echoes) = Len(rendered)

Whence ==
    \A j \in DOMAIN rendered :
      rendered[j].id \in IdsIn(items) =>
        \/ echoes[j] = rendered[j].id
        \/ \E n \in DOMAIN items : items[n].id = rendered[j].id /\ items[n].text = rendered[j].text
        \/ UsedUp(rendered[j].id, Taken)

\* IdentityIsKept, without counting.
Listed(s, text, i) == s[i].text = text /\ \A n \in DOMAIN s : s[n].text = text => n = i
Kept ==
    \A i \in DOMAIN rendered, k \in DOMAIN items :
      /\ Listed(rendered, items[k].text, i) /\ Listed(items, items[k].text, k)
      /\ echoes[i] \in {Forgotten, items[k].id}
      /\ \A j \in DOMAIN rendered \ {i} : echoes[j] # items[k].id
      /\ \A j \in DOMAIN items \ {k} : items[j].id # items[k].id
      /\ ~UsedUp(items[k].id, Taken)
      => rendered[i].id = items[k].id

RevInductive == RevTypeOK /\ ItemsHaveIdentity /\ Whence /\ Kept

LEMMA RevInitInductive == RevInit => RevInductive
  BY DEF RevInit, RevInductive, RevTypeOK, ItemsHaveIdentity, Whence, Kept

LEMMA ForgottenIsNoId == Forgotten \notin ItemIds
  BY RevisionAssumption DEF ItemIds

LEMMA IdsInAreIds == ASSUME RevTypeOK PROVE Taken \subseteq ItemIds
  <1>1. ASSUME NEW s \in Seq(Item) PROVE IdsIn(s) \subseteq ItemIds
    <2>1. \A i \in DOMAIN s : s[i] \in Item
      OBVIOUS
    <2> QED BY <2>1 DEF IdsIn, Item
  <1> QED BY <1>1 DEF RevTypeOK, Taken

\* The last item with a text is one with it.
LEMMA ByTextIs ==
    ASSUME RevTypeOK, NEW text
    PROVE  \/ ByText(text) = Forgotten /\ \A n \in DOMAIN items : items[n].text # text
           \/ \E n \in DOMAIN items : items[n].text = text /\ ByText(text) = items[n].id
  <1> DEFINE same == {i \in DOMAIN items : items[i].text = text}
  <1>1. CASE same = {}
    BY <1>1 DEF ByText
  <1>2. CASE same # {}
    <2>1. same \subseteq 0..Len(items) /\ Len(items) \in Nat
      BY DEF RevTypeOK
    <2>2. \E i \in same : \A j \in same : j <= i
      BY <1>2, <2>1, GreatestIs
    <2> DEFINE last == CHOOSE i \in same : \A j \in same : j <= i
    <2>3. last \in same
      BY <2>2
    <2>4. ByText(text) = items[last].id
      BY <1>2 DEF ByText
    <2> HIDE DEF last
    <2> QED BY <2>3, <2>4
  <1> QED BY <1>1, <1>2

\* A minted id is free, or the one that is not looked up.
LEMMA MintIs ==
    ASSUME NEW kind \in Kinds, NEW text \in Texts
    PROVE  /\ Mint(kind, text) \in ItemIds
           /\ Mint(kind, text) \in Taken => UsedUp(Mint(kind, text), Taken)
  <1> DEFINE free == {w \in Widths : IdOf(kind, text, w) \notin Taken}
  <1>1. CASE free = {}
    <2>1. Mint(kind, text) = IdOf(kind, text, 12)
      BY <1>1 DEF Mint
    <2> QED BY <1>1, <2>1 DEF UsedUp, ItemIds
  <1>2. CASE free # {}
    <2>1. \E w \in free : \A v \in free : w <= v
      BY <1>2 DEF Widths
    <2> DEFINE w == CHOOSE x \in free : \A v \in free : x <= v
    <2>2. w \in free /\ Mint(kind, text) = IdOf(kind, text, w)
      BY <1>2, <2>1 DEF Mint
    <2> HIDE DEF w
    <2> QED BY <2>2 DEF ItemIds
  <1> QED BY <1>1, <1>2

\* What a line gets: an id of the page that no line of the answer has, the one
\* it was given or the one of its text, or a minted one.
LEMMA BlockIdIs ==
    ASSUME RevTypeOK, NEW kind \in Kinds, NEW text \in Texts, NEW echo \in IdsIn(items) \cup {Forgotten}
    PROVE  LET id == BlockId(kind, text, echo) IN
           /\ id \in ItemIds
           /\ id \in IdsIn(rendered) => UsedUp(id, Taken)
           /\ id \in IdsIn(items) =>
                 \/ id = echo \/ UsedUp(id, Taken)
                 \/ \E n \in DOMAIN items : items[n].id = id /\ items[n].text = text
           /\ \A k \in DOMAIN items :
                 Listed(items, items[k].text, k) /\ items[k].text = text /\ echo \in {Forgotten, items[k].id}
                 /\ items[k].id \notin IdsIn(rendered) => id = items[k].id
  <1> DEFINE first == IF echo \in IdsIn(items) THEN echo ELSE ByText(text)
             id == BlockId(kind, text, echo)
  <1>1. id = IF first = Forgotten \/ first \in IdsIn(rendered) THEN Mint(kind, text) ELSE first
    BY DEF BlockId
  <1>2. IdsIn(items) \subseteq ItemIds /\ Forgotten \notin ItemIds
    BY IdsInAreIds, ForgottenIsNoId DEF Taken
  <1>3. \/ first = echo /\ echo \in IdsIn(items)
        \/ echo = Forgotten /\ first = Forgotten /\ \A n \in DOMAIN items : items[n].text # text
        \/ /\ echo = Forgotten
           /\ \E n \in DOMAIN items : items[n].text = text /\ first = items[n].id
    BY <1>2, ByTextIs
  <1>4. first \in IdsIn(items) \cup {Forgotten}
    BY <1>3 DEF IdsIn
  <1> HIDE DEF first, id
  <1>5. CASE first = Forgotten \/ first \in IdsIn(rendered)
    <2>1. id = Mint(kind, text)
      BY <1>1, <1>5
    <2>2. id \in ItemIds /\ (id \in IdsIn(rendered) \cup IdsIn(items) => UsedUp(id, Taken))
      BY <2>1, MintIs DEF Taken
    <2>3. ASSUME NEW k \in DOMAIN items, Listed(items, items[k].text, k), items[k].text = text,
                 echo \in {Forgotten, items[k].id}, items[k].id \notin IdsIn(rendered)
          PROVE  FALSE
      BY <1>2, <1>3, <1>5, <2>3 DEF Listed, IdsIn
    <2> QED BY <2>2, <2>3 DEF id
  <1>6. CASE ~(first = Forgotten \/ first \in IdsIn(rendered))
    <2>1. id = first /\ first \in ItemIds /\ id \notin IdsIn(rendered)
      BY <1>1, <1>2, <1>4, <1>6
    <2>2. id = echo \/ \E n \in DOMAIN items : items[n].id = id /\ items[n].text = text
      BY <1>3, <1>6, <2>1
    <2>3. ASSUME NEW k \in DOMAIN items, Listed(items, items[k].text, k), items[k].text = text,
                 echo \in {Forgotten, items[k].id}
          PROVE  id = items[k].id
      BY <1>2, <1>3, <1>6, <2>1, <2>3 DEF Listed, IdsIn
    <2> QED BY <2>1, <2>2, <2>3 DEF id
  <1> QED BY <1>5, <1>6

LEMMA ReviseKeeps == ASSUME RevInductive, Revise PROVE RevInductive'
  <1>1. rendered' = <<>> /\ echoes' = <<>> /\ rendered \in Seq(Item)
    BY DEF Revise, RevInductive, RevTypeOK
  <1>2. items' \in Seq(Item)
    <2>1. CASE items' = rendered
      BY <1>1, <2>1
    <2>2. ASSUME NEW i \in DOMAIN rendered, NEW text \in Texts, items' = [rendered EXCEPT ![i].text = text]
          PROVE  items' \in Seq(Item)
      <3>1. ASSUME NEW line \in Item PROVE [line EXCEPT !.text = text] \in Item
        BY DEF Item
      <3>2. items' = [rendered EXCEPT ![i] = [rendered[i] EXCEPT !.text = text]]
        BY <1>1, <2>2
      <3>3. [rendered[i] EXCEPT !.text = text] \in Item
        BY <1>1, <3>1
      <3> QED BY <1>1, <3>2, <3>3
    <2> QED BY <2>1, <2>2 DEF Revise
  <1> QED BY <1>1, <1>2 DEF RevInductive, RevTypeOK, ItemsHaveIdentity, Whence, Kept

LEMMA RenderKeeps == ASSUME RevInductive, Render PROVE RevInductive'
  <1>1. PICK kind \in Kinds, text \in Texts, echo \in IdsIn(items) \cup {Forgotten} :
          /\ rendered' = Append(rendered, [kind |-> kind, text |-> text, id |-> BlockId(kind, text, echo)])
          /\ echoes' = Append(echoes, echo) /\ items' = items
    BY DEF Render
  <1> DEFINE id == BlockId(kind, text, echo)
             line == [kind |-> kind, text |-> text, id |-> id]
             m == Len(rendered) + 1
  <1>2. RevTypeOK
    BY DEF RevInductive
  <1>3. /\ id \in ItemIds
        /\ id \in IdsIn(rendered) => UsedUp(id, Taken)
        /\ id \in IdsIn(items) =>
              \/ id = echo \/ UsedUp(id, Taken)
              \/ \E n \in DOMAIN items : items[n].id = id /\ items[n].text = text
        /\ \A k \in DOMAIN items :
              Listed(items, items[k].text, k) /\ items[k].text = text /\ echo \in {Forgotten, items[k].id}
              /\ items[k].id \notin IdsIn(rendered) => id = items[k].id
    BY <1>2, BlockIdIs
  <1> HIDE DEF id
  <1>4. line \in Item /\ line.text = text /\ line.id = id /\ echo \in ItemIds \cup {Forgotten}
    BY <1>2, <1>3, IdsInAreIds DEF Item, Taken
  <1>5. rendered' = Append(rendered, line)
    BY <1>1 DEF id
  <1> HIDE DEF line
  <1>6. /\ rendered' \in Seq(Item) /\ DOMAIN rendered' = 1..m /\ DOMAIN rendered = 1..Len(rendered)
        /\ Len(rendered) \in Nat
        /\ \A i \in DOMAIN rendered : i \in DOMAIN rendered' /\ i # m /\ rendered'[i] = rendered[i] /\ echoes'[i] = echoes[i]
        /\ m \in DOMAIN rendered' /\ rendered'[m] = line /\ echoes'[m] = echo
        /\ \A i \in DOMAIN rendered' : i = m \/ i \in DOMAIN rendered
        /\ echoes' \in Seq(ItemIds \cup {Forgotten}) /\ Len(echoes') = Len(rendered')
    BY <1>1, <1>2, <1>4, <1>5 DEF RevTypeOK
  <1> HIDE DEF m
  <1>7. RevTypeOK'
    BY <1>1, <1>2, <1>6 DEF RevTypeOK
  <1>8. Taken \subseteq Taken' /\ IdsIn(items') = IdsIn(items)
    BY <1>1, <1>6 DEF IdsIn, Taken
  <1>9. \A x : UsedUp(x, Taken) => UsedUp(x, Taken')
    BY <1>8 DEF UsedUp
  <1>10. ItemsHaveIdentity'
    <2> SUFFICES ASSUME NEW i \in DOMAIN rendered', NEW j \in DOMAIN rendered', i # j, rendered'[i].id = rendered'[j].id
                 PROVE  UsedUp(rendered'[i].id, Taken')
      BY DEF ItemsHaveIdentity
    <2>1. CASE i # m /\ j # m
      <3>0. i \in DOMAIN rendered /\ j \in DOMAIN rendered /\ rendered[i].id = rendered[j].id
        BY <1>6, <2>1
      <3>1. UsedUp(rendered[i].id, Taken)
        BY <3>0 DEF RevInductive, ItemsHaveIdentity
      <3> QED BY <1>6, <1>9, <2>1, <3>1
    <2>2. CASE i = m \/ j = m
      <3>1. id \in IdsIn(rendered) /\ rendered'[i].id = id
        <4>1. rendered'[i].id = id /\ rendered'[j].id = id
          BY <1>4, <1>6, <2>2
        <4>2. i \in DOMAIN rendered \/ j \in DOMAIN rendered
          BY <1>6, <2>2
        <4> QED BY <1>6, <4>1, <4>2 DEF IdsIn
      <3> QED BY <1>3, <1>9, <3>1
    <2> QED BY <2>1, <2>2
  <1>11. Whence'
    <2> SUFFICES ASSUME NEW j \in DOMAIN rendered', rendered'[j].id \in IdsIn(items)
                 PROVE  \/ echoes'[j] = rendered'[j].id
                        \/ \E n \in DOMAIN items : items[n].id = rendered'[j].id /\ items[n].text = rendered'[j].text
                        \/ UsedUp(rendered'[j].id, Taken')
      BY <1>1, <1>8 DEF Whence
    <2>1. CASE j = m
      BY <1>3, <1>4, <1>6, <1>9, <2>1
    <2>2. CASE j # m
      BY <1>6, <1>9, <2>2 DEF RevInductive, Whence
    <2> QED BY <2>1, <2>2
  <1>12. Kept'
    <2> SUFFICES ASSUME NEW i \in DOMAIN rendered', NEW k \in DOMAIN items',
                        Listed(rendered', items'[k].text, i), Listed(items', items'[k].text, k),
                        echoes'[i] \in {Forgotten, items'[k].id},
                        \A j \in DOMAIN rendered' \ {i} : echoes'[j] # items'[k].id,
                        \A j \in DOMAIN items' \ {k} : items'[j].id # items'[k].id,
                        ~UsedUp(items'[k].id, Taken')
                 PROVE  rendered'[i].id = items'[k].id
      BY DEF Kept
    <2>0. items' = items /\ ~UsedUp(items[k].id, Taken)
      BY <1>1, <1>9
    <2>1. CASE i # m
      <3>1. i \in DOMAIN rendered /\ Listed(rendered, items[k].text, i)
        BY <1>6, <2>0, <2>1 DEF Listed
      <3> QED BY <1>6, <2>0, <2>1, <3>1 DEF RevInductive, Kept
    <2>2. CASE i = m
      <3>1. items[k].text = text /\ echo \in {Forgotten, items[k].id}
        BY <1>4, <1>6, <2>0, <2>2 DEF Listed
      <3>2. ASSUME items[k].id \in IdsIn(rendered) PROVE FALSE
        <4>1. PICK j \in DOMAIN rendered : rendered[j].id = items[k].id
          BY <3>2 DEF IdsIn
        <4>2. items[k].id \in IdsIn(items)
          BY <2>0 DEF IdsIn
        <4>3. echoes[j] # items[k].id /\ rendered[j].text # items[k].text
          BY <1>6, <2>0, <2>2 DEF Listed
        <4>4. PICK n \in DOMAIN items : items[n].id = items[k].id /\ items[n].text = rendered[j].text
          BY <2>0, <4>1, <4>2, <4>3 DEF RevInductive, Whence
        <4> QED BY <2>0, <4>3, <4>4
      <3> QED BY <1>3, <1>4, <1>6, <2>0, <2>2, <3>1, <3>2
    <2> QED BY <2>1, <2>2
  <1> QED BY <1>7, <1>10, <1>11, <1>12 DEF RevInductive

LEMMA RevNextKeeps == ASSUME RevInductive, [RevNext]_rvars PROVE RevInductive'
  <1>1. CASE UNCHANGED rvars
    <2>1. items' = items /\ rendered' = rendered /\ echoes' = echoes /\ Taken' = Taken
      BY <1>1 DEF rvars, Taken
    <2>2. RevTypeOK' /\ ItemsHaveIdentity'
      BY <2>1 DEF RevInductive, RevTypeOK, ItemsHaveIdentity
    <2>3. Whence'
      BY <2>1 DEF RevInductive, Whence
    <2>4. Kept'
      BY <2>1 DEF RevInductive, Kept
    <2> QED BY <2>2, <2>3, <2>4 DEF RevInductive
  <1> QED BY <1>1, ReviseKeeps, RenderKeeps DEF RevNext

THEOREM RevisionInductive == RevSpec => []RevInductive
  <1> QED BY RevInitInductive, RevNextKeeps, PTL DEF RevSpec

\* No two items of a page share a block id, whatever the model answers, how long
\* its answers are and how often the page is revised, but for the id that is
\* not looked up.
THEOREM IdsStayDistinct == RevSpec => []ItemsHaveIdentity
  <1>1. RevInductive => ItemsHaveIdentity
    BY DEF RevInductive
  <1> QED BY <1>1, RevisionInductive, PTL

\* An item that is listed again keeps its id, in every revision.
THEOREM ItemsKeepTheirId == RevSpec => []IdentityIsKept
  <1>1. ASSUME RevInductive PROVE IdentityIsKept
    <2>1. ASSUME NEW s \in Seq(Item), NEW text, NEW i \in DOMAIN s, s[i].text = text,
                 Cardinality({n \in DOMAIN s : s[n].text = text}) = 1
          PROVE  Listed(s, text, i)
      <3> DEFINE same == {n \in DOMAIN s : s[n].text = text}
      <3>1. IsFiniteSet(1..Len(s)) /\ DOMAIN s = 1..Len(s)
        BY FS_Interval
      <3>2. IsFiniteSet(same)
        BY <3>1, FS_Subset
      <3>3. \E x : same = {x}
        <4> HIDE DEF same
        <4> QED BY <2>1, <3>2, FS_Singleton DEF same
      <3> QED BY <2>1, <3>3 DEF Listed
    <2>2. rendered \in Seq(Item) /\ items \in Seq(Item)
      BY <1>1 DEF RevInductive, RevTypeOK
    <2> SUFFICES ASSUME NEW i \in DOMAIN rendered, NEW k \in DOMAIN items,
                        rendered[i].text = items[k].text,
                        Cardinality({n \in DOMAIN rendered : rendered[n].text = items[k].text}) = 1,
                        Cardinality({n \in DOMAIN items : items[n].text = items[k].text}) = 1,
                        echoes[i] \in {Forgotten, items[k].id},
                        \A j \in DOMAIN rendered \ {i} : echoes[j] # items[k].id,
                        \A j \in DOMAIN items \ {k} : items[j].id # items[k].id,
                        ~UsedUp(items[k].id, Taken)
                 PROVE  rendered[i].id = items[k].id
      BY DEF IdentityIsKept
    <2>3. Listed(rendered, items[k].text, i) /\ Listed(items, items[k].text, k)
      BY <2>1, <2>2
    <2> QED BY <1>1, <2>3 DEF RevInductive, Kept
  <1> QED BY <1>1, RevisionInductive, PTL

=============================================================================
