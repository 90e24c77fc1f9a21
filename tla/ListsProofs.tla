----------------------------- MODULE ListsProofs -----------------------------
(* Proofs about Lists, for lists, pages and folders of any size.             *)
EXTENDS Lists, FiniteSetTheorems, SequenceTheorems, TLAPS

-----------------------------------------------------------------------------
(* What inserting and removing do to a sequence.                             *)

LEMMA InsertFacts ==
    ASSUME NEW R, NEW s \in Seq(R), NEW i \in 1 .. Len(s) + 1, NEW x \in R
    PROVE  /\ InsertAt(s, i, x) \in Seq(R)
           /\ Len(InsertAt(s, i, x)) = Len(s) + 1
           /\ \A j \in 1 .. Len(s) + 1 : InsertAt(s, i, x)[j] =
                 IF j < i THEN s[j] ELSE IF j = i THEN x ELSE s[j - 1]
<1> DEFINE a == SubSeq(s, 1, i - 1)
           b == SubSeq(s, i, Len(s))
<1>0. Len(s) \in Nat /\ i \in Nat
  OBVIOUS
<1>1. a \in Seq(R) /\ Len(a) = i - 1 /\ \A j \in 1 .. i - 1 : a[j] = s[j]
  OBVIOUS
<1>2. b \in Seq(R) /\ Len(b) = Len(s) - i + 1 /\ \A j \in 1 .. Len(s) - i + 1 : b[j] = s[i + j - 1]
  OBVIOUS
<1>3. InsertAt(s, i, x) = a \o <<x>> \o b
  BY DEF InsertAt
<1> DEFINE c == a \o <<x>>
<1> HIDE DEF a, b
<1>4. c \in Seq(R) /\ Len(c) = i
  BY <1>1
<1>5. \A j \in 1 .. i : c[j] = IF j < i THEN s[j] ELSE x
  BY <1>1
<1> HIDE DEF c
<1>6. InsertAt(s, i, x) = c \o b
  BY <1>3 DEF c
<1>7. /\ c \o b \in Seq(R) /\ Len(c \o b) = Len(c) + Len(b)
      /\ \A j \in 1 .. Len(c) + Len(b) : (c \o b)[j] = IF j <= Len(c) THEN c[j] ELSE b[j - Len(c)]
  BY <1>2, <1>4, ConcatProperties
<1>8. ASSUME NEW j \in 1 .. Len(s) + 1
      PROVE  (c \o b)[j] = IF j < i THEN s[j] ELSE IF j = i THEN x ELSE s[j - 1]
  <2>1. Len(c) = i /\ Len(b) = Len(s) - i + 1 /\ j \in 1 .. Len(c) + Len(b)
    BY <1>0, <1>2, <1>4
  <2>2. CASE j <= i
    BY <1>0, <1>5, <1>7, <2>1, <2>2
  <2>3. CASE j > i
    <3>1. (c \o b)[j] = b[j - i] /\ j - i \in 1 .. Len(s) - i + 1
      BY <1>0, <1>7, <2>1, <2>3
    <3>2. b[j - i] = s[i + (j - i) - 1] /\ i + (j - i) - 1 = j - 1
      BY <1>0, <1>2, <3>1
    <3>3. QED
      BY <1>0, <2>3, <3>1, <3>2
  <2>4. j <= i \/ j > i
    BY <1>0, <2>1
  <2>5. QED
    BY <2>2, <2>3, <2>4
<1>9. Len(c) + Len(b) = Len(s) + 1
  BY <1>0, <1>2, <1>4
<1>10. QED
  BY <1>6, <1>7, <1>8, <1>9

LEMMA RemoveFacts ==
    ASSUME NEW R, NEW s \in Seq(R), NEW i \in 1 .. Len(s)
    PROVE  /\ RemoveAt(s, i) \in Seq(R)
           /\ Len(RemoveAt(s, i)) = Len(s) - 1
           /\ \A j \in 1 .. Len(s) - 1 : RemoveAt(s, i)[j] = IF j < i THEN s[j] ELSE s[j + 1]
<1> DEFINE a == SubSeq(s, 1, i - 1)
           b == SubSeq(s, i + 1, Len(s))
<1>1. a \in Seq(R) /\ Len(a) = i - 1 /\ \A j \in 1 .. i - 1 : a[j] = s[j]
  OBVIOUS
<1>2. b \in Seq(R) /\ Len(b) = Len(s) - i /\ \A j \in 1 .. Len(s) - i : b[j] = s[i + j]
  OBVIOUS
<1>3. RemoveAt(s, i) = a \o b
  BY DEF RemoveAt
<1> HIDE DEF a, b
<1>4. /\ a \o b \in Seq(R) /\ Len(a \o b) = Len(a) + Len(b)
      /\ \A j \in 1 .. Len(a) + Len(b) : (a \o b)[j] = IF j <= Len(a) THEN a[j] ELSE b[j - Len(a)]
  BY <1>1, <1>2, ConcatProperties
<1>5. Len(s) \in Nat /\ i \in Nat /\ 1 <= i /\ i <= Len(s)
  OBVIOUS
<1>6. Len(a) = i - 1 /\ Len(b) = Len(s) - i /\ Len(a) + Len(b) = Len(s) - 1
  BY <1>1, <1>2, <1>5
<1>7. ASSUME NEW j \in 1 .. Len(s) - 1
      PROVE  (a \o b)[j] = IF j < i THEN s[j] ELSE s[j + 1]
  <2>1. CASE j < i
    BY <1>1, <1>4, <1>5, <1>6, <2>1
  <2>2. CASE j >= i
    <3>1. (a \o b)[j] = b[j - i + 1] /\ j - i + 1 \in 1 .. Len(s) - i
      BY <1>4, <1>5, <1>6, <2>2
    <3>2. b[j - i + 1] = s[i + (j - i + 1)]
      BY <1>2, <3>1, Zenon
    <3>3. i + (j - i + 1) = j + 1
      BY <1>5
    <3>4. (a \o b)[j] = s[j + 1]
      BY <3>1, <3>2, <3>3, Zenon
    <3>5. ~ (j < i)
      BY <1>5, <2>2
    <3>6. QED
      BY <3>4, <3>5, Zenon
  <2>3. j < i \/ j >= i
    BY <1>5
  <2>4. QED
    BY <2>1, <2>2, <2>3
<1>8. QED
  BY <1>3, <1>4, <1>6, <1>7

\* The comparison of ListAllBacktests that cannot overflow is the product.
LEMMA PageArithmetic ==
    ASSUME NEW p \in Nat, NEW t \in Nat \ {0}, NEW s \in Nat \ {0}
    PROVE  p <= (t - 1) \div s <=> p * s < t
<1> DEFINE q == (t - 1) \div s
           m == (t - 1) % s
<1>1. q \in Nat /\ m \in 0 .. s - 1 /\ t - 1 = q * s + m
  OBVIOUS
<1> HIDE DEF q, m
<1>2. ASSUME p <= q PROVE p * s < t
  <2>1. p * s <= q * s
    BY <1>1, <1>2
  <2>2. p * s \in Nat /\ q * s \in Nat
    BY <1>1
  <2>3. QED
    BY <2>1, <2>2, <1>1
<1>3. ASSUME ~ (p <= q) PROVE ~ (p * s < t)
  <2>1. (q + 1) * s <= p * s
    BY <1>1, <1>3
  <2>2. (q + 1) * s = q * s + s /\ q * s \in Nat /\ p * s \in Nat
    BY <1>1
  <2>3. QED
    BY <2>1, <2>2, <1>1
<1>4. QED
  BY <1>2, <1>3 DEF q

\* The arithmetic of StepsLeft: a later page, a folder less, one step of three.
LEMMA TurnArithmetic ==
    ASSUME NEW u \in Int, NEW m \in Int, NEW p \in Int, NEW q \in Int, q > p
    PROVE  u + (m - q) <= (u + (m - p)) - 1
  OBVIOUS

LEMMA LeaveArithmetic ==
    ASSUME NEW n \in Nat, NEW m \in Nat, NEW p \in -1 .. m, NEW q \in {p, 0}
    PROVE  (n - 1) * (m + 1) + (m - q) <= (n * (m + 1) + (m - p)) - 1
<1>1. (n - 1) * (m + 1) = n * (m + 1) - (m + 1)
  OBVIOUS
<1> DEFINE k == n * (m + 1)
<1>2. k \in Int
  OBVIOUS
<1> HIDE DEF k
<1>3. k - (m + 1) + (m - q) <= (k + (m - p)) - 1
  BY <1>2
<1>4. QED
  BY <1>1, <1>3 DEF k

LEMMA StepArithmetic ==
    ASSUME NEW a \in Int, NEW b \in Int, NEW c \in Int, NEW d \in Int,
           NEW e \in 0 .. 3, NEW f \in 0 .. 3,
           \/ a <= b /\ c <= d /\ e < f
           \/ a + c <= (b + d) - 1 /\ f >= 1
    PROVE  3 * (a + c) + e < 3 * (b + d) + f
  OBVIOUS

-----------------------------------------------------------------------------
(* Rows keep one place each.                                                 *)

\* What is said of lists n that come from l by a row x more in f, or by l[f][i] less.
Grows(n, l, f, x) ==
    /\ Placed(n)
    /\ \A g \in Folders : Len(n[g]) = IF g = f THEN Len(l[g]) + 1 ELSE Len(l[g])
    /\ \A g \in Folders : \A k \in 1 .. Len(n[g]) :
          n[g][k] = x \/ \E j \in 1 .. Len(l[g]) : j <= k /\ n[g][k] = l[g][j]

Shrinks(n, l, f, i) ==
    /\ Placed(n)
    /\ \A g \in Folders : Len(n[g]) <= Len(l[g])
    /\ \A g \in Folders : \A k \in 1 .. Len(n[g]) :
          n[g][k] # l[f][i] /\ \E j \in 1 .. Len(l[g]) : j <= k + 1 /\ n[g][k] = l[g][j]

LEMMA InsertPlaced ==
    ASSUME NEW l, Placed(l), NEW f \in Folders, NEW i \in 1 .. Len(l[f]) + 1, NEW x \in Rows,
           \A g \in Folders : \A k \in 1 .. Len(l[g]) : l[g][k] # x,
           NEW n, n = [l EXCEPT ![f] = InsertAt(l[f], i, x)]
    PROVE  Grows(n, l, f, x)
<1> DEFINE s == InsertAt(l[f], i, x)
<1>1. l \in [Folders -> Seq(Rows)] /\ l[f] \in Seq(Rows) /\ Len(l[f]) \in Nat
  BY DEF Placed
<1>2. /\ s \in Seq(Rows) /\ Len(s) = Len(l[f]) + 1
      /\ \A j \in 1 .. Len(l[f]) + 1 : s[j] =
            IF j < i THEN l[f][j] ELSE IF j = i THEN x ELSE l[f][j - 1]
  BY <1>1, InsertFacts, SMTT(40)
<1> HIDE DEF s
<1>3. n \in [Folders -> Seq(Rows)] /\ n[f] = s /\ \A g \in Folders \ {f} : n[g] = l[g]
  BY <1>1, <1>2 DEF s
<1> DEFINE Old(g, k) == IF g = f /\ k > i THEN k - 1 ELSE k
<1>4. ASSUME NEW g \in Folders, NEW k \in 1 .. Len(n[g]), ~ (g = f /\ k = i)
      PROVE  Old(g, k) \in 1 .. Len(l[g]) /\ n[g][k] = l[g][Old(g, k)]
  <2>1. CASE g = f
    BY <1>1, <1>2, <1>3, <1>4, <2>1
  <2>2. CASE g # f
    BY <1>3, <2>2
  <2>3. QED
    BY <2>1, <2>2
<1>5. f \in Folders /\ i \in 1 .. Len(n[f]) /\ n[f][i] = x
  BY <1>1, <1>2, <1>3
<1>6. ASSUME NEW g \in Folders, NEW h \in Folders, NEW j \in 1 .. Len(n[g]), NEW k \in 1 .. Len(n[h]),
             n[g][j] = n[h][k]
      PROVE  g = h /\ j = k
  <2>1. CASE (g = f /\ j = i) /\ (h = f /\ k = i)
    BY <2>1
  <2>2. CASE (g = f /\ j = i) /\ ~ (h = f /\ k = i)
    BY <1>4, <1>5, <1>6, <2>2
  <2>3. CASE ~ (g = f /\ j = i) /\ (h = f /\ k = i)
    BY <1>4, <1>5, <1>6, <2>3
  <2>4. CASE ~ (g = f /\ j = i) /\ ~ (h = f /\ k = i)
    <3>1. /\ Old(g, j) \in 1 .. Len(l[g]) /\ Old(h, k) \in 1 .. Len(l[h])
          /\ l[g][Old(g, j)] = l[h][Old(h, k)]
      BY <1>4, <1>6, <2>4
    <3>2. g = h /\ Old(g, j) = Old(h, k)
      BY <3>1 DEF Placed
    <3>3. j \in Int /\ k \in Int /\ i \in Int
      BY <1>1, <1>2, <1>3
    <3>4. QED
      BY <2>4, <3>2, <3>3
  <2>5. QED
    BY <2>1, <2>2, <2>3, <2>4
<1>7. ASSUME NEW g \in Folders, NEW k \in 1 .. Len(n[g]), n[g][k] # x
      PROVE  \E j \in 1 .. Len(l[g]) : j <= k /\ n[g][k] = l[g][j]
  <2>1. ~ (g = f /\ k = i) /\ k \in Int /\ i \in Int
    BY <1>1, <1>2, <1>3, <1>5, <1>7
  <2>2. Old(g, k) \in 1 .. Len(l[g]) /\ n[g][k] = l[g][Old(g, k)]
    BY <1>4, <2>1
  <2>3. Old(g, k) <= k
    BY <2>1
  <2> HIDE DEF Old
  <2>4. QED
    BY <2>2, <2>3
<1>8. ASSUME NEW g \in Folders PROVE Len(n[g]) = IF g = f THEN Len(l[g]) + 1 ELSE Len(l[g])
  BY <1>2, <1>3
<1>9. QED
  BY <1>3, <1>6, <1>7, <1>8 DEF Placed, Grows

LEMMA RemovePlaced ==
    ASSUME NEW l, Placed(l), NEW f \in Folders, NEW i \in 1 .. Len(l[f]),
           NEW r, r = [l EXCEPT ![f] = RemoveAt(l[f], i)]
    PROVE  Shrinks(r, l, f, i)
<1> DEFINE s == RemoveAt(l[f], i)
<1>1. l \in [Folders -> Seq(Rows)] /\ l[f] \in Seq(Rows) /\ Len(l[f]) \in Nat
  BY DEF Placed
<1>2. /\ s \in Seq(Rows) /\ Len(s) = Len(l[f]) - 1
      /\ \A j \in 1 .. Len(l[f]) - 1 : s[j] = IF j < i THEN l[f][j] ELSE l[f][j + 1]
  BY <1>1, RemoveFacts
<1> HIDE DEF s
<1>3. r \in [Folders -> Seq(Rows)] /\ r[f] = s /\ \A g \in Folders \ {f} : r[g] = l[g]
  BY <1>1, <1>2 DEF s
<1> DEFINE Old(g, k) == IF g = f /\ k >= i THEN k + 1 ELSE k
<1>4. ASSUME NEW g \in Folders, NEW k \in 1 .. Len(r[g])
      PROVE  /\ Old(g, k) \in 1 .. Len(l[g]) /\ r[g][k] = l[g][Old(g, k)]
             /\ ~ (g = f /\ Old(g, k) = i)
  <2>1. CASE g = f
    BY <1>1, <1>2, <1>3, <2>1
  <2>2. CASE g # f
    BY <1>3, <2>2
  <2>3. QED
    BY <2>1, <2>2
<1>5. ASSUME NEW g \in Folders, NEW h \in Folders, NEW j \in 1 .. Len(r[g]), NEW k \in 1 .. Len(r[h]),
             r[g][j] = r[h][k]
      PROVE  g = h /\ j = k
  <2>0. /\ Old(g, j) \in 1 .. Len(l[g]) /\ Old(h, k) \in 1 .. Len(l[h])
        /\ l[g][Old(g, j)] = l[h][Old(h, k)]
    <3> HIDE DEF Old
    <3>1. QED
      BY <1>4, <1>5
  <2>1. g = h /\ Old(g, j) = Old(h, k)
    BY <2>0 DEF Placed
  <2>2. j \in Int /\ k \in Int /\ i \in Int
    BY <1>1, <1>2, <1>3
  <2>3. QED
    BY <2>1, <2>2
<1>6. ASSUME NEW g \in Folders, NEW k \in 1 .. Len(r[g])
      PROVE  r[g][k] # l[f][i] /\ \E j \in 1 .. Len(l[g]) : j <= k + 1 /\ r[g][k] = l[g][j]
  <2>0. Old(g, k) <= k + 1
    OBVIOUS
  <2>1. Old(g, k) \in 1 .. Len(l[g]) /\ r[g][k] = l[g][Old(g, k)] /\ ~ (g = f /\ Old(g, k) = i)
    BY <1>4
  <2> HIDE DEF Old
  <2>2. QED
    BY <2>0, <2>1 DEF Placed
<1>7. ASSUME NEW g \in Folders PROVE Len(r[g]) <= Len(l[g])
  <2>1. CASE g = f
    BY <1>1, <1>2, <1>3, <2>1
  <2>2. CASE g # f
    BY <1>1, <1>3, <2>2
  <2>3. QED
    BY <2>1, <2>2
<1>8. QED
  BY <1>3, <1>5, <1>6, <1>7 DEF Placed, Shrinks

-----------------------------------------------------------------------------
(* The inductive invariant.                                                  *)

Past == IF page < 1 THEN 0 ELSE (page - 1) * Size

BornInv == \A f \in Folders : \A i \in 1 .. Len(list[f]) : list[f][i] \in born

WalkInv ==
    /\ pc # "done" => folder \notin read
    /\ todo \cap (read \cup {folder}) = {}
    /\ pc = "wait" => page \in 1 .. MaxInt /\ Usable
    /\ answer # NoAnswer => pc = "wait"
    /\ pc \in {"idle", "wait"} => failures <= MaxFailures

AnswerInv ==
    answer # NoAnswer /\ ~ odd =>
        /\ answer.sound /\ answer.total >= 0
        /\ Html /\ answer.shown => answer.link > page
        /\ ~ Html => answer.echo = page /\ (NextPage(answer) # 0 => answer.rows # {})

\* The rows the walk has left behind in lists l: those of the folders read, and of
\* the one it reads the first b, or all.
Behind(l, b, all) ==
    {x \in Rows : \E f \in Folders : \E i \in 1 .. Len(l[f]) :
        l[f][i] = x /\ (f \in read \/ (f = folder /\ (all \/ i <= b)))}

Seen == {x \in Rows : Found(x)}
Few(S, n) == IsFiniteSet(S) /\ Cardinality(S) <= n

\* Few of them were not found, and few will be when the answer on its way is in.
LostInv ==
    ~ odd =>
        /\ Few((Behind(list, Past, FALSE) \cap steady) \ Seen, moves)
        /\ answer # NoAnswer =>
              /\ NextPage(answer) \in {0, page + 1}
              /\ Few((Behind(list, page * Size, NextPage(answer) = 0) \cap steady)
                        \ (Seen \cup answer.rows), moves)

Stable == moves = 0 /\ ~ odd /\ born = steady

\* Of a stable list, what the walk has got is what lies behind it.
GotPast ==
    \A f \in Folders : \A i \in 1 .. Len(list[f]) : list[f][i] \in Items =>
        got[list[f][i]] = IF f \in read \/ (f = folder /\ i <= Past) THEN 1 ELSE 0
AnswerExact ==
    answer # NoAnswer =>
        /\ answer.rows = OnPage(page) /\ NextPage(answer) \in {0, page + 1}
        /\ NextPage(answer) = 0 <=> Len(list[folder]) <= page * Size

OnceInv == Stable => (page <= 1 \/ Past < Len(list[folder])) /\ GotPast /\ AnswerExact

Inv == TypeOK /\ BornInv /\ WalkInv /\ AnswerInv /\ LostInv /\ OnceInv

USE ListsAssumption DEF AllKinds, Ended

-----------------------------------------------------------------------------
(* Pages.                                                                    *)

LEMMA PageTypes ==
    ASSUME TypeOK, WalkInv
    PROVE  /\ page \in Int /\ Size \in Int /\ Past \in Int
           /\ pc = "wait" => page \in Nat \ {0} /\ Size \in Nat \ {0} /\ Past = (page - 1) * Size
<1>1. page \in Int /\ limit \in Int /\ HtmlRows \in Nat \ {0} /\ DefaultLimit \in Nat \ {0}
  BY DEF TypeOK
<1>2. Size \in Int
  BY <1>1 DEF Size
<1>3. Past \in Int
  BY <1>1, <1>2 DEF Past
<1>4. pc = "wait" => page \in Nat \ {0} /\ Size \in Nat \ {0}
  BY <1>1 DEF WalkInv, Usable, Size
<1>5. QED
  BY <1>1, <1>2, <1>3, <1>4 DEF Past

LEMMA NextPageTypes ==
    ASSUME TypeOK, WalkInv, pc = "wait"
    PROVE  /\ NextPage(answer) \in 0 .. MaxInt
           /\ ~ Html => NextPage(answer) \in {0, page + 1}
           /\ ~ Html /\ answer.total >= 0 => (NextPage(answer) # 0 <=> page * Size < answer.total)
<1>1. page \in Nat \ {0} /\ Size \in Nat \ {0} /\ page * Size \in Nat
  BY PageTypes
<1>2. answer.link \in 0 .. MaxInt /\ answer.total \in -1 .. MaxInt /\ MaxInt \in Nat
  BY DEF TypeOK, Answers
<1>3. CASE Html
  BY <1>2, <1>3 DEF NextPage
<1>4. CASE ~ Html /\ answer.total > 0
  <2>1. page <= (answer.total - 1) \div Size <=> page * Size < answer.total
    BY <1>1, <1>2, <1>4, PageArithmetic
  <2>2. page <= page * Size
    BY <1>1
  <2>3. NextPage(answer) = IF page * Size < answer.total THEN page + 1 ELSE 0
    BY <1>4, <2>1 DEF NextPage
  <2>4. QED
    BY <1>1, <1>2, <1>4, <2>2, <2>3
<1>5. CASE ~ Html /\ ~ answer.total > 0
  <2>1. NextPage(answer) = 0
    BY <1>5 DEF NextPage
  <2>2. QED
    BY <1>1, <1>2, <1>5, <2>1
<1>6. QED
  BY <1>3, <1>4, <1>5

-----------------------------------------------------------------------------
(* Rows left behind.                                                         *)

LEMMA NoneLost ==
    ASSUME NEW n \in Nat PROVE Few({}, n)
  BY FS_EmptySet DEF Few

LEMMA FewerLost ==
    ASSUME NEW n \in Nat, NEW S, NEW T, Few(S, n), T \subseteq S
    PROVE  Few(T, n)
<1>1. IsFiniteSet(T) /\ Cardinality(T) <= Cardinality(S)
  BY FS_Subset DEF Few
<1>2. Cardinality(T) \in Nat /\ Cardinality(S) \in Nat
  BY <1>1, FS_CardinalityType DEF Few
<1>3. QED
  BY <1>1, <1>2 DEF Few

LEMMA OneMoreLost ==
    ASSUME NEW n \in Nat, NEW S, NEW T, NEW x, Few(S, n), T \subseteq S \cup {x}
    PROVE  Few(T, n + 1)
<1>1. Cardinality(S) \in Nat /\ Cardinality(S) <= n
  BY FS_CardinalityType DEF Few
<1>2. IsFiniteSet(S \cup {x}) /\ Cardinality(S \cup {x}) \in {Cardinality(S), Cardinality(S) + 1}
  BY FS_AddElement DEF Few
<1>3. Few(S \cup {x}, n + 1)
  BY <1>1, <1>2 DEF Few
<1>4. n + 1 \in Nat
  OBVIOUS
<1>5. QED
  BY <1>3, <1>4, FewerLost

\* Rows pushed back are left behind only if they were.
LEMMA PushedBack ==
    ASSUME NEW n, NEW x, NEW b \in Int, NEW all,
           \A g \in Folders : \A k \in 1 .. Len(n[g]) :
              n[g][k] = x \/ \E j \in 1 .. Len(list[g]) : j <= k /\ n[g][k] = list[g][j]
    PROVE  Behind(n, b, all) \ {x} \subseteq Behind(list, b, all)
<1> SUFFICES ASSUME NEW y \in Rows, y # x, NEW f \in Folders, NEW k \in 1 .. Len(n[f]), n[f][k] = y,
                    f \in read \/ (f = folder /\ (all \/ k <= b))
             PROVE  y \in Behind(list, b, all)
  BY DEF Behind
<1>1. PICK j \in 1 .. Len(list[f]) : j <= k /\ y = list[f][j]
  OBVIOUS
<1>2. k <= b => j <= b
  BY <1>1
<1>3. QED
  BY <1>1, <1>2 DEF Behind

\* When one row goes, at most one other gets from before a place to behind it.
LEMMA MovedUp ==
    ASSUME NEW n, NEW x, NEW b \in Int, NEW all,
           \A g \in Folders : \A k \in 1 .. Len(n[g]) :
              n[g][k] = x \/ \E j \in 1 .. Len(list[g]) : j <= k + 1 /\ n[g][k] = list[g][j]
    PROVE  Behind(n, b, all) \ {x} \subseteq Behind(list, b, all) \cup {list[folder][b + 1]}
<1> SUFFICES ASSUME NEW y \in Rows, y # x, NEW f \in Folders, NEW k \in 1 .. Len(n[f]), n[f][k] = y,
                    f \in read \/ (f = folder /\ (all \/ k <= b)),
                    ~ (f = folder /\ y = list[folder][b + 1])
             PROVE  y \in Behind(list, b, all)
  BY DEF Behind
<1>1. PICK j \in 1 .. Len(list[f]) : j <= k + 1 /\ y = list[f][j]
  OBVIOUS
<1>2. f = folder => j # b + 1
  BY <1>1
<1>3. f = folder /\ k <= b => j <= b
  BY <1>1, <1>2
<1>4. QED
  BY <1>1, <1>3 DEF Behind

-----------------------------------------------------------------------------
(* The account changes.                                                      *)

LEMMA InsertStep ==
    ASSUME TypeOK, BornInv, NEW f \in Folders, NEW x \in Rows, NEW i \in 1 .. Len(list[f]) + 1,
           Insert(x, f, i)
    PROVE  /\ Placed(list') /\ \A g \in Folders : Len(list'[g]) <= MaxInt
           /\ \A g \in Folders : \A k \in 1 .. Len(list'[g]) :
                 list'[g][k] = x \/ \E j \in 1 .. Len(list[g]) : j <= k /\ list'[g][k] = list[g][j]
<1>0. Placed(list)
  BY DEF TypeOK
<1>1. \A g \in Folders : \A k \in 1 .. Len(list[g]) : list[g][k] # x
  BY DEF BornInv, Insert
<1>2. list' = [list EXCEPT ![f] = InsertAt(list[f], i, x)]
  BY DEF Insert
<1>3. \A g \in Folders : Len(list[g]) \in Nat /\ Len(list[g]) <= MaxInt
  BY DEF TypeOK, Placed
<1>4. /\ Placed(list')
      /\ \A g \in Folders : Len(list'[g]) = IF g = f THEN Len(list[g]) + 1 ELSE Len(list[g])
      /\ \A g \in Folders : \A k \in 1 .. Len(list'[g]) :
            list'[g][k] = x \/ \E j \in 1 .. Len(list[g]) : j <= k /\ list'[g][k] = list[g][j]
  <2>1. Grows(list', list, f, x)
    BY <1>0, <1>1, <1>2, InsertPlaced, Zenon
  <2>2. QED
    BY <2>1 DEF Grows
<1>5. MaxInt \in Nat
  OBVIOUS
<1>6. \A g \in Folders : Len(list'[g]) <= MaxInt
  BY <1>3, <1>4, <1>5 DEF Insert
<1>7. QED
  BY <1>4, <1>6

LEMMA DeleteStep ==
    ASSUME TypeOK, NEW f \in Folders, NEW i \in 1 .. Len(list[f]), Delete(f, i)
    PROVE  /\ Placed(list') /\ \A g \in Folders : Len(list'[g]) <= MaxInt
           /\ \A g \in Folders : \A k \in 1 .. Len(list'[g]) :
                 \E j \in 1 .. Len(list[g]) : j <= k + 1 /\ list'[g][k] = list[g][j]
<1> DEFINE rest == [list EXCEPT ![f] = RemoveAt(list[f], i)]
           gone == Along(list[f][i])
<1>0. Placed(list)
  BY DEF TypeOK
<1>1. /\ Placed(rest) /\ \A g \in Folders : Len(rest[g]) <= Len(list[g])
      /\ \A g \in Folders : \A k \in 1 .. Len(rest[g]) :
            \E j \in 1 .. Len(list[g]) : j <= k + 1 /\ rest[g][k] = list[g][j]
  <2>1. Shrinks(rest, list, f, i)
    BY <1>0, RemovePlaced, Zenon
  <2>2. QED
    BY <2>1 DEF Shrinks
<1>2. list' = [g \in Folders |-> IF g \in gone THEN <<>> ELSE rest[g]]
  <2>1. list' = [g \in Folders |-> IF g \in gone THEN <<>>
                                  ELSE IF g = f THEN RemoveAt(list[f], i) ELSE list[g]]
    BY DEF Delete
  <2> HIDE DEF gone
  <2>2. list \in [Folders -> Seq(Rows)]
    BY <1>0 DEF Placed
  <2>3. \A g \in Folders : rest[g] = IF g = f THEN RemoveAt(list[f], i) ELSE list[g]
    BY <2>2
  <2> QED
    BY <2>1, <2>3
<1> HIDE DEF rest, gone
<1>3. ASSUME NEW g \in Folders PROVE rest[g] \in Seq(Rows) /\ list[g] \in Seq(Rows) /\ Len(list[g]) <= MaxInt
  BY <1>1 DEF TypeOK, Placed
<1>4. ASSUME NEW g \in Folders
      PROVE  list'[g] \in Seq(Rows) /\ (list'[g] = rest[g] \/ Len(list'[g]) = 0)
  BY <1>2, <1>3
<1>5. Placed(list')
  <2>1. list' \in [Folders -> Seq(Rows)]
    BY <1>2, <1>4
  <2>2. ASSUME NEW g \in Folders, NEW h \in Folders,
               NEW j \in 1 .. Len(list'[g]), NEW k \in 1 .. Len(list'[h]), list'[g][j] = list'[h][k]
        PROVE  g = h /\ j = k
    <3>1. list'[g] = rest[g] /\ list'[h] = rest[h]
      BY <1>4
    <3>2. j \in 1 .. Len(rest[g]) /\ k \in 1 .. Len(rest[h]) /\ rest[g][j] = rest[h][k]
      BY <2>2, <3>1
    <3> QED
      BY <1>1, <3>2 DEF Placed
  <2> QED
    BY <2>1, <2>2 DEF Placed
<1>6. ASSUME NEW g \in Folders PROVE Len(list'[g]) <= MaxInt
  <2>1. Len(rest[g]) <= Len(list[g]) /\ Len(list[g]) <= MaxInt
    BY <1>1, <1>3
  <2>2. Len(list[g]) \in Nat /\ Len(rest[g]) \in Nat /\ MaxInt \in Nat
    BY <1>3
  <2>3. QED
    BY <1>4, <2>1, <2>2
<1>7. ASSUME NEW g \in Folders, NEW k \in 1 .. Len(list'[g])
      PROVE  \E j \in 1 .. Len(list[g]) : j <= k + 1 /\ list'[g][k] = list[g][j]
  <2>1. list'[g] = rest[g]
    BY <1>4
  <2>2. k \in 1 .. Len(rest[g])
    BY <2>1
  <2>3. \E j \in 1 .. Len(list[g]) : j <= k + 1 /\ rest[g][k] = list[g][j]
    BY <1>1, <2>2
  <2> QED
    BY <2>1, <2>3
<1> QED
  BY <1>5, <1>6, <1>7

LEMMA MoveStep ==
    ASSUME TypeOK, NEW f \in Folders, NEW i \in 1 .. Len(list[f]), NEW g \in Folders,
           NEW j \in 1 .. Len(list[g]) + 1, Move(f, i, g, j)
    PROVE  /\ Placed(list') /\ \A h \in Folders : Len(list'[h]) <= MaxInt
           /\ \A h \in Folders : \A k \in 1 .. Len(list'[h]) :
                 \/ list'[h][k] = list[f][i]
                 \/ \E m \in 1 .. Len(list[h]) : m <= k + 1 /\ list'[h][k] = list[h][m]
<1> DEFINE x == list[f][i]
           rest == [list EXCEPT ![f] = RemoveAt(list[f], i)]
<1>0. Placed(list)
  BY DEF TypeOK
<1>1. x \in Rows
  <2>1. list[f] \in Seq(Rows)
    BY <1>0 DEF Placed
  <2>2. QED
    BY <2>1
<1>2. /\ Placed(rest) /\ \A h \in Folders : Len(rest[h]) <= Len(list[h])
      /\ \A h \in Folders : \A k \in 1 .. Len(rest[h]) :
            rest[h][k] # x /\ \E m \in 1 .. Len(list[h]) : m <= k + 1 /\ rest[h][k] = list[h][m]
  <2>1. Shrinks(rest, list, f, i)
    BY <1>0, RemovePlaced, Zenon
  <2>2. QED
    BY <2>1 DEF Shrinks
<1>3. /\ Len(rest[g]) < MaxInt /\ j <= Len(rest[g]) + 1
      /\ list' = [rest EXCEPT ![g] = InsertAt(rest[g], j, x)]
  BY DEF Move
<1>4. x = list[f][i] /\ \A h \in Folders : \A k \in 1 .. Len(rest[h]) : rest[h][k] # x
  BY <1>2
<1> HIDE DEF rest, x
<1>5. ASSUME NEW h \in Folders
      PROVE  Len(rest[h]) \in Nat /\ Len(list[h]) \in Nat /\ Len(list[h]) <= MaxInt
  <2>1. rest[h] \in Seq(Rows) /\ list[h] \in Seq(Rows) /\ Len(list[h]) <= MaxInt
    BY <1>2 DEF TypeOK, Placed
  <2>2. QED
    BY <2>1
<1>6. j \in 1 .. Len(rest[g]) + 1
  BY <1>3, <1>5
<1>7. /\ Placed(list')
      /\ \A h \in Folders : Len(list'[h]) = IF h = g THEN Len(rest[h]) + 1 ELSE Len(rest[h])
      /\ \A h \in Folders : \A k \in 1 .. Len(list'[h]) :
            list'[h][k] = x \/ \E m \in 1 .. Len(rest[h]) : m <= k /\ list'[h][k] = rest[h][m]
  <2>1. \A h \in Folders : \A k \in 1 .. Len(rest[h]) : rest[h][k] # x
    BY <1>4
  <2>2. list' = [rest EXCEPT ![g] = InsertAt(rest[g], j, x)]
    BY <1>3
  <2>3. Placed(rest)
    BY <1>2
  <2>4. Grows(list', rest, g, x)
    BY <1>1, <1>6, <2>1, <2>2, <2>3, InsertPlaced, Zenon
  <2>5. QED
    BY <2>4 DEF Grows
<1>8. \A h \in Folders : Len(list'[h]) <= MaxInt
  <2>1. MaxInt \in Nat
    OBVIOUS
  <2>2. TAKE h \in Folders
  <2>3. CASE h = g
    BY <1>3, <1>5, <1>7, <2>1, <2>3
  <2>4. CASE h # g
    <3>1. Len(list'[h]) = Len(rest[h]) /\ Len(rest[h]) <= Len(list[h])
      BY <1>2, <1>7, <2>4
    <3>2. QED
      BY <1>5, <2>1, <3>1
  <2>5. QED
    BY <2>3, <2>4
<1>9. ASSUME NEW h \in Folders, NEW k \in 1 .. Len(list'[h]), list'[h][k] # x
      PROVE  \E m \in 1 .. Len(list[h]) : m <= k + 1 /\ list'[h][k] = list[h][m]
  <2>1. PICK n \in 1 .. Len(rest[h]) : n <= k /\ list'[h][k] = rest[h][n]
    BY <1>7, <1>9
  <2>2. PICK m \in 1 .. Len(list[h]) : m <= n + 1 /\ rest[h][n] = list[h][m]
    BY <1>2
  <2>3. m <= k + 1
    BY <2>1, <2>2
  <2>4. QED
    BY <2>1, <2>2, <2>3
<1>10. QED
  BY <1>4, <1>7, <1>8, <1>9

-----------------------------------------------------------------------------
(* The invariant holds at first, and of every change of the account.         *)

LEMMA InitInv == Init => Inv
<1> SUFFICES ASSUME Init PROVE Inv
  OBVIOUS
<1>1. Placed(list) /\ \A f \in Folders : Len(list[f]) <= MaxInt
  BY DEF Init
<1>2. ASSUME NEW f \in Folders, NEW i \in 1 .. Len(list[f])
      PROVE  list[f][i] \in ToSet(list[f]) /\ list[f][i] \in Rows
  <2>1. list[f] \in Seq(Rows)
    BY <1>1 DEF Placed
  <2>2. QED
    BY <2>1 DEF ToSet
<1>3. BornInv
  BY <1>2 DEF BornInv, Init
<1>4. born \subseteq Rows
  <2>1. ASSUME NEW f \in Folders PROVE ToSet(list[f]) \subseteq Rows
    <3>1. list[f] \in Seq(Rows)
      BY <1>1 DEF Placed
    <3>2. QED
      BY <3>1 DEF ToSet
  <2>2. QED
    BY <2>1 DEF Init
<1>5. TypeOK
  <2>1. answer \in Answers
    BY DEF Init, NoAnswer, Answers
  <2>2. kind \in Kinds /\ limit \in Limits \cup {0} /\ steady \subseteq born
    BY DEF Init
  <2>3. moves \in 0 .. MaxMoves /\ odd \in BOOLEAN /\ failures \in 0 .. MaxFailures + 1
    <3>1. moves = 0 /\ failures = 0
      BY DEF Init
    <3>2. MaxMoves \in Nat /\ MaxFailures \in Nat
      OBVIOUS
    <3>3. odd \in BOOLEAN
      BY DEF Init
    <3>4. QED
      BY <3>1, <3>2, <3>3
  <2>4. folder \in Folders /\ todo \subseteq Folders /\ read \subseteq Folders
    BY DEF Init
  <2>5. page \in -1 .. MaxInt
    <3>1. page \in {-1, 0, 1}
      BY DEF Init
    <3>2. MaxInt \in Nat \ {0}
      OBVIOUS
    <3>3. QED
      BY <3>1, <3>2
  <2>6. got \in [Items -> Nat] /\ pc \in {"idle", "wait"} \cup Ended
    BY DEF Init
  <2>7. QED
    BY <1>1, <1>4, <2>1, <2>2, <2>3, <2>4, <2>5, <2>6 DEF TypeOK
<1>6. WalkInv /\ AnswerInv
  BY DEF Init, WalkInv, AnswerInv
<1>7. Past = 0
  <2>1. Size \in Int
    BY <1>5, <1>6, PageTypes
  <2>2. QED
    BY <2>1 DEF Past, Init
<1>8. LostInv
  <2>1. read = {} /\ answer = NoAnswer
    BY DEF Init
  <2>2. \A f \in Folders : \A i \in 1 .. Len(list[f]) : ~ (i <= 0)
    OBVIOUS
  <2>3. Behind(list, Past, FALSE) = {}
    BY <1>7, <2>1, <2>2 DEF Behind
  <2>4. moves \in Nat
    BY DEF Init
  <2>5. QED
    BY <2>1, <2>3, <2>4, NoneLost DEF LostInv
<1>9. OnceInv
  <2>1. GotPast
    BY <1>7 DEF GotPast, Init
  <2>2. AnswerExact /\ page <= 1
    BY DEF AnswerExact, Init
  <2>3. QED
    BY <2>1, <2>2 DEF OnceInv
<1>10. QED
  BY <1>3, <1>5, <1>6, <1>8, <1>9 DEF Inv

\* What a change of the account leaves to the walk.
LEMMA WalkUntouched ==
    ASSUME WalkInv, AnswerInv, UNCHANGED <<kind, limit, odd, walk, pc, answer, failures>>
    PROVE  WalkInv' /\ AnswerInv' /\ Past' = Past /\ Size' = Size /\ NextPage(answer)' = NextPage(answer)
BY DEF WalkInv, AnswerInv, Past, Size, Html, Usable, NextPage, walk

LEMMA InsertInv ==
    ASSUME Inv, NEW f \in Folders, NEW x \in Rows, NEW i \in 1 .. Len(list[f]) + 1, Insert(x, f, i)
    PROVE  Inv'
<1> USE DEF Inv
<1>0. UNCHANGED <<kind, limit, steady, moves, odd, walk, pc, answer, failures>>
      /\ born' = born \cup {x} /\ x \notin born
  BY DEF Insert
<1>1. /\ Placed(list') /\ \A g \in Folders : Len(list'[g]) <= MaxInt
      /\ \A g \in Folders : \A k \in 1 .. Len(list'[g]) :
            list'[g][k] = x \/ \E j \in 1 .. Len(list[g]) : j <= k /\ list'[g][k] = list[g][j]
  BY InsertStep
<1>2. TypeOK'
  BY <1>0, <1>1 DEF TypeOK, walk
<1>3. BornInv'
  <2> SUFFICES ASSUME NEW g \in Folders, NEW k \in 1 .. Len(list'[g]) PROVE list'[g][k] \in born \cup {x}
    BY <1>0, Zenon DEF BornInv
  <2>1. list'[g][k] = x \/ \E j \in 1 .. Len(list[g]) : list'[g][k] = list[g][j]
    BY <1>1
  <2> QED
    BY <2>1 DEF BornInv
<1>4. WalkInv' /\ AnswerInv' /\ Past' = Past /\ Size' = Size /\ NextPage(answer)' = NextPage(answer)
  BY <1>0, WalkUntouched
<1>5. Seen' = Seen
  BY <1>0 DEF Seen, Found, walk
<1>6. LostInv'
  <2> SUFFICES ASSUME ~ odd PROVE LostInv'
    BY <1>0 DEF LostInv
  <2>1. read' = read /\ folder' = folder /\ steady' = steady /\ answer' = answer /\ page' = page
        /\ moves' = moves /\ page' * Size' = page * Size
    BY <1>0, <1>4 DEF walk
  <2>2. Past \in Int /\ page * Size \in Int /\ moves \in Nat /\ x \notin steady
    BY <1>0, PageTypes DEF TypeOK
  <2>3. ASSUME NEW b \in Int, NEW all, NEW found
        PROVE  (Behind(list', b, all) \cap steady) \ found \subseteq (Behind(list, b, all) \cap steady) \ found
    <3>1. Behind(list', b, all) \ {x} \subseteq Behind(list, b, all)
      BY <1>1, PushedBack
    <3>2. QED
      BY <2>2, <3>1
  <2>4. Few((Behind(list', Past, FALSE) \cap steady) \ Seen, moves)
    <3>1. Few((Behind(list, Past, FALSE) \cap steady) \ Seen, moves)
      BY DEF LostInv
    <3>2. (Behind(list', Past, FALSE) \cap steady) \ Seen \subseteq (Behind(list, Past, FALSE) \cap steady) \ Seen
      BY <2>2, <2>3
    <3>3. QED
      BY <2>2, <3>1, <3>2, FewerLost
  <2>5. ASSUME answer # NoAnswer
        PROVE  Few((Behind(list', page * Size, NextPage(answer) = 0) \cap steady) \ (Seen \cup answer.rows), moves)
    <3> DEFINE all == NextPage(answer) = 0
               found == Seen \cup answer.rows
    <3>1. Few((Behind(list, page * Size, all) \cap steady) \ found, moves)
      BY <2>5 DEF LostInv
    <3> HIDE DEF all, found
    <3>2. (Behind(list', page * Size, all) \cap steady) \ found
             \subseteq (Behind(list, page * Size, all) \cap steady) \ found
      BY <2>2, <2>3
    <3>3. Few((Behind(list', page * Size, all) \cap steady) \ found, moves)
      BY <2>2, <3>1, <3>2, FewerLost
    <3>4. QED
      BY <3>3 DEF all, found
  <2>6. LET all == NextPage(answer) = 0 IN
        /\ Behind(list, Past, FALSE)' = Behind(list', Past, FALSE)
        /\ Behind(list, page * Size, all)' = Behind(list', page * Size, all)
    BY <1>4, <2>1 DEF Behind
  <2>7. QED
    BY <1>4, <1>5, <2>1, <2>4, <2>5, <2>6 DEF LostInv
<1>8. OnceInv'
  BY <1>0 DEF OnceInv, Stable, TypeOK
<1>9. QED
  BY <1>2, <1>3, <1>4, <1>6, <1>8

\* A row that leaves its place lets one other slip behind the walk.
LEMMA LeavesInv ==
    ASSUME Inv, NEW x \in Rows, Leaves(x),
           Placed(list'), \A h \in Folders : Len(list'[h]) <= MaxInt,
           \A h \in Folders : \A k \in 1 .. Len(list'[h]) :
              list'[h][k] = x \/ \E m \in 1 .. Len(list[h]) : m <= k + 1 /\ list'[h][k] = list[h][m],
           \E h \in Folders : \E m \in 1 .. Len(list[h]) : x = list[h][m]
    PROVE  Inv'
<1> USE DEF Inv
<1>1. UNCHANGED <<kind, limit, odd, walk, pc, answer, failures>> /\ born' = born
      /\ moves' = moves + 1 /\ moves < MaxMoves /\ steady' = steady \ {x}
  BY DEF Leaves
<1>2. moves \in Nat /\ MaxMoves \in Nat
  BY DEF TypeOK
<1>3. TypeOK'
  BY <1>1, <1>2 DEF TypeOK, walk
<1>4. BornInv'
  <2> SUFFICES ASSUME NEW h \in Folders, NEW k \in 1 .. Len(list'[h]) PROVE list'[h][k] \in born
    BY <1>1 DEF BornInv
  <2>1. \E e \in Folders : \E m \in 1 .. Len(list[e]) : list'[h][k] = list[e][m]
    OBVIOUS
  <2>2. QED
    BY <2>1 DEF BornInv
<1>5. WalkInv' /\ AnswerInv' /\ Past' = Past /\ Size' = Size /\ NextPage(answer)' = NextPage(answer)
  BY <1>1, WalkUntouched
<1>6. moves' # 0
  BY <1>1, <1>2
<1>7. OnceInv'
  BY <1>6 DEF OnceInv, Stable
<1>8. LostInv'
  <2> SUFFICES ASSUME ~ odd PROVE LostInv'
    BY <1>1 DEF LostInv
  <2>1. read' = read /\ folder' = folder /\ answer' = answer /\ page' = page /\ page' * Size' = page * Size
    BY <1>1, <1>5 DEF walk
  <2>2. Past \in Int /\ page * Size \in Int
    BY PageTypes
  <2>3. Seen' = Seen
    BY <1>1 DEF Seen, Found, walk
  <2>4. ASSUME NEW b \in Int, NEW all, NEW found
        PROVE  (Behind(list', b, all) \cap steady') \ found
                  \subseteq ((Behind(list, b, all) \cap steady) \ found) \cup {list[folder][b + 1]}
    <3>1. Behind(list', b, all) \ {x} \subseteq Behind(list, b, all) \cup {list[folder][b + 1]}
      BY MovedUp
    <3>2. QED
      BY <1>1, <3>1
  <2>5. Few((Behind(list', Past, FALSE) \cap steady') \ Seen, moves + 1)
    <3>1. Few((Behind(list, Past, FALSE) \cap steady) \ Seen, moves)
      BY DEF LostInv
    <3>2. (Behind(list', Past, FALSE) \cap steady') \ Seen
             \subseteq ((Behind(list, Past, FALSE) \cap steady) \ Seen) \cup {list[folder][Past + 1]}
      BY <2>2, <2>4
    <3>3. QED
      BY <1>2, <3>1, <3>2, OneMoreLost
  <2>6. ASSUME answer # NoAnswer
        PROVE  Few((Behind(list', page * Size, NextPage(answer) = 0) \cap steady') \ (Seen \cup answer.rows), moves + 1)
    <3> DEFINE all == NextPage(answer) = 0
               found == Seen \cup answer.rows
    <3>1. Few((Behind(list, page * Size, all) \cap steady) \ found, moves)
      BY <2>6 DEF LostInv
    <3> HIDE DEF all, found
    <3>2. (Behind(list', page * Size, all) \cap steady') \ found
             \subseteq ((Behind(list, page * Size, all) \cap steady) \ found) \cup {list[folder][page * Size + 1]}
      BY <2>2, <2>4
    <3>3. Few((Behind(list', page * Size, all) \cap steady') \ found, moves + 1)
      BY <1>2, <3>1, <3>2, OneMoreLost
    <3>4. QED
      BY <3>3 DEF all, found
  <2>7. LET all == NextPage(answer) = 0 IN
        /\ Behind(list, Past, FALSE)' = Behind(list', Past, FALSE)
        /\ Behind(list, page * Size, all)' = Behind(list', page * Size, all)
    BY <1>5, <2>1 DEF Behind
  <2>8. QED
    BY <1>1, <1>5, <2>1, <2>3, <2>5, <2>6, <2>7 DEF LostInv
<1>9. QED
  BY <1>3, <1>4, <1>5, <1>7, <1>8

LEMMA ChangeInv == Inv /\ Change => Inv'
<1> SUFFICES ASSUME Inv, Change PROVE Inv'
  OBVIOUS
<1>0. TypeOK
  BY DEF Inv
<1>1. PICK f \in Folders :
         \/ \E x \in Rows, i \in 1 .. Len(list[f]) + 1 : Insert(x, f, i)
         \/ \E i \in 1 .. Len(list[f]) :
               Delete(f, i) \/ \E g \in Folders : \E j \in 1 .. Len(list[g]) + 1 : Move(f, i, g, j)
  BY DEF Change
<1>2. CASE \E x \in Rows, i \in 1 .. Len(list[f]) + 1 : Insert(x, f, i)
  BY <1>2, InsertInv
<1>3. ASSUME NEW i \in 1 .. Len(list[f]), Delete(f, i)
      PROVE  Inv'
  <2>1. list[f][i] \in Rows /\ Leaves(list[f][i])
    BY <1>0, <1>3 DEF Delete, TypeOK, Placed
  <2>2. /\ Placed(list') /\ \A g \in Folders : Len(list'[g]) <= MaxInt
        /\ \A g \in Folders : \A k \in 1 .. Len(list'[g]) :
              \E j \in 1 .. Len(list[g]) : j <= k + 1 /\ list'[g][k] = list[g][j]
    BY <1>0, <1>3, DeleteStep
  <2>3. QED
    BY <2>1, <2>2, LeavesInv
<1>4. ASSUME NEW i \in 1 .. Len(list[f]), NEW g \in Folders, NEW j \in 1 .. Len(list[g]) + 1,
             Move(f, i, g, j)
      PROVE  Inv'
  <2>1. list[f][i] \in Rows /\ Leaves(list[f][i])
    BY <1>0, <1>4 DEF Move, TypeOK, Placed
  <2>2. /\ Placed(list') /\ \A h \in Folders : Len(list'[h]) <= MaxInt
        /\ \A h \in Folders : \A k \in 1 .. Len(list'[h]) :
              \/ list'[h][k] = list[f][i]
              \/ \E m \in 1 .. Len(list[h]) : m <= k + 1 /\ list'[h][k] = list[h][m]
    BY <1>0, <1>4, MoveStep
  <2>3. QED
    BY <2>1, <2>2, LeavesInv
<1>5. QED
  BY <1>1, <1>2, <1>3, <1>4

-----------------------------------------------------------------------------
(* JoinQuant answers.                                                        *)

\* Rows are on the page their place says.
LEMMA PageRows ==
    ASSUME TypeOK, WalkInv, pc = "wait"
    PROVE  /\ OnPage(page) \subseteq Rows
           /\ \A i \in 1 .. Len(list[folder]) :
                 Past < i /\ i <= page * Size => list[folder][i] \in OnPage(page)
<1>1. Past = (page - 1) * Size
  BY PageTypes
<1>2. list[folder] \in Seq(Rows)
  BY DEF TypeOK, Placed
<1>3. QED
  BY <1>1, <1>2 DEF OnPage

LEMMA ServeType ==
    ASSUME TypeOK, WalkInv, Serve
    PROVE  TypeOK'
<1>0. pc = "wait" /\ UNCHANGED <<world, walk, pc, failures>>
  BY DEF Serve
<1>1. page \in Nat \ {0} /\ Size \in Nat \ {0} /\ page \in 1 .. MaxInt
  BY <1>0, PageTypes DEF WalkInv
<1>2. list[folder] \in Seq(Rows) /\ Len(list[folder]) <= MaxInt /\ MaxInt \in Nat
  BY DEF TypeOK, Placed
<1>3. Len(list[folder]) \in 0 .. MaxInt
  BY <1>2
<1>4. answer' \in Answers /\ odd' \in BOOLEAN
  <2>0. ASSUME NEW q \in Nat PROVE OnPage(q) \subseteq Rows
    BY <1>2 DEF OnPage
  <2>1. CASE ServePage
    <3>2. PICK q \in 1 .. page :
             answer' = [rows |-> OnPage(q), shown |-> Html /\ q = page /\ q * Size < Len(list[folder]),
                        link |-> IF page < MaxInt THEN page + 1 ELSE 0, echo |-> page,
                        total |-> Len(list[folder]), sound |-> TRUE]
      BY <2>1 DEF ServePage
    <3>3. (Html /\ q = page /\ q * Size < Len(list[folder])) \in BOOLEAN
      BY DEF Html
    <3>4. q \in Nat /\ (IF page < MaxInt THEN page + 1 ELSE 0) \in 0 .. MaxInt
      BY <1>1, <1>2
    <3>5. Len(list[folder]) \in -1 .. MaxInt /\ page \in Int
      BY <1>1, <1>3
    <3>6. QED
      BY <2>0, <2>1, <3>2, <3>3, <3>4, <3>5 DEF Answers, ServePage, TypeOK
  <2>2. CASE ServeOdd
    <3>1. PICK rows \in {{}, OnPage(1)}, next \in 0 .. MaxInt, total \in {-1, MaxInt},
               echo \in {page, page + 1}, sound \in BOOLEAN :
             answer' = [rows |-> rows, shown |-> TRUE, link |-> IF Html THEN next ELSE 0,
                        echo |-> IF Html THEN page ELSE echo, total |-> total, sound |-> sound]
      BY <2>2 DEF ServeOdd
    <3>2. rows \in SUBSET Rows /\ total \in -1 .. MaxInt
      BY <1>2, <2>0
    <3>3. (IF Html THEN next ELSE 0) \in 0 .. MaxInt /\ (IF Html THEN page ELSE echo) \in Int
      BY <1>1, <1>2
    <3> QED
      BY <2>2, <3>1, <3>2, <3>3 DEF ServeOdd, Answers
  <2>3. QED
    BY <2>1, <2>2 DEF Serve
<1>5. QED
  BY <1>0, <1>4 DEF TypeOK, world, walk

\* A sensible answer is the page asked for, but for one behind the end, and
\* leads on as long as there are rows behind it.
LEMMA PageServed ==
    ASSUME TypeOK, WalkInv, Serve, ~ odd'
    PROVE  /\ ~ odd /\ answer'.sound /\ answer'.total >= 0 /\ answer'.echo = page
           /\ Html /\ answer'.shown => answer'.link > page
           /\ NextPage(answer)' = IF page * Size < Len(list[folder]) THEN page + 1 ELSE 0
           /\ answer'.rows = OnPage(page) \/ (page > 1 /\ Len(list[folder]) <= Past)
<1>0. pc = "wait" /\ UNCHANGED <<world, walk, pc, failures>> /\ ServePage /\ ~ odd
  BY DEF Serve, ServePage, ServeOdd
<1>1. page \in Nat \ {0} /\ Size \in Nat \ {0} /\ Past = (page - 1) * Size
  BY <1>0, PageTypes
<1>2. Len(list[folder]) \in Nat /\ Len(list[folder]) <= MaxInt /\ MaxInt \in Nat
  BY DEF TypeOK, Placed
<1> DEFINE n == Len(list[folder])
<1>3. PICK q \in 1 .. page :
         /\ q = page \/ (Html /\ q * Size >= n)
         /\ answer' = [rows |-> OnPage(q), shown |-> Html /\ q = page /\ q * Size < n,
                       link |-> IF page < MaxInt THEN page + 1 ELSE 0, echo |-> page,
                       total |-> n, sound |-> TRUE]
  BY <1>0 DEF ServePage
<1>4. kind' = kind /\ limit' = limit /\ page' = page
  BY <1>0 DEF world, walk
<1>5. Html' = Html /\ Size' = Size
  BY <1>4 DEF Html, Size
<1> HIDE DEF n
<1>6. n \in Nat /\ n <= MaxInt /\ q \in Nat \ {0}
  BY <1>1, <1>2 DEF n
<1>7. q # page => q * Size <= (page - 1) * Size
  <2>1. q # page => q <= page - 1 /\ page - 1 \in Nat
    BY <1>1, <1>6
  <2>2. QED
    BY <1>1, <1>6, <2>1
<1>8. (page - 1) * Size <= page * Size /\ page <= page * Size
  BY <1>1
<1>9. (page - 1) * Size \in Int /\ page * Size \in Int /\ q * Size \in Int
  BY <1>1, <1>6
<1>10. page * Size < n => q = page /\ page < MaxInt
  BY <1>1, <1>2, <1>3, <1>6, <1>7, <1>8, <1>9
<1>11. NextPage(answer)' = IF page * Size < n THEN page + 1 ELSE 0
  <2>1. CASE Html
    <3>1. NextPage(answer)' = IF answer'.shown THEN answer'.link ELSE 0
      BY <1>5, <2>1 DEF NextPage
    <3>2. answer'.shown = (q = page /\ q * Size < n) /\ answer'.link = IF page < MaxInt THEN page + 1 ELSE 0
      BY <1>3, <2>1
    <3>3. CASE page * Size < n
      BY <1>10, <3>1, <3>2, <3>3
    <3>4. CASE ~ (page * Size < n)
      BY <3>1, <3>2, <3>4
    <3>5. QED
      BY <3>3, <3>4
  <2>2. CASE ~ Html
    <3>1. answer'.total = n
      BY <1>3
    <3>2. NextPage(answer)' = IF n > 0 /\ page <= (n - 1) \div Size THEN page + 1 ELSE 0
      BY <1>4, <1>5, <2>2, <3>1 DEF NextPage
    <3>3. n > 0 => (page <= (n - 1) \div Size <=> page * Size < n)
      BY <1>1, <1>6, PageArithmetic
    <3>4. ~ n > 0 => ~ page * Size < n
      BY <1>1, <1>6, <1>8, <1>9
    <3>5. QED
      BY <3>2, <3>3, <3>4
  <2>3. QED
    BY <2>1, <2>2
<1>12. Html /\ answer'.shown => answer'.link > page
  <2>1. SUFFICES ASSUME Html, answer'.shown PROVE answer'.link > page
    OBVIOUS
  <2>2. page * Size < n /\ answer'.link = IF page < MaxInt THEN page + 1 ELSE 0
    BY <1>3, <2>1
  <2>3. QED
    BY <1>1, <1>10, <2>2
<1>13. answer'.rows = OnPage(page) \/ (page > 1 /\ n <= Past)
  <2>1. CASE q = page
    BY <1>3, <2>1
  <2>2. CASE q # page
    BY <1>1, <1>3, <1>6, <1>7, <1>9, <2>2
  <2>3. QED
    BY <2>1, <2>2
<1>14. answer'.sound /\ answer'.total >= 0 /\ answer'.echo = page
  BY <1>3, <1>6
<1>15. QED
  BY <1>0, <1>11, <1>12, <1>13, <1>14 DEF n

LEMMA ServeInv == Inv /\ Serve => Inv'
<1> SUFFICES ASSUME Inv, Serve PROVE Inv'
  OBVIOUS
<1> USE DEF Inv
<1>0. pc = "wait" /\ answer = NoAnswer
      /\ UNCHANGED <<kind, limit, list, born, steady, moves, folder, page, todo, read, got, pc, failures>>
  BY DEF Serve, world, walk
<1>1. page \in Nat \ {0} /\ Size \in Nat \ {0} /\ Past = (page - 1) * Size /\ Past \in Int
  BY <1>0, PageTypes
<1>2. page * Size \in Nat /\ Past < page * Size
  <2>1. page * Size \in Nat /\ (page - 1) * Size = page * Size - Size
    BY <1>1
  <2>2. QED
    BY <1>1, <2>1
<1>3. list[folder] \in Seq(Rows) /\ Len(list[folder]) \in Nat
  BY DEF TypeOK, Placed
<1>4. TypeOK'
  BY ServeType
<1>5. BornInv'
  BY <1>0 DEF BornInv
<1>6. Html' = Html /\ Size' = Size /\ Past' = Past /\ Seen' = Seen
  BY <1>0 DEF Html, Size, Past, Seen, Found
<1>7. WalkInv'
  BY <1>0, <1>6 DEF WalkInv, Usable
<1>8. AnswerInv'
  <2> SUFFICES ASSUME ~ odd'
               PROVE  /\ answer'.sound /\ answer'.total >= 0
                      /\ Html /\ answer'.shown => answer'.link > page
                      /\ answer'.echo = page /\ (NextPage(answer)' # 0 => answer'.rows # {})
    BY <1>0, <1>6 DEF AnswerInv
  <2>1. /\ answer'.sound /\ answer'.total >= 0 /\ answer'.echo = page
        /\ Html /\ answer'.shown => answer'.link > page
        /\ NextPage(answer)' = IF page * Size < Len(list[folder]) THEN page + 1 ELSE 0
        /\ answer'.rows = OnPage(page) \/ (page > 1 /\ Len(list[folder]) <= Past)
    BY PageServed
  <2>2. ASSUME NextPage(answer)' # 0 PROVE answer'.rows # {}
    <3>1. page * Size < Len(list[folder])
      BY <2>1, <2>2
    <3>2. answer'.rows = OnPage(page)
      BY <1>1, <1>2, <1>3, <2>1, <3>1
    <3>3. list[folder][page * Size] \in OnPage(page)
      <4>1. page * Size \in 1 .. Len(list[folder])
        <5>1. page * Size >= 1
          BY <1>1
        <5>2. QED
          BY <1>2, <1>3, <3>1, <5>1
      <4>2. QED
        BY <1>0, <1>2, <4>1, PageRows
    <3>4. QED
      BY <3>2, <3>3
  <2>3. QED
    BY <2>1, <2>2
<1>9. LostInv'
  <2> SUFFICES ASSUME ~ odd' PROVE LostInv'
    BY DEF LostInv
  <2>1. ~ odd
    BY PageServed
  <2>2. Few((Behind(list, Past, FALSE) \cap steady) \ Seen, moves) /\ moves \in Nat
    BY <2>1 DEF LostInv, TypeOK
  <2>3. /\ NextPage(answer)' = IF page * Size < Len(list[folder]) THEN page + 1 ELSE 0
        /\ answer'.rows = OnPage(page) \/ (page > 1 /\ Len(list[folder]) <= Past)
    BY PageServed
  <2> DEFINE all == NextPage(answer)' = 0
             lost == (Behind(list, page * Size, all) \cap steady) \ (Seen \cup answer'.rows)
  <2>4. ASSUME NEW i \in 1 .. Len(list[folder]), all \/ i <= page * Size, ~ (i <= Past)
        PROVE  list[folder][i] \in answer'.rows
    <3>1. i <= page * Size /\ Past < i /\ ~ (Len(list[folder]) <= Past)
      BY <1>1, <1>2, <1>3, <2>3, <2>4
    <3>2. answer'.rows = OnPage(page)
      BY <2>3, <3>1
    <3>3. QED
      BY <1>0, <3>1, <3>2, PageRows
  <2> HIDE DEF all
  <2>5. lost \subseteq (Behind(list, Past, FALSE) \cap steady) \ Seen
    BY <2>4 DEF Behind
  <2>6. Few(lost, moves)
    BY <2>2, <2>5, FewerLost
  <2>7. page' * Size' = page * Size /\ list' = list /\ steady' = steady /\ moves' = moves /\ page' = page
        /\ read' = read /\ folder' = folder
    BY <1>0, <1>6
  <2>8. Behind(list, Past, FALSE)' = Behind(list, Past, FALSE)
        /\ Behind(list, page * Size, NextPage(answer) = 0)' = Behind(list, page * Size, all)
    BY <1>6, <2>7 DEF Behind, all
  <2>9. QED
    BY <1>6, <2>2, <2>3, <2>6, <2>7, <2>8 DEF LostInv
<1>10. OnceInv'
  <2> SUFFICES ASSUME Stable' PROVE ((page <= 1 \/ Past < Len(list[folder])) /\ GotPast /\ AnswerExact)'
    BY DEF OnceInv
  <2>1. ~ odd' /\ moves = 0 /\ born = steady
    BY <1>0 DEF Stable
  <2>2. Stable
    BY <2>1, PageServed DEF Stable
  <2>3. (page <= 1 \/ Past < Len(list[folder])) /\ GotPast
    BY <2>2 DEF OnceInv
  <2>4. (page <= 1 \/ Past < Len(list[folder]))' /\ GotPast'
    BY <1>0, <1>6, <2>3 DEF GotPast
  <2>5. /\ NextPage(answer)' = IF page * Size < Len(list[folder]) THEN page + 1 ELSE 0
        /\ answer'.rows = OnPage(page) \/ (page > 1 /\ Len(list[folder]) <= Past)
    BY <2>1, PageServed
  <2>6. answer'.rows = OnPage(page)
    BY <1>1, <1>3, <2>3, <2>5
  <2>7. OnPage(page)' = OnPage(page) /\ page' * Size' = page * Size
    BY <1>0, <1>6 DEF OnPage
  <2>8. NextPage(answer)' = 0 <=> Len(list[folder]) <= page * Size
    BY <1>1, <1>2, <1>3, <2>5
  <2>9. AnswerExact'
    BY <1>0, <2>5, <2>6, <2>7, <2>8 DEF AnswerExact
  <2>10. QED
    BY <2>4, <2>9
<1>11. QED
  BY <1>4, <1>5, <1>7, <1>8, <1>9, <1>10

-----------------------------------------------------------------------------
(* The caller asks, and gets an error or an answer.                          *)

LEMMA AskInv == Inv /\ Ask => Inv'
<1> SUFFICES ASSUME Inv, Ask PROVE Inv'
  OBVIOUS
<1> USE DEF Inv
<1>0. pc = "idle" /\ UNCHANGED <<kind, limit, list, born, steady, moves, odd, folder, todo, read, got, answer, failures>>
  BY DEF Ask, world
<1>1. answer = NoAnswer /\ answer' = NoAnswer
  BY <1>0 DEF WalkInv
<1>2. page \in -1 .. MaxInt /\ Size \in Int /\ MaxInt \in Nat \ {0}
  BY PageTypes DEF TypeOK
<1>3. Html' = Html /\ Size' = Size
  BY <1>0 DEF Html, Size
<1>4. /\ page' = page \/ (page = 0 /\ page' = 1)
      /\ pc' = "wait" \/ pc' = "stopped"
      /\ pc' = "wait" => page' \in 1 .. MaxInt /\ (~ Html => limit >= 0)
  BY <1>2 DEF Ask, Usable, PageNumber
<1>5. Past' = Past /\ page' \in -1 .. MaxInt /\ (page' <= 1 <=> page <= 1)
  BY <1>2, <1>3, <1>4 DEF Past
<1>6. TypeOK'
  BY <1>0, <1>4, <1>5 DEF TypeOK
<1>7. BornInv' /\ AnswerInv'
  BY <1>0, <1>1 DEF BornInv, AnswerInv
<1>8. WalkInv'
  BY <1>0, <1>1, <1>2, <1>3, <1>4 DEF WalkInv, Usable
<1>9. Seen' = Seen
  BY <1>0 DEF Seen, Found
<1>10. LostInv'
  <2>1. Behind(list, Past, FALSE)' = Behind(list, Past, FALSE)
    BY <1>0, <1>5 DEF Behind
  <2>2. QED
    BY <1>0, <1>1, <1>9, <2>1 DEF LostInv
<1>11. OnceInv'
  <2>1. GotPast => GotPast'
    BY <1>0, <1>5 DEF GotPast
  <2>2. AnswerExact'
    BY <1>1 DEF AnswerExact
  <2>3. QED
    BY <1>0, <1>5, <2>1, <2>2 DEF OnceInv, Stable
<1>12. QED
  BY <1>6, <1>7, <1>8, <1>10, <1>11

LEMMA FailInv ==
    ASSUME Inv, pc = "wait", Fail, answer' = NoAnswer, UNCHANGED <<world, odd>>
    PROVE  Inv'
<1> USE DEF Inv
<1>0. UNCHANGED <<kind, limit, list, born, steady, moves, odd, folder, page, todo, read, got>>
  BY DEF Fail, world, walk
<1>1. failures \in Nat /\ failures <= MaxFailures /\ MaxFailures \in Nat
  BY DEF TypeOK, WalkInv
<1>2. failures' = failures + 1 /\ pc' \in {"stopped", "idle"} /\ (pc' = "idle" => failures < MaxFailures)
  BY DEF Fail
<1>3. answer' \in Answers
  BY DEF NoAnswer, Answers
<1>4. TypeOK'
  BY <1>0, <1>1, <1>2, <1>3 DEF TypeOK
<1>5. BornInv' /\ AnswerInv'
  BY <1>0 DEF BornInv, AnswerInv
<1>6. WalkInv'
  BY <1>0, <1>1, <1>2 DEF WalkInv
<1>7. Past' = Past /\ Seen' = Seen
  BY <1>0 DEF Past, Size, Html, Seen, Found
<1>8. LostInv'
  <2>1. Behind(list, Past, FALSE)' = Behind(list, Past, FALSE)
    BY <1>0, <1>7 DEF Behind
  <2>2. ((Behind(list, Past, FALSE) \cap steady) \ Seen)' = (Behind(list, Past, FALSE) \cap steady) \ Seen
    BY <1>0, <1>7, <2>1
  <2>3. ~ odd => Few((Behind(list, Past, FALSE) \cap steady) \ Seen, moves)'
    BY <1>0, <2>2 DEF LostInv
  <2>4. QED
    BY <1>0, <2>3 DEF LostInv
<1>9. OnceInv'
  <2>1. GotPast => GotPast'
    BY <1>0, <1>7 DEF GotPast
  <2>2. AnswerExact'
    BY DEF AnswerExact
  <2>3. QED
    BY <1>0, <1>7, <2>1, <2>2 DEF OnceInv, Stable
<1>10. QED
  BY <1>4, <1>5, <1>6, <1>8, <1>9

LEMMA AcceptShape ==
    ASSUME Inv, pc = "wait", answer # NoAnswer, Accept(answer), answer' = NoAnswer, UNCHANGED <<world, odd>>
    PROVE  TypeOK' /\ BornInv' /\ WalkInv' /\ AnswerInv'
<1> USE DEF Inv
<1>0. UNCHANGED <<kind, limit, list, born, steady, moves, odd, failures>>
  BY DEF Accept, world
<1>1. answer' \in Answers
  BY DEF NoAnswer, Answers
<1>2. NextPage(answer) \in 0 .. MaxInt /\ failures <= MaxFailures /\ folder \notin read
  BY NextPageTypes DEF WalkInv
<1>3. got' \in [Items -> Nat]
  BY DEF Accept, TypeOK
<1>4. BornInv' /\ AnswerInv'
  BY <1>0 DEF BornInv, AnswerInv
<1>5. CASE NextPage(answer) # 0
  <2>1. Turn(answer)
    BY <1>5 DEF Accept
  <2>2. page' \in -1 .. MaxInt
    BY <1>2, <2>1 DEF Turn
  <2>3. todo' \subseteq Folders /\ read' = read /\ folder' = folder /\ pc' = "idle"
    BY <2>1 DEF Turn, TypeOK
  <2>4. TypeOK'
    BY <1>0, <1>1, <1>3, <2>2, <2>3 DEF TypeOK
  <2>5. WalkInv'
    BY <1>0, <1>2, <2>1, <2>3 DEF WalkInv, Turn
  <2>6. QED
    BY <1>4, <2>4, <2>5
<1>6. CASE NextPage(answer) = 0
  <2> DEFINE left == (todo \cup (answer.rows \cap Folders)) \ (read \cup {folder})
  <2>1. /\ read' = read \cup {folder}
        /\ IF left = {} THEN pc' = "done" /\ todo' = {} /\ UNCHANGED <<folder, page>>
           ELSE pc' = "idle" /\ page' = 0 /\ folder' \in left /\ todo' = left \ {folder'}
    BY <1>6 DEF Accept, Leave
  <2>2. left \subseteq Folders
    BY DEF TypeOK
  <2>3. left \cap read' = {}
    BY <2>1
  <2> HIDE DEF left
  <2>4. read' \subseteq Folders /\ folder' \in Folders /\ todo' \subseteq Folders
    BY <2>1, <2>2 DEF TypeOK
  <2>5. page' \in -1 .. MaxInt /\ pc' \in {"idle", "done"}
    <3>1. page \in -1 .. MaxInt /\ 0 \in -1 .. MaxInt
      <4>1. MaxInt \in Nat
        OBVIOUS
      <4>2. QED
        BY <4>1 DEF TypeOK
    <3>2. QED
      BY <2>1, <3>1
  <2>6. TypeOK'
    BY <1>0, <1>1, <1>3, <2>4, <2>5 DEF TypeOK
  <2>7. WalkInv'
    BY <1>0, <1>2, <2>1, <2>3 DEF WalkInv
  <2>8. QED
    BY <1>4, <2>6, <2>7
<1>7. QED
  BY <1>5, <1>6

\* Nothing that was found is lost, and all that is in the answer is found.
LEMMA SeenGrows ==
    ASSUME TypeOK, Accept(answer)
    PROVE  Seen \cup answer.rows \subseteq Seen'
<1> SUFFICES ASSUME NEW x \in Rows, Found(x) \/ x \in answer.rows PROVE Found(x)'
  BY DEF Seen, TypeOK, Answers
<1>1. CASE x \in Items
  <2>1. got[x] \in Nat /\ got'[x] = IF x \in answer.rows THEN got[x] + 1 ELSE got[x]
    BY <1>1 DEF TypeOK, Accept
  <2>2. QED
    BY <1>1, <2>1 DEF Found
<1>2. CASE x \notin Items
  <2>1. x \in Folders
    BY <1>2 DEF Rows
  <2>2. x \in read \cup todo \cup {folder} \/ x \in answer.rows
    BY <1>2 DEF Found
  <2>3. x \in read' \cup todo' \cup {folder'}
    BY <2>1, <2>2 DEF Accept, Turn, Leave
  <2>4. QED
    BY <1>2, <2>3 DEF Found
<1>3. QED
  BY <1>1, <1>2

LEMMA AcceptLost ==
    ASSUME Inv, pc = "wait", answer # NoAnswer, Accept(answer), answer' = NoAnswer, UNCHANGED <<world, odd>>
    PROVE  LostInv'
<1> USE DEF Inv
<1>0. UNCHANGED <<kind, limit, list, born, steady, moves, odd, failures>>
  BY DEF Accept, world
<1> SUFFICES ASSUME ~ odd PROVE Few((Behind(list, Past, FALSE) \cap steady) \ Seen, moves)'
  BY <1>0 DEF LostInv
<1> DEFINE all == NextPage(answer) = 0
           lost == (Behind(list, page * Size, all) \cap steady) \ (Seen \cup answer.rows)
<1>1. NextPage(answer) \in {0, page + 1} /\ Few(lost, moves) /\ moves \in Nat
  BY DEF LostInv, TypeOK
<1>2. Seen \cup answer.rows \subseteq Seen'
  BY SeenGrows
<1>3. Size' = Size
  BY <1>0 DEF Size, Html
<1>4. page \in Nat \ {0} /\ Size \in Nat \ {0} /\ page * Size \in Nat
  BY PageTypes
<1>5. Behind(list, Past, FALSE)' \subseteq Behind(list, page * Size, all)
  <2>1. CASE NextPage(answer) # 0
    <3>1. page' = page + 1 /\ folder' = folder /\ read' = read
      BY <1>1, <2>1 DEF Accept, Turn
    <3>2. Past' = page * Size
      BY <1>3, <1>4, <3>1 DEF Past
    <3>3. QED
      BY <1>0, <3>1, <3>2 DEF Behind
  <2>2. CASE NextPage(answer) = 0
    <3>1. read' = read \cup {folder} /\ ((folder' = folder /\ page' = page) \/ page' = 0)
      BY <2>2 DEF Accept, Leave
    <3>2. CASE folder' = folder
      BY <1>0, <2>2, <3>1, <3>2 DEF Behind
    <3>3. CASE page' = 0
      <4>1. Past' = 0 /\ \A f \in Folders : \A i \in 1 .. Len(list[f]) : ~ (i <= 0)
        BY <3>3 DEF Past
      <4>2. QED
        BY <1>0, <2>2, <3>1, <4>1 DEF Behind
    <3>4. QED
      BY <3>1, <3>2, <3>3
  <2>3. QED
    BY <2>1, <2>2
<1> HIDE DEF all
<1>6. ((Behind(list, Past, FALSE) \cap steady) \ Seen)' \subseteq lost
  BY <1>0, <1>2, <1>5
<1> HIDE DEF lost
<1>7. Few(((Behind(list, Past, FALSE) \cap steady) \ Seen)', moves)
  BY <1>1, <1>6, FewerLost
<1>8. QED
  BY <1>0, <1>7

LEMMA AcceptOnce ==
    ASSUME Inv, pc = "wait", answer # NoAnswer, Accept(answer), answer' = NoAnswer, UNCHANGED <<world, odd>>
    PROVE  OnceInv'
<1> USE DEF Inv
<1>0. UNCHANGED <<kind, limit, list, born, steady, moves, odd, failures>>
  BY DEF Accept, world
<1> SUFFICES ASSUME Stable PROVE (page' <= 1 \/ Past' < Len(list'[folder'])) /\ GotPast' /\ AnswerExact'
  BY <1>0 DEF OnceInv, Stable
<1>1. GotPast /\ AnswerExact /\ (page <= 1 \/ Past < Len(list[folder]))
  BY DEF OnceInv
<1>2. answer.rows = OnPage(page) /\ NextPage(answer) \in {0, page + 1}
      /\ (NextPage(answer) = 0 <=> Len(list[folder]) <= page * Size)
  BY <1>1 DEF AnswerExact
<1>3. page \in Nat \ {0} /\ Size \in Nat \ {0} /\ page * Size \in Nat /\ Past = (page - 1) * Size
      /\ Past \in Int
  BY PageTypes
<1>4. Past <= page * Size
  <2>1. (page - 1) * Size = page * Size - Size
    BY <1>3
  <2>2. QED
    BY <1>3, <2>1
<1>5. Len(list[folder]) \in Nat /\ folder \in Folders /\ read \subseteq Folders /\ folder \notin read
  BY DEF TypeOK, Placed, WalkInv
\* Rows have one place each, so that an item is on this page or on none.
<1>6. ASSUME NEW f \in Folders, NEW i \in 1 .. Len(list[f]), list[f][i] \in Items
      PROVE  got'[list[f][i]] =
                IF f = folder /\ Past < i /\ i <= page * Size THEN got[list[f][i]] + 1 ELSE got[list[f][i]]
  <2>1. list[f][i] \in answer.rows <=> f = folder /\ Past < i /\ i <= page * Size
    BY <1>2, <1>3 DEF OnPage, TypeOK, Placed
  <2>2. got'[list[f][i]] = IF list[f][i] \in answer.rows THEN got[list[f][i]] + 1 ELSE got[list[f][i]]
    BY <1>6 DEF Accept
  <2>3. QED
    BY <2>1, <2>2
<1>7. ASSUME NEW f \in Folders, NEW i \in 1 .. Len(list[f]), list[f][i] \in Items
      PROVE  got'[list[f][i]] = IF f \in read \/ (f = folder /\ i <= page * Size) THEN 1 ELSE 0
  <2>1. got[list[f][i]] = IF f \in read \/ (f = folder /\ i <= Past) THEN 1 ELSE 0
    BY <1>1, <1>7 DEF GotPast
  <2>2. i \in Int
    OBVIOUS
  <2>3. CASE f = folder
    BY <1>3, <1>4, <1>5, <1>6, <1>7, <2>1, <2>2, <2>3
  <2>4. CASE f # folder
    BY <1>6, <1>7, <2>1, <2>4
  <2>5. QED
    BY <2>3, <2>4
<1>8. AnswerExact'
  BY DEF AnswerExact
<1>9. CASE NextPage(answer) # 0
  <2>1. Turn(answer) /\ NextPage(answer) = page + 1
    BY <1>2, <1>9 DEF Accept
  <2>2. page' = page + 1 /\ folder' = folder /\ read' = read
    BY <2>1 DEF Turn
  <2>3. Past' = page * Size
    BY <1>0, <1>3, <2>2 DEF Past, Size, Html
  <2>4. page' <= 1 \/ Past' < Len(list'[folder'])
    BY <1>0, <1>2, <1>3, <1>5, <1>9, <2>2, <2>3
  <2>5. GotPast'
    BY <1>0, <1>7, <2>2, <2>3 DEF GotPast
  <2>6. QED
    BY <1>8, <2>4, <2>5
<1>10. CASE NextPage(answer) = 0
  <2> DEFINE left == (todo \cup (answer.rows \cap Folders)) \ (read \cup {folder})
  <2>1. /\ read' = read \cup {folder}
        /\ IF left = {} THEN UNCHANGED <<folder, page>> ELSE page' = 0 /\ folder' \in left
    BY <1>10 DEF Accept, Leave
  <2>2. folder' \in left => folder' \notin read /\ folder' # folder
    OBVIOUS
  <2> HIDE DEF left
  <2>3. Len(list[folder]) <= page * Size
    BY <1>2, <1>10
  <2>4. ASSUME NEW f \in Folders, NEW i \in 1 .. Len(list[f]), list[f][i] \in Items
        PROVE  got'[list[f][i]] = IF f \in read' THEN 1 ELSE 0
    <3>1. f = folder => i <= page * Size
      BY <1>3, <1>5, <2>3
    <3>2. got'[list[f][i]] = IF f \in read \/ (f = folder /\ i <= page * Size) THEN 1 ELSE 0
      BY <1>7, <2>4
    <3>3. QED
      BY <2>1, <3>1, <3>2
  <2>5. CASE left = {}
    <3>1. folder' = folder /\ page' = page /\ folder \in read'
      BY <2>1, <2>5
    <3>2. Past' = Past
      BY <1>0, <3>1 DEF Past, Size, Html
    <3>3. GotPast'
      BY <1>0, <2>4, <3>1 DEF GotPast
    <3>4. QED
      BY <1>0, <1>1, <1>8, <3>1, <3>2, <3>3
  <2>6. CASE left # {}
    <3>1. page' = 0
      BY <2>1, <2>6
    <3>2. Past' = 0
      BY <3>1 DEF Past
    <3>3. GotPast'
      <4>1. ASSUME NEW i \in Int, i >= 1 PROVE ~ (i <= Past')
        BY <3>2, <4>1
      <4>2. QED
        BY <1>0, <2>4, <4>1 DEF GotPast
    <3>4. QED
      BY <1>8, <3>1, <3>3
  <2>7. QED
    BY <2>5, <2>6
<1>11. QED
  BY <1>9, <1>10

LEMMA NextInv == Inv /\ [Next]_vars => Inv'
<1> SUFFICES ASSUME Inv, [Next]_vars PROVE Inv'
  OBVIOUS
<1>1. CASE Change
  BY <1>1, ChangeInv
<1>2. CASE Serve
  BY <1>2, ServeInv
<1>3. CASE Ask
  BY <1>3, AskInv
<1>4. CASE Lose
  <2>1. pc = "wait" /\ Fail /\ answer' = NoAnswer /\ UNCHANGED <<world, odd>>
    BY <1>4 DEF Lose
  <2>2. QED
    BY <2>1, FailInv
<1>5. CASE Receive
  <2>1. pc = "wait" /\ answer # NoAnswer /\ answer' = NoAnswer /\ UNCHANGED <<world, odd>>
    BY <1>5 DEF Receive
  <2>2. CASE Rejects(answer)
    <3>1. Fail
      BY <1>5, <2>2 DEF Receive
    <3>2. QED
      BY <2>1, <3>1, FailInv
  <2>3. CASE ~ Rejects(answer)
    <3>1. Accept(answer)
      BY <1>5, <2>3 DEF Receive
    <3>2. QED
      BY <2>1, <3>1, AcceptShape, AcceptLost, AcceptOnce DEF Inv
  <2>4. QED
    BY <2>2, <2>3
<1>6. CASE UNCHANGED vars
  <2>1. UNCHANGED <<kind, limit, list, born, steady, moves, odd, folder, page, todo, read, got, pc, answer, failures>>
    BY <1>6 DEF vars
  <2>2. TypeOK' /\ BornInv' /\ WalkInv' /\ AnswerInv'
    BY <2>1 DEF Inv, TypeOK, BornInv, WalkInv, Usable, Html, AnswerInv, NextPage, Size
  <2>3. Past' = Past /\ Seen' = Seen /\ NextPage(answer)' = NextPage(answer) /\ Size' = Size
        /\ OnPage(page)' = OnPage(page)
    BY <2>1 DEF Past, Size, Html, Seen, Found, NextPage, OnPage
  <2>4. LostInv'
    <3>1. Behind(list, Past, FALSE)' = Behind(list, Past, FALSE)
          /\ Behind(list, page * Size, NextPage(answer) = 0)' = Behind(list, page * Size, NextPage(answer) = 0)
      BY <2>1, <2>3 DEF Behind
    <3>2. QED
      BY <2>1, <2>3, <3>1 DEF Inv, LostInv
  <2>5. OnceInv'
    BY <2>1, <2>3 DEF Inv, OnceInv, Stable, GotPast, AnswerExact
  <2>6. QED
    BY <2>2, <2>4, <2>5 DEF Inv
<1>7. QED
  BY <1>1, <1>2, <1>3, <1>4, <1>5, <1>6 DEF Next

LEMMA AlwaysInv == Spec => []Inv
<1>1. Init => Inv
  BY InitInv
<1>2. Inv /\ [Next]_vars => Inv'
  BY NextInv
<1>3. QED
  BY <1>1, <1>2, PTL DEF Spec

-----------------------------------------------------------------------------
(* The theorems.                                                             *)

\* TypeOK always holds: rows keep one place each, and page numbers stay in an int.
THEOREM TypeCorrect == Spec => []TypeOK
<1>1. Inv => TypeOK
  BY DEF Inv
<1>2. QED
  BY <1>1, AlwaysInv, PTL

LEMMA FewMissed ==
    ASSUME Inv, ~ odd
    PROVE  Few(Missed, moves)
<1>1. Missed \subseteq (Behind(list, Past, FALSE) \cap steady) \ Seen
  <2> SUFFICES ASSUME NEW x \in steady, ~ Found(x), NEW f \in read, x \in ToSet(list[f])
               PROVE  x \in Behind(list, Past, FALSE) /\ x \notin Seen
    BY DEF Missed
  <2>1. f \in Folders /\ list[f] \in Seq(Rows)
    BY DEF Inv, TypeOK, Placed
  <2>2. PICK i \in 1 .. Len(list[f]) : x = list[f][i]
    BY <2>1 DEF ToSet
  <2>3. x \in Rows
    BY <2>1, <2>2
  <2>4. QED
    BY <2>1, <2>2, <2>3 DEF Behind, Seen
<1> DEFINE lost == (Behind(list, Past, FALSE) \cap steady) \ Seen
<1>2. Few(lost, moves) /\ moves \in Nat
  BY DEF Inv, LostInv, TypeOK
<1>3. Missed \subseteq lost
  BY <1>1
<1> HIDE DEF lost
<1>4. QED
  BY <1>2, <1>3, FewerLost

\* Of folders and pages of any size, each row deleted or moved makes the walk
\* miss at most one of the rows that stayed.
THEOREM One_Missed_Per_Move == Spec => []OneMissedPerMove
<1>1. Inv => OneMissedPerMove
  BY FewMissed DEF OneMissedPerMove, Few
<1>2. QED
  BY <1>1, AlwaysInv, PTL

\* So when nothing is deleted or moved, a list read to its end has given up every
\* row it had when the walk began.
THEOREM Nothing_Skipped == Spec => []NothingSkipped
<1>1. Inv => NothingSkipped
  <2> SUFFICES ASSUME Inv, moves = 0, ~ odd PROVE Missed = {}
    BY DEF NothingSkipped
  <2>1. IsFiniteSet(Missed) /\ Cardinality(Missed) <= 0
    BY FewMissed DEF Few
  <2>2. Cardinality(Missed) \in Nat
    BY <2>1, FS_CardinalityType
  <2>3. QED
    BY <2>1, <2>2, FS_EmptySet
<1>2. QED
  BY <1>1, AlwaysInv, PTL

\* No page JoinQuant serves in good faith is refused, whatever changed before it.
THEOREM Pages_Accepted == Spec => []PagesAccepted
<1>1. Inv => PagesAccepted
  BY DEF Inv, TypeOK, AnswerInv, PagesAccepted, Rejects, Answers
<1>2. QED
  BY <1>1, AlwaysInv, PTL

\* A list that stays as it is gives up every item once.
THEOREM Once_Each == Spec => []OnceEach
<1>1. Inv => OnceEach
  <2> SUFFICES ASSUME Inv, Stable, NEW f \in Folders, NEW x \in ToSet(list[f]) \cap Items
               PROVE  got[x] <= 1 /\ (f \in read => got[x] = 1)
    BY DEF OnceEach, Stable
  <2>1. list[f] \in Seq(Rows)
    BY DEF Inv, TypeOK, Placed
  <2>2. PICK i \in 1 .. Len(list[f]) : x = list[f][i]
    BY <2>1 DEF ToSet
  <2>3. got[x] = IF f \in read \/ (f = folder /\ i <= Past) THEN 1 ELSE 0
    BY <2>2 DEF Inv, OnceInv, GotPast
  <2>4. QED
    BY <2>3
<1>2. QED
  BY <1>1, AlwaysInv, PTL

-----------------------------------------------------------------------------
(* The length of a walk.                                                     *)

Phase ==
    CASE pc = "idle" -> 3
      [] pc = "wait" -> IF answer = NoAnswer THEN 2 ELSE 1
      [] pc \in Ended -> 0

LEMMA PhaseType == TypeOK => Phase \in 0 .. 3
  BY DEF TypeOK, Phase

\* A page number that grows uses up pages, and so does a folder that is read.
LEMMA PagesType ==
    ASSUME IsFiniteSet(Folders), TypeOK
    PROVE  PagesLeft \in Nat
<1>1. IsFiniteSet(Folders \ read)
  BY FS_Difference
<1>2. Cardinality(Folders \ read) \in Nat
  BY <1>1, FS_CardinalityType
<1>3. page \in -1 .. MaxInt /\ MaxInt \in Nat
  BY DEF TypeOK
<1> DEFINE u == Cardinality(Folders \ read)
<1> HIDE DEF u
<1>4. u \in Nat
  BY <1>2 DEF u
<1>5. u * (MaxInt + 1) \in Nat
  BY <1>3, <1>4
<1>6. QED
  BY <1>3, <1>5 DEF PagesLeft, u

LEMMA PagesInt ==
    ASSUME IsFiniteSet(Folders), page' \in Int
    PROVE  PagesLeft' \in Int
<1> DEFINE u == Cardinality(Folders \ read')
<1>1. u \in Nat /\ MaxInt \in Nat
  BY FS_Difference, FS_CardinalityType
<1> HIDE DEF u
<1>2. u * (MaxInt + 1) \in Nat
  BY <1>1
<1>3. QED
  BY <1>1, <1>2 DEF PagesLeft, u

LEMMA TurnAdvances ==
    ASSUME IsFiniteSet(Folders), TypeOK, page' \in Int, page' > page, read' = read
    PROVE  PagesLeft' <= PagesLeft - 1
<1> DEFINE u == Cardinality(Folders \ read) * (MaxInt + 1)
<1>1. PagesLeft = u + (MaxInt - page) /\ PagesLeft' = u + (MaxInt - page')
  BY DEF PagesLeft
<1>2. PagesLeft \in Nat /\ page \in Int /\ MaxInt \in Int
  BY PagesType DEF TypeOK
<1>3. Cardinality(Folders \ read) \in Nat
  BY FS_Difference, FS_CardinalityType
<1>4. u \in Int
  BY <1>2, <1>3
<1> HIDE DEF u
<1>5. u + (MaxInt - page') <= (u + (MaxInt - page)) - 1
  BY <1>2, <1>4, TurnArithmetic
<1>6. QED
  BY <1>1, <1>5

LEMMA LeaveAdvances ==
    ASSUME IsFiniteSet(Folders), TypeOK, folder \notin read, read' = read \cup {folder},
           page' \in {page, 0}
    PROVE  PagesLeft' <= PagesLeft - 1
<1> DEFINE S == Folders \ read
           u == Cardinality(S)
<1>1. IsFiniteSet(S) /\ u \in Nat /\ folder \in S
  BY FS_Difference, FS_CardinalityType DEF TypeOK
<1>2. Folders \ read' = S \ {folder}
  OBVIOUS
<1> HIDE DEF S
<1>3. Cardinality(S \ {folder}) = u - 1
  BY <1>1, FS_RemoveElement
<1>4. Cardinality(Folders \ read') = u - 1
  BY <1>2, <1>3
<1> HIDE DEF u
<1>5. page \in -1 .. MaxInt /\ MaxInt \in Nat
  BY DEF TypeOK
<1>6. (u - 1) * (MaxInt + 1) + (MaxInt - page') <= (u * (MaxInt + 1) + (MaxInt - page)) - 1
  BY <1>1, <1>5, LeaveArithmetic
<1>7. /\ PagesLeft = u * (MaxInt + 1) + (MaxInt - page)
      /\ PagesLeft' = (u - 1) * (MaxInt + 1) + (MaxInt - page')
  BY <1>4 DEF PagesLeft, S, u
<1>8. QED
  BY <1>6, <1>7

LEMMA StepsLeftType == ASSUME IsFiniteSet(Folders), TypeOK PROVE StepsLeft \in Nat
<1>1. PagesLeft \in Nat /\ Phase \in 0 .. 3
  BY PagesType, PhaseType
<1>2. failures \in 0 .. MaxFailures + 1 /\ MaxFailures \in Nat
  BY DEF TypeOK
<1>3. StepsLeft = 3 * (PagesLeft + (MaxFailures + 1 - failures)) + Phase
  BY DEF StepsLeft, Phase
<1>4. QED
  BY <1>1, <1>2, <1>3

\* One case for each of the caller's and JoinQuant's moves.
LEMMA StepAdvances ==
    ASSUME IsFiniteSet(Folders), Inv, Ask \/ Serve \/ Lose \/ Receive
    PROVE  StepsLeft' < StepsLeft
<1> DEFINE e == MaxFailures + 1 - failures
<1>1. TypeOK /\ WalkInv
  BY DEF Inv
<1>2. TypeOK'
  BY NextInv DEF Next, Inv
<1>3. /\ PagesLeft \in Nat /\ Phase \in 0 .. 3
      /\ e \in Int /\ failures \in Nat /\ MaxFailures \in Nat
  BY <1>1, PagesType, PhaseType DEF TypeOK
<1>4. PICK pages \in Int : pages = PagesLeft'
  BY <1>2, PagesInt DEF TypeOK
<1>5. PICK errors \in Int : errors = e'
  <2>1. MaxFailures + 1 - failures' \in Int
    BY <1>2, <1>3 DEF TypeOK
  <2>2. QED
    BY <2>1
<1>6. PICK phase \in 0 .. 3 : phase = Phase'
  BY <1>2 DEF TypeOK, Phase
<1>7. StepsLeft = 3 * (PagesLeft + e) + Phase /\ StepsLeft' = 3 * (pages + errors) + phase
  BY <1>4, <1>5, <1>6 DEF StepsLeft, Phase
<1>8. SUFFICES \/ pages <= PagesLeft /\ errors <= e /\ phase < Phase
               \/ pages + errors <= (PagesLeft + e) - 1 /\ Phase >= 1
  <2> HIDE DEF e
  <2>1. 3 * (pages + errors) + phase < 3 * (PagesLeft + e) + Phase
    BY <1>3, StepArithmetic
  <2>2. QED
    BY <1>7, <2>1
<1>9. CASE Ask
  <2>1. Phase = 3 /\ phase \in 0 .. 2
    <3>1. pc = "idle" /\ pc' \in {"wait", "stopped"}
      BY <1>9 DEF Ask
    <3>2. QED
      BY <1>6, <3>1 DEF Phase
  <2>2. e' = e /\ read' = read /\ page' \in {page, 1} /\ (page' # page => page = 0)
    BY <1>9 DEF Ask, Usable, PageNumber
  <2>3. pages <= PagesLeft
    <3>1. CASE page' = page
      BY <1>3, <1>4, <2>2, <3>1 DEF PagesLeft
    <3>2. CASE page' # page
      <4>1. page = 0 /\ page' = 1
        BY <2>2, <3>2
      <4>2. PagesLeft' <= PagesLeft - 1
        BY <1>1, <2>2, <4>1, TurnAdvances
      <4>3. pages <= PagesLeft - 1
        BY <1>4, <4>2
      <4>4. QED
        BY <1>3, <4>3
    <3>3. QED
      BY <3>1, <3>2
  <2>4. errors <= e
    BY <1>3, <1>5, <2>2
  <2>5. QED
    BY <2>1, <2>3, <2>4
<1>10. CASE Serve
  <2>1. pc = "wait" /\ pc' = "wait" /\ answer = NoAnswer /\ answer' # NoAnswer
    BY <1>10 DEF Serve, ServePage, ServeOdd, NoAnswer
  <2>2. Phase = 2 /\ phase = 1
    BY <1>6, <2>1 DEF Phase
  <2>3. e' = e /\ PagesLeft' = PagesLeft
    BY <1>10 DEF Serve, walk, PagesLeft
  <2>4. pages <= PagesLeft /\ errors <= e
    BY <1>3, <1>4, <1>5, <2>3
  <2>5. QED
    BY <2>2, <2>4
<1>11. CASE pc = "wait" /\ Fail
  <2>1. failures' = failures + 1 /\ PagesLeft' = PagesLeft
    BY <1>11 DEF Fail, walk, PagesLeft
  <2>2. Phase >= 1
    BY <1>11 DEF Phase
  <2>3. errors = e - 1
    BY <1>3, <1>5, <2>1
  <2>4. pages = PagesLeft
    BY <1>4, <2>1
  <2> HIDE DEF e
  <2>5. QED
    BY <1>3, <2>2, <2>3, <2>4
<1>12. CASE pc = "wait" /\ ~ Rejects(answer) /\ Accept(answer)
  <2>1. folder \notin read /\ page \in 1 .. MaxInt
    BY <1>1, <1>12 DEF WalkInv
  <2>2. errors = e
    BY <1>5, <1>12 DEF Accept
  <2>3. Phase >= 1
    BY <1>12 DEF Phase
  <2>4. PagesLeft' <= PagesLeft - 1
    <3>1. CASE NextPage(answer) # 0
      <4>1. page' = NextPage(answer) /\ read' = read
        BY <1>12, <3>1 DEF Accept, Turn
      <4>2. NextPage(answer) \in 0 .. MaxInt /\ (~ Html => NextPage(answer) \in {0, page + 1})
        BY <1>1, <1>12, NextPageTypes
      <4>3. Html => NextPage(answer) > page
        <5>1. Html => answer.shown /\ NextPage(answer) = answer.link
          BY <3>1 DEF NextPage
        <5>2. answer.link \in Nat
          BY <1>1 DEF TypeOK, Answers
        <5>3. QED
          BY <1>12, <2>1, <5>1, <5>2 DEF Rejects
      <4>4. page' > page /\ page' \in Int
        BY <2>1, <3>1, <4>1, <4>2, <4>3
      <4>5. QED
        BY <1>1, <4>1, <4>4, TurnAdvances
    <3>2. CASE NextPage(answer) = 0
      <4>1. read' = read \cup {folder} /\ page' \in {page, 0}
        BY <1>12, <3>2 DEF Accept, Leave
      <4>2. QED
        BY <1>1, <2>1, <4>1, LeaveAdvances
    <3>3. QED
      BY <3>1, <3>2
  <2>5. pages <= PagesLeft - 1
    BY <1>4, <2>4
  <2> HIDE DEF e
  <2>6. QED
    BY <1>3, <2>2, <2>3, <2>5
<1>13. QED
  BY <1>9, <1>10, <1>11, <1>12 DEF Lose, Receive

\* No walk of ListAlgorithms with its folders, ListBacktests or ListAllBacktests
\* goes round in circles: if there are finitely many folders, each step brings it
\* nearer to its end, whatever JoinQuant answers.
THEOREM Walk_Advances == ASSUME IsFiniteSet(Folders) PROVE Spec => WalkAdvances
<1>1. Inv => StepsLeft \in Nat
  BY StepsLeftType DEF Inv
<1>2. Inv /\ (StepsLeft \in Nat)' /\ [Next]_vars
        => [\/ UNCHANGED <<walk, pc, answer, failures>>
            \/ StepsLeft' \in Nat /\ StepsLeft' < StepsLeft]_vars
  <2>1. ASSUME Change PROVE UNCHANGED <<walk, pc, answer, failures>>
    BY <2>1 DEF Change, Insert, Delete, Move, Leaves
  <2>2. QED
    BY <2>1, StepAdvances DEF Next
<1>3. QED
  BY <1>1, <1>2, AlwaysInv, PTL DEF Spec, WalkAdvances
=============================================================================
