---------------------------- MODULE BacktestProofs ----------------------------
(***************************************************************************)
(* Machine-checked theorems about the two levels of a backtest.  Backtest, *)
(* the event loop: for any candles, signals, limits and prices, and any    *)
(* number of rows, signals and orders.  BacktestRun, the processes around  *)
(* it: for any number of processes with any plans, directories and         *)
(* datasets, and any number of downloads, faults, crashes and              *)
(* cancellations.                                                          *)
(***************************************************************************)
EXTENDS Backtest, BacktestRun, FiniteSums, SequenceTheorems, TLAPS

(* Folds over sequences *)

\* What a function of pairs folds a sequence to, from its first element on.
Folded(g, b, s) == FoldLeft(LAMBDA a, e : g[<<a, e>>], b, s)

\* The recursion of a fold over the positions in S.
FoldsAt(g, b, s, h, S) ==
    h[S] = IF S = {} THEN b ELSE g[<<h[S \ {Max(S)}], s[Max(S)]>>]

\* h solves it for the first n elements.
FoldsBelow(g, b, s, h, n) == \A S \in SUBSET (1 .. n) : FoldsAt(g, b, s, h, S)

\* The greatest of a set of positions.
LEMMA MaxIsLast ==
    ASSUME NEW n \in Nat, NEW S \in SUBSET (1 .. n), S # {}
    PROVE  /\ Max(S) \in S /\ \A i \in S : i <= Max(S)
           /\ n \in S => Max(S) = n
<1>1. IsFiniteSet(1 .. n)
  BY FS_Interval
<1>2. IsFiniteSet(S) /\ \A i \in S : i \in Nat /\ i <= n
  <2>1. IsFiniteSet(S)
    BY <1>1, FS_Subset
  <2>2. \A i \in 1 .. n : i \in Nat /\ i <= n
    OBVIOUS
  <2> QED BY <2>1, <2>2
<1>3. \E m \in S : \A i \in S : m >= i
  <2>1. S \subseteq Nat
    BY <1>2
  <2> QED BY <1>2, <2>1, GreatestNumber
<1>4. Max(S) \in S /\ \A i \in S : Max(S) >= i
  BY <1>3 DEF Max
<1>5. \A i \in S : i <= Max(S)
  BY <1>2, <1>4
<1>6. n \in S => Max(S) = n
  <2> SUFFICES ASSUME n \in S PROVE Max(S) = n
    OBVIOUS
  <2>1. Max(S) \in S /\ Max(S) >= n
    BY <1>4
  <2>2. Max(S) \in Nat /\ Max(S) <= n
    BY <1>2, <2>1
  <2> QED BY <2>1, <2>2
<1> QED BY <1>4, <1>5, <1>6

\* The recursion has a solution for as long as the function is defined.
LEMMA FoldExists ==
    ASSUME NEW A, NEW E, NEW g \in [A \X E -> A], NEW b \in A, NEW s \in Seq(E)
    PROVE  \E h \in [SUBSET (1 .. Len(s)) -> A] : FoldsBelow(g, b, s, h, Len(s))
<1> DEFINE n == Len(s)
<1>0. n \in Nat /\ \A i \in 1 .. n : s[i] \in E
  OBVIOUS
<1> HIDE DEF n
<1> SUFFICES \E h \in [SUBSET (1 .. n) -> A] : \A S \in SUBSET (1 .. n) : FoldsAt(g, b, s, h, S)
  BY DEF n, FoldsBelow
<1> DEFINE Good(m) == \E h \in [SUBSET (1 .. m) -> A] :
                         \A S \in SUBSET (1 .. m) : FoldsAt(g, b, s, h, S)
           Bad == {m \in 0 .. n : ~ Good(m)}
<1> SUFFICES ASSUME Bad # {} PROVE FALSE
  <2>1. n \in 0 .. n
    BY <1>0
  <2>2. Bad = {} => Good(n)
    BY <2>1
  <2> QED BY <2>2
<1>1. PICK m \in Bad : \A k \in Bad : m <= k
  <2>1. Bad \subseteq Nat
    BY <1>0
  <2> HIDE DEF Bad
  <2> QED BY <2>1, LeastNumber
<1>2. m \in 0 .. n /\ m \in Nat /\ ~ Good(m)
  <2>1. m \in 0 .. n /\ ~ Good(m)
    OBVIOUS
  <2> HIDE DEF Good
  <2> QED BY <1>0, <2>1
<1>3. CASE m = 0
  <2> DEFINE h == [S \in SUBSET (1 .. m) |-> b]
  <2>1. \A S \in SUBSET (1 .. m) : S = {}
    BY <1>3
  <2>2. h \in [SUBSET (1 .. m) -> A] /\ \A S \in SUBSET (1 .. m) : FoldsAt(g, b, s, h, S)
    BY <2>1 DEF FoldsAt
  <2> QED BY <1>2, <2>2
<1>4. CASE m # 0
  <2>1. m - 1 \in 0 .. n /\ m \in Nat /\ ~ m <= m - 1
    BY <1>0, <1>2, <1>4
  <2>0. m - 1 \notin Bad
    <3> HIDE DEF Bad
    <3> QED BY <1>1, <2>1
  <2>2. PICK f \in [SUBSET (1 .. m - 1) -> A] :
              \A S \in SUBSET (1 .. m - 1) : FoldsAt(g, b, s, f, S)
    BY <2>1, <2>0
  <2> DEFINE h == [S \in SUBSET (1 .. m) |->
                      IF m \in S THEN g[<<f[S \ {m}], s[m]>>] ELSE f[S]]
  <2>3. ASSUME NEW S \in SUBSET (1 .. m)
        PROVE  /\ m \notin S => S \in SUBSET (1 .. m - 1)
               /\ S \ {m} \in SUBSET (1 .. m - 1)
    <3>1. \A i \in 1 .. m : i # m => i \in 1 .. m - 1
      BY <2>1
    <3> QED BY <3>1
  <2>4. s[m] \in E
    BY <1>0, <1>2, <1>4
  <2>5. h \in [SUBSET (1 .. m) -> A]
    BY <2>3, <2>4
  <2>6. ASSUME NEW S \in SUBSET (1 .. m) PROVE FoldsAt(g, b, s, h, S)
    <3>1. CASE S = {}
      <4>1. S \in SUBSET (1 .. m - 1) /\ m \notin S
        BY <3>1
      <4>2. FoldsAt(g, b, s, f, S)
        BY <2>2, <4>1
      <4> QED BY <3>1, <4>1, <4>2 DEF FoldsAt
    <3>2. CASE S # {} /\ m \in S
      <4>1. Max(S) = m
        BY <2>1, <3>2, MaxIsLast
      <4>2. S \ {m} \in SUBSET (1 .. m) /\ m \notin S \ {m}
        OBVIOUS
      <4>3. h[S] = g[<<f[S \ {m}], s[m]>>] /\ h[S \ {m}] = f[S \ {m}]
        BY <3>2, <4>2
      <4> HIDE DEF h
      <4> QED BY <3>2, <4>1, <4>3 DEF FoldsAt
    <3>3. CASE S # {} /\ m \notin S
      <4>1. S \in SUBSET (1 .. m - 1) /\ S \ {Max(S)} \in SUBSET (1 .. m - 1)
        BY <2>3, <3>3
      <4>2. h[S] = f[S] /\ h[S \ {Max(S)}] = f[S \ {Max(S)}]
        BY <3>3, <4>1
      <4>3. FoldsAt(g, b, s, f, S)
        BY <2>2, <4>1
      <4> HIDE DEF h
      <4> QED BY <3>3, <4>2, <4>3 DEF FoldsAt
    <3> QED BY <3>1, <3>2, <3>3
  <2> HIDE DEF h
  <2> QED BY <1>2, <2>5, <2>6
<1> QED BY <1>3, <1>4

\* Two functions are equal at S if they are without its greatest position.
AlikeAt(f, h, n) ==
    \A S \in SUBSET (1 .. n) :
        /\ S = {} => f[S] = h[S]
        /\ S # {} /\ f[S \ {Max(S)}] = h[S \ {Max(S)}] => f[S] = h[S]

EqualTo(f, h, n) == \A S \in SUBSET (1 .. n) : f[S] = h[S]

\* Two solutions are equal.
LEMMA FoldUnique ==
    ASSUME NEW n \in Nat, NEW f, NEW h, AlikeAt(f, h, n)
    PROVE  EqualTo(f, h, n)
<1> DEFINE Bad == {S \in SUBSET (1 .. n) : f[S] # h[S]}
<1> SUFFICES ASSUME Bad # {} PROVE FALSE
  BY DEF EqualTo
<1>1. \A S \in Bad : IsFiniteSet(S)
  <2>1. IsFiniteSet(1 .. n)
    BY FS_Interval
  <2> QED BY <2>1, FS_Subset
<1>2. PICK S \in Bad : \A x \in S : S \ {x} \notin Bad
  <2> HIDE DEF Bad
  <2> QED BY <1>1, SmallestSet
<1>3. S \in SUBSET (1 .. n) /\ S # {} /\ f[S] # h[S]
  BY DEF AlikeAt
<1>4. Max(S) \in S
  BY <1>3, MaxIsLast
<1>5. S \ {Max(S)} \in SUBSET (1 .. n) /\ S \ {Max(S)} \notin Bad
  BY <1>2, <1>3, <1>4
<1> QED BY <1>3, <1>5 DEF AlikeAt

\* Two solutions of one recursion are alike.
LEMMA SolutionsAlike ==
    ASSUME NEW g, NEW b, NEW s, NEW n, NEW f, NEW h,
           FoldsBelow(g, b, s, f, n), FoldsBelow(g, b, s, h, n)
    PROVE  AlikeAt(f, h, n)
BY DEF FoldsAt, FoldsBelow, AlikeAt

\* h solves it for all of s, and the fold is its value at all positions.
FoldSolution(g, b, s, h) ==
    FoldsBelow(g, b, s, h, Len(s)) /\ Folded(g, b, s) = h[1 .. Len(s)]

\* A fold is the value of a solution at all positions.
LEMMA FoldSolved ==
    ASSUME NEW A, NEW E, NEW g \in [A \X E -> A], NEW b \in A, NEW s \in Seq(E)
    PROVE  \E h \in [SUBSET (1 .. Len(s)) -> A] : FoldSolution(g, b, s, h)
<1>0. PICK h \in [SUBSET (1 .. Len(s)) -> A] : FoldsBelow(g, b, s, h, Len(s))
  BY FoldExists
<1> DEFINE D == SUBSET (1 .. Len(s))
           Solves(f) == f = [S \in D |-> IF S = {} THEN b
                                         ELSE g[<<f[S \ {Max(S)}], s[Max(S)]>>]]
           f == CHOOSE f : Solves(f)
<1>1. DOMAIN s = 1 .. Len(s) /\ Len(s) \in Nat
  OBVIOUS
<1>2. Solves(h)
  BY <1>0 DEF FoldsAt, FoldsBelow
<1>3. Solves(f)
  BY <1>2
<1>4. Folded(g, b, s) = f[1 .. Len(s)]
  BY <1>1 DEF Folded, FoldLeft, MapThenFoldSet
<1>5. \A S \in D : f[S] = IF S = {} THEN b ELSE g[<<f[S \ {Max(S)}], s[Max(S)]>>]
  <2> HIDE DEF f
  <2> QED BY <1>3
<1>6. \A S \in D : f[S] = h[S]
  <2> HIDE DEF f
  <2>1. AlikeAt(f, h, Len(s))
    BY <1>0, <1>5 DEF FoldsAt, FoldsBelow, AlikeAt
  <2>2. EqualTo(f, h, Len(s))
    BY <1>1, <2>1, FoldUnique
  <2> QED BY <2>2 DEF EqualTo
<1> QED BY <1>0, <1>4, <1>6 DEF FoldSolution

\* The laws of a fold: nothing folded is the start, and one more element is one
\* more application.
LEMMA FoldEmpty ==
    ASSUME NEW A, NEW E, NEW g \in [A \X E -> A], NEW b \in A
    PROVE  Folded(g, b, <<>>) = b
<1> DEFINE s == <<>>
<1>1. s \in Seq(E) /\ Len(s) = 0
  OBVIOUS
<1> HIDE DEF s
<1>2. PICK h \in [SUBSET (1 .. Len(s)) -> A] : FoldSolution(g, b, s, h)
  BY <1>1, FoldSolved
<1>3. FoldsBelow(g, b, s, h, 0) /\ Folded(g, b, s) = h[1 .. 0]
  BY <1>1, <1>2 DEF FoldSolution
<1>5. 1 .. 0 = {} /\ {} \in SUBSET (1 .. 0)
  OBVIOUS
<1> QED BY <1>3, <1>5 DEF FoldsAt, FoldsBelow, s

\* The fold of s is in A, and e is one more application.
AppendLaw(A, g, b, s, e) ==
    /\ Folded(g, b, s) \in A
    /\ Folded(g, b, Append(s, e)) = g[<<Folded(g, b, s), e>>]

LEMMA FoldAppend ==
    ASSUME NEW A, NEW E, NEW g \in [A \X E -> A], NEW b \in A, NEW s \in Seq(E), NEW e \in E
    PROVE  AppendLaw(A, g, b, s, e)
<1> DEFINE n == Len(s)
           t == Append(s, e)
<1>1. /\ n \in Nat /\ t \in Seq(E) /\ Len(t) = n + 1 /\ n + 1 \in Nat /\ t[n + 1] = e
      /\ \A i \in 1 .. n : t[i] = s[i]
      /\ \A i \in 1 .. n + 1 : t[i] \in E
  OBVIOUS
<1> HIDE DEF t
<1>2. PICK h \in [SUBSET (1 .. Len(t)) -> A] : FoldSolution(g, b, t, h)
  BY <1>1, FoldSolved
<1>3. PICK k \in [SUBSET (1 .. n) -> A] : FoldSolution(g, b, s, k)
  BY FoldSolved
<1> DEFINE f == [S \in SUBSET (1 .. n) |-> h[S]]
<1>4. \A S \in SUBSET (1 .. n) : S \in SUBSET (1 .. n + 1)
  <2>1. \A i \in 1 .. n : i \in 1 .. n + 1
    BY <1>1
  <2> QED BY <2>1
<1>6. ASSUME NEW S \in SUBSET (1 .. n) PROVE FoldsAt(g, b, s, f, S)
  <2>1. FoldsAt(g, b, t, h, S)
    BY <1>1, <1>2, <1>4 DEF FoldSolution, FoldsBelow
  <2>2. CASE S = {}
    BY <2>1, <2>2 DEF FoldsAt
  <2>3. CASE S # {}
    <3>1. Max(S) \in S
      BY <1>1, <2>3, MaxIsLast
    <3>2. t[Max(S)] = s[Max(S)]
      BY <1>1, <3>1
    <3>3. f[S] = h[S] /\ f[S \ {Max(S)}] = h[S \ {Max(S)}]
      OBVIOUS
    <3> HIDE DEF f
    <3> QED BY <2>1, <2>3, <3>2, <3>3 DEF FoldsAt
  <2> QED BY <2>2, <2>3
<1>7. f[1 .. n] = k[1 .. n]
  <2>1. FoldsBelow(g, b, s, f, n)
    BY <1>6 DEF FoldsBelow
  <2> HIDE DEF f
  <2>2. AlikeAt(f, k, n)
    BY <1>3, <2>1, SolutionsAlike DEF FoldSolution
  <2>0. n \in Nat
    BY <1>1
  <2>3. \A S \in SUBSET (1 .. n) : f[S] = k[S]
    <3>1. EqualTo(f, k, n)
      BY ONLY <2>0, <2>2, FoldUnique
    <3> QED BY <3>1 DEF EqualTo
  <2> QED BY <2>3
<1>8. f[1 .. n] = h[1 .. n] /\ k[1 .. n] \in A
  BY <1>3
<1>9. h[1 .. n + 1] = g[<<h[1 .. n], e>>]
  <2>1. (1 .. n + 1) \in SUBSET (1 .. n + 1) /\ (1 .. n + 1) # {} /\ n + 1 \in 1 .. n + 1
    BY <1>1
  <2>2. Max(1 .. n + 1) = n + 1
    BY <1>1, <2>1, MaxIsLast
  <2>3. (1 .. n + 1) \ {n + 1} = 1 .. n
    BY <1>1
  <2>4. FoldsAt(g, b, t, h, 1 .. n + 1)
    BY <1>1, <1>2, <2>1 DEF FoldSolution, FoldsBelow
  <2> QED BY <1>1, <2>1, <2>2, <2>3, <2>4 DEF FoldsAt
<1> QED BY <1>1, <1>2, <1>3, <1>7, <1>8, <1>9 DEF t, FoldSolution, AppendLaw
-----------------------------------------------------------------------------
(* What the loop works on *)

\* The numbers among the constants.
LEMMA LoopNumbers ==
    /\ InitialCash \in Nat /\ MaxRows \in Nat /\ MaxOrders \in Nat
    /\ Interval \in Nat \ {0} /\ TickSize \in Nat \ {0} /\ Spacing \subseteq Int
    /\ CommissionPercent \in 0 .. 100 /\ SlippageBPS \in 0 .. 9999
BY BacktestAssumption, SMTT(30)

Books == [position : Int, average : Int, realized : Int, unrealized : Int, commissions : Int]

Executions == [id : Nat, side : {"buy", "sell"}, quantity : Nat \ {0}, price : Nat \ {0},
               commission : Nat]

Reports == [book : Books, closed : Int, winning : Int, losing : Int, grossProfit : Int,
            grossLoss : Int, peak : Int, drawdown : Int, drawdownPct : Int, exposure : Int,
            rejections : Int, pauses : Int]

\* A book whose entries change is a book.
LEMMA BookUpdated ==
    ASSUME NEW b \in Books, NEW p \in Int, NEW a \in Int, NEW r \in Int
    PROVE  /\ [b EXCEPT !.position = p, !.average = a] \in Books
           /\ [b EXCEPT !.position = p, !.average = a, !.realized = r] \in Books
           /\ [b EXCEPT !.realized = r, !.position = p, !.average = a] \in Books
BY DEF Books

\* A fold of books is a fold of a function on books.
LEMMA BookStep ==
    ASSUME NEW b \in Books, NEW e \in Executions
    PROVE  ApplyExecution(b, e) \in Books
<1> DEFINE c == [b EXCEPT !.commissions = @ + e.commission]
           q == SignedQuantity(e)
<1>1. c \in Books /\ c.position \in Int /\ c.average \in Int /\ c.realized \in Int
  BY DEF Books, Executions
<1>2. q \in Int /\ q # 0 /\ e.price \in Int
  BY DEF SignedQuantity, Executions
<1> HIDE DEF c, q
<1>3. ApplyFill(c, q, e.price) \in Books
  <2> DEFINE left == c.position + q
  <2>1. left \in Int
    BY <1>1, <1>2
  <2>2. CASE Opens(c.position, q)
    <3>1. Averaged(c.position, c.average, q, e.price) \in Int
      <4>1. c.position # 0 => Abs(left) \in Nat \ {0}
        BY <1>1, <1>2, <2>2 DEF Abs, Opens, Sign
      <4>2. c.average * Abs(c.position) \in Int /\ e.price * Abs(q) \in Int
        BY <1>1, <1>2 DEF Abs
      <4> QED BY <1>2, <4>1, <4>2 DEF Averaged
    <3> QED BY <1>1, <2>1, <2>2, <3>1 DEF ApplyFill, Books
  <2>3. CASE ~ Opens(c.position, q)
    <3> DEFINE made == (e.price - c.average) * Sign(c.position) * Least(Abs(c.position), Abs(q))
    <3>1. /\ Sign(c.position) \in Int /\ Least(Abs(c.position), Abs(q)) \in Int
          /\ e.price - c.average \in Int
      BY <1>1, <1>2 DEF Sign, Least, Abs
    <3>2. made \in Int
      BY <3>1
    <3> DEFINE avg == CASE left = 0 -> 0
                        [] left # 0 /\ Sign(left) = Sign(c.position) -> c.average
                        [] left # 0 /\ Sign(left) # Sign(c.position) -> e.price
    <3>3. avg \in Int
      BY <1>1, <1>2
    <3>4. ApplyFill(c, q, e.price) =
             [c EXCEPT !.position = left, !.average = avg, !.realized = c.realized + made]
      BY <2>3 DEF ApplyFill
    <3> DEFINE sum == c.realized + made
    <3>5. sum \in Int
      BY <1>1, <3>2
    <3> HIDE DEF made, avg, left, sum
    <3>6. [c EXCEPT !.position = left, !.average = avg, !.realized = sum] \in Books
      BY ONLY <1>1, <2>1, <3>3, <3>5 DEF Books
    <3> QED BY <3>4, <3>6 DEF sum
  <2> QED BY <2>2, <2>3
<1> QED BY <1>3 DEF ApplyExecution, c, q

LEMMA ReportStep ==
    ASSUME NEW r \in Reports, NEW e \in Executions
    PROVE  ReportFill(r, e) \in Reports
<1> DEFINE own    == r.book
           q      == SignedQuantity(e)
           closes == ~Opens(own.position, q)
           made   == IF closes
                     THEN (e.price - own.average) * Sign(own.position)
                              * Least(Abs(own.position), Abs(q))
                     ELSE 0
           avg    == ReportAverage(own, q, e.price)
<1>1. own \in Books /\ own.position \in Int /\ own.average \in Int /\ own.realized \in Int
  BY DEF Reports, Books
<1>2. q \in Int /\ q # 0 /\ e.price \in Int
  BY DEF SignedQuantity, Executions
<1> HIDE DEF own, q
<1>3. made \in Int
  <2>1. /\ Sign(own.position) \in Int /\ Least(Abs(own.position), Abs(q)) \in Int
        /\ e.price - own.average \in Int
    BY <1>1, <1>2 DEF Sign, Least, Abs
  <2> QED BY <2>1
<1>4. avg \in Int
  <2>1. CASE Opens(own.position, q)
    <3>1. own.position # 0 => Abs(own.position + q) \in Nat \ {0}
      BY <1>1, <1>2, <2>1 DEF Abs, Opens, Sign
    <3>2. own.average * Abs(own.position) \in Int /\ e.price * Abs(q) \in Int
      BY <1>1, <1>2 DEF Abs
    <3>3. Averaged(own.position, own.average, q, e.price) \in Int
      BY <1>2, <3>1, <3>2 DEF Averaged
    <3> QED BY <2>1, <3>3 DEF ReportAverage
  <2>2. CASE ~ Opens(own.position, q)
    BY <1>1, <1>2, <2>2 DEF ReportAverage
  <2> QED BY <2>1, <2>2
<1> DEFINE b == [own EXCEPT !.realized = @ + made, !.position = @ + q, !.average = avg]
<1>5. b \in Books
  <2> HIDE DEF made, avg
  <2>1. own.realized + made \in Int /\ own.position + q \in Int
    BY <1>1, <1>2, <1>3
  <2> QED BY <1>1, <1>4, <2>1, BookUpdated
<1>6. ReportFill(r, e) =
         [r EXCEPT !.book = b,
                   !.closed      = IF closes THEN @ + 1 ELSE @,
                   !.winning     = IF made > 0 THEN @ + 1 ELSE @,
                   !.losing      = IF made < 0 THEN @ + 1 ELSE @,
                   !.grossProfit = IF made > 0 THEN @ + made ELSE @,
                   !.grossLoss   = IF made < 0 THEN @ - made ELSE @]
  BY DEF ReportFill, own, q
<1> HIDE DEF b, made, closes
<1>7. /\ (IF closes THEN r.closed + 1 ELSE r.closed) \in Int
      /\ (IF made > 0 THEN r.winning + 1 ELSE r.winning) \in Int
      /\ (IF made < 0 THEN r.losing + 1 ELSE r.losing) \in Int
      /\ (IF made > 0 THEN r.grossProfit + made ELSE r.grossProfit) \in Int
      /\ (IF made < 0 THEN r.grossLoss - made ELSE r.grossLoss) \in Int
  BY <1>3 DEF Reports
<1> DEFINE n1 == IF closes THEN r.closed + 1 ELSE r.closed
           n2 == IF made > 0 THEN r.winning + 1 ELSE r.winning
           n3 == IF made < 0 THEN r.losing + 1 ELSE r.losing
           n4 == IF made > 0 THEN r.grossProfit + made ELSE r.grossProfit
           n5 == IF made < 0 THEN r.grossLoss - made ELSE r.grossLoss
<1>8. n1 \in Int /\ n2 \in Int /\ n3 \in Int /\ n4 \in Int /\ n5 \in Int /\ r \in Reports
  BY <1>7
<1>9. ReportFill(r, e) = [r EXCEPT !.book = b, !.closed = n1, !.winning = n2, !.losing = n3,
                                   !.grossProfit = n4, !.grossLoss = n5]
  BY <1>6
<1> HIDE DEF n1, n2, n3, n4, n5
<1> QED BY ONLY <1>5, <1>8, <1>9, ZenonT(60) DEF Reports

\* A book folded over executions is the fold of a function.
LEMMA BookFolded ==
    ASSUME NEW b \in Books, NEW s \in Seq(Executions)
    PROVE  FoldLeft(ApplyExecution, b, s) = Folded([x \in Books \X Executions |-> ApplyExecution(x[1], x[2])], b, s)
<1> DEFINE g == [x \in Books \X Executions |-> ApplyExecution(x[1], x[2])]
           D == SUBSET (1 .. Len(s))
           Solves(f) == f = [S \in D |-> IF S = {} THEN b
                                         ELSE ApplyExecution(f[S \ {Max(S)}], s[Max(S)])]
           f == CHOOSE f : Solves(f)
<1>1. DOMAIN s = 1 .. Len(s) /\ Len(s) \in Nat /\ \A i \in 1 .. Len(s) : s[i] \in Executions
  OBVIOUS
<1>2. g \in [Books \X Executions -> Books]
  BY BookStep
<1>3. \A a \in Books, e \in Executions : g[<<a, e>>] = ApplyExecution(a, e)
  OBVIOUS
<1> HIDE DEF g
<1>4. PICK h \in [D -> Books] : FoldSolution(g, b, s, h)
  BY <1>2, FoldSolved
<1>5. ASSUME NEW S \in D
      PROVE  h[S] = IF S = {} THEN b ELSE ApplyExecution(h[S \ {Max(S)}], s[Max(S)])
  <2>1. FoldsAt(g, b, s, h, S)
    BY <1>4 DEF FoldSolution, FoldsBelow
  <2>2. S # {} => Max(S) \in S /\ S \ {Max(S)} \in D
    BY <1>1, MaxIsLast
  <2>3. S # {} => s[Max(S)] \in Executions /\ h[S \ {Max(S)}] \in Books
    BY <1>1, <1>4, <2>2
  <2> QED BY <1>3, <2>1, <2>3 DEF FoldsAt
<1>6. Solves(f)
  <2>1. Solves(h)
    BY <1>5
  <2> QED BY <2>1
<1>7. FoldLeft(ApplyExecution, b, s) = f[1 .. Len(s)]
  BY <1>1 DEF FoldLeft, MapThenFoldSet
<1>8. \A S \in D : f[S] = IF S = {} THEN b ELSE ApplyExecution(f[S \ {Max(S)}], s[Max(S)])
  <2> HIDE DEF f
  <2> QED BY <1>6
<1>9. \A S \in D : f[S] = h[S]
  <2> HIDE DEF f
  <2>1. AlikeAt(f, h, Len(s))
    BY <1>5, <1>8 DEF AlikeAt
  <2>2. Len(s) \in Nat
    BY <1>1
  <2>3. EqualTo(f, h, Len(s))
    BY ONLY <2>1, <2>2, FoldUnique
  <2> QED BY <2>3 DEF EqualTo
<1>10. FoldLeft(ApplyExecution, b, s) = h[1 .. Len(s)]
  BY <1>7, <1>9
<1> QED BY <1>4, <1>10 DEF FoldSolution, g

\* Its laws.
LEMMA BookLaws ==
    ASSUME NEW b \in Books
    PROVE  /\ FoldLeft(ApplyExecution, b, <<>>) = b
           /\ \A s \in Seq(Executions), e \in Executions :
                 /\ FoldLeft(ApplyExecution, b, s) \in Books
                 /\ FoldLeft(ApplyExecution, b, Append(s, e)) = ApplyExecution(FoldLeft(ApplyExecution, b, s), e)
<1> DEFINE g == [x \in Books \X Executions |-> ApplyExecution(x[1], x[2])]
<1>1. g \in [Books \X Executions -> Books]
  BY BookStep
<1>2. \A a \in Books, e \in Executions : g[<<a, e>>] = ApplyExecution(a, e)
  OBVIOUS
<1>3. \A s \in Seq(Executions) : FoldLeft(ApplyExecution, b, s) = Folded(g, b, s)
  BY BookFolded
<1> HIDE DEF g
<1>4. FoldLeft(ApplyExecution, b, <<>>) = b
  <2>1. <<>> \in Seq(Executions)
    OBVIOUS
  <2>2. Folded(g, b, <<>>) = b
    BY <1>1, FoldEmpty
  <2> QED BY <1>3, <2>1, <2>2
<1>5. ASSUME NEW s \in Seq(Executions), NEW e \in Executions
      PROVE  /\ FoldLeft(ApplyExecution, b, s) \in Books
             /\ FoldLeft(ApplyExecution, b, Append(s, e)) = ApplyExecution(FoldLeft(ApplyExecution, b, s), e)
  <2>1. Append(s, e) \in Seq(Executions)
    OBVIOUS
  <2>2. AppendLaw(Books, g, b, s, e)
    BY <1>1, FoldAppend
  <2> QED BY <1>2, <1>3, <2>1, <2>2 DEF AppendLaw
<1> QED BY <1>4, <1>5

\* The report folded over executions is the fold of a function.
LEMMA ReportFolded ==
    ASSUME NEW b \in Reports, NEW s \in Seq(Executions)
    PROVE  FoldLeft(ReportFill, b, s) = Folded([x \in Reports \X Executions |-> ReportFill(x[1], x[2])], b, s)
<1> DEFINE g == [x \in Reports \X Executions |-> ReportFill(x[1], x[2])]
           D == SUBSET (1 .. Len(s))
           Solves(f) == f = [S \in D |-> IF S = {} THEN b
                                         ELSE ReportFill(f[S \ {Max(S)}], s[Max(S)])]
           f == CHOOSE f : Solves(f)
<1>1. DOMAIN s = 1 .. Len(s) /\ Len(s) \in Nat /\ \A i \in 1 .. Len(s) : s[i] \in Executions
  OBVIOUS
<1>2. g \in [Reports \X Executions -> Reports]
  BY ReportStep
<1>3. \A a \in Reports, e \in Executions : g[<<a, e>>] = ReportFill(a, e)
  OBVIOUS
<1> HIDE DEF g
<1>4. PICK h \in [D -> Reports] : FoldSolution(g, b, s, h)
  BY <1>2, FoldSolved
<1>5. ASSUME NEW S \in D
      PROVE  h[S] = IF S = {} THEN b ELSE ReportFill(h[S \ {Max(S)}], s[Max(S)])
  <2>1. FoldsAt(g, b, s, h, S)
    BY <1>4 DEF FoldSolution, FoldsBelow
  <2>2. S # {} => Max(S) \in S /\ S \ {Max(S)} \in D
    BY <1>1, MaxIsLast
  <2>3. S # {} => s[Max(S)] \in Executions /\ h[S \ {Max(S)}] \in Reports
    BY <1>1, <1>4, <2>2
  <2> QED BY <1>3, <2>1, <2>3 DEF FoldsAt
<1>6. Solves(f)
  <2>1. Solves(h)
    BY <1>5
  <2> QED BY <2>1
<1>7. FoldLeft(ReportFill, b, s) = f[1 .. Len(s)]
  BY <1>1 DEF FoldLeft, MapThenFoldSet
<1>8. \A S \in D : f[S] = IF S = {} THEN b ELSE ReportFill(f[S \ {Max(S)}], s[Max(S)])
  <2> HIDE DEF f
  <2> QED BY <1>6
<1>9. \A S \in D : f[S] = h[S]
  <2> HIDE DEF f
  <2>1. AlikeAt(f, h, Len(s))
    BY <1>5, <1>8 DEF AlikeAt
  <2>2. Len(s) \in Nat
    BY <1>1
  <2>3. EqualTo(f, h, Len(s))
    BY ONLY <2>1, <2>2, FoldUnique
  <2> QED BY <2>3 DEF EqualTo
<1>10. FoldLeft(ReportFill, b, s) = h[1 .. Len(s)]
  BY <1>7, <1>9
<1> QED BY <1>4, <1>10 DEF FoldSolution, g

\* Its laws.
LEMMA ReportLaws ==
    ASSUME NEW b \in Reports
    PROVE  /\ FoldLeft(ReportFill, b, <<>>) = b
           /\ \A s \in Seq(Executions), e \in Executions :
                 /\ FoldLeft(ReportFill, b, s) \in Reports
                 /\ FoldLeft(ReportFill, b, Append(s, e)) = ReportFill(FoldLeft(ReportFill, b, s), e)
<1> DEFINE g == [x \in Reports \X Executions |-> ReportFill(x[1], x[2])]
<1>1. g \in [Reports \X Executions -> Reports]
  BY ReportStep
<1>2. \A a \in Reports, e \in Executions : g[<<a, e>>] = ReportFill(a, e)
  OBVIOUS
<1>3. \A s \in Seq(Executions) : FoldLeft(ReportFill, b, s) = Folded(g, b, s)
  BY ReportFolded
<1> HIDE DEF g
<1>4. FoldLeft(ReportFill, b, <<>>) = b
  <2>1. <<>> \in Seq(Executions)
    OBVIOUS
  <2>2. Folded(g, b, <<>>) = b
    BY <1>1, FoldEmpty
  <2> QED BY <1>3, <2>1, <2>2
<1>5. ASSUME NEW s \in Seq(Executions), NEW e \in Executions
      PROVE  /\ FoldLeft(ReportFill, b, s) \in Reports
             /\ FoldLeft(ReportFill, b, Append(s, e)) = ReportFill(FoldLeft(ReportFill, b, s), e)
  <2>1. Append(s, e) \in Seq(Executions)
    OBVIOUS
  <2>2. AppendLaw(Reports, g, b, s, e)
    BY <1>1, FoldAppend
  <2> QED BY <1>2, <1>3, <2>1, <2>2 DEF AppendLaw
<1> QED BY <1>4, <1>5
-----------------------------------------------------------------------------
(* The fills of an event *)

Rows == [start : Nat, open : Nat \ {0}, high : Nat \ {0}, low : Nat \ {0}, close : Nat \ {0}]

Brokers == [cash : Nat, position : Nat, orders : [Ids -> Order \cup {None}], commissions : Nat,
            slippageCost : Nat]

FillStates == [broker : Brokers, executions : Seq(Executions), failed : BOOLEAN]

\* There is a candle.
HasCandle == candles \in Seq(Rows) /\ candles # <<>>

\* A fee is no more than what it is charged on.
LEMMA FeeBounds ==
    ASSUME NEW n \in Nat
    PROVE  Commission(n) \in Nat /\ Commission(n) <= n
<1> DEFINE c == CommissionPercent
           m == n * c
<1>1. c \in 0 .. 100
  BY LoopNumbers
<1>2. m \in Nat /\ m <= n * 100
  BY <1>1
<1> HIDE DEF m
<1>3. m \div 100 \in Nat /\ m \div 100 <= n
  BY <1>2
<1> QED BY <1>3 DEF Commission, m

\* A product of natural numbers is one, and of positive ones is positive.
LEMMA Products ==
    ASSUME NEW m \in Nat, NEW n \in Nat
    PROVE  /\ m * n \in Nat
           /\ m # 0 /\ n # 0 => m * n # 0
OBVIOUS

\* The price of a fill is a number.
LEMMA PriceIsNumber ==
    ASSUME HasCandle, NEW o \in Order
    PROVE  Slipped(o, RawPrice(o)) \in Int
<1>1. Current \in Rows
  BY DEF HasCandle, Current
<1>2. RawPrice(o) \in Int
  <2>1. Current.open \in Int
    BY <1>1 DEF Rows
  <2>2. o.limit # None => o.limit \in Int
    BY DEF Order
  <2> QED BY <2>1, <2>2 DEF RawPrice, Least, Order
<1> DEFINE raw == RawPrice(o)
           buy == raw * (10000 + SlippageBPS)
           sell == raw * (10000 - SlippageBPS)
           unit == 10000 * TickSize
<1>3. SlippageBPS \in Int /\ TickSize \in Nat \ {0}
  BY LoopNumbers
<1>4. buy \in Int /\ sell \in Int /\ unit \in Nat \ {0}
  <2> HIDE DEF raw
  <2>1. raw \in Int
    BY <1>2 DEF raw
  <2> QED BY <1>3, <2>1
<1>5. (buy + unit - 1) \div unit \in Int /\ sell \div unit \in Int
  <2> HIDE DEF buy, sell, unit
  <2> QED BY <1>4
<1> DEFINE a == (buy + unit - 1) \div unit
           b == sell \div unit
<1>6. Slipped(o, raw) = TickSize * (IF o.side = "buy" THEN a ELSE b)
  BY DEF Slipped
<1>7. a \in Int /\ b \in Int
  BY <1>5
<1> HIDE DEF a, b
<1> QED BY <1>3, <1>6, <1>7

\* What a step of the broker does with one order.
FillsAt(s, id, price) ==
    /\ Waiting(s.broker.orders[id]) /\ ~ s.failed
    /\ price \in Nat \ {0} /\ Payable(s.broker, s.broker.orders[id], price)
    /\ FillOrder(s, id) = Filled(s, id, price)

RejectsAt(s, id) ==
    /\ Waiting(s.broker.orders[id]) /\ ~ s.failed
    /\ FillOrder(s, id) =
          [s EXCEPT !.broker = [s.broker EXCEPT !.orders = Marked(@, id, "rejected")]]

PassesAt(s, id) ==
    LET o == s.broker.orders[id]
    IN  /\ FillOrder(s, id) = s
        /\ s.failed \/ ~ Waiting(o) \/ Waits(o) \/ ~ Touched(o)

LEMMA FillKinds ==
    ASSUME HasCandle, NEW s \in FillStates, NEW id \in Ids
    PROVE  \/ PassesAt(s, id) \/ RejectsAt(s, id) \/ \E price : FillsAt(s, id, price)
           \/ FillOrder(s, id) = [s EXCEPT !.failed = TRUE]
<1> DEFINE o == s.broker.orders[id]
           price == Slipped(o, RawPrice(o))
<1>1. CASE s.failed \/ ~ Waiting(o) \/ Waits(o) \/ ~ Touched(o)
  BY <1>1 DEF FillOrder, PassesAt
<1>2. CASE ~ (s.failed \/ ~ Waiting(o) \/ Waits(o) \/ ~ Touched(o))
  <2>1. o \in Order
    BY <1>2 DEF FillStates, Brokers, Waiting
  <2>2. price \in Int
    BY <2>1, PriceIsNumber
  <2>3. FillOrder(s, id) =
           IF price <= 0 THEN [s EXCEPT !.failed = TRUE]
           ELSE IF Payable(s.broker, o, price) THEN Filled(s, id, price)
           ELSE [s EXCEPT !.broker = [s.broker EXCEPT !.orders = Marked(@, id, "rejected")]]
    BY <1>2 DEF FillOrder
  <2> HIDE DEF price
  <2> QED BY <1>2, <2>2, <2>3 DEF FillsAt, RejectsAt
<1> QED BY <1>1, <1>2

\* An order that ends stays an order.
LEMMA MarkedOrders ==
    ASSUME NEW orders \in [Ids -> Order \cup {None}], NEW id \in Ids, Waiting(orders[id]),
           NEW end \in {"filled", "rejected"}
    PROVE  /\ Marked(orders, id, end) \in [Ids -> Order \cup {None}]
           /\ \A i \in Ids : i # id => Marked(orders, id, end)[i] = orders[i]
           /\ Marked(orders, id, end)[id].status = end
<1>1. orders[id] \in Order /\ orders[id] # None
  BY DEF Waiting
<1> DEFINE o == [orders[id] EXCEPT !.status = end]
<1>2. o \in Order /\ o.status = end
  BY <1>1 DEF Order
<1>3. Marked(orders, id, end) = [orders EXCEPT ![id] = o]
  BY DEF Marked
<1> HIDE DEF o
<1> QED BY <1>2, <1>3

\* What a fill is made of.
LEMMA FillParts ==
    ASSUME NEW s \in FillStates, NEW id \in Ids, Waiting(s.broker.orders[id])
    PROVE  /\ s.broker \in Brokers /\ s.broker.orders \in [Ids -> Order \cup {None}]
           /\ s.broker.cash \in Nat /\ s.broker.position \in Nat
           /\ s.broker.commissions \in Nat /\ s.broker.slippageCost \in Nat
           /\ s.executions \in Seq(Executions)
           /\ s.broker.orders[id] \in Order /\ s.broker.orders[id].side \in {"buy", "sell"}
           /\ s.broker.orders[id].quantity \in Nat \ {0}
<1>1. s.broker \in Brokers /\ s.executions \in Seq(Executions)
  BY DEF FillStates
<1>2. s.broker.orders \in [Ids -> Order \cup {None}] /\ s.broker.orders[id] \in Order
  BY <1>1 DEF Brokers, Waiting
<1>3. s.broker.orders[id].side \in {"buy", "sell"} /\ s.broker.orders[id].quantity \in Nat \ {0}
  BY <1>2 DEF Order
<1> QED BY <1>1, <1>2, <1>3 DEF Brokers

\* The execution a fill reports.
Report(s, id, price) ==
    [id |-> id, side |-> s.broker.orders[id].side, quantity |-> s.broker.orders[id].quantity,
     price |-> price, commission |-> Commission(price * s.broker.orders[id].quantity)]

\* What a fill moves.
FillMoved(s, id, price) ==
    LET e == Report(s, id, price)
        t == FillOrder(s, id)
    IN  /\ e \in Executions /\ t.executions = Append(s.executions, e)
        /\ t.broker.orders = Marked(s.broker.orders, id, "filled") /\ t.failed = FALSE
        /\ t.broker.position = s.broker.position + SignedQuantity(e)
        /\ t.broker.cash = s.broker.cash - SignedQuantity(e) * price - e.commission
        /\ t.broker.commissions = s.broker.commissions + e.commission
        /\ t \in FillStates

LEMMA FillMoves ==
    ASSUME HasCandle, NEW s \in FillStates, NEW id \in Ids, NEW price, FillsAt(s, id, price)
    PROVE  FillMoved(s, id, price)
<1> DEFINE o == s.broker.orders[id]
           fee == Commission(price * o.quantity)
           signed == IF o.side = "buy" THEN o.quantity ELSE -o.quantity
           slip == Abs(price - RawPrice(o)) * o.quantity
           e == Report(s, id, price)
           t == FillOrder(s, id)
<1>1. /\ s.broker \in Brokers /\ s.broker.orders \in [Ids -> Order \cup {None}]
      /\ s.broker.cash \in Nat /\ s.broker.position \in Nat
      /\ s.broker.commissions \in Nat /\ s.broker.slippageCost \in Nat
      /\ s.executions \in Seq(Executions)
      /\ o \in Order /\ o.side \in {"buy", "sell"} /\ o.quantity \in Nat \ {0}
  BY FillParts DEF FillsAt
<1>2. price \in Nat \ {0} /\ Payable(s.broker, o, price) /\ t = Filled(s, id, price)
  BY DEF FillsAt
<1>3. price * o.quantity \in Nat
  BY <1>1, <1>2
<1>4. fee \in Nat /\ fee <= price * o.quantity
  BY <1>3, FeeBounds
<1>5. e \in Executions
  BY <1>1, <1>2, <1>4 DEF Executions, Report, Ids
<1>6. SignedQuantity(e) = signed /\ e.commission = fee /\ signed \in Int
  BY <1>1 DEF SignedQuantity, Report
<1>7. slip \in Nat
  <2>1. RawPrice(o) \in Int
    <3>1. Current \in Rows
      BY DEF HasCandle, Current
    <3>2. Current.open \in Int
      BY <3>1 DEF Rows
    <3>3. o.limit # None => o.limit \in Int
      BY <1>1 DEF Order
    <3> QED BY <1>1, <3>2, <3>3 DEF RawPrice, Least
  <2>2. Abs(price - RawPrice(o)) \in Nat
    BY <1>2, <2>1 DEF Abs
  <2> QED BY <1>1, <2>2, Products
<1> DEFINE cash == s.broker.cash - signed * price - fee
           position == s.broker.position + signed
           orders == Marked(s.broker.orders, id, "filled")
           commissions == s.broker.commissions + fee
           slippage == s.broker.slippageCost + slip
           br == [cash |-> cash, position |-> position, orders |-> orders,
                  commissions |-> commissions, slippageCost |-> slippage]
<1>8. t = [broker |-> br, executions |-> Append(s.executions, e), failed |-> FALSE]
  BY <1>2 DEF Filled, CashAfter, Report
<1>9. cash \in Nat /\ position \in Nat
  <2> DEFINE paid  == price * o.quantity
             moved == signed * price
             had   == s.broker.cash
             held  == s.broker.position
             size  == o.quantity
  <2>1. /\ paid \in Nat /\ had \in Nat /\ held \in Nat /\ size \in Nat /\ fee \in Nat /\ fee <= paid
        /\ cash = had - moved - fee /\ position = held + signed
    BY <1>1, <1>3, <1>4
  <2>2. CASE o.side = "buy"
    <3>1. had >= paid + fee
      BY <1>2, <2>2 DEF Payable
    <3>2. signed = size /\ moved = paid
      BY <1>1, <1>2, <2>2
    <3> HIDE DEF paid, moved, had, held, size, cash, position, signed, fee
    <3> QED BY ONLY <2>1, <3>1, <3>2
  <2>3. CASE o.side = "sell"
    <3>1. held >= size
      BY <1>2, <2>3 DEF Payable
    <3>2. signed = -size /\ moved = -paid
      BY <1>1, <1>2, <2>3
    <3> HIDE DEF paid, moved, had, held, size, cash, position, signed, fee
    <3> QED BY ONLY <2>1, <3>1, <3>2
  <2> QED BY <1>1, <2>2, <2>3
<1>10. orders \in [Ids -> Order \cup {None}]
  BY <1>1, MarkedOrders DEF FillsAt
<1>11. commissions \in Nat /\ slippage \in Nat
  BY <1>1, <1>4, <1>7
<1>12. t \in FillStates
  <2> HIDE DEF cash, position, orders, commissions, slippage, e
  <2>1. br \in Brokers
    BY <1>9, <1>10, <1>11 DEF Brokers
  <2>2. Append(s.executions, e) \in Seq(Executions)
    BY <1>1, <1>5
  <2> HIDE DEF br
  <2> QED BY <1>8, <2>1, <2>2 DEF FillStates
<1>13. /\ t.executions = Append(s.executions, e) /\ t.broker = br /\ t.failed = FALSE
  <2> HIDE DEF br, e
  <2> QED BY <1>8
<1> HIDE DEF t, e, fee, slip
<1> QED BY <1>5, <1>6, <1>12, <1>13 DEF t, e, FillMoved

\* A step of the broker leads to a state of the broker.
LEMMA FillStep ==
    ASSUME HasCandle, NEW s \in FillStates, NEW id \in Ids
    PROVE  FillOrder(s, id) \in FillStates
<1> DEFINE t == FillOrder(s, id)
<1>1. CASE PassesAt(s, id)
  BY <1>1 DEF PassesAt
<1>2. CASE RejectsAt(s, id)
  <2> DEFINE orders == Marked(s.broker.orders, id, "rejected")
  <2>1. s.broker \in Brokers /\ s.broker.orders \in [Ids -> Order \cup {None}]
    BY DEF FillStates, Brokers
  <2>2. orders \in [Ids -> Order \cup {None}]
    BY <1>2, <2>1, MarkedOrders DEF RejectsAt
  <2>3. t = [s EXCEPT !.broker = [s.broker EXCEPT !.orders = orders]]
    BY <1>2 DEF RejectsAt
  <2> HIDE DEF orders
  <2>4. [s.broker EXCEPT !.orders = orders] \in Brokers
    BY <2>1, <2>2 DEF Brokers
  <2> QED BY <2>3, <2>4 DEF FillStates
<1>3. ASSUME NEW price, FillsAt(s, id, price) PROVE t \in FillStates
  <2>1. FillMoved(s, id, price)
    BY <1>3, FillMoves
  <2> QED BY <2>1 DEF FillMoved
<1>4. CASE t = [s EXCEPT !.failed = TRUE]
  BY <1>4 DEF FillStates
<1> QED BY <1>1, <1>2, <1>3, <1>4, FillKinds

\* The broker folds over the ids.
LEMMA FillsFolded ==
    ASSUME NEW b \in FillStates, NEW s \in Seq(Ids), HasCandle
    PROVE  FoldLeft(FillOrder, b, s) = Folded([x \in FillStates \X Ids |-> FillOrder(x[1], x[2])], b, s)
<1> DEFINE g == [x \in FillStates \X Ids |-> FillOrder(x[1], x[2])]
           D == SUBSET (1 .. Len(s))
           Solves(f) == f = [S \in D |-> IF S = {} THEN b
                                         ELSE FillOrder(f[S \ {Max(S)}], s[Max(S)])]
           f == CHOOSE f : Solves(f)
<1>1. DOMAIN s = 1 .. Len(s) /\ Len(s) \in Nat /\ \A i \in 1 .. Len(s) : s[i] \in Ids
  OBVIOUS
<1>2. g \in [FillStates \X Ids -> FillStates]
  BY FillStep
<1>3. \A a \in FillStates, e \in Ids : g[<<a, e>>] = FillOrder(a, e)
  OBVIOUS
<1> HIDE DEF g
<1>4. PICK h \in [D -> FillStates] : FoldSolution(g, b, s, h)
  BY <1>2, FoldSolved
<1>5. ASSUME NEW S \in D
      PROVE  h[S] = IF S = {} THEN b ELSE FillOrder(h[S \ {Max(S)}], s[Max(S)])
  <2>1. FoldsAt(g, b, s, h, S)
    BY <1>4 DEF FoldSolution, FoldsBelow
  <2>2. S # {} => Max(S) \in S /\ S \ {Max(S)} \in D
    BY <1>1, MaxIsLast
  <2>3. S # {} => s[Max(S)] \in Ids /\ h[S \ {Max(S)}] \in FillStates
    BY <1>1, <1>4, <2>2
  <2> QED BY <1>3, <2>1, <2>3 DEF FoldsAt
<1>6. Solves(f)
  <2>1. Solves(h)
    BY <1>5
  <2> QED BY <2>1
<1>7. FoldLeft(FillOrder, b, s) = f[1 .. Len(s)]
  BY <1>1 DEF FoldLeft, MapThenFoldSet
<1>8. \A S \in D : f[S] = IF S = {} THEN b ELSE FillOrder(f[S \ {Max(S)}], s[Max(S)])
  <2> HIDE DEF f
  <2> QED BY <1>6
<1>9. \A S \in D : f[S] = h[S]
  <2> HIDE DEF f
  <2>1. AlikeAt(f, h, Len(s))
    BY <1>5, <1>8 DEF AlikeAt
  <2>2. Len(s) \in Nat
    BY <1>1
  <2>3. EqualTo(f, h, Len(s))
    BY ONLY <2>1, <2>2, FoldUnique
  <2> QED BY <2>3 DEF EqualTo
<1>10. FoldLeft(FillOrder, b, s) = h[1 .. Len(s)]
  BY <1>7, <1>9
<1> QED BY <1>4, <1>10 DEF FoldSolution, g

\* Its laws.
LEMMA FillsLaws ==
    ASSUME NEW b \in FillStates, HasCandle
    PROVE  /\ FoldLeft(FillOrder, b, <<>>) = b
           /\ \A s \in Seq(Ids), e \in Ids :
                 /\ FoldLeft(FillOrder, b, s) \in FillStates
                 /\ FoldLeft(FillOrder, b, Append(s, e)) = FillOrder(FoldLeft(FillOrder, b, s), e)
<1> DEFINE g == [x \in FillStates \X Ids |-> FillOrder(x[1], x[2])]
<1>1. g \in [FillStates \X Ids -> FillStates]
  BY FillStep
<1>2. \A a \in FillStates, e \in Ids : g[<<a, e>>] = FillOrder(a, e)
  OBVIOUS
<1>3. \A s \in Seq(Ids) : FoldLeft(FillOrder, b, s) = Folded(g, b, s)
  BY FillsFolded
<1> HIDE DEF g
<1>4. FoldLeft(FillOrder, b, <<>>) = b
  <2>1. <<>> \in Seq(Ids)
    OBVIOUS
  <2>2. Folded(g, b, <<>>) = b
    BY <1>1, FoldEmpty
  <2> QED BY <1>3, <2>1, <2>2
<1>5. ASSUME NEW s \in Seq(Ids), NEW e \in Ids
      PROVE  /\ FoldLeft(FillOrder, b, s) \in FillStates
             /\ FoldLeft(FillOrder, b, Append(s, e)) = FillOrder(FoldLeft(FillOrder, b, s), e)
  <2>1. Append(s, e) \in Seq(Ids)
    OBVIOUS
  <2>2. AppendLaw(FillStates, g, b, s, e)
    BY <1>1, FoldAppend
  <2> QED BY <1>2, <1>3, <2>1, <2>2 DEF AppendLaw
<1> QED BY <1>4, <1>5
-----------------------------------------------------------------------------
(* What the books make of the fills *)

BookAfter(s)   == FoldLeft(ApplyExecution, book, s)
ReportAfter(s) == FoldLeft(ReportFill, Exposed(report), s)

\* The books of the risk and of the report and the broker's agree.
Agree(b, own, br) ==
    /\ b.position = br.position /\ own.position = b.position
    /\ own.average = b.average /\ own.realized = b.realized
    /\ b.commissions = br.commissions

\* The realized result is profits less losses.
Split(r) == r.book.realized = r.grossProfit - r.grossLoss

\* What the fills of an event do not move.
Kept(r, old) ==
    /\ r.pauses = old.pauses /\ r.peak = old.peak
    /\ r.drawdown = old.drawdown /\ r.exposure = old.exposure

\* The cash is what came in less what the position and its fees cost.
Balanced(b, br) == br.cash - InitialCash = b.realized - b.average * b.position - b.commissions

\* A fill that adds to a position leaves a whole average.
WholeFill(b, e) ==
    b.position # 0 /\ Opens(b.position, SignedQuantity(e)) =>
        (b.average * Abs(b.position) + e.price * Abs(SignedQuantity(e)))
            % Abs(b.position + SignedQuantity(e)) = 0

WholeIn(s) == \A n \in 1 .. Len(s) : WholeFill(BookAfter(SubSeq(s, 1, n - 1)), s[n])

\* Risk and report make the same of an execution.
LEMMA SameOfAFill ==
    ASSUME NEW b \in Books, NEW r \in Reports, NEW e \in Executions,
           r.book.position = b.position, r.book.average = b.average, r.book.realized = b.realized
    PROVE  LET c == ApplyExecution(b, e)
               t == ReportFill(r, e)
           IN  /\ c.position = b.position + SignedQuantity(e)
               /\ c.commissions = b.commissions + e.commission
               /\ t.book.position = c.position /\ t.book.average = c.average
               /\ t.book.realized = c.realized
               /\ Split(r) => Split(t)
               /\ Kept(t, r)
<1> DEFINE q == SignedQuantity(e)
           p == e.price
           d == [b EXCEPT !.commissions = @ + e.commission]
           c == ApplyExecution(b, e)
           t == ReportFill(r, e)
           closes == ~ Opens(b.position, q)
           made == IF closes
                   THEN (p - b.average) * Sign(b.position) * Least(Abs(b.position), Abs(q))
                   ELSE 0
           avg == ReportAverage(r.book, q, p)
<1>1. /\ d \in Books /\ d.position = b.position /\ d.average = b.average
      /\ d.realized = b.realized /\ d.commissions = b.commissions + e.commission
      /\ b.position \in Int /\ b.average \in Int /\ b.realized \in Int
  BY DEF Books, Executions
<1>2. q \in Int /\ q # 0 /\ p \in Int
  BY DEF SignedQuantity, Executions
<1>3. /\ r.book \in Books /\ r.grossProfit \in Int /\ r.grossLoss \in Int
  BY DEF Reports
<1>4. c = ApplyFill(d, q, p)
  BY DEF ApplyExecution
<1> HIDE DEF d, q, p, c
<1>5. made \in Int
  <2>1. /\ Sign(b.position) \in Int /\ Least(Abs(b.position), Abs(q)) \in Int
        /\ p - b.average \in Int
    BY <1>1, <1>2 DEF Sign, Least, Abs
  <2> QED BY <2>1
<1>6. c.position = b.position + q /\ c.commissions = d.commissions
  BY <1>1, <1>4 DEF ApplyFill, Books
<1>7. c.realized = b.realized + made
  BY <1>1, <1>4 DEF ApplyFill, Books
<1>8. c.average = avg
  <2>1. CASE Opens(b.position, q)
    BY <1>1, <1>4, <2>1 DEF ApplyFill, Books, ReportAverage
  <2>2. CASE ~ Opens(b.position, q)
    <3>1. c.average = CASE b.position + q = 0 -> 0
                        [] b.position + q # 0 /\ Sign(b.position + q) = Sign(b.position) -> b.average
                        [] b.position + q # 0 /\ Sign(b.position + q) # Sign(b.position) -> p
      BY <1>1, <1>4, <2>2 DEF ApplyFill, Books
    <3>2. CASE b.position + q = 0
      BY <2>2, <3>1, <3>2 DEF ReportAverage
    <3>3. CASE b.position + q # 0
      BY <2>2, <3>1, <3>3 DEF ReportAverage
    <3> QED BY <3>2, <3>3
  <2> QED BY <2>1, <2>2
<1>9. /\ t.book = [r.book EXCEPT !.realized = @ + made, !.position = @ + q, !.average = avg]
      /\ t.grossProfit = (IF made > 0 THEN r.grossProfit + made ELSE r.grossProfit)
      /\ t.grossLoss = (IF made < 0 THEN r.grossLoss - made ELSE r.grossLoss)
      /\ Kept(t, r)
  BY DEF ReportFill, Reports, Kept, q, p
<1> HIDE DEF made, avg, t
<1>10. /\ t.book.realized = b.realized + made /\ t.book.position = b.position + q
       /\ t.book.average = avg
  BY <1>3, <1>9 DEF Books
<1>11. Split(r) => Split(t)
  BY <1>1, <1>3, <1>5, <1>9, <1>10 DEF Split
<1> QED BY <1>1, <1>6, <1>7, <1>8, <1>9, <1>10, <1>11 DEF c, t, q

LEMMA ExecutionNumbers ==
    ASSUME NEW e \in Executions
    PROVE  /\ SignedQuantity(e) \in Int /\ SignedQuantity(e) # 0 /\ e.price \in Int
           /\ e.commission \in Nat
BY DEF SignedQuantity, Executions

\* A fill with a whole average keeps the cash balanced.
LEMMA BalanceOfAFill ==
    ASSUME NEW b \in Books, NEW e \in Executions, NEW br, NEW bs, br.cash \in Int,
           b.position \in Nat, b.position + SignedQuantity(e) \in Nat,
           WholeFill(b, e), Balanced(b, br),
           bs.cash = br.cash - SignedQuantity(e) * e.price - e.commission
    PROVE  Balanced(ApplyExecution(b, e), bs)
<1> DEFINE q == SignedQuantity(e)
           p == e.price
           d == [b EXCEPT !.commissions = @ + e.commission]
           c == ApplyExecution(b, e)
           pos == b.position
           avg == b.average
<1>1. /\ d \in Books /\ d.position = pos /\ d.average = avg
      /\ d.realized = b.realized /\ d.commissions = b.commissions + e.commission
      /\ pos \in Nat /\ avg \in Int /\ b.realized \in Int /\ b.commissions \in Int
      /\ e.commission \in Int
  BY DEF Books, Executions
<1>2. q \in Int /\ q # 0 /\ p \in Int /\ pos + q \in Nat /\ InitialCash \in Int
  <2>1. q \in Int /\ q # 0 /\ p \in Int
    BY ExecutionNumbers
  <2>2. InitialCash \in Int
    BY LoopNumbers
  <2> QED BY <2>1, <2>2
<1>3. c = ApplyFill(d, q, p)
  BY DEF ApplyExecution
<1>4. /\ br.cash - InitialCash = b.realized - avg * pos - b.commissions
      /\ bs.cash = br.cash - q * p - e.commission
  BY DEF Balanced
<1>5. pos # 0 /\ Opens(pos, q) => (avg * Abs(pos) + p * Abs(q)) % Abs(pos + q) = 0
  BY DEF WholeFill
<1> HIDE DEF q, p, d, c, pos, avg
<1>6. c.position = pos + q /\ c.commissions = d.commissions
  BY <1>1, <1>3 DEF ApplyFill, Books
<1>7. c.realized - c.average * (pos + q) = b.realized - avg * pos - q * p
  <2>1. CASE pos = 0
    <3>1. c.average = p /\ c.realized = b.realized
      BY <1>1, <1>3, <2>1 DEF ApplyFill, Opens, Averaged, Books
    <3> QED BY <1>1, <1>2, <2>1, <3>1
  <2>2. CASE pos # 0 /\ q > 0
    <3>1. Opens(pos, q) /\ Abs(pos) = pos /\ Abs(q) = q /\ Abs(pos + q) = pos + q /\ pos + q > 0
      BY <1>1, <1>2, <2>2 DEF Opens, Sign, Abs
    <3>2. c.average = (avg * pos + p * q) \div (pos + q) /\ c.realized = b.realized
      BY <1>1, <1>3, <2>2, <3>1 DEF ApplyFill, Averaged, Books
    <3>3. (avg * pos + p * q) % (pos + q) = 0
      BY <1>5, <2>2, <3>1
    <3> DEFINE x == avg * pos + p * q
               m == pos + q
    <3>4. x \in Int /\ m \in Int /\ m > 0 /\ x % m = 0
      BY <1>1, <1>2, <3>1, <3>3
    <3>5. (x \div m) * m = x
      <4> HIDE DEF x, m
      <4> QED BY <3>4
    <3>6. c.average * m = x
      BY <3>2, <3>5
    <3>7. p * q = q * p
      BY <1>2
    <3> QED BY <1>1, <1>2, <3>2, <3>6, <3>7
  <2>3. CASE pos # 0 /\ q < 0
    <3>1. /\ ~ Opens(pos, q) /\ Sign(pos) = 1 /\ Least(Abs(pos), Abs(q)) = -q
      BY <1>1, <1>2, <2>3 DEF Opens, Sign, Abs, Least
    <3>2. c.realized = b.realized + (p - avg) * 1 * (-q)
      BY <1>1, <1>3, <3>1 DEF ApplyFill, Books
    <3>3. pos + q # 0 => c.average = avg
      <4>1. pos + q # 0 => Sign(pos + q) = 1
        BY <1>2 DEF Sign
      <4> QED BY <1>1, <1>3, <3>1, <4>1 DEF ApplyFill, Books
    <3>4. (p - avg) * 1 * (-q) = avg * q - q * p
      BY <1>1, <1>2
    <3>5. CASE pos + q = 0
      <4>1. c.average = 0
        BY <1>1, <1>3, <3>1, <3>5 DEF ApplyFill, Books
      <4>2. avg * q = -(avg * pos)
        <5>1. q = -pos
          BY <1>1, <1>2, <3>5
        <5> QED BY <1>1, <5>1
      <4> QED BY <1>1, <1>2, <3>2, <3>4, <3>5, <4>1, <4>2
    <3>6. CASE pos + q # 0
      <4>1. avg * (pos + q) = avg * pos + avg * q
        BY <1>1, <1>2
      <4> QED BY <1>1, <1>2, <3>2, <3>3, <3>4, <3>6, <4>1
    <3> QED BY <3>5, <3>6
  <2> QED BY <1>1, <1>2, <2>1, <2>2, <2>3
<1>8. c \in Books
  BY BookStep DEF c
<1> DEFINE y == c.average * (pos + q)
           z == avg * pos
           w == q * p
<1>9. y \in Int /\ z \in Int /\ w \in Int /\ c.realized \in Int
  BY <1>1, <1>2, <1>8 DEF Books
<1>10. /\ c.realized - y = b.realized - z - w
       /\ br.cash - InitialCash = b.realized - z - b.commissions
       /\ bs.cash = br.cash - w - e.commission
       /\ c.commissions = b.commissions + e.commission
  BY <1>1, <1>4, <1>6, <1>7
<1> HIDE DEF y, z, w
<1>11. bs.cash - InitialCash = c.realized - y - c.commissions
  BY <1>1, <1>2, <1>9, <1>10
<1> QED BY <1>6, <1>11 DEF Balanced, c, y
-----------------------------------------------------------------------------
(* One event at the broker *)

\* The books when the fills are known.
Carried(f) ==
    LET b == BookAfter(f.executions)
        r == ReportAfter(f.executions)
    IN  /\ b \in Books /\ r \in Reports
        /\ Agree(b, r.book, f.broker) /\ Split(r) /\ Kept(r, Exposed(report))
        /\ Balanced(book, broker) /\ WholeIn(f.executions) => Balanced(b, f.broker)

\* After the first n orders: no order appears, one that waits is as it was, and
\* of the first n it waits because it had to.
OrdersLeft(f, n) ==
    \A i \in Ids :
        /\ broker.orders[i] = None => f.broker.orders[i] = None
        /\ Waiting(f.broker.orders[i]) =>
              /\ f.broker.orders[i] = broker.orders[i]
              /\ i <= n => f.failed \/ Waits(broker.orders[i]) \/ ~ Touched(broker.orders[i])

\* The event begins with books that agree.
EventInv ==
    /\ HasCandle /\ broker \in Brokers /\ book \in Books /\ Exposed(report) \in Reports
    /\ Agree(book, Exposed(report).book, broker) /\ Split(Exposed(report))

LEMMA FirstFills ==
    ASSUME HasCandle, broker \in Brokers
    PROVE  Fills(0) = BeforeFills /\ BeforeFills \in FillStates
<1>1. BeforeFills \in FillStates
  BY DEF BeforeFills, FillStates
<1>2. [i \in 1 .. 0 |-> i] = <<>>
  OBVIOUS
<1>3. FoldLeft(FillOrder, BeforeFills, <<>>) = BeforeFills
  BY <1>1, FillsLaws
<1> QED BY <1>1, <1>2, <1>3 DEF Fills

LEMMA NextFills ==
    ASSUME HasCandle, broker \in Brokers, NEW n \in Nat, n + 1 \in Ids
    PROVE  Fills(n) \in FillStates /\ Fills(n + 1) = FillOrder(Fills(n), n + 1)
<1> DEFINE s == [i \in 1 .. n |-> i]
           t == [i \in 1 .. n + 1 |-> i]
<1>1. s \in Seq(Ids)
  <2>1. \A i \in 1 .. n : i \in Ids
    BY LoopNumbers DEF Ids
  <2> QED BY <2>1
<1>2. t = Append(s, n + 1)
  OBVIOUS
<1>3. BeforeFills \in FillStates
  BY FirstFills
<1>4. /\ FoldLeft(FillOrder, BeforeFills, s) \in FillStates
      /\ FoldLeft(FillOrder, BeforeFills, Append(s, n + 1))
            = FillOrder(FoldLeft(FillOrder, BeforeFills, s), n + 1)
  <2> HIDE DEF s
  <2> QED BY <1>1, <1>3, FillsLaws
<1> QED BY <1>2, <1>4 DEF Fills

\* What is true of the broker's state after n orders.
After(n) == Fills(n) \in FillStates /\ Carried(Fills(n)) /\ OrdersLeft(Fills(n), n)

\* The prefixes of a sequence are those of a longer one.
LEMMA WholePrefix ==
    ASSUME NEW s \in Seq(Executions), NEW e \in Executions, WholeIn(Append(s, e))
    PROVE  WholeIn(s) /\ WholeFill(BookAfter(s), e)
<1> DEFINE t == Append(s, e)
           n == Len(s)
<1>1. n \in Nat /\ Len(t) = n + 1 /\ t[n + 1] = e /\ \A k \in 1 .. n : t[k] = s[k]
  OBVIOUS
<1>2. \A k \in 1 .. n + 1 : SubSeq(t, 1, k - 1) = SubSeq(s, 1, k - 1)
  <2> SUFFICES ASSUME NEW k \in 1 .. n + 1 PROVE SubSeq(t, 1, k - 1) = SubSeq(s, 1, k - 1)
    OBVIOUS
  <2>1. \A i \in 1 .. k - 1 : t[i] = s[i]
    BY <1>1
  <2>2. SubSeq(t, 1, k - 1) = [i \in 1 .. k - 1 |-> t[i]] /\ SubSeq(s, 1, k - 1) = [i \in 1 .. k - 1 |-> s[i]]
    BY <1>1
  <2> QED BY <2>1, <2>2
<1>3. SubSeq(s, 1, n) = s
  OBVIOUS
<1>4. \A k \in 1 .. n + 1 : WholeFill(BookAfter(SubSeq(t, 1, k - 1)), t[k])
  BY <1>1 DEF WholeIn
<1>5. \A k \in 1 .. n : WholeFill(BookAfter(SubSeq(s, 1, k - 1)), s[k])
  <2> SUFFICES ASSUME NEW k \in 1 .. n PROVE WholeFill(BookAfter(SubSeq(s, 1, k - 1)), s[k])
    OBVIOUS
  <2>1. k \in 1 .. n + 1
    BY <1>1
  <2>2. WholeFill(BookAfter(SubSeq(t, 1, k - 1)), t[k])
    BY <1>4, <2>1
  <2>3. SubSeq(t, 1, k - 1) = SubSeq(s, 1, k - 1) /\ t[k] = s[k]
    BY <1>1, <1>2, <2>1
  <2> HIDE DEF t
  <2> QED BY <2>2, <2>3
<1>6. WholeFill(BookAfter(s), e)
  <2>1. n + 1 \in 1 .. n + 1 /\ (n + 1) - 1 = n
    BY <1>1
  <2>2. WholeFill(BookAfter(SubSeq(t, 1, (n + 1) - 1)), t[n + 1])
    BY <1>4, <2>1
  <2>3. SubSeq(t, 1, (n + 1) - 1) = SubSeq(s, 1, (n + 1) - 1)
    BY <1>2, <2>1
  <2> HIDE DEF t, n
  <2> QED BY <1>1, <1>3, <2>1, <2>2, <2>3
<1> HIDE DEF n
<1> QED BY <1>5, <1>6 DEF WholeIn, n

\* A fill carries the books along.
LEMMA FillCarries ==
    ASSUME EventInv, NEW f \in FillStates, NEW id \in Ids, NEW price,
           FillsAt(f, id, price), Carried(f)
    PROVE  Carried(FillOrder(f, id))
<1> DEFINE t == FillOrder(f, id)
           e == Report(f, id, price)
           b == BookAfter(f.executions)
           r == ReportAfter(f.executions)
           c == BookAfter(t.executions)
           v == ReportAfter(t.executions)
<1>1. /\ e \in Executions /\ t.executions = Append(f.executions, e)
      /\ t.broker.position = f.broker.position + SignedQuantity(e)
      /\ t.broker.cash = f.broker.cash - SignedQuantity(e) * price - e.commission
      /\ t.broker.commissions = f.broker.commissions + e.commission
      /\ t \in FillStates
  <2>1. HasCandle
    BY DEF EventInv
  <2>2. FillMoved(f, id, price)
    BY <2>1, FillMoves
  <2> QED BY <2>2 DEF FillMoved
<1>2. /\ f.executions \in Seq(Executions) /\ f.broker.cash \in Int
      /\ f.broker.position \in Nat /\ t.broker.position \in Nat
  BY <1>1 DEF FillStates, Brokers
<1>3. /\ b \in Books /\ r \in Reports /\ Agree(b, r.book, f.broker) /\ Split(r)
      /\ Kept(r, Exposed(report))
      /\ Balanced(book, broker) /\ WholeIn(f.executions) => Balanced(b, f.broker)
  BY DEF Carried
<1>4. e.price = price
  BY DEF Report
<1> HIDE DEF t, e
<1>5. c = ApplyExecution(b, e) /\ v = ReportFill(r, e)
  <2>1. book \in Books /\ Exposed(report) \in Reports
    BY DEF EventInv
  <2>2. FoldLeft(ApplyExecution, book, Append(f.executions, e))
           = ApplyExecution(FoldLeft(ApplyExecution, book, f.executions), e)
    BY <1>1, <1>2, <2>1, BookLaws
  <2>3. FoldLeft(ReportFill, Exposed(report), Append(f.executions, e))
           = ReportFill(FoldLeft(ReportFill, Exposed(report), f.executions), e)
    BY <1>1, <1>2, <2>1, ReportLaws
  <2> QED BY <1>1, <2>2, <2>3 DEF BookAfter, ReportAfter
<1> HIDE DEF b, r, c, v
<1>6. c \in Books /\ v \in Reports
  BY <1>1, <1>3, <1>5, BookStep, ReportStep
<1>7. /\ c.position = b.position + SignedQuantity(e)
      /\ c.commissions = b.commissions + e.commission
      /\ v.book.position = c.position /\ v.book.average = c.average
      /\ v.book.realized = c.realized
      /\ Split(r) => Split(v)
      /\ Kept(v, r)
  <2>1. r.book.position = b.position /\ r.book.average = b.average /\ r.book.realized = b.realized
    BY <1>3 DEF Agree
  <2> QED BY <1>1, <1>3, <1>5, <2>1, SameOfAFill
<1>8. Agree(c, v.book, t.broker)
  BY <1>1, <1>3, <1>7 DEF Agree
<1>9. Kept(v, Exposed(report))
  BY <1>3, <1>7 DEF Kept
<1>10. ASSUME Balanced(book, broker), WholeIn(t.executions) PROVE Balanced(c, t.broker)
  <2>1. WholeIn(f.executions) /\ WholeFill(b, e)
    BY <1>1, <1>2, <1>10, WholePrefix DEF b
  <2>2. Balanced(b, f.broker)
    BY <1>3, <1>10, <2>1
  <2>3. b.position \in Nat /\ b.position + SignedQuantity(e) \in Nat
    BY <1>1, <1>2, <1>3 DEF Agree
  <2> QED BY <1>1, <1>2, <1>3, <1>4, <1>5, <2>1, <2>2, <2>3, BalanceOfAFill
<1> QED BY <1>3, <1>6, <1>7, <1>8, <1>9, <1>10 DEF Carried, c, v, t

\* A step that moves neither money nor a position carries the books along.
LEMMA RestCarries ==
    ASSUME NEW f, NEW t, Carried(f), t.executions = f.executions,
           t.broker.cash = f.broker.cash, t.broker.position = f.broker.position,
           t.broker.commissions = f.broker.commissions
    PROVE  Carried(t)
BY DEF Carried, Agree, Balanced

\* Each order in its turn.
LEMMA NextOrder ==
    ASSUME EventInv, NEW n \in Nat, n + 1 \in Ids, After(n)
    PROVE  After(n + 1)
<1> DEFINE f == Fills(n)
           id == n + 1
           t == Fills(n + 1)
<1>1. f \in FillStates /\ Carried(f) /\ OrdersLeft(f, n) /\ t = FillOrder(f, id)
  BY NextFills DEF After, EventInv
<1>2. HasCandle /\ broker \in Brokers /\ id \in Ids /\ id \in Nat
  BY DEF EventInv
<1> HIDE DEF f, t, id
<1>3. t \in FillStates
  BY <1>1, <1>2, FillStep
<1>4. \A i \in Ids : i \in Int /\ (i <= n + 1 => i <= n \/ i = n + 1)
  BY DEF Ids
<1>5. f.broker \in Brokers /\ f.broker.orders \in [Ids -> Order \cup {None}]
  BY <1>1 DEF FillStates, Brokers
<1>6. ASSUME NEW end \in {"filled", "rejected"}, Waiting(f.broker.orders[id]),
             t.broker.orders = Marked(f.broker.orders, id, end), t.failed = f.failed
      PROVE  OrdersLeft(t, n + 1)
  <2>1. /\ \A i \in Ids : i # id => t.broker.orders[i] = f.broker.orders[i]
        /\ t.broker.orders[id].status = end
    BY <1>2, <1>5, <1>6, MarkedOrders
  <2>2. ~ Waiting(t.broker.orders[id])
    BY <1>6, <2>1 DEF Waiting
  <2>3. broker.orders[id] # None
    <3>1. f.broker.orders[id] # None
      BY <1>6 DEF Waiting
    <3> QED BY <1>1, <1>2, <3>1 DEF OrdersLeft
  <2>4. ASSUME NEW i \in Ids, i # id
        PROVE  /\ broker.orders[i] = None => t.broker.orders[i] = None
               /\ Waiting(t.broker.orders[i]) =>
                     /\ t.broker.orders[i] = broker.orders[i]
                     /\ i <= n + 1 => t.failed \/ Waits(broker.orders[i]) \/ ~ Touched(broker.orders[i])
    <3>1. t.broker.orders[i] = f.broker.orders[i] /\ (i <= n + 1 => i <= n)
      BY <1>4, <2>1, <2>4 DEF id
    <3> QED BY <1>1, <1>6, <3>1 DEF OrdersLeft
  <2> QED BY <2>2, <2>3, <2>4 DEF OrdersLeft
<1>7. CASE PassesAt(f, id)
  <2>1. t = f /\ (f.failed \/ ~ Waiting(f.broker.orders[id]) \/ Waits(f.broker.orders[id])
                    \/ ~ Touched(f.broker.orders[id]))
    BY <1>1, <1>7 DEF PassesAt
  <2>2. OrdersLeft(t, n + 1)
    <3> SUFFICES ASSUME NEW i \in Ids
                 PROVE  /\ broker.orders[i] = None => f.broker.orders[i] = None
                        /\ Waiting(f.broker.orders[i]) =>
                              /\ f.broker.orders[i] = broker.orders[i]
                              /\ i <= n + 1 => f.failed \/ Waits(broker.orders[i]) \/ ~ Touched(broker.orders[i])
      BY <2>1 DEF OrdersLeft
    <3>1. CASE i <= n \/ ~ i <= n + 1
      BY <1>1, <3>1 DEF OrdersLeft
    <3>2. CASE i = n + 1
      BY <1>1, <2>1, <3>2 DEF OrdersLeft, id
    <3> QED BY <1>4, <3>1, <3>2
  <2> QED BY <1>1, <1>3, <2>1, <2>2 DEF After, t
<1>8. CASE RejectsAt(f, id)
  <2> DEFINE orders == Marked(f.broker.orders, id, "rejected")
             br == [f.broker EXCEPT !.orders = orders]
  <2>1. Waiting(f.broker.orders[id]) /\ t = [f EXCEPT !.broker = br]
    BY <1>1, <1>8 DEF RejectsAt
  <2>2. t.broker = br /\ t.executions = f.executions /\ t.failed = f.failed
    <3> HIDE DEF br
    <3> QED BY <1>1, <2>1 DEF FillStates
  <2>3. /\ br.orders = orders /\ br.cash = f.broker.cash /\ br.position = f.broker.position
        /\ br.commissions = f.broker.commissions
    <3> HIDE DEF orders
    <3> QED BY <1>5 DEF Brokers
  <2> HIDE DEF br
  <2>4. Carried(t)
    BY <1>1, <2>2, <2>3, RestCarries
  <2>5. OrdersLeft(t, n + 1)
    BY <1>6, <2>1, <2>2, <2>3
  <2> QED BY <1>3, <2>4, <2>5 DEF After, t
<1>9. ASSUME NEW price, FillsAt(f, id, price) PROVE After(n + 1)
  <2>1. t.broker.orders = Marked(f.broker.orders, id, "filled") /\ t.failed = FALSE
    <3>1. FillMoved(f, id, price)
      BY <1>1, <1>2, <1>9, FillMoves
    <3> QED BY <1>1, <3>1 DEF FillMoved
  <2>2. Waiting(f.broker.orders[id]) /\ ~ f.failed
    BY <1>9 DEF FillsAt
  <2>3. f.failed = FALSE
    BY <1>1, <2>2 DEF FillStates
  <2>4. OrdersLeft(t, n + 1)
    BY <1>6, <2>1, <2>2, <2>3
  <2>5. Carried(t)
    BY <1>1, <1>2, <1>9, FillCarries
  <2> QED BY <1>3, <2>4, <2>5 DEF After, t
<1>10. CASE t = [f EXCEPT !.failed = TRUE]
  <2>1. t.broker = f.broker /\ t.executions = f.executions /\ t.failed = TRUE
    BY <1>1, <1>10 DEF FillStates
  <2>2. Carried(t)
    BY <1>1, <2>1, RestCarries
  <2>3. OrdersLeft(t, n + 1)
    BY <1>1, <2>1 DEF OrdersLeft
  <2> QED BY <1>3, <2>2, <2>3 DEF After, t
<1> QED BY <1>1, <1>2, <1>7, <1>8, <1>9, <1>10, FillKinds

\* After every order.
LEMMA AllOrders ==
    ASSUME EventInv
    PROVE  After(MaxOrders)
<1> DEFINE Bad == {n \in 0 .. MaxOrders : ~ After(n)}
<1>1. MaxOrders \in Nat
  BY LoopNumbers
<1> SUFFICES ASSUME Bad # {} PROVE FALSE
  BY <1>1
<1>2. PICK n \in Bad : \A k \in Bad : n <= k
  <2>1. Bad \subseteq Nat
    BY <1>1
  <2> HIDE DEF Bad
  <2> QED BY <2>1, LeastNumber
<1>3. n \in 0 .. MaxOrders /\ n \in Nat /\ ~ After(n)
  BY <1>1, <1>2
<1>4. n # 0
  <2>1. HasCandle /\ broker \in Brokers /\ book \in Books /\ Exposed(report) \in Reports
    BY DEF EventInv
  <2>2. Fills(0) = BeforeFills /\ BeforeFills \in FillStates
    BY <2>1, FirstFills
  <2>3. BeforeFills.broker = broker /\ BeforeFills.executions = <<>>
    BY DEF BeforeFills
  <2>4. BookAfter(<<>>) = book /\ ReportAfter(<<>>) = Exposed(report)
    BY <2>1, BookLaws, ReportLaws DEF BookAfter, ReportAfter
  <2>5. Carried(BeforeFills)
    BY <2>1, <2>3, <2>4 DEF Carried, EventInv, Kept
  <2>6. OrdersLeft(BeforeFills, 0)
    BY <2>3 DEF OrdersLeft, Ids
  <2> QED BY <1>3, <2>2, <2>5, <2>6 DEF After
<1>5. n - 1 \in Nat /\ n - 1 \in 0 .. MaxOrders /\ (n - 1) + 1 = n /\ n \in Ids /\ ~ n <= n - 1
  BY <1>1, <1>3, <1>4 DEF Ids
<1>6. After(n - 1)
  <2>1. n - 1 \notin Bad
    <3> HIDE DEF Bad
    <3> QED BY <1>2, <1>5
  <2> QED BY <1>5, <2>1
<1>7. After((n - 1) + 1)
  BY <1>5, <1>6, NextOrder
<1> QED BY <1>3, <1>5, <1>7
-----------------------------------------------------------------------------
(* The invariant of the loop *)

LoopTypes ==
    /\ pc \in {"next", "broker", "observe", "strategy", "signals", "done", "failed"}
    /\ candles \in Seq(Rows) /\ Len(candles) <= MaxRows /\ gaps \in Nat
    /\ broker \in Brokers /\ fresh \in Seq(Executions)
    /\ book \in Books /\ baseline \in Books
    /\ status \in {Running, Paused}
    /\ queue \in Seq(Draft)
    /\ report \in Reports
    /\ report.peak \in Nat /\ report.drawdown \in Nat /\ report.exposure \in Nat
    /\ opening \in Int

\* The candles follow one another, and an event has one.
CandleInv ==
    /\ \A n \in 1 .. Len(candles) : candles[n].start <= Current.start
    /\ pc \in {"broker", "observe", "strategy", "signals"} => candles # <<>>
    /\ candles = <<>> => broker.position = 0

\* The candle does not touch the order.
Missed(row, order) ==
    /\ order.limit # None
    /\ IF order.side = "buy" THEN row.low > order.limit ELSE row.high < order.limit

\* The orders have still to be tried on the candle.
Untried(n) == pc \in {"broker", "failed"} /\ n = Len(candles)

TouchInv ==
    \A i \in Ids, n \in 1 .. Len(candles) :
        Waiting(broker.orders[i]) /\ ~ Untried(n) =>
            (candles[n].start >= broker.orders[i].cause => Missed(candles[n], broker.orders[i]))

\* The books agree, before the fills of an event are booked as far as they will
\* when they are.
BooksInv ==
    /\ Settled \/ pc = "broker" => Agree(book, report.book, broker) /\ Split(report)
    /\ pc = "observe" =>
          /\ Agree(BookAfter(fresh), ReportAfter(fresh).book, broker)
          /\ Split(ReportAfter(fresh)) /\ Kept(ReportAfter(fresh), Exposed(report))
    /\ Settled /\ candles # <<>> =>
          book.unrealized = (Current.close - book.average) * book.position
    /\ candles = <<>> => book.unrealized = 0

\* A pause is counted once, and who still trades has not reached the limit.
StatusInv ==
    /\ report.pauses = IF status = Paused THEN 1 ELSE 0
    /\ status = Running => ~ LossReached(Delta(book, baseline))

LoopInv == LoopTypes /\ CandleInv /\ TouchInv /\ BooksInv /\ StatusInv

\* Every fill that adds to a position leaves a whole average.
AveragesWhole == pc = "observe" => WholeIn(fresh)

\* The cash of the broker is the result of the books, and the day's opening
\* equity that of the baseline.
MoneyInv ==
    /\ Settled \/ pc = "broker" => Balanced(book, broker)
    /\ pc = "observe" => Balanced(BookAfter(fresh), broker)
    /\ Total(baseline) = opening - InitialCash

\* Nothing is lost and nothing won on an empty book.
LEMMA NothingLost == ~ LossReached(Delta(EmptyBook, EmptyBook))
<1>1. MaxDailyLoss # None => MaxDailyLoss \in Nat \ {0}
  BY LimitsAssumption DEF ValidLimits
<1>2. DailyAmount(Delta(EmptyBook, EmptyBook)) = 0
  BY DEF DailyAmount, Delta, EmptyBook, RealizedNet, Total
<1> QED BY <1>1, <1>2 DEF LossReached

LEMMA LoopInitially == LoopInit => LoopInv /\ MoneyInv
<1> SUFFICES ASSUME LoopInit PROVE LoopInv /\ MoneyInv
  OBVIOUS
<1>1. InitialCash \in Nat /\ MaxRows \in Nat
  BY LoopNumbers
<1>2. EmptyBook \in Books /\ Agree(EmptyBook, EmptyBook, broker)
  BY DEF EmptyBook, Books, Agree, LoopInit
<1>3. broker \in Brokers
  BY <1>1 DEF LoopInit, Brokers
<1>4. report \in Reports
  BY <1>1, <1>2 DEF LoopInit, Reports
<1>5. LoopTypes
  BY <1>1, <1>2, <1>3, <1>4 DEF LoopInit, LoopTypes
<1>6. CandleInv
  BY DEF LoopInit, CandleInv
<1>7. TouchInv
  BY DEF LoopInit, TouchInv
<1>8. BooksInv
  BY <1>2 DEF LoopInit, BooksInv, Settled, Split, EmptyBook
<1>9. StatusInv
  BY NothingLost DEF LoopInit, StatusInv, Running, Paused
<1>10. MoneyInv
  BY <1>1 DEF LoopInit, MoneyInv, Balanced, Total, EmptyBook
<1> QED BY <1>5, <1>6, <1>7, <1>8, <1>9, <1>10 DEF LoopInv

\* The book of the report does not change with what it is exposed to.
LEMMA ExposedReport ==
    ASSUME LoopInv, HasCandle
    PROVE  /\ Exposed(report) \in Reports /\ Exposed(report).book = report.book
           /\ Split(report) => Split(Exposed(report))
           /\ Exposed(report).pauses = report.pauses /\ Exposed(report).peak = report.peak
           /\ Exposed(report).drawdown = report.drawdown
           /\ Exposed(report).exposure \in Nat
<1>1. report \in Reports /\ report.exposure \in Nat
  BY DEF LoopInv, LoopTypes
<1>2. CASE report.book.position # 0 /\ Len(candles) > 1
  <2> DEFINE m == Len(candles) - 1
             more == report.exposure + Current.start - candles[m].start
  <2>1. m \in 1 .. Len(candles) /\ candles[m] \in Rows /\ Current \in Rows
    BY <1>2 DEF HasCandle, Current
  <2>2. candles[m].start <= Current.start
    BY <2>1 DEF LoopInv, CandleInv
  <2>3. candles[m].start \in Nat /\ Current.start \in Nat
    BY <2>1 DEF Rows
  <2>4. more \in Nat
    BY <1>1, <2>2, <2>3
  <2>5. Exposed(report) = [report EXCEPT !.exposure = more]
    BY <1>2 DEF Exposed
  <2> HIDE DEF more
  <2> QED BY <1>1, <2>4, <2>5 DEF Reports, Split
<1>3. CASE ~ (report.book.position # 0 /\ Len(candles) > 1)
  BY <1>1, <1>3 DEF Exposed
<1> QED BY <1>2, <1>3

\* A report whose numbers change is a report.
LEMMA ReportUpdated ==
    ASSUME NEW r \in Reports, NEW m \in Int, NEW n \in Int, NEW k \in Int
    PROVE  /\ [r EXCEPT !.peak = m, !.drawdown = n, !.drawdownPct = k] \in Reports
           /\ [r EXCEPT !.peak = m] \in Reports
           /\ [r EXCEPT !.pauses = m] \in Reports
           /\ [r EXCEPT !.rejections = m] \in Reports
BY DEF Reports

\* An equity is observed.
LEMMA EquityObserved ==
    ASSUME NEW r \in Reports, r.peak \in Nat, r.drawdown \in Nat, Equity \in Nat
    PROVE  LET t == ObserveEquity(r)
           IN  /\ t \in Reports /\ t.peak \in Nat /\ t.drawdown \in Nat
               /\ t.book = r.book /\ t.pauses = r.pauses /\ t.exposure = r.exposure
               /\ Split(r) => Split(t)
<1> DEFINE peak == IF Equity > r.peak THEN Equity ELSE r.peak
           loss == peak - Equity
           pct == IF peak > 0 THEN (loss * 100) \div peak ELSE r.drawdownPct
<1>1. peak \in Nat /\ loss \in Nat
  OBVIOUS
<1>2. r.drawdownPct \in Int
  BY DEF Reports
<1>3. pct \in Int
  <2> HIDE DEF loss, peak
  <2> QED BY <1>1, <1>2
<1>4. ObserveEquity(r) = IF loss > r.drawdown
                         THEN [r EXCEPT !.peak = peak, !.drawdown = loss, !.drawdownPct = pct]
                         ELSE [r EXCEPT !.peak = peak]
  BY DEF ObserveEquity
<1>5. r \in Reports
  OBVIOUS
<1> HIDE DEF loss, peak, pct
<1>6. /\ [r EXCEPT !.peak = peak, !.drawdown = loss, !.drawdownPct = pct] \in Reports
      /\ [r EXCEPT !.peak = peak] \in Reports
  <2>1. peak \in Int /\ loss \in Int
    BY ONLY <1>1
  <2>2. [r EXCEPT !.peak = peak, !.drawdown = loss, !.drawdownPct = pct] \in Reports
    BY ONLY <1>3, <1>5, <2>1 DEF Reports
  <2>3. [r EXCEPT !.peak = peak] \in Reports
    BY ONLY <1>5, <2>1 DEF Reports
  <2> QED BY ONLY <2>2, <2>3
<1>7. CASE loss > r.drawdown
  <2> DEFINE t == [r EXCEPT !.peak = peak, !.drawdown = loss, !.drawdownPct = pct]
  <2>1. /\ t.peak = peak /\ t.drawdown = loss /\ t.book = r.book /\ t.pauses = r.pauses
        /\ t.exposure = r.exposure /\ t.grossProfit = r.grossProfit /\ t.grossLoss = r.grossLoss
    BY ONLY <1>5 DEF Reports
  <2>2. t \in Reports /\ ObserveEquity(r) = t
    BY <1>4, <1>6, <1>7
  <2> HIDE DEF t
  <2> QED BY <1>1, <2>1, <2>2 DEF Split
<1>8. CASE ~ loss > r.drawdown
  <2> DEFINE t == [r EXCEPT !.peak = peak]
  <2>1. /\ t.peak = peak /\ t.drawdown = r.drawdown /\ t.book = r.book /\ t.pauses = r.pauses
        /\ t.exposure = r.exposure /\ t.grossProfit = r.grossProfit /\ t.grossLoss = r.grossLoss
    BY ONLY <1>5 DEF Reports
  <2>2. t \in Reports /\ ObserveEquity(r) = t
    BY <1>4, <1>6, <1>8
  <2> HIDE DEF t
  <2> QED BY <1>1, <2>1, <2>2 DEF Split
<1> QED BY <1>7, <1>8

\* The equity is a number, and zero without a candle and a position.
LEMMA EquityIsNatural ==
    ASSUME LoopTypes
    PROVE  /\ Equity \in Nat
           /\ candles # <<>> => Current \in Rows /\ Equity = broker.cash + broker.position * Current.close
<1>1. broker.cash \in Nat /\ broker.position \in Nat
  BY DEF LoopTypes, Brokers
<1>2. candles # <<>> => Current \in Rows
  BY DEF LoopTypes, Current
<1>3. CASE candles = <<>>
  <2>1. Equity = broker.cash + broker.position * 0
    BY <1>3 DEF Equity
  <2> QED BY <1>1, <1>3, <2>1
<1>4. CASE candles # <<>>
  <2>1. Current.close \in Nat
    BY <1>2, <1>4 DEF Rows
  <2>2. Equity = broker.cash + broker.position * Current.close
    BY <1>4 DEF Equity
  <2>3. broker.position * Current.close \in Nat
    BY <1>1, <2>1
  <2> QED BY <1>1, <1>2, <1>4, <2>2, <2>3
<1> QED BY <1>3, <1>4

\* A row is read.
LEMMA NextRowKeeps ==
    ASSUME LoopInv, NEW candle \in Candle, NEW delta \in Spacing, NextRow(candle, delta)
    PROVE  LoopInv' /\ (MoneyInv => MoneyInv')
<1> DEFINE start == IF candles = <<>> THEN 0 ELSE Current.start + delta
           row == [start |-> start, open |-> candle.open, high |-> candle.high,
                   low |-> candle.low, close |-> candle.close]
           n == Len(candles)
<1>1. /\ candles \in Seq(Rows) /\ n \in Nat /\ n < MaxRows /\ MaxRows \in Nat
      /\ pc = "next" /\ pc' = "broker" /\ candles' = Append(candles, row)
      /\ UNCHANGED <<broker, fresh, book, baseline, day, status, queue, report, opening>>
      /\ gaps \in Nat
  <2>1. MaxRows \in Nat
    BY LoopNumbers
  <2> QED BY <2>1 DEF LoopInv, LoopTypes, NextRow
<1>2. candles # <<>> => delta > 0 /\ Current \in Rows
  BY <1>1 DEF NextRow, Aligned, Current
<1>3. start \in Nat /\ (candles # <<>> => start >= Current.start)
  <2>1. delta \in Int
    BY LoopNumbers
  <2>2. candles # <<>> => Current.start \in Nat
    BY <1>2 DEF Rows
  <2> QED BY <1>2, <2>1, <2>2
<1>4. row \in Rows
  <2>1. candle \in [open : Nat \ {0}, high : Nat \ {0}, low : Nat \ {0}, close : Nat \ {0}]
    BY BacktestAssumption
  <2> HIDE DEF start
  <2> QED BY <1>3, <2>1 DEF Rows
<1>5. /\ candles' \in Seq(Rows) /\ Len(candles') = n + 1 /\ Current' = row /\ candles' # <<>>
      /\ \A k \in 1 .. n : candles'[k] = candles[k]
      /\ candles'[n + 1] = row
  <2> HIDE DEF row
  <2> QED BY <1>1, <1>4 DEF Current
<1>6. gaps' \in Nat
  BY <1>1 DEF NextRow
<1>7. LoopTypes'
  BY <1>1, <1>5, <1>6 DEF LoopInv, LoopTypes
<1>8. CandleInv'
  <2>1. ASSUME NEW k \in 1 .. n + 1 PROVE candles'[k].start <= row.start
    <3>1. CASE k = n + 1
      BY <1>3, <1>5, <3>1
    <3>2. CASE k # n + 1
      <4>1. k \in 1 .. n /\ candles # <<>>
        BY <1>1, <3>2
      <4>2. candles'[k] = candles[k] /\ candles[k] \in Rows
        BY <1>1, <1>5, <4>1
      <4>3. candles[k].start <= Current.start /\ Current.start \in Nat /\ candles[k].start \in Nat
        BY <1>2, <4>1, <4>2 DEF LoopInv, CandleInv, Rows
      <4> QED BY <1>3, <4>1, <4>2, <4>3
    <3> QED BY <3>1, <3>2
  <2> HIDE DEF row
  <2> QED BY <1>1, <1>5, <2>1 DEF CandleInv
<1>9. TouchInv'
  <2> SUFFICES ASSUME NEW i \in Ids, NEW k \in 1 .. n + 1, Waiting(broker.orders[i]),
                      ~ Untried(k)', candles'[k].start >= broker.orders[i].cause
               PROVE  Missed(candles'[k], broker.orders[i])
    BY <1>1, <1>5 DEF TouchInv
  <2>1. k \in 1 .. n
    BY <1>1, <1>5 DEF Untried
  <2>2. ~ Untried(k)
    BY <1>1 DEF Untried
  <2> QED BY <1>5, <2>1, <2>2 DEF LoopInv, TouchInv
<1>10. BooksInv'
  BY <1>1, <1>5 DEF LoopInv, BooksInv, Settled, Agree, Split
<1>11. StatusInv'
  BY <1>1 DEF LoopInv, StatusInv
<1>12. MoneyInv => MoneyInv'
  BY <1>1 DEF MoneyInv, Settled, Balanced
<1> QED BY <1>7, <1>8, <1>9, <1>10, <1>11, <1>12 DEF LoopInv

\* A step that changes nothing but where the loop is, and does not try orders.
LEMMA MovesOn ==
    ASSUME LoopInv,
           \/ pc = "next" /\ pc' \in {"failed", "done"}
           \/ pc = "signals" /\ pc' = "failed"
           \/ pc = "broker" /\ pc' = "failed"
           \/ UNCHANGED pc,
           UNCHANGED <<candles, gaps, broker, fresh, book, baseline, day, status, queue, report, opening>>
    PROVE  LoopInv' /\ (MoneyInv => MoneyInv')
<1>1. LoopTypes'
  BY DEF LoopInv, LoopTypes
<1>2. CandleInv'
  BY DEF LoopInv, CandleInv, Current
<1>3. TouchInv'
  BY DEF LoopInv, TouchInv, Untried, Missed, Waiting
<1>4. BooksInv'
  BY DEF LoopInv, BooksInv, Settled, Agree, Split, Kept, BookAfter, ReportAfter, Exposed, Current
<1>5. StatusInv'
  BY DEF LoopInv, StatusInv
<1>6. MoneyInv => MoneyInv'
  BY DEF MoneyInv, Settled, Balanced, BookAfter
<1> QED BY <1>1, <1>2, <1>3, <1>4, <1>5, <1>6 DEF LoopInv

\* At the broker an event can begin.
LEMMA EventBegins ==
    ASSUME LoopInv, pc = "broker"
    PROVE  EventInv
<1>1. HasCandle
  BY DEF LoopInv, LoopTypes, CandleInv, HasCandle
<1>2. Agree(book, report.book, broker) /\ Split(report)
  BY DEF LoopInv, BooksInv
<1>3. broker \in Brokers /\ book \in Books
  BY DEF LoopInv, LoopTypes
<1> QED BY <1>1, <1>2, <1>3, ExposedReport DEF EventInv

\* The event goes to the broker.
LEMMA OnMarketEventKeeps ==
    ASSUME LoopInv, OnMarketEvent
    PROVE  LoopInv' /\ (MoneyInv /\ AveragesWhole' => MoneyInv')
<1> DEFINE after == Fills(MaxOrders)
<1>1. /\ pc = "broker" /\ UNCHANGED <<candles, gaps, book, baseline, day, status, queue, report, opening>>
      /\ \/ after.failed /\ pc' = "failed" /\ UNCHANGED <<broker, fresh>>
         \/ ~ after.failed /\ pc' = "observe" /\ broker' = after.broker /\ fresh' = after.executions
  BY DEF OnMarketEvent
<1>2. EventInv /\ HasCandle
  BY <1>1, EventBegins DEF EventInv
<1>3. after \in FillStates /\ Carried(after) /\ OrdersLeft(after, MaxOrders)
  BY <1>2, AllOrders DEF After
<1> HIDE DEF after
<1>4. CASE after.failed /\ pc' = "failed" /\ UNCHANGED <<broker, fresh>>
  BY <1>1, <1>4, MovesOn
<1>5. CASE ~ after.failed /\ pc' = "observe" /\ broker' = after.broker /\ fresh' = after.executions
  <2>0. Current' = Current /\ Current \in Rows
    BY <1>1, <1>2 DEF Current, HasCandle
  <2>1. LoopTypes'
    BY <1>1, <1>3, <1>5 DEF LoopInv, LoopTypes, FillStates
  <2>2. CandleInv'
    BY <1>1, <1>5, <2>0 DEF LoopInv, CandleInv
  <2>3. TouchInv'
    <3> SUFFICES ASSUME NEW i \in Ids, NEW k \in 1 .. Len(candles), Waiting(after.broker.orders[i]),
                        candles[k].start >= after.broker.orders[i].cause
                 PROVE  Missed(candles[k], after.broker.orders[i])
      BY <1>1, <1>5 DEF TouchInv, Untried
    <3> DEFINE o == broker.orders[i]
    <3>1. after.broker.orders[i] = o /\ i <= MaxOrders
      BY <1>3 DEF OrdersLeft, Ids
    <3>2. Waits(o) \/ ~ Touched(o)
      BY <1>3, <1>5, <3>1 DEF OrdersLeft
    <3>3. o \in Order /\ candles[k] \in Rows
      BY <3>1 DEF LoopInv, LoopTypes, Brokers, Waiting
    <3>4. o.cause \in Nat /\ candles[k].start \in Nat /\ Current.start \in Nat
          /\ o.side \in {"buy", "sell"} /\ o.limit \in (Nat \ {0}) \cup {None}
          /\ Current.low \in Nat /\ Current.high \in Nat
      BY <2>0, <3>3 DEF Order, Rows
    <3>5. candles[k].start <= Current.start
      BY DEF LoopInv, CandleInv
    <3>6. ~ Touched(o)
      BY <3>1, <3>2, <3>4, <3>5 DEF Waits
    <3>7. CASE k = Len(candles)
      <4>1. candles[k] = Current
        BY <3>7 DEF Current
      <4>2. o.limit # None
        BY <3>6 DEF Touched
      <4>3. o.limit \in Nat
        BY <3>4, <4>2
      <4>4. Missed(Current, o)
        <5>1. CASE o.side = "buy"
          <6>1. ~ Current.low <= o.limit
            BY <3>6, <4>2, <5>1 DEF Touched
          <6> QED BY <3>4, <4>2, <4>3, <5>1, <6>1 DEF Missed
        <5>2. CASE o.side = "sell"
          <6>1. ~ Current.high >= o.limit
            BY <3>6, <4>2, <5>2 DEF Touched
          <6> QED BY <3>4, <4>2, <4>3, <5>2, <6>1 DEF Missed
        <5> QED BY <3>4, <5>1, <5>2
      <4> QED BY <3>1, <4>1, <4>4
    <3>8. CASE k # Len(candles)
      <4>1. ~ Untried(k)
        BY <3>8 DEF Untried
      <4> QED BY <3>1, <4>1 DEF LoopInv, TouchInv
    <3> QED BY <3>7, <3>8
  <2>4. /\ BookAfter(fresh)' = BookAfter(after.executions)
        /\ ReportAfter(fresh)' = ReportAfter(after.executions)
        /\ Exposed(report)' = Exposed(report)
    BY <1>1, <1>5, <2>0 DEF BookAfter, ReportAfter, Exposed
  <2>5. BooksInv'
    BY <1>1, <1>2, <1>3, <1>5, <2>4 DEF BooksInv, Settled, Carried, HasCandle, Agree, Split, Kept
  <2>6. StatusInv'
    BY <1>1 DEF LoopInv, StatusInv
  <2>7. MoneyInv /\ AveragesWhole' => MoneyInv'
    <3> SUFFICES ASSUME MoneyInv, AveragesWhole' PROVE MoneyInv'
      OBVIOUS
    <3>1. WholeIn(after.executions)
      BY <1>1, <1>5 DEF AveragesWhole, WholeIn, WholeFill, BookAfter
    <3>2. Balanced(book, broker)
      BY <1>1 DEF MoneyInv
    <3>3. Balanced(BookAfter(after.executions), after.broker)
      BY <1>3, <3>1, <3>2 DEF Carried
    <3> QED BY <1>1, <1>5, <2>4, <3>3 DEF MoneyInv, Settled, Balanced
  <2> QED BY <2>1, <2>2, <2>3, <2>5, <2>6, <2>7 DEF LoopInv
<1> QED BY <1>1, <1>4, <1>5

\* Marking a book to the market.
LEMMA MarkedBook ==
    ASSUME NEW b \in Books, NEW p \in Int
    PROVE  LET m == MarkToMarket(b, p)
           IN  /\ m \in Books /\ m.position = b.position /\ m.average = b.average
               /\ m.realized = b.realized /\ m.commissions = b.commissions
               /\ m.unrealized = (p - b.average) * b.position
<1> DEFINE u == (p - b.average) * b.position
<1>1. u \in Int
  BY DEF Books
<1>2. MarkToMarket(b, p) = [b EXCEPT !.unrealized = u]
  BY DEF MarkToMarket
<1> HIDE DEF u
<1>3. [b EXCEPT !.unrealized = u] \in Books
  BY <1>1 DEF Books
<1>4. /\ [b EXCEPT !.unrealized = u].unrealized = u
      /\ [b EXCEPT !.unrealized = u].position = b.position
      /\ [b EXCEPT !.unrealized = u].average = b.average
      /\ [b EXCEPT !.unrealized = u].realized = b.realized
      /\ [b EXCEPT !.unrealized = u].commissions = b.commissions
  BY ONLY b \in Books DEF Books
<1> QED BY <1>2, <1>3, <1>4 DEF u

\* The equity is the cash put in and the total of a balanced and marked book.
LEMMA EquityOfBook ==
    ASSUME LoopTypes, HasCandle, NEW b \in Books, Balanced(b, broker),
           b.position = broker.position,
           b.unrealized = (Current.close - b.average) * b.position
    PROVE  Equity - InitialCash = Total(b)
<1> DEFINE pos == b.position
           avg == b.average
           close == Current.close
<1>1. Current \in Rows /\ Equity = broker.cash + pos * close
  BY EquityIsNatural DEF HasCandle
<1>2. /\ pos \in Int /\ avg \in Int /\ b.realized \in Int /\ b.commissions \in Int
      /\ b.unrealized \in Int
  BY DEF Books
<1>3. close \in Int
  BY <1>1 DEF Rows
<1>4. broker.cash - InitialCash = b.realized - avg * pos - b.commissions
  BY DEF Balanced
<1>5. b.unrealized = (close - avg) * pos
  OBVIOUS
<1>6. broker.cash \in Int /\ InitialCash \in Int
  <2>1. broker.cash \in Int
    BY DEF LoopTypes, Brokers
  <2>2. InitialCash \in Int
    BY LoopNumbers
  <2> QED BY <2>1, <2>2
<1> HIDE DEF pos, avg, close
<1>7. (close - avg) * pos = pos * close - avg * pos
  BY <1>2, <1>3
<1> DEFINE x == pos * close
           y == avg * pos
<1>8. x \in Int /\ y \in Int
  BY <1>2, <1>3
<1>9. /\ Equity = broker.cash + x /\ broker.cash - InitialCash = b.realized - y - b.commissions
      /\ b.unrealized = x - y
  BY <1>1, <1>4, <1>5, <1>7
<1> HIDE DEF x, y
<1>10. Equity - InitialCash = b.realized + b.unrealized - b.commissions
  BY ONLY <1>2, <1>6, <1>8, <1>9
<1> QED BY <1>10 DEF Total

\* The risk and the report see the event.
LEMMA ObserveEventKeeps ==
    ASSUME LoopInv, ObserveEvent
    PROVE  LoopInv' /\ (MoneyInv => MoneyInv')
<1> DEFINE booked == BookAfter(fresh)
           reported == ReportAfter(fresh)
           marked == MarkToMarket(booked, Current.close)
           base == IF day # Today THEN marked ELSE baseline
           shot == [status |-> status, day |-> Today, position |-> marked.position,
                    mark |-> Current.close, daily |-> Delta(marked, base)]
           decision == Observe(shot, Today)
           seen == ObserveEquity(reported)
<1>1. /\ pc = "observe" /\ pc' = "strategy"
      /\ UNCHANGED <<candles, gaps, broker, fresh, queue>>
      /\ opening' = IF day # Today THEN Equity ELSE opening
  BY DEF ObserveEvent
<1>2. /\ book' = marked /\ baseline' = base
      /\ status' = StatusAfter(status, decision)
      /\ report' = [seen EXCEPT !.pauses = @ + CountPause(decision)]
  BY DEF ObserveEvent, RiskObserve, ReportObserve, BookAfter, ReportAfter
<1>3. HasCandle /\ LoopTypes /\ book \in Books /\ report \in Reports /\ fresh \in Seq(Executions)
  BY <1>1 DEF LoopInv, LoopTypes, CandleInv, HasCandle
<1>4. Current \in Rows /\ Equity \in Nat /\ Current.close \in Int
  BY <1>3, EquityIsNatural DEF HasCandle, Rows
<1>5. Exposed(report) \in Reports /\ Exposed(report).pauses = report.pauses
      /\ Exposed(report).peak = report.peak /\ Exposed(report).drawdown = report.drawdown
      /\ Exposed(report).exposure \in Nat
  BY <1>3, ExposedReport
<1>6. booked \in Books /\ reported \in Reports
  <2>1. \A s \in Seq(Executions), e \in Executions : FoldLeft(ApplyExecution, book, s) \in Books
    BY <1>3, BookLaws
  <2>2. \A s \in Seq(Executions), e \in Executions : FoldLeft(ReportFill, Exposed(report), s) \in Reports
    BY <1>5, ReportLaws
  <2>3. \E e : e \in Executions
    <3>1. [id |-> 0, side |-> "buy", quantity |-> 1, price |-> 1, commission |-> 0] \in Executions
      BY DEF Executions
    <3> QED BY <3>1
  <2> QED BY <1>3, <2>1, <2>2, <2>3 DEF BookAfter, ReportAfter
<1>7. /\ Agree(booked, reported.book, broker) /\ Split(reported)
      /\ Kept(reported, Exposed(report))
  BY <1>1 DEF LoopInv, BooksInv
<1>8. reported.pauses = report.pauses /\ reported.peak \in Nat /\ reported.drawdown \in Nat
      /\ reported.exposure \in Nat
  BY <1>3, <1>5, <1>7 DEF Kept, LoopTypes
<1> HIDE DEF booked, reported
<1>9. /\ marked \in Books /\ marked.position = booked.position /\ marked.average = booked.average
      /\ marked.realized = booked.realized /\ marked.commissions = booked.commissions
      /\ marked.unrealized = (Current.close - booked.average) * booked.position
  BY <1>4, <1>6, MarkedBook
<1>10. /\ seen \in Reports /\ seen.peak \in Nat /\ seen.drawdown \in Nat
       /\ seen.book = reported.book /\ seen.pauses = report.pauses /\ seen.exposure \in Nat
       /\ Split(seen)
  BY <1>4, <1>6, <1>7, <1>8, EquityObserved
<1> HIDE DEF marked, seen
<1>11. base \in Books
  BY <1>3, <1>9 DEF LoopTypes
<1>12. decision = IF status # Running THEN "reject"
                  ELSE IF LossReached(Delta(marked, base)) THEN "pause" ELSE "allow"
  BY DEF Observe
<1> HIDE DEF base, shot, decision
<1>13. CountPause(decision) \in Int /\ seen.pauses \in Int
  BY <1>10 DEF CountPause, Reports
<1> DEFINE counted == seen.pauses + CountPause(decision)
<1>14. counted \in Int /\ report' = [seen EXCEPT !.pauses = counted]
  BY <1>2, <1>13
<1> HIDE DEF counted
<1>15. report' \in Reports
  <2>1. [seen EXCEPT !.pauses = counted] \in Reports
    BY ONLY <1>10, <1>14 DEF Reports
  <2> QED BY <1>14, <2>1
<1>16. /\ report'.pauses = counted /\ report'.peak = seen.peak /\ report'.drawdown = seen.drawdown
       /\ report'.exposure = seen.exposure /\ report'.book = seen.book
       /\ report'.grossProfit = seen.grossProfit /\ report'.grossLoss = seen.grossLoss
  BY ONLY <1>10, <1>14 DEF Reports
<1>17. Current' = Current /\ Equity' = Equity
  BY <1>1 DEF Current, Equity
<1>18. status' \in {Running, Paused}
  BY <1>2, <1>3 DEF LoopTypes, StatusAfter
<1>19. LoopTypes'
  <2>1. opening' \in Int
    BY <1>1, <1>3, <1>4 DEF LoopTypes
  <2> QED BY <1>1, <1>2, <1>3, <1>9, <1>10, <1>11, <1>15, <1>16, <1>18, <2>1 DEF LoopTypes
<1>20. CandleInv'
  BY <1>1, <1>17 DEF LoopInv, CandleInv
<1>21. TouchInv'
  BY <1>1 DEF LoopInv, TouchInv, Untried
<1>22. BooksInv'
  <2>1. Agree(marked, report'.book, broker) /\ Split(report')
    BY <1>7, <1>9, <1>10, <1>16 DEF Agree, Split
  <2>2. marked.unrealized = (Current.close - marked.average) * marked.position
    BY <1>9
  <2> QED BY <1>1, <1>2, <1>3, <1>17, <2>1, <2>2 DEF BooksInv, Settled, Agree, Split, HasCandle
<1>23. StatusInv'
  <2>1. status \in {Running, Paused} /\ seen.pauses = IF status = Paused THEN 1 ELSE 0
    BY <1>3, <1>10 DEF LoopTypes, LoopInv, StatusInv
  <2>2. counted = seen.pauses + CountPause(decision)
    BY DEF counted
  <2>3. CASE status = Running /\ LossReached(Delta(marked, base))
    <3>1. decision = "pause" /\ status' = Paused /\ counted = 1
      BY <1>2, <1>12, <2>1, <2>2, <2>3 DEF StatusAfter, CountPause, Running, Paused
    <3> QED BY <1>16, <3>1 DEF StatusInv, Running, Paused
  <2>4. CASE ~ (status = Running /\ LossReached(Delta(marked, base)))
    <3>1. decision # "pause"
      BY <1>12, <2>4
    <3>2. status' = status /\ counted = seen.pauses
      BY <1>2, <1>13, <2>2, <3>1 DEF StatusAfter, CountPause
    <3> QED BY <1>2, <1>16, <2>1, <2>4, <3>2 DEF StatusInv
  <2> QED BY <2>3, <2>4
<1>24. MoneyInv => MoneyInv'
  <2> SUFFICES ASSUME MoneyInv PROVE MoneyInv'
    OBVIOUS
  <2>1. Balanced(booked, broker) /\ Total(baseline) = opening - InitialCash
    BY <1>1 DEF MoneyInv, booked
  <2>2. Balanced(marked, broker)
    BY <1>9, <2>1 DEF Balanced
  <2>3. marked.position = broker.position
    BY <1>7, <1>9 DEF Agree
  <2>4. Equity - InitialCash = Total(marked)
    BY <1>3, <1>9, <2>2, <2>3, EquityOfBook
  <2>5. Total(base) = opening' - InitialCash
    BY <1>1, <2>1, <2>4 DEF base
  <2> QED BY <1>1, <1>2, <2>2, <2>5 DEF MoneyInv, Settled, Balanced
<1> QED BY <1>19, <1>20, <1>21, <1>22, <1>23, <1>24 DEF LoopInv

\* Who still trades has not reached the limit, so no signal pauses.
LEMMA NoPause ==
    ASSUME LoopInv, Len(queue) > 0
    PROVE  /\ Decision # "pause"
           /\ Decision = "allow" => status = Running
<1> DEFINE shot == Snapshot(Delta(book, baseline))
<1>1. shot.day = Today /\ shot.status = status /\ shot.daily = Delta(book, baseline)
  BY DEF Snapshot, Today
<1>2. status = Running => ~ LossReached(Delta(book, baseline))
  BY DEF LoopInv, StatusInv
<1> HIDE DEF shot
<1>3. Observe(shot, Today) = IF status = Running THEN "allow" ELSE "reject"
  BY <1>1, <1>2 DEF Observe
<1>4. Decision = IF Observe(shot, Today) = "allow" /\ TooLarge(Head(queue), shot)
                 THEN "reject" ELSE Observe(shot, Today)
  BY DEF Decision, Evaluate, shot
<1> QED BY <1>3, <1>4

\* The strategy answers.
LEMMA OnEventKeeps ==
    ASSUME LoopInv, NEW signals \in BoundedSeq(Draft, MaxSignals), OnEvent(signals)
    PROVE  LoopInv' /\ (MoneyInv => MoneyInv')
<1>1. /\ pc = "strategy" /\ pc' = "signals" /\ queue' = signals
      /\ UNCHANGED <<candles, gaps, broker, fresh, book, baseline, day, status, report, opening>>
  BY DEF OnEvent
<1>2. signals \in Seq(Draft)
  BY DEF BoundedSeq, SeqOf
<1>3. LoopTypes'
  BY <1>1, <1>2 DEF LoopInv, LoopTypes
<1>4. CandleInv'
  BY <1>1 DEF LoopInv, CandleInv, Current
<1>5. TouchInv'
  BY <1>1 DEF LoopInv, TouchInv, Untried
<1>6. BooksInv'
  BY <1>1 DEF LoopInv, BooksInv, Settled, Agree, Split, Current
<1>7. StatusInv'
  BY <1>1 DEF LoopInv, StatusInv
<1>8. MoneyInv => MoneyInv'
  BY <1>1 DEF MoneyInv, Settled, Balanced
<1> QED BY <1>3, <1>4, <1>5, <1>6, <1>7, <1>8 DEF LoopInv

\* A signal is refused.
LEMMA RefuseKeeps ==
    ASSUME LoopInv, Refuse
    PROVE  LoopInv' /\ (MoneyInv => MoneyInv')
<1>1. /\ pc = "signals" /\ queue # <<>> /\ queue' = Tail(queue)
      /\ status' = StatusAfter(status, Decision)
      /\ report' = [report EXCEPT !.rejections = @ + 1]
      /\ UNCHANGED <<pc, candles, gaps, broker, fresh, book, baseline, day, opening>>
  BY DEF Refuse
<1>2. /\ queue \in Seq(Draft) /\ report \in Reports
  BY DEF LoopInv, LoopTypes
<1>3. Len(queue) > 0 /\ queue' \in Seq(Draft)
  BY <1>1, <1>2
<1>4. status' = status
  BY <1>1, <1>3, NoPause DEF StatusAfter
<1> DEFINE more == report.rejections + 1
<1>5. more \in Int /\ report' = [report EXCEPT !.rejections = more]
  BY <1>1, <1>2 DEF Reports
<1> HIDE DEF more
<1>6. report' \in Reports
  <2>1. [report EXCEPT !.rejections = more] \in Reports
    BY ONLY <1>2, <1>5 DEF Reports
  <2> QED BY <1>5, <2>1
<1>7. /\ report'.pauses = report.pauses /\ report'.peak = report.peak
      /\ report'.drawdown = report.drawdown
      /\ report'.exposure = report.exposure /\ report'.book = report.book
      /\ report'.grossProfit = report.grossProfit /\ report'.grossLoss = report.grossLoss
  BY ONLY <1>2, <1>5 DEF Reports
<1>8. LoopTypes'
  BY <1>1, <1>3, <1>4, <1>6, <1>7 DEF LoopInv, LoopTypes
<1>9. CandleInv'
  BY <1>1 DEF LoopInv, CandleInv, Current
<1>10. TouchInv'
  BY <1>1 DEF LoopInv, TouchInv, Untried
<1>11. BooksInv'
  BY <1>1, <1>7 DEF LoopInv, BooksInv, Settled, Agree, Split, Current
<1>12. StatusInv'
  BY <1>1, <1>4, <1>7 DEF LoopInv, StatusInv
<1>13. MoneyInv => MoneyInv'
  BY <1>1 DEF MoneyInv, Settled, Balanced
<1> QED BY <1>8, <1>9, <1>10, <1>11, <1>12, <1>13 DEF LoopInv

\* A signal becomes an order, caused by the end of its candle.
LEMMA SubmitKeeps ==
    ASSUME LoopInv, NEW id \in Ids, Submit(id)
    PROVE  LoopInv' /\ (MoneyInv => MoneyInv')
<1> DEFINE o == Requested(Head(queue))
<1>1. /\ pc = "signals" /\ queue # <<>> /\ queue' = Tail(queue)
      /\ broker' = [broker EXCEPT !.orders[id] = o]
      /\ UNCHANGED <<pc, candles, gaps, fresh, book, baseline, day, status, report, opening>>
  BY DEF Submit
<1>2. queue \in Seq(Draft) /\ broker \in Brokers /\ HasCandle
  BY <1>1 DEF LoopInv, LoopTypes, CandleInv, HasCandle
<1>3. Head(queue) \in Draft /\ queue' \in Seq(Draft)
  BY <1>1, <1>2
<1>4. Current \in Rows /\ End(Current) = Current.start + Interval /\ Interval \in Nat \ {0}
  BY <1>2, LoopNumbers DEF HasCandle, Current, End
<1>5. o \in Order /\ o.cause = End(Current)
  <2>1. Head(queue) \in [action : {"buy", "sell", "close"}, quantity : Nat \ {0},
                         limit : (Nat \ {0}) \cup {None}]
    BY <1>3, BacktestAssumption
  <2>2. End(Current) \in Nat
    BY <1>4 DEF Rows
  <2> QED BY <2>1, <2>2 DEF Requested, Order
<1> HIDE DEF o
<1> DEFINE orders == [broker.orders EXCEPT ![id] = o]
<1>6. orders \in [Ids -> Order \cup {None}] /\ broker' = [broker EXCEPT !.orders = orders]
  BY <1>1, <1>2, <1>5 DEF Brokers
<1>7. \A i \in Ids : orders[i] = IF i = id THEN o ELSE broker.orders[i]
  BY <1>2 DEF Brokers
<1> HIDE DEF orders
<1>8. /\ broker' \in Brokers /\ broker'.orders = orders /\ broker'.cash = broker.cash
      /\ broker'.position = broker.position /\ broker'.commissions = broker.commissions
  BY <1>2, <1>6 DEF Brokers
<1>9. LoopTypes'
  BY <1>1, <1>3, <1>8 DEF LoopInv, LoopTypes
<1>10. CandleInv'
  BY <1>1, <1>8 DEF LoopInv, CandleInv, Current
<1>11. TouchInv'
  <2> SUFFICES ASSUME NEW i \in Ids, NEW k \in 1 .. Len(candles), Waiting(orders[i]),
                      candles[k].start >= orders[i].cause
               PROVE  Missed(candles[k], orders[i])
    BY <1>1, <1>8 DEF TouchInv
  <2>1. CASE i = id
    <3>1. candles[k] \in Rows
      BY <1>2 DEF HasCandle
    <3>2. candles[k].start <= Current.start
      BY DEF LoopInv, CandleInv
    <3>3. candles[k].start \in Nat /\ Current.start \in Nat
      BY <1>4, <3>1 DEF Rows
    <3>4. candles[k].start >= Current.start + Interval
      BY <1>4, <1>5, <1>7, <2>1
    <3> QED BY <1>4, <3>2, <3>3, <3>4
  <2>2. CASE i # id
    <3>1. ~ Untried(k)
      BY <1>1 DEF Untried
    <3> QED BY <1>7, <2>2, <3>1 DEF LoopInv, TouchInv
  <2> QED BY <2>1, <2>2
<1>12. BooksInv'
  BY <1>1, <1>8 DEF LoopInv, BooksInv, Settled, Agree, Split, Current
<1>13. StatusInv'
  BY <1>1 DEF LoopInv, StatusInv
<1>14. MoneyInv => MoneyInv'
  BY <1>1, <1>8 DEF MoneyInv, Settled, Balanced
<1> QED BY <1>9, <1>10, <1>11, <1>12, <1>13, <1>14 DEF LoopInv

\* The event is over.
LEMMA EventDoneKeeps ==
    ASSUME LoopInv, EventDone
    PROVE  LoopInv' /\ (MoneyInv => MoneyInv')
<1>1. /\ pc = "signals" /\ pc' = "next" /\ fresh' = <<>> /\ report' = ObserveEquity(report)
      /\ UNCHANGED <<candles, gaps, broker, book, baseline, day, status, queue, opening>>
  BY DEF EventDone
<1>2. LoopTypes /\ report \in Reports /\ report.peak \in Nat /\ report.drawdown \in Nat
      /\ report.exposure \in Nat
  BY DEF LoopInv, LoopTypes
<1>3. Equity \in Nat
  BY <1>2, EquityIsNatural
<1>4. /\ report' \in Reports /\ report'.peak \in Nat /\ report'.drawdown \in Nat
      /\ report'.book = report.book /\ report'.pauses = report.pauses
      /\ report'.exposure = report.exposure
      /\ Split(report) => Split(report')
  BY <1>1, <1>2, <1>3, EquityObserved
<1>5. LoopTypes'
  BY <1>1, <1>2, <1>4 DEF LoopTypes
<1>6. CandleInv'
  BY <1>1 DEF LoopInv, CandleInv, Current
<1>7. TouchInv'
  BY <1>1 DEF LoopInv, TouchInv, Untried
<1>8. BooksInv'
  <2>1. Agree(book, report'.book, broker) /\ Split(report')
    BY <1>1, <1>4 DEF LoopInv, BooksInv, Settled
  <2> QED BY <1>1, <2>1 DEF LoopInv, BooksInv, Settled, Agree, Split, Current
<1>9. StatusInv'
  BY <1>1, <1>4 DEF LoopInv, StatusInv
<1>10. MoneyInv => MoneyInv'
  BY <1>1 DEF MoneyInv, Settled, Balanced
<1> QED BY <1>5, <1>6, <1>7, <1>8, <1>9, <1>10 DEF LoopInv

\* Every step of the loop.
LEMMA LoopStep ==
    ASSUME LoopInv, [LoopNext]_loopVars
    PROVE  LoopInv' /\ (MoneyInv /\ AveragesWhole' => MoneyInv')
<1>1. ASSUME NEW candle \in Candle, NEW delta \in Spacing, NextRow(candle, delta)
      PROVE  LoopInv' /\ (MoneyInv => MoneyInv')
  BY <1>1, NextRowKeeps
<1>2. ASSUME NEW delta \in Spacing, RowRefused(delta) PROVE LoopInv' /\ (MoneyInv => MoneyInv')
  BY <1>2, MovesOn DEF RowRefused
<1>3. CASE OnMarketEvent
  BY <1>3, OnMarketEventKeeps
<1>4. CASE ObserveEvent
  BY <1>4, ObserveEventKeeps
<1>5. ASSUME NEW signals \in BoundedSeq(Draft, MaxSignals), OnEvent(signals)
      PROVE  LoopInv' /\ (MoneyInv => MoneyInv')
  BY <1>5, OnEventKeeps
<1>6. CASE Refuse
  BY <1>6, RefuseKeeps
<1>7. ASSUME NEW id \in Ids, Submit(id) PROVE LoopInv' /\ (MoneyInv => MoneyInv')
  BY <1>7, SubmitKeeps
<1>8. CASE SubmitRefused
  BY <1>8, MovesOn DEF SubmitRefused
<1>9. CASE EventDone
  BY <1>9, EventDoneKeeps
<1>10. CASE Finish
  BY <1>10, MovesOn DEF Finish
<1>11. CASE UNCHANGED loopVars
  BY <1>11, MovesOn DEF loopVars
<1> QED BY <1>1, <1>2, <1>3, <1>4, <1>5, <1>6, <1>7, <1>8, <1>9, <1>10, <1>11 DEF LoopNext
-----------------------------------------------------------------------------
(* The theorems *)

\* TouchedMeansFilled, for every candle, signal, interval, gap policy and number
\* of orders.
THEOREM NoOrderIsMissed == LoopSpec => []TouchedMeansFilled
<1>1. ASSUME LoopInv PROVE TouchedMeansFilled
  <2> SUFFICES ASSUME Settled, NEW i \in Ids, Waiting(broker.orders[i]), NEW n \in DOMAIN candles,
                      candles[n].start >= broker.orders[i].cause
               PROVE  Missed(candles[n], broker.orders[i])
    BY DEF TouchedMeansFilled, Missed
  <2>1. n \in 1 .. Len(candles)
    BY <1>1 DEF LoopInv, LoopTypes
  <2>2. ~ Untried(n)
    BY DEF Untried, Settled
  <2> QED BY <1>1, <2>1, <2>2 DEF LoopInv, TouchInv
<1> QED BY <1>1, LoopInitially, LoopStep, PTL DEF LoopSpec

\* The part of LedgersAgree that does not divide: risk and report make the same
\* of the broker's fills, also where an average is rounded, and count the pause.
THEOREM BooksAlwaysMatch ==
    LoopSpec => [](LoopTypeOK /\ PausesCounted /\ (Settled => BooksMatch))
<1>1. ASSUME LoopInv PROVE LoopTypeOK /\ PausesCounted /\ (Settled => BooksMatch)
  <2>1. LoopTypeOK
    BY <1>1 DEF LoopInv, LoopTypes, LoopTypeOK, Brokers
  <2>2. PausesCounted
    BY <1>1 DEF LoopInv, StatusInv, PausesCounted
  <2>3. Settled => BooksMatch
    BY <1>1 DEF LoopInv, BooksInv, Agree, Split, BooksMatch, Totals
  <2> QED BY <2>1, <2>2, <2>3
<1> QED BY <1>1, LoopInitially, LoopStep, PTL DEF LoopSpec

\* Balanced books add up.
LEMMA BalanceAddsUp == LoopInv /\ MoneyInv /\ Settled => AddsUp
<1> SUFFICES ASSUME LoopInv, MoneyInv, Settled PROVE AddsUp
  OBVIOUS
<1>1. /\ Agree(book, report.book, broker) /\ Balanced(book, broker)
      /\ candles # <<>> => book.unrealized = (Current.close - book.average) * book.position
      /\ book \in Books /\ report \in Reports /\ LoopTypes
  BY DEF LoopInv, BooksInv, MoneyInv, LoopTypes
<1>2. /\ Totals.total = Equity - InitialCash /\ Totals.realized = report.book.realized
      /\ Totals.unrealized = IF candles = <<>> THEN 0
                             ELSE MarkToMarket(report.book, Current.close).unrealized
  BY DEF Totals
<1>3. CASE candles = <<>>
  <2>1. broker.position = 0 /\ Equity = broker.cash + broker.position * 0
    BY <1>3 DEF LoopInv, CandleInv, Equity
  <2>2. book.position = 0 /\ broker.cash \in Int /\ book.average \in Int
    BY <1>1, <2>1 DEF Agree, LoopTypes, Brokers, Books
  <2>3. Equity = broker.cash /\ book.average * book.position = 0
    BY <2>1, <2>2
  <2>4. book.realized \in Int /\ book.commissions \in Int /\ InitialCash \in Int
    BY <1>1, LoopNumbers DEF Books
  <2>5. broker.cash - InitialCash = book.realized - 0 - book.commissions
    BY <1>1, <2>3 DEF Balanced
  <2>6. Totals.total = book.realized - book.commissions
    BY <1>2, <2>2, <2>3, <2>4, <2>5
  <2>7. Totals.realized = book.realized /\ Totals.unrealized = 0
    BY <1>1, <1>2, <1>3 DEF Agree
  <2> QED BY <1>1, <2>4, <2>6, <2>7 DEF AddsUp, Agree
<1>4. CASE candles # <<>>
  <2>1. Equity - InitialCash = Total(book)
    BY <1>1, <1>4, EquityOfBook DEF HasCandle, Agree, LoopTypes
  <2>2. Current.close \in Int /\ report.book \in Books
    BY <1>1, <1>4, EquityIsNatural DEF Rows, Reports
  <2>3. MarkToMarket(report.book, Current.close).unrealized
           = (Current.close - report.book.average) * report.book.position
    BY <2>2, MarkedBook
  <2>4. Totals.unrealized = book.unrealized /\ Totals.realized = book.realized
    BY <1>1, <1>2, <1>4, <2>3 DEF Agree
  <2> QED BY <1>1, <1>2, <2>1, <2>4 DEF AddsUp, Total, Agree
<1> QED BY <1>3, <1>4

\* LedgersAgree, for every value of the constants and every run whose averages
\* leave no remainder.
THEOREM LedgersAddUp == LoopSpec /\ []AveragesWhole => []LedgersAgree
<1>1. LoopInv /\ MoneyInv => LedgersAgree
  BY BalanceAddsUp DEF LedgersAgree, LoopInv, LoopTypes, LoopTypeOK, Brokers, StatusInv,
     PausesCounted, BooksInv, Agree, Split, BooksMatch, Totals
<1>2. LoopInv /\ [LoopNext]_loopVars => LoopInv' /\ (MoneyInv /\ AveragesWhole' => MoneyInv')
  BY LoopStep
<1> QED BY <1>1, <1>2, LoopInitially, PTL DEF LoopSpec

\* Where the limit counts the total result, a loss of equity that reaches it is
\* one the risk has seen.
LEMMA LimitIsSeen ==
    Mode = "total" /\ LoopInv /\ MoneyInv /\ LimitReached => status = Paused
<1> SUFFICES ASSUME Mode = "total", LoopInv, MoneyInv, LimitReached, status # Paused PROVE FALSE
  OBVIOUS
<1>1. status = Running /\ LoopTypes /\ book \in Books /\ baseline \in Books /\ opening \in Int
  BY DEF LoopInv, LoopTypes
<1>2. ~ LossReached(Delta(book, baseline))
  BY <1>1 DEF LoopInv, StatusInv
<1>3. Settled /\ MaxDailyLoss # None /\ Equity - opening <= -MaxDailyLoss
  BY DEF LimitReached
<1>4. DailyAmount(Delta(book, baseline)) = Total(book) - Total(baseline)
  BY <1>1 DEF DailyAmount, Delta, Total, Books
<1>5. Total(baseline) = opening - InitialCash
  BY DEF MoneyInv
<1>6. InitialCash \in Int /\ Equity \in Int
  BY <1>1, LoopNumbers, EquityIsNatural
<1>7. Equity - InitialCash = Total(book)
  <2>1. Agree(book, report.book, broker) /\ Balanced(book, broker)
    BY <1>3 DEF LoopInv, BooksInv, MoneyInv
  <2>2. CASE candles # <<>>
    <3>1. book.unrealized = (Current.close - book.average) * book.position
      BY <1>3, <2>2 DEF LoopInv, BooksInv
    <3> QED BY <1>1, <2>1, <2>2, <3>1, EquityOfBook DEF HasCandle, Agree, LoopTypes
  <2>3. CASE candles = <<>>
    <3>1. /\ broker.position = 0 /\ Equity = broker.cash + broker.position * 0
          /\ book.unrealized = 0
      BY <2>3 DEF LoopInv, CandleInv, BooksInv, Equity
    <3>2. /\ book.position = 0 /\ broker.cash \in Int /\ book.average \in Int
          /\ book.realized \in Int /\ book.commissions \in Int
      BY <1>1, <2>1, <3>1 DEF Agree, LoopTypes, Brokers, Books
    <3>3. Equity = broker.cash /\ book.average * book.position = 0
      BY <3>1, <3>2
    <3>4. broker.cash - InitialCash = book.realized - 0 - book.commissions
      BY <2>1, <3>3 DEF Balanced
    <3> QED BY <1>6, <3>1, <3>2, <3>3, <3>4 DEF Total
  <2> QED BY <2>2, <2>3
<1>8. DailyAmount(Delta(book, baseline)) = Equity - opening
  BY <1>1, <1>4, <1>5, <1>6, <1>7
<1> QED BY <1>2, <1>3, <1>8 DEF LossReached

\* A pause lasts, and nothing is submitted meanwhile.
LEMMA PauseLasts ==
    ASSUME LoopInv, [LoopNext]_loopVars, status = Paused
    PROVE  /\ status' = Paused
           /\ \A i \in Ids : broker.orders[i] = None => broker'.orders[i] = None
<1>1. CASE OnMarketEvent
  <2>1. EventInv
    BY <1>1, EventBegins DEF OnMarketEvent
  <2>2. OrdersLeft(Fills(MaxOrders), MaxOrders)
    BY <2>1, AllOrders DEF After
  <2>3. broker' = broker \/ broker' = Fills(MaxOrders).broker
    BY <1>1 DEF OnMarketEvent
  <2> QED BY <1>1, <2>2, <2>3 DEF OnMarketEvent, OrdersLeft
<1>2. ASSUME NEW id \in Ids, Submit(id) PROVE FALSE
  <2>1. queue \in Seq(Draft) /\ queue # <<>> /\ Decision = "allow"
    BY <1>2 DEF LoopInv, LoopTypes, Submit
  <2>2. status = Running
    BY <2>1, NoPause
  <2> QED BY <2>2 DEF Running, Paused
<1>3. CASE ObserveEvent
  BY <1>3 DEF ObserveEvent, RiskObserve, StatusAfter
<1>4. CASE Refuse
  BY <1>4 DEF Refuse, StatusAfter
<1>5. CASE UNCHANGED <<broker, status>>
  BY <1>5
<1> QED BY <1>1, <1>2, <1>3, <1>4, <1>5 DEF LoopNext, loopVars, NextRow, RowRefused, OnEvent,
       SubmitRefused, EventDone, Finish

\* LossEndsTrading for every value of the other constants, where the limit
\* counts the total result and the averages leave no remainder.
THEOREM LossesEndTrading ==
    ASSUME Mode = "total"
    PROVE  LoopSpec /\ []AveragesWhole => LossEndsTrading
<1>1. /\ LoopInv /\ LoopInv' /\ MoneyInv' /\ [LoopNext]_loopVars
      => [/\ LimitReached' => status' = Paused
          /\ status = Paused =>
                 /\ status' = Paused
                 /\ \A i \in Ids : broker.orders[i] = None => broker'.orders[i] = None]_loopVars
  <2> SUFFICES ASSUME LoopInv, LoopInv', MoneyInv', [LoopNext]_loopVars
               PROVE  /\ LimitReached' => status' = Paused
                      /\ status = Paused =>
                             /\ status' = Paused
                             /\ \A i \in Ids : broker.orders[i] = None => broker'.orders[i] = None
    OBVIOUS
  <2>1. (LoopInv /\ MoneyInv /\ LimitReached => status = Paused)'
    BY LimitIsSeen, PTL
  <2> QED BY <2>1, PauseLasts
<1>2. LoopInv /\ [LoopNext]_loopVars => LoopInv' /\ (MoneyInv /\ AveragesWhole' => MoneyInv')
  BY LoopStep
<1> QED BY <1>1, <1>2, LoopInitially, PTL DEF LoopSpec, LossEndsTrading
-----------------------------------------------------------------------------
(* The processes around a run *)

\* From a copy of the dataset to the end of the run.
Copying == {"snapshot", "prepared", "started", "write", "publish", "executed"}
Open    == {"started", "write", "publish", "executed", "hash", "finish"}
Ended   == {"write", "publish", "executed", "hash", "finish"}

\* The run in hand is one of the plan, and its copy of the dataset is there while it is used.
PlanInv(p) ==
    /\ \A i \in 1 .. Len(proc[p].todo) : proc[p].todo[i] \in ToSet(Plan[p])
    /\ proc[p].pc \notin {"idle", "done", "crashed"} => proc[p].todo # <<>>
    /\ proc[p].pc \in Copying => proc[p].snapshot \in Data
    /\ proc[p].pc \in {"idle", "hash", "finish", "done", "stopped"} => proc[p].snapshot = Nothing

\* A process has at most the temporary file it is about to rename.
TempInv(p) ==
    /\ proc[p].pc \notin {"publish", "crashed"} => \A k \in Kind : <<p, k>> \notin temps
    /\ proc[p].pc = "publish" => \A k \in Kind : <<p, k>> \in temps => k = NextKind(p)

\* The row a process opened, and that it can still close while the row is running.
RowInv(p) ==
    /\ proc[p].pc \in {"idle", "snapshot", "prepared"} => proc[p].row = Nothing
    /\ proc[p].pc \in Open => proc[p].row # Nothing /\ proc[p].row[1] = Run(p)
    /\ proc[p].row # Nothing =>
          /\ proc[p].row \in DOMAIN rows
          /\ rows[proc[p].row].status = "running" => rows[proc[p].row].revision = proc[p].revision
    /\ proc[p].pc \in Open \ {"hash", "finish"} => rows[proc[p].row].data = proc[p].snapshot

\* A completed run with a manifest has been compared with it.
DescribedInv(p) ==
    /\ proc[p].expected \in described \cup {Nothing}
    /\ proc[p].pc \in {"prepared", "started"} /\ Run(p) \in HasManifest => proc[p].expected # Nothing
    /\ proc[p].pc \in {"write", "publish", "hash"} => proc[p].status = "completed"
    /\ proc[p].pc \in {"executed", "finish"} => proc[p].status # "running"
    /\ proc[p].pc \in Ended /\ proc[p].status = "completed" /\ Run(p) \in HasManifest
          => rows[proc[p].row].data \in described

\* What is written is there, what is hashed was there, and a failed run has hashed nothing.
OutputInv(p) ==
    /\ proc[p].pc \in {"write", "publish"} =>
          \A k \in Kinds[Run(p)] \ proc[p].left : files[Output(p)][k] # Nothing
    /\ proc[p].pc \in {"executed", "hash"} /\ proc[p].status = "completed" =>
          \A k \in Kinds[Run(p)] : files[Output(p)][k] # Nothing
    /\ proc[p].pc \in {"hash", "finish"} =>
          \A k \in DOMAIN proc[p].hashed : proc[p].hashed[k] \notin {Nothing, Partial}
    /\ proc[p].pc = "hash" => Unhashed(p) # {} /\ DOMAIN proc[p].hashed \subseteq Kinds[Run(p)]
    /\ proc[p].pc = "finish" =>
          DOMAIN proc[p].hashed = IF proc[p].status = "completed" THEN Kinds[Run(p)] ELSE {}

\* A process that stopped after it had opened a row has closed it.
StoppedInv(p) ==
    At(p, "stopped") /\ proc[p].row # Nothing /\ used.fault = 0 /\ ~KeyTaken(p)
        => rows[proc[p].row].status # "running"

\* What holds of one process.
WorkerInv(p) == /\ PlanInv(p) /\ TempInv(p) /\ RowInv(p) /\ DescribedInv(p) /\ OutputInv(p)
                /\ StoppedInv(p)

\* The dataset, its manifest, and how often each event has happened.
DatasetInv ==
    /\ downloading => source \in Data
    /\ manifest \in described \cup {Nothing}
    /\ used \in [{"download", "fault", "crash", "cancel"} -> Nat]

\* What the database and the directories hold.
StoredInv ==
    /\ CompletedOnDescribedData
    /\ \A a \in artifacts : /\ a.row \in DOMAIN rows /\ rows[a.row].status = "completed"
                            /\ a.content \notin {Partial, Nothing}
    /\ \A id \in DOMAIN rows : rows[id].status = "completed" =>
         \A k \in Kinds[id[1]] : \E a \in artifacts : a.row = id /\ a.kind = k
    /\ \A d \in Dirs, k \in Kind : files[d][k] # Partial

\* The inductive invariant.
RunInv == TypeOK /\ DatasetInv /\ StoredInv /\ \A p \in Process : WorkerInv(p)
-----------------------------------------------------------------------------
(* Records, plans and what a step leaves alone *)

\* The fields of the record of a process, where it can be, and what it can have hashed.
Fields == {"pc", "todo", "snapshot", "expected", "metrics", "row", "revision", "status",
           "left", "hashed", "cancelled"}

Places == {"idle", "snapshot", "prepared", "started", "write", "publish", "executed", "hash",
           "finish", "done", "stopped", "crashed"}

Hashes == UNION {[K -> Content] : K \in SUBSET Kind}

\* The record of a process consists of its fields ...
LEMMA WorkerFields ==
    ASSUME NEW w \in Worker
    PROVE  /\ DOMAIN w = Fields
           /\ w.pc \in Places /\ w.todo \in Seq(Configured) /\ w.snapshot \in Data \cup {Nothing}
           /\ w.expected \in Data \cup {Nothing} /\ w.metrics \in Data \cup {Nothing}
           /\ w.row \in RowId \cup {Nothing} /\ w.revision \in Nat /\ w.status \in Status
           /\ w.left \in SUBSET Kind /\ w.hashed \in Hashes /\ w.cancelled \in BOOLEAN
BY DEF Worker, Fields, Places, Hashes

\* ... and the types of the fields make its type.
LEMMA WorkerTyped ==
    ASSUME NEW w, w = [f \in Fields |-> w[f]],
           w.pc \in Places, w.todo \in Seq(Configured), w.snapshot \in Data \cup {Nothing},
           w.expected \in Data \cup {Nothing}, w.metrics \in Data \cup {Nothing},
           w.row \in RowId \cup {Nothing}, w.revision \in Nat, w.status \in Status,
           w.left \in SUBSET Kind, w.hashed \in Hashes, w.cancelled \in BOOLEAN
    PROVE  w \in Worker
BY DEF Worker, Fields, Places, Hashes

\* A step of a process changes the fields it names, and no other process.
LEMMA Becoming ==
    ASSUME TypeOK, NEW p \in Process, NEW c, DOMAIN c \subseteq Fields, Become(p, c)
    PROVE  /\ DOMAIN proc' = Process
           /\ \A q \in Process \ {p} : proc'[q] = proc[q]
           /\ proc'[p] = [f \in Fields |-> proc'[p][f]]
           /\ \A f \in Fields : proc'[p][f] = IF f \in DOMAIN c THEN c[f] ELSE proc[p][f]
<1>1. DOMAIN proc = Process /\ proc[p] \in Worker
  BY DEF TypeOK
<1>2. DOMAIN proc[p] = Fields
  BY <1>1, WorkerFields
<1>3. proc' = [proc EXCEPT ![p] = Changed(proc[p], c)]
  BY DEF Become
<1>4. proc'[p] = Changed(proc[p], c)
  BY <1>1, <1>3
<1>5. DOMAIN proc' = Process /\ \A q \in Process \ {p} : proc'[q] = proc[q]
  BY <1>1, <1>3
<1>6. proc'[p] = [f \in Fields |-> IF f \in DOMAIN c THEN c[f] ELSE proc[p][f]]
  BY <1>2, <1>4 DEF Changed
<1> HIDE DEF Fields
<1>7. \A f \in Fields : proc'[p][f] = IF f \in DOMAIN c THEN c[f] ELSE proc[p][f]
  BY <1>6
<1> QED BY <1>5, <1>6, <1>7

\* The run in hand is one of the plan, and its directory is one of the directories.
LEMMA RunInHand ==
    ASSUME TypeOK, NEW p \in Process, PlanInv(p), proc[p].todo # <<>>
    PROVE  /\ Run(p) \in Configured /\ Output(p) \in Dirs /\ Kinds[Run(p)] \subseteq Kind
           /\ Kinds[Run(p)] # {}
<1>1. proc[p].todo \in Seq(Configured)
  BY WorkerFields DEF TypeOK
<1>2. Run(p) = proc[p].todo[1] /\ 1 \in 1 .. Len(proc[p].todo)
  BY <1>1 DEF Run
<1>3. Run(p) \in ToSet(Plan[p])
  BY <1>2 DEF PlanInv
<1>4. Run(p) \in Configured
  BY <1>3 DEF Configured
<1>5. Output(p) \in Dirs
  BY <1>3 DEF Output, Dirs
<1> QED BY <1>4, <1>5, BacktestRunAssumption

\* What no step takes back: descriptions, rows, closed rows, files and artifacts.
Grows ==
    /\ described \subseteq described'
    /\ \A id \in DOMAIN rows :
          /\ id \in DOMAIN rows' /\ rows'[id].data = rows[id].data
          /\ rows[id].status # "running" => rows'[id] = rows[id]
          /\ rows'[id].status = "running" => rows'[id] = rows[id]
    /\ \A d \in Dirs, k \in Kind : files[d][k] # Nothing => files'[d][k] # Nothing
    /\ artifacts \subseteq artifacts'
    /\ used'.fault = 0 => used.fault = 0

\* A process is not disturbed by the steps of the others.
LEMMA OthersKeep ==
    ASSUME TypeOK, NEW q \in Process, WorkerInv(q), Grows, proc'[q] = proc[q],
           \A k \in Kind : <<q, k>> \in temps' => <<q, k>> \in temps
    PROVE  WorkerInv(q)'
<1>1. PlanInv(q)'
  BY DEF WorkerInv, PlanInv
<1>2. TempInv(q)'
  BY DEF WorkerInv, TempInv, NextKind
<1>3. RowInv(q)'
  BY DEF WorkerInv, RowInv, Run, Grows, Open
<1>4. DescribedInv(q)'
  <2>1. proc[q].pc \in Ended => proc[q].row \in DOMAIN rows
    BY DEF WorkerInv, RowInv, Open, Ended
  <2> QED BY <2>1 DEF WorkerInv, DescribedInv, Run, Grows
<1>5. OutputInv(q)'
  <2>1. proc[q].pc \in Ended =>
            Output(q) \in Dirs /\ Kinds[Run(q)] \subseteq Kind
    BY RunInHand DEF WorkerInv, PlanInv, Ended
  <2>2. Run(q)' = Run(q) /\ Output(q)' = Output(q) /\ Unhashed(q)' = Unhashed(q)
    BY DEF Run, Output, Unhashed
  <2>3. \A k \in Kind : proc[q].pc \in Ended /\ files[Output(q)][k] # Nothing
                            => files'[Output(q)][k] # Nothing
    BY <2>1 DEF Grows
  <2> QED BY <2>1, <2>2, <2>3 DEF WorkerInv, OutputInv, Ended
<1>6. StoppedInv(q)'
  <2>1. ArtifactsOf(q)' = ArtifactsOf(q)
    BY DEF ArtifactsOf, Run, Output
  <2>2. KeyTaken(q) => KeyTaken(q)'
    BY <2>1 DEF KeyTaken, Grows
  <2>3. At(q, "stopped")' = At(q, "stopped")
    BY DEF At
  <2>4. proc[q].row # Nothing => proc[q].row \in DOMAIN rows
    BY DEF WorkerInv, RowInv
  <2> QED BY <2>2, <2>3, <2>4 DEF WorkerInv, StoppedInv, Grows
<1> QED BY <1>1, <1>2, <1>3, <1>4, <1>5, <1>6 DEF WorkerInv

\* The counts of bounded events only grow, and a fault is counted.
LEMMA Spending ==
    ASSUME DatasetInv, NEW e \in {"download", "fault", "crash", "cancel"}, NEW b, Spend(e, b)
    PROVE  /\ used' \in [{"download", "fault", "crash", "cancel"} -> Nat]
           /\ used'.fault = 0 => used.fault = 0
           /\ e = "fault" => used'.fault # 0
<1>1. used \in [{"download", "fault", "crash", "cancel"} -> Nat]
  BY DEF DatasetInv
<1>2. used' = [used EXCEPT ![e] = used[e] + 1] /\ used[e] \in Nat
  BY <1>1 DEF Spend
<1> QED BY <1>1, <1>2

\* A step of one process that leaves the database and the directories alone keeps the
\* invariant if its own record is well-formed and keeps its own part.
LEMMA LocalStep ==
    ASSUME RunInv, NEW p \in Process, NEW c, DOMAIN c \subseteq Fields, Become(p, c),
           UNCHANGED <<outside, files, rows, artifacts>>,
           UNCHANGED used \/ \E e \in {"fault", "crash", "cancel"}, b \in Nat : Spend(e, b),
           temps' \subseteq Process \X Kind,
           \A q \in Process \ {p}, k \in Kind : <<q, k>> \in temps' => <<q, k>> \in temps,
           proc'[p] \in Worker, WorkerInv(p)'
    PROVE  RunInv'
<1>1. /\ used' \in [{"download", "fault", "crash", "cancel"} -> Nat]
      /\ used'.fault = 0 => used.fault = 0
  BY Spending DEF RunInv, DatasetInv
<1>2. DOMAIN proc' = Process /\ \A q \in Process \ {p} : proc'[q] = proc[q]
  BY Becoming DEF RunInv
<1>3. TypeOK'
  BY <1>2 DEF RunInv, TypeOK, outside
<1>4. DatasetInv'
  BY <1>1 DEF RunInv, DatasetInv, outside
<1>5. StoredInv'
  BY DEF RunInv, StoredInv, CompletedOnDescribedData, outside
<1>6. Grows
  BY <1>1 DEF Grows, outside
<1>7. ASSUME NEW q \in Process \ {p} PROVE WorkerInv(q)'
  BY <1>2, <1>6, OthersKeep DEF RunInv
<1> QED BY <1>3, <1>4, <1>5, <1>7 DEF RunInv

\* At first every process is idle and nothing is stored.
LEMMA RunInitially == Init => RunInv
<1> SUFFICES ASSUME Init PROVE RunInv
  OBVIOUS
<1>1. ASSUME NEW p \in Process
      PROVE  proc[p] = [pc |-> "idle", todo |-> Plan[p], snapshot |-> Nothing, expected |-> Nothing,
                  metrics |-> Nothing, row |-> Nothing, revision |-> 0, status |-> "running", left |-> {},
                  hashed |-> <<>>, cancelled |-> FALSE]
  BY DEF Init
<1>2. ASSUME NEW p \in Process PROVE proc[p] \in Worker
  <2>1. Plan[p] \in Seq(Configured)
    BY BacktestRunAssumption
  <2>2. <<>> \in UNION {[K -> Content] : K \in SUBSET Kind}
    <3>1. <<>> \in [{} -> Content]
      OBVIOUS
    <3>2. {} \in SUBSET Kind
      OBVIOUS
    <3> QED BY <3>1, <3>2
  <2>3. "running" \in Status /\ {} \in SUBSET Kind /\ FALSE \in BOOLEAN /\ 0 \in Nat
    BY DEF Status
  <2>4. "idle" \in Places /\ Nothing \in Data \cup {Nothing} /\ Nothing \in RowId \cup {Nothing}
    BY DEF Places
  <2> DEFINE w == [pc |-> "idle", todo |-> Plan[p], snapshot |-> Nothing, expected |-> Nothing,
                   metrics |-> Nothing, row |-> Nothing, revision |-> 0, status |-> "running",
                   left |-> {}, hashed |-> <<>>, cancelled |-> FALSE]
  <2>5. /\ w.pc = "idle" /\ w.todo = Plan[p] /\ w.snapshot = Nothing /\ w.expected = Nothing
        /\ w.metrics = Nothing /\ w.row = Nothing /\ w.revision = 0 /\ w.status = "running"
        /\ w.left = {} /\ w.hashed = <<>>
    OBVIOUS
  <2>6. w.cancelled = FALSE
    OBVIOUS
  <2>7. w = [f \in Fields |-> w[f]]
    BY DEF Fields
  <2> HIDE DEF w
  <2>8. w \in Worker
    BY <2>1, <2>2, <2>3, <2>4, <2>5, <2>6, <2>7, WorkerTyped DEF Hashes
  <2> QED BY <1>1, <2>8 DEF w
<1>3. /\ rows = <<>> /\ temps = {} /\ artifacts = {} /\ described = {source} /\ source \in Data
      /\ manifest = source /\ downloading = FALSE
      /\ files = [d \in Dirs |-> [k \in Kind |-> Nothing]]
      /\ used = [download |-> 0, fault |-> 0, crash |-> 0, cancel |-> 0]
  BY DEF Init
<1>4. DOMAIN rows = {}
  BY <1>3
<1>5. Nothing \in Content
  BY DEF Content
<1>6. TypeOK
  <2>1. DOMAIN proc = Process
    BY DEF Init
  <2>2. files \in [Dirs -> [Kind -> Content]]
    BY <1>3, <1>5
  <2> QED BY <1>2, <1>3, <1>4, <2>1, <2>2 DEF TypeOK
<1>7. DatasetInv
  BY <1>3 DEF DatasetInv
<1>8. Nothing # Partial
  BY BacktestRunAssumption
<1>9. StoredInv
  BY <1>3, <1>4, <1>8 DEF StoredInv, CompletedOnDescribedData
<1>10. ASSUME NEW p \in Process PROVE WorkerInv(p)
  <2>1. /\ proc[p].pc = "idle" /\ proc[p].todo = Plan[p] /\ proc[p].snapshot = Nothing
        /\ proc[p].row = Nothing /\ proc[p].expected = Nothing
    <3> DEFINE w == [pc |-> "idle", todo |-> Plan[p], snapshot |-> Nothing, expected |-> Nothing,
                     metrics |-> Nothing, row |-> Nothing, revision |-> 0, status |-> "running",
                     left |-> {}, hashed |-> <<>>, cancelled |-> FALSE]
    <3>1. /\ w.pc = "idle" /\ w.todo = Plan[p] /\ w.snapshot = Nothing
          /\ w.row = Nothing /\ w.expected = Nothing
      OBVIOUS
    <3> QED BY <1>1, <3>1
  <2>2. PlanInv(p)
    <3>1. Plan[p] \in Seq(Configured)
      BY BacktestRunAssumption
    <3>2. \A i \in 1 .. Len(Plan[p]) : Plan[p][i] \in ToSet(Plan[p])
      BY <3>1 DEF ToSet
    <3> QED BY <2>1, <3>2 DEF PlanInv, Copying
  <2>3. TempInv(p)
    BY <1>3, <2>1 DEF TempInv
  <2>4. RowInv(p)
    BY <2>1 DEF RowInv, Open
  <2>5. DescribedInv(p)
    BY <2>1 DEF DescribedInv, Ended
  <2>6. OutputInv(p)
    BY <2>1 DEF OutputInv
  <2>7. StoppedInv(p)
    BY <2>1 DEF StoppedInv, At
  <2> QED BY <2>2, <2>3, <2>4, <2>5, <2>6, <2>7 DEF WorkerInv
<1> QED BY <1>6, <1>7, <1>9, <1>10 DEF RunInv
-----------------------------------------------------------------------------
(* The steps of a process, one lemma per step or group of steps *)

\* The candles are copied, and the manifest is read.
LEMMA SnapshotKeeps ==
    ASSUME RunInv, NEW p \in Process, SnapshotDataset(p)
    PROVE  RunInv'
<1> DEFINE c == [pc |-> "snapshot", snapshot |-> source]
<1>1. DOMAIN c = {"pc", "snapshot"} /\ c.pc = "snapshot" /\ c.snapshot = source
  OBVIOUS
<1>2. DOMAIN c \subseteq Fields
  BY <1>1 DEF Fields
<1>3. /\ Become(p, c) /\ proc[p].pc = "idle" /\ proc[p].todo # <<>> /\ source # Nothing
      /\ UNCHANGED <<outside, files, temps, rows, artifacts, used>>
  BY DEF SnapshotDataset, At
<1> HIDE DEF c
<1>4. TypeOK /\ DatasetInv /\ WorkerInv(p) /\ proc[p] \in Worker /\ source \in Data
  BY <1>3 DEF RunInv, TypeOK
<1>5. /\ proc'[p].pc = "snapshot" /\ proc'[p].snapshot = source
      /\ proc'[p].todo = proc[p].todo /\ proc'[p].expected = proc[p].expected
      /\ proc'[p].metrics = proc[p].metrics /\ proc'[p].row = proc[p].row
      /\ proc'[p].revision = proc[p].revision /\ proc'[p].status = proc[p].status
      /\ proc'[p].left = proc[p].left /\ proc'[p].hashed = proc[p].hashed
      /\ proc'[p].cancelled = proc[p].cancelled
      /\ proc'[p] = [f \in Fields |-> proc'[p][f]]
  BY <1>1, <1>2, <1>3, <1>4, Becoming DEF Fields
<1>6. proc'[p] \in Worker
  BY <1>4, <1>5, WorkerFields, WorkerTyped DEF Places
<1>7. WorkerInv(p)'
  <2>1. PlanInv(p)'
    BY <1>3, <1>4, <1>5 DEF WorkerInv, PlanInv
  <2>2. TempInv(p)'
    BY <1>3, <1>4, <1>5 DEF WorkerInv, TempInv
  <2>3. RowInv(p)'
    BY <1>3, <1>4, <1>5 DEF WorkerInv, RowInv, Open
  <2>4. DescribedInv(p)'
    BY <1>3, <1>4, <1>5 DEF WorkerInv, DescribedInv, outside, Ended
  <2>5. OutputInv(p)'
    BY <1>5 DEF OutputInv
  <2>6. StoppedInv(p)'
    BY <1>5 DEF StoppedInv, At
  <2> QED BY <2>1, <2>2, <2>3, <2>4, <2>5, <2>6 DEF WorkerInv
<1> QED BY <1>2, <1>3, <1>4, <1>6, <1>7, LocalStep DEF TypeOK

\* Without a dataset, or cancelled, a process stops before it holds anything.
LEMMA CannotBeginKeeps ==
    ASSUME RunInv, NEW p \in Process, CannotBegin(p)
    PROVE  RunInv'
<1> DEFINE c == [pc |-> "stopped"]
<1>1. DOMAIN c = {"pc"} /\ c.pc = "stopped"
  OBVIOUS
<1>2. DOMAIN c \subseteq Fields
  BY <1>1 DEF Fields
<1>3. /\ Become(p, c)
      /\ proc[p].pc = "idle" /\ proc[p].todo # <<>>
      /\ UNCHANGED <<outside, files, temps, rows, artifacts, used>>
  BY DEF CannotBegin, At
<1> HIDE DEF c
<1>4. TypeOK /\ DatasetInv /\ WorkerInv(p) /\ proc[p] \in Worker
  BY DEF RunInv, TypeOK
<1>5. /\ proc'[p].pc = "stopped" /\ proc'[p].todo = proc[p].todo
      /\ proc'[p].snapshot = proc[p].snapshot /\ proc'[p].expected = proc[p].expected
      /\ proc'[p].metrics = proc[p].metrics /\ proc'[p].row = proc[p].row
      /\ proc'[p].revision = proc[p].revision /\ proc'[p].status = proc[p].status
      /\ proc'[p].left = proc[p].left /\ proc'[p].hashed = proc[p].hashed
      /\ proc'[p].cancelled = proc[p].cancelled
      /\ proc'[p] = [f \in Fields |-> proc'[p][f]]
  BY <1>1, <1>2, <1>3, <1>4, Becoming DEF Fields
<1>6. proc'[p] \in Worker
  BY <1>3, <1>4, <1>5, WorkerFields, WorkerTyped DEF Places
<1>7. WorkerInv(p)'
  <2>1. PlanInv(p)'
    BY <1>3, <1>4, <1>5 DEF WorkerInv, PlanInv, Copying
  <2>2. TempInv(p)'
    BY <1>3, <1>4, <1>5 DEF WorkerInv, TempInv
  <2>3. RowInv(p)'
    BY <1>3, <1>4, <1>5 DEF WorkerInv, RowInv, Open, Run
  <2>4. DescribedInv(p)'
    BY <1>3, <1>4, <1>5 DEF WorkerInv, DescribedInv, Ended, Run, outside
  <2>5. OutputInv(p)'
    BY <1>3, <1>4, <1>5 DEF WorkerInv, OutputInv, Run, Output, Unhashed
  <2>6. StoppedInv(p)'
    BY <1>3, <1>4, <1>5 DEF WorkerInv, StoppedInv, At, RowInv
  <2> QED BY <2>1, <2>2, <2>3, <2>4, <2>5, <2>6 DEF WorkerInv
<1> QED BY <1>2, <1>3, <1>4, <1>6, <1>7, LocalStep DEF TypeOK

\* The manifest read is one that describes a content.
LEMMA ResolveKeeps ==
    ASSUME RunInv, NEW p \in Process, ResolveMetadata(p)
    PROVE  RunInv'
<1> DEFINE c == [pc |-> "prepared",
                 expected |-> IF Run(p) \in HasManifest THEN manifest ELSE Nothing]
<1>1. /\ DOMAIN c = {"pc", "expected"}
      /\ c.pc = "prepared"
      /\ c.expected = IF Run(p) \in HasManifest THEN manifest ELSE Nothing
  OBVIOUS
<1>2. DOMAIN c \subseteq Fields
  BY <1>1 DEF Fields
<1>3. /\ Become(p, c)
      /\ proc[p].pc = "snapshot" /\ (Run(p) \in HasManifest => manifest # Nothing)
      /\ UNCHANGED <<outside, files, temps, rows, artifacts, used>>
  BY DEF ResolveMetadata, At
<1> HIDE DEF c
<1>4. TypeOK /\ DatasetInv /\ WorkerInv(p) /\ proc[p] \in Worker
  BY DEF RunInv, TypeOK
<1>5. /\ proc'[p].pc = "prepared" /\ proc'[p].todo = proc[p].todo
      /\ proc'[p].snapshot = proc[p].snapshot
      /\ proc'[p].expected = IF Run(p) \in HasManifest THEN manifest ELSE Nothing
      /\ proc'[p].metrics = proc[p].metrics /\ proc'[p].row = proc[p].row
      /\ proc'[p].revision = proc[p].revision /\ proc'[p].status = proc[p].status
      /\ proc'[p].left = proc[p].left /\ proc'[p].hashed = proc[p].hashed
      /\ proc'[p].cancelled = proc[p].cancelled
      /\ proc'[p] = [f \in Fields |-> proc'[p][f]]
  BY <1>1, <1>2, <1>3, <1>4, Becoming DEF Fields
<1>6. proc'[p] \in Worker
  BY <1>3, <1>4, <1>5, WorkerFields, WorkerTyped DEF Places, TypeOK
<1>7. WorkerInv(p)'
  <2>1. PlanInv(p)'
    BY <1>3, <1>4, <1>5 DEF WorkerInv, PlanInv, Copying
  <2>2. TempInv(p)'
    BY <1>3, <1>4, <1>5 DEF WorkerInv, TempInv
  <2>3. RowInv(p)'
    BY <1>3, <1>4, <1>5 DEF WorkerInv, RowInv, Open, Run
  <2>4. DescribedInv(p)'
    BY <1>3, <1>4, <1>5 DEF WorkerInv, DescribedInv, Ended, Run, outside, DatasetInv
  <2>5. OutputInv(p)'
    BY <1>3, <1>4, <1>5 DEF WorkerInv, OutputInv, Run, Output, Unhashed
  <2>6. StoppedInv(p)'
    BY <1>5 DEF StoppedInv, At
  <2> QED BY <2>1, <2>2, <2>3, <2>4, <2>5, <2>6 DEF WorkerInv
<1> QED BY <1>2, <1>3, <1>4, <1>6, <1>7, LocalStep DEF TypeOK

\* A run whose manifest does not fit is not opened.
LEMMA RefusedKeeps ==
    ASSUME RunInv, NEW p \in Process, MetadataRefused(p)
    PROVE  RunInv'
<1> DEFINE c == [pc |-> "stopped", snapshot |-> Nothing]
<1>1. DOMAIN c = {"pc", "snapshot"} /\ c.pc = "stopped" /\ c.snapshot = Nothing
  OBVIOUS
<1>2. DOMAIN c \subseteq Fields
  BY <1>1 DEF Fields
<1>3. /\ Become(p, c)
      /\ proc[p].pc = "snapshot"
      /\ UNCHANGED used \/ Spend("fault", MaxFaults)
      /\ UNCHANGED <<outside, files, temps, rows, artifacts>>
  BY DEF MetadataRefused, StartCleanup, At, FaultHappens
<1> HIDE DEF c
<1>4. TypeOK /\ DatasetInv /\ WorkerInv(p) /\ proc[p] \in Worker
  BY DEF RunInv, TypeOK
<1>5. /\ proc'[p].pc = "stopped" /\ proc'[p].todo = proc[p].todo
      /\ proc'[p].snapshot = Nothing /\ proc'[p].expected = proc[p].expected
      /\ proc'[p].metrics = proc[p].metrics /\ proc'[p].row = proc[p].row
      /\ proc'[p].revision = proc[p].revision /\ proc'[p].status = proc[p].status
      /\ proc'[p].left = proc[p].left /\ proc'[p].hashed = proc[p].hashed
      /\ proc'[p].cancelled = proc[p].cancelled
      /\ proc'[p] = [f \in Fields |-> proc'[p][f]]
  BY <1>1, <1>2, <1>3, <1>4, Becoming DEF Fields
<1>6. proc'[p] \in Worker
  BY <1>3, <1>4, <1>5, WorkerFields, WorkerTyped DEF Places
<1>7. WorkerInv(p)'
  <2>1. PlanInv(p)'
    BY <1>3, <1>4, <1>5 DEF WorkerInv, PlanInv, Copying
  <2>2. TempInv(p)'
    BY <1>3, <1>4, <1>5 DEF WorkerInv, TempInv
  <2>3. RowInv(p)'
    BY <1>3, <1>4, <1>5 DEF WorkerInv, RowInv, Open, Run
  <2>4. DescribedInv(p)'
    BY <1>3, <1>4, <1>5 DEF WorkerInv, DescribedInv, Ended, Run, outside
  <2>5. OutputInv(p)'
    BY <1>3, <1>4, <1>5 DEF WorkerInv, OutputInv, Run, Output, Unhashed
  <2>6. StoppedInv(p)'
    BY <1>3, <1>4, <1>5 DEF WorkerInv, StoppedInv, At, RowInv
  <2> QED BY <2>1, <2>2, <2>3, <2>4, <2>5, <2>6 DEF WorkerInv
<1> QED BY <1>2, <1>3, <1>4, <1>6, <1>7, BacktestRunAssumption, LocalStep DEF TypeOK

\* A start that fails leaves no row to this process.
LEMMA StartFailsKeeps ==
    ASSUME RunInv, NEW p \in Process, StartFails(p)
    PROVE  RunInv'
<1> DEFINE c == [pc |-> "stopped", snapshot |-> Nothing]
<1>1. DOMAIN c = {"pc", "snapshot"} /\ c.pc = "stopped" /\ c.snapshot = Nothing
  OBVIOUS
<1>2. DOMAIN c \subseteq Fields
  BY <1>1 DEF Fields
<1>3. /\ Become(p, c)
      /\ proc[p].pc = "prepared"
      /\ UNCHANGED used \/ Spend("fault", MaxFaults)
      /\ UNCHANGED <<outside, files, temps, rows, artifacts>>
  BY DEF StartFails, StartCleanup, At, FaultHappens
<1> HIDE DEF c
<1>4. TypeOK /\ DatasetInv /\ WorkerInv(p) /\ proc[p] \in Worker
  BY DEF RunInv, TypeOK
<1>5. /\ proc'[p].pc = "stopped" /\ proc'[p].todo = proc[p].todo
      /\ proc'[p].snapshot = Nothing /\ proc'[p].expected = proc[p].expected
      /\ proc'[p].metrics = proc[p].metrics /\ proc'[p].row = proc[p].row
      /\ proc'[p].revision = proc[p].revision /\ proc'[p].status = proc[p].status
      /\ proc'[p].left = proc[p].left /\ proc'[p].hashed = proc[p].hashed
      /\ proc'[p].cancelled = proc[p].cancelled
      /\ proc'[p] = [f \in Fields |-> proc'[p][f]]
  BY <1>1, <1>2, <1>3, <1>4, Becoming DEF Fields
<1>6. proc'[p] \in Worker
  BY <1>3, <1>4, <1>5, WorkerFields, WorkerTyped DEF Places
<1>7. WorkerInv(p)'
  <2>1. PlanInv(p)'
    BY <1>3, <1>4, <1>5 DEF WorkerInv, PlanInv, Copying
  <2>2. TempInv(p)'
    BY <1>3, <1>4, <1>5 DEF WorkerInv, TempInv
  <2>3. RowInv(p)'
    BY <1>3, <1>4, <1>5 DEF WorkerInv, RowInv, Open, Run
  <2>4. DescribedInv(p)'
    BY <1>3, <1>4, <1>5 DEF WorkerInv, DescribedInv, Ended, Run, outside
  <2>5. OutputInv(p)'
    BY <1>3, <1>4, <1>5 DEF WorkerInv, OutputInv, Run, Output, Unhashed
  <2>6. StoppedInv(p)'
    BY <1>3, <1>4, <1>5 DEF WorkerInv, StoppedInv, At, RowInv
  <2> QED BY <2>1, <2>2, <2>3, <2>4, <2>5, <2>6 DEF WorkerInv
<1> QED BY <1>2, <1>3, <1>4, <1>6, <1>7, BacktestRunAssumption, LocalStep DEF TypeOK

\* Only a content that fits its manifest is executed.
LEMMA ExecuteKeeps ==
    ASSUME RunInv, NEW p \in Process, Execute(p)
    PROVE  RunInv'
<1> DEFINE c == [pc |-> "write", status |-> "completed", metrics |-> proc[p].snapshot,
                 left |-> Kinds[Run(p)]]
<1>1. /\ DOMAIN c = {"pc", "status", "metrics", "left"}
      /\ c.pc = "write"
      /\ c.status = "completed"
      /\ c.metrics = proc[p].snapshot
      /\ c.left = Kinds[Run(p)]
  OBVIOUS
<1>2. DOMAIN c \subseteq Fields
  BY <1>1 DEF Fields
<1>3. /\ Become(p, c)
      /\ proc[p].pc = "started" /\ MatchesManifest(p)
      /\ UNCHANGED <<outside, files, temps, rows, artifacts, used>>
  BY DEF Execute, At, Executed
<1> HIDE DEF c
<1>4. TypeOK /\ DatasetInv /\ WorkerInv(p) /\ proc[p] \in Worker
  BY DEF RunInv, TypeOK
<1>5. /\ proc'[p].pc = "write" /\ proc'[p].todo = proc[p].todo
      /\ proc'[p].snapshot = proc[p].snapshot /\ proc'[p].expected = proc[p].expected
      /\ proc'[p].metrics = proc[p].snapshot /\ proc'[p].row = proc[p].row
      /\ proc'[p].revision = proc[p].revision /\ proc'[p].status = "completed"
      /\ proc'[p].left = Kinds[Run(p)] /\ proc'[p].hashed = proc[p].hashed
      /\ proc'[p].cancelled = proc[p].cancelled
      /\ proc'[p] = [f \in Fields |-> proc'[p][f]]
  BY <1>1, <1>2, <1>3, <1>4, Becoming DEF Fields
<1>6. proc'[p] \in Worker
  BY <1>3, <1>4, <1>5, RunInHand, WorkerFields, WorkerTyped
     DEF Places, Status, WorkerInv, PlanInv, Copying
<1>7. WorkerInv(p)'
  <2>1. PlanInv(p)'
    BY <1>3, <1>4, <1>5 DEF WorkerInv, PlanInv, Copying
  <2>2. TempInv(p)'
    BY <1>3, <1>4, <1>5 DEF WorkerInv, TempInv
  <2>3. RowInv(p)'
    BY <1>3, <1>4, <1>5 DEF WorkerInv, RowInv, Open, Run
  <2>4. DescribedInv(p)'
    BY <1>3, <1>4, <1>5
       DEF WorkerInv, DescribedInv, RowInv, PlanInv, Open, Copying, Ended, Run, outside,
           MatchesManifest, Executed
  <2>5. OutputInv(p)'
    BY <1>3, <1>4, <1>5 DEF WorkerInv, OutputInv, Run, Output, Unhashed
  <2>6. StoppedInv(p)'
    BY <1>5 DEF StoppedInv, At
  <2> QED BY <2>1, <2>2, <2>3, <2>4, <2>5, <2>6 DEF WorkerInv
<1> QED BY <1>2, <1>3, <1>4, <1>6, <1>7, LocalStep DEF TypeOK

\* A run that fails, or is cancelled, wrote nothing and goes to its end.
LEMMA ExecutionFailsKeeps ==
    ASSUME RunInv, NEW p \in Process, ExecutionFails(p)
    PROVE  RunInv'
<1>0. PICK cause \in {"cancelled", "failed"} :
         /\ UNCHANGED used \/ Spend("fault", MaxFaults)
         /\ Become(p, [pc |-> "executed", status |-> cause])
  BY DEF ExecutionFails, FaultHappens
<1> DEFINE c == [pc |-> "executed", status |-> cause]
<1>1. /\ DOMAIN c = {"pc", "status"}
      /\ c.pc = "executed"
      /\ c.status = cause
  OBVIOUS
<1>2. DOMAIN c \subseteq Fields
  BY <1>1 DEF Fields
<1>3. /\ Become(p, c)
      /\ proc[p].pc = "started"
      /\ UNCHANGED used \/ Spend("fault", MaxFaults)
      /\ UNCHANGED <<outside, files, temps, rows, artifacts>>
  BY <1>0 DEF ExecutionFails, At
<1> HIDE DEF c
<1>4. TypeOK /\ DatasetInv /\ WorkerInv(p) /\ proc[p] \in Worker
  BY DEF RunInv, TypeOK
<1>5. /\ proc'[p].pc = "executed" /\ proc'[p].todo = proc[p].todo
      /\ proc'[p].snapshot = proc[p].snapshot /\ proc'[p].expected = proc[p].expected
      /\ proc'[p].metrics = proc[p].metrics /\ proc'[p].row = proc[p].row
      /\ proc'[p].revision = proc[p].revision
      /\ proc'[p].status = cause
      /\ proc'[p].left = proc[p].left /\ proc'[p].hashed = proc[p].hashed
      /\ proc'[p].cancelled = proc[p].cancelled
      /\ proc'[p] = [f \in Fields |-> proc'[p][f]]
  BY <1>1, <1>2, <1>3, <1>4, Becoming DEF Fields
<1>6. proc'[p] \in Worker
  BY <1>3, <1>4, <1>5, WorkerFields, WorkerTyped DEF Places, Status
<1>7. WorkerInv(p)'
  <2>1. PlanInv(p)'
    BY <1>3, <1>4, <1>5 DEF WorkerInv, PlanInv, Copying
  <2>2. TempInv(p)'
    BY <1>3, <1>4, <1>5 DEF WorkerInv, TempInv
  <2>3. RowInv(p)'
    BY <1>3, <1>4, <1>5 DEF WorkerInv, RowInv, Open, Run
  <2>4. DescribedInv(p)'
    <3>1. proc'[p].status \in {"cancelled", "failed"}
      BY <1>5
    <3> QED BY <3>1, <1>3, <1>4, <1>5 DEF WorkerInv, DescribedInv, Ended, Run, outside
  <2>5. OutputInv(p)'
    <3>1. proc'[p].status \in {"cancelled", "failed"}
      BY <1>5
    <3> QED BY <3>1, <1>5 DEF OutputInv
  <2>6. StoppedInv(p)'
    BY <1>5 DEF StoppedInv, At
  <2> QED BY <2>1, <2>2, <2>3, <2>4, <2>5, <2>6 DEF WorkerInv
<1> QED BY <1>2, <1>3, <1>4, <1>6, <1>7, BacktestRunAssumption, LocalStep DEF TypeOK

\* The temporary file is that of the output that is renamed next.
LEMMA WriteTempKeeps ==
    ASSUME RunInv, NEW p \in Process, WriteTemp(p)
    PROVE  RunInv'
<1> DEFINE c == [pc |-> "publish"]
<1>1. DOMAIN c = {"pc"} /\ c.pc = "publish"
  OBVIOUS
<1>2. DOMAIN c \subseteq Fields
  BY <1>1 DEF Fields
<1>3. /\ Become(p, c)
      /\ proc[p].pc = "write" /\ temps' = temps \cup {<<p, NextKind(p)>>}
      /\ UNCHANGED <<outside, files, rows, artifacts, used>>
  BY DEF WriteTemp, At
<1> HIDE DEF c
<1>4. TypeOK /\ DatasetInv /\ WorkerInv(p) /\ proc[p] \in Worker
  BY DEF RunInv, TypeOK
<1>5. /\ proc'[p].pc = "publish" /\ proc'[p].todo = proc[p].todo
      /\ proc'[p].snapshot = proc[p].snapshot /\ proc'[p].expected = proc[p].expected
      /\ proc'[p].metrics = proc[p].metrics /\ proc'[p].row = proc[p].row
      /\ proc'[p].revision = proc[p].revision /\ proc'[p].status = proc[p].status
      /\ proc'[p].left = proc[p].left /\ proc'[p].hashed = proc[p].hashed
      /\ proc'[p].cancelled = proc[p].cancelled
      /\ proc'[p] = [f \in Fields |-> proc'[p][f]]
  BY <1>1, <1>2, <1>3, <1>4, Becoming DEF Fields
<1>5a. NextKind(p) \in Kind
  BY DEF NextKind, Kind
<1>6. proc'[p] \in Worker
  BY <1>3, <1>4, <1>5, WorkerFields, WorkerTyped DEF Places
<1>7. WorkerInv(p)'
  <2>1. PlanInv(p)'
    BY <1>3, <1>4, <1>5 DEF WorkerInv, PlanInv, Copying
  <2>2. TempInv(p)'
    BY <1>3, <1>4, <1>5 DEF WorkerInv, TempInv, NextKind
  <2>3. RowInv(p)'
    BY <1>3, <1>4, <1>5 DEF WorkerInv, RowInv, Open, Run
  <2>4. DescribedInv(p)'
    BY <1>3, <1>4, <1>5 DEF WorkerInv, DescribedInv, Ended, Run, outside
  <2>5. OutputInv(p)'
    BY <1>3, <1>4, <1>5 DEF WorkerInv, OutputInv, Run, Output, Unhashed
  <2>6. StoppedInv(p)'
    BY <1>5 DEF StoppedInv, At
  <2> QED BY <2>1, <2>2, <2>3, <2>4, <2>5, <2>6 DEF WorkerInv
<1> QED BY <1>2, <1>3, <1>4, <1>6, <1>7, <1>5a, LocalStep DEF TypeOK

\* When all is written the run is ready for its end.
LEMMA WritesDoneKeeps ==
    ASSUME RunInv, NEW p \in Process, WritesDone(p)
    PROVE  RunInv'
<1> DEFINE c == [pc |-> "executed"]
<1>1. DOMAIN c = {"pc"} /\ c.pc = "executed"
  OBVIOUS
<1>2. DOMAIN c \subseteq Fields
  BY <1>1 DEF Fields
<1>3. /\ Become(p, c)
      /\ proc[p].pc = "write" /\ proc[p].left = {}
      /\ UNCHANGED <<outside, files, temps, rows, artifacts, used>>
  BY DEF WritesDone, At
<1> HIDE DEF c
<1>4. TypeOK /\ DatasetInv /\ WorkerInv(p) /\ proc[p] \in Worker
  BY DEF RunInv, TypeOK
<1>5. /\ proc'[p].pc = "executed" /\ proc'[p].todo = proc[p].todo
      /\ proc'[p].snapshot = proc[p].snapshot /\ proc'[p].expected = proc[p].expected
      /\ proc'[p].metrics = proc[p].metrics /\ proc'[p].row = proc[p].row
      /\ proc'[p].revision = proc[p].revision /\ proc'[p].status = proc[p].status
      /\ proc'[p].left = proc[p].left /\ proc'[p].hashed = proc[p].hashed
      /\ proc'[p].cancelled = proc[p].cancelled
      /\ proc'[p] = [f \in Fields |-> proc'[p][f]]
  BY <1>1, <1>2, <1>3, <1>4, Becoming DEF Fields
<1>6. proc'[p] \in Worker
  BY <1>3, <1>4, <1>5, WorkerFields, WorkerTyped DEF Places
<1>7. WorkerInv(p)'
  <2>1. PlanInv(p)'
    BY <1>3, <1>4, <1>5 DEF WorkerInv, PlanInv, Copying
  <2>2. TempInv(p)'
    BY <1>3, <1>4, <1>5 DEF WorkerInv, TempInv
  <2>3. RowInv(p)'
    BY <1>3, <1>4, <1>5 DEF WorkerInv, RowInv, Open, Run
  <2>4. DescribedInv(p)'
    BY <1>3, <1>4, <1>5 DEF WorkerInv, DescribedInv, Ended, Run, outside
  <2>5. OutputInv(p)'
    BY <1>3, <1>4, <1>5 DEF WorkerInv, OutputInv, Run, Output, Unhashed
  <2>6. StoppedInv(p)'
    BY <1>5 DEF StoppedInv, At
  <2> QED BY <2>1, <2>2, <2>3, <2>4, <2>5, <2>6 DEF WorkerInv
<1> QED BY <1>2, <1>3, <1>4, <1>6, <1>7, LocalStep DEF TypeOK

\* A write that fails removes the temporary file, and the run fails.
LEMMA WriteFailsKeeps ==
    ASSUME RunInv, NEW p \in Process, WriteFails(p)
    PROVE  RunInv'
<1> DEFINE c == [pc |-> "executed", status |-> "failed"]
<1>1. DOMAIN c = {"pc", "status"} /\ c.pc = "executed" /\ c.status = "failed"
  OBVIOUS
<1>2. DOMAIN c \subseteq Fields
  BY <1>1 DEF Fields
<1>3. /\ Become(p, c)
      /\ proc[p].pc = "publish" /\ temps' = temps \ {<<p, NextKind(p)>>}
      /\ UNCHANGED used \/ Spend("fault", MaxFaults)
      /\ UNCHANGED <<outside, files, rows, artifacts>>
  BY DEF WriteFails, At, FaultHappens
<1> HIDE DEF c
<1>4. TypeOK /\ DatasetInv /\ WorkerInv(p) /\ proc[p] \in Worker
  BY DEF RunInv, TypeOK
<1>5. /\ proc'[p].pc = "executed" /\ proc'[p].todo = proc[p].todo
      /\ proc'[p].snapshot = proc[p].snapshot /\ proc'[p].expected = proc[p].expected
      /\ proc'[p].metrics = proc[p].metrics /\ proc'[p].row = proc[p].row
      /\ proc'[p].revision = proc[p].revision /\ proc'[p].status = "failed"
      /\ proc'[p].left = proc[p].left /\ proc'[p].hashed = proc[p].hashed
      /\ proc'[p].cancelled = proc[p].cancelled
      /\ proc'[p] = [f \in Fields |-> proc'[p][f]]
  BY <1>1, <1>2, <1>3, <1>4, Becoming DEF Fields
<1>6. proc'[p] \in Worker
  BY <1>3, <1>4, <1>5, WorkerFields, WorkerTyped DEF Places, Status
<1>7. WorkerInv(p)'
  <2>1. PlanInv(p)'
    BY <1>3, <1>4, <1>5 DEF WorkerInv, PlanInv, Copying
  <2>2. TempInv(p)'
    BY <1>3, <1>4, <1>5 DEF WorkerInv, TempInv
  <2>3. RowInv(p)'
    BY <1>3, <1>4, <1>5 DEF WorkerInv, RowInv, Open, Run
  <2>4. DescribedInv(p)'
    BY <1>3, <1>4, <1>5 DEF WorkerInv, DescribedInv, Ended, Run, outside
  <2>5. OutputInv(p)'
    BY <1>3, <1>4, <1>5 DEF WorkerInv, OutputInv, Run, Output, Unhashed
  <2>6. StoppedInv(p)'
    BY <1>5 DEF StoppedInv, At
  <2> QED BY <2>1, <2>2, <2>3, <2>4, <2>5, <2>6 DEF WorkerInv
<1> QED BY <1>2, <1>3, <1>4, <1>6, <1>7, BacktestRunAssumption, LocalStep DEF TypeOK

\* The copy of the dataset goes whatever the outcome was.
LEMMA CleanupKeeps ==
    ASSUME RunInv, NEW p \in Process, Cleanup(p)
    PROVE  RunInv'
<1> DEFINE c == [snapshot |-> Nothing, hashed |-> <<>>,
                 pc |-> IF proc[p].status = "completed" THEN "hash" ELSE "finish"]
<1>1. /\ DOMAIN c = {"snapshot", "hashed", "pc"}
      /\ c.snapshot = Nothing
      /\ c.hashed = <<>>
      /\ c.pc = IF proc[p].status = "completed" THEN "hash" ELSE "finish"
  OBVIOUS
<1>2. DOMAIN c \subseteq Fields
  BY <1>1 DEF Fields
<1>3. /\ Become(p, c)
      /\ proc[p].pc = "executed"
      /\ UNCHANGED <<outside, files, temps, rows, artifacts, used>>
  BY DEF Cleanup, At
<1> HIDE DEF c
<1>4. TypeOK /\ DatasetInv /\ WorkerInv(p) /\ proc[p] \in Worker
  BY DEF RunInv, TypeOK
<1>5. /\ proc'[p].pc = IF proc[p].status = "completed" THEN "hash" ELSE "finish"
      /\ proc'[p].todo = proc[p].todo /\ proc'[p].snapshot = Nothing
      /\ proc'[p].expected = proc[p].expected /\ proc'[p].metrics = proc[p].metrics
      /\ proc'[p].row = proc[p].row /\ proc'[p].revision = proc[p].revision
      /\ proc'[p].status = proc[p].status /\ proc'[p].left = proc[p].left
      /\ proc'[p].hashed = <<>> /\ proc'[p].cancelled = proc[p].cancelled
      /\ proc'[p] = [f \in Fields |-> proc'[p][f]]
  BY <1>1, <1>2, <1>3, <1>4, Becoming DEF Fields
<1>5a. <<>> \in Hashes
  <2>1. <<>> \in [{} -> Content] /\ {} \in SUBSET Kind
    OBVIOUS
  <2> QED BY <2>1 DEF Hashes
<1>6. proc'[p] \in Worker
  BY <1>3, <1>4, <1>5, <1>5a, WorkerFields, WorkerTyped DEF Places
<1>7. WorkerInv(p)'
  <2>1. PlanInv(p)'
    <3>1. proc'[p].pc \in {"hash", "finish"}
      BY <1>5
    <3> QED BY <3>1, <1>3, <1>4, <1>5 DEF WorkerInv, PlanInv, Copying
  <2>2. TempInv(p)'
    BY <1>3, <1>4, <1>5 DEF WorkerInv, TempInv
  <2>3. RowInv(p)'
    BY <1>3, <1>4, <1>5 DEF WorkerInv, RowInv, Open, Run
  <2>4. DescribedInv(p)'
    BY <1>3, <1>4, <1>5 DEF WorkerInv, DescribedInv, Ended, Run, outside
  <2>5. OutputInv(p)'
    <3>1. /\ proc'[p].pc \in {"hash", "finish"} /\ DOMAIN proc'[p].hashed = {}
          /\ (proc'[p].pc = "hash" <=> proc'[p].status = "completed")
      BY <1>5
    <3>2. Kinds[Run(p)] # {}
      BY <1>3, <1>4, RunInHand DEF WorkerInv, PlanInv
    <3> QED BY <3>1, <3>2, <1>3, <1>4, <1>5 DEF WorkerInv, OutputInv, Run, Output, Unhashed
  <2>6. StoppedInv(p)'
    BY <1>5 DEF StoppedInv, At
  <2> QED BY <2>1, <2>2, <2>3, <2>4, <2>5, <2>6 DEF WorkerInv
<1> QED BY <1>2, <1>3, <1>4, <1>6, <1>7, LocalStep DEF TypeOK

\* A file that cannot be read makes the run a failed one without artifacts.
LEMMA HashFailsKeeps ==
    ASSUME RunInv, NEW p \in Process, HashFails(p)
    PROVE  RunInv'
<1> DEFINE c == [pc |-> "finish", status |-> "failed", hashed |-> <<>>]
<1>1. /\ DOMAIN c = {"pc", "status", "hashed"}
      /\ c.pc = "finish"
      /\ c.status = "failed"
      /\ c.hashed = <<>>
  OBVIOUS
<1>2. DOMAIN c \subseteq Fields
  BY <1>1 DEF Fields
<1>3. /\ Become(p, c)
      /\ proc[p].pc = "hash"
      /\ UNCHANGED used \/ Spend("fault", MaxFaults)
      /\ UNCHANGED <<outside, files, temps, rows, artifacts>>
  BY DEF HashFails, At, FaultHappens
<1> HIDE DEF c
<1>4. TypeOK /\ DatasetInv /\ WorkerInv(p) /\ proc[p] \in Worker
  BY DEF RunInv, TypeOK
<1>5. /\ proc'[p].pc = "finish" /\ proc'[p].todo = proc[p].todo
      /\ proc'[p].snapshot = proc[p].snapshot /\ proc'[p].expected = proc[p].expected
      /\ proc'[p].metrics = proc[p].metrics /\ proc'[p].row = proc[p].row
      /\ proc'[p].revision = proc[p].revision /\ proc'[p].status = "failed"
      /\ proc'[p].left = proc[p].left /\ proc'[p].hashed = <<>>
      /\ proc'[p].cancelled = proc[p].cancelled
      /\ proc'[p] = [f \in Fields |-> proc'[p][f]]
  BY <1>1, <1>2, <1>3, <1>4, Becoming DEF Fields
<1>5a. <<>> \in Hashes
  <2>1. <<>> \in [{} -> Content] /\ {} \in SUBSET Kind
    OBVIOUS
  <2> QED BY <2>1 DEF Hashes
<1>6. proc'[p] \in Worker
  BY <1>3, <1>4, <1>5, <1>5a, WorkerFields, WorkerTyped DEF Places, Status
<1>7. WorkerInv(p)'
  <2>1. PlanInv(p)'
    BY <1>3, <1>4, <1>5 DEF WorkerInv, PlanInv, Copying
  <2>2. TempInv(p)'
    BY <1>3, <1>4, <1>5 DEF WorkerInv, TempInv
  <2>3. RowInv(p)'
    BY <1>3, <1>4, <1>5 DEF WorkerInv, RowInv, Open, Run
  <2>4. DescribedInv(p)'
    BY <1>3, <1>4, <1>5 DEF WorkerInv, DescribedInv, Ended, Run, outside
  <2>5. OutputInv(p)'
    <3>1. DOMAIN proc'[p].hashed = {}
      BY <1>5
    <3> QED BY <3>1, <1>5 DEF OutputInv
  <2>6. StoppedInv(p)'
    BY <1>5 DEF StoppedInv, At
  <2> QED BY <2>1, <2>2, <2>3, <2>4, <2>5, <2>6 DEF WorkerInv
<1> QED BY <1>2, <1>3, <1>4, <1>6, <1>7, BacktestRunAssumption, LocalStep DEF TypeOK

\* A process that dies leaves everything as it is.
LEMMA CrashKeeps ==
    ASSUME RunInv, NEW p \in Process, Crash(p)
    PROVE  RunInv'
<1> DEFINE c == [pc |-> "crashed"]
<1>1. DOMAIN c = {"pc"} /\ c.pc = "crashed"
  OBVIOUS
<1>2. DOMAIN c \subseteq Fields
  BY <1>1 DEF Fields
<1>3. /\ Become(p, c)
      /\ Spend("crash", MaxCrashes)
      /\ UNCHANGED <<outside, files, temps, rows, artifacts>>
  BY DEF Crash, Working
<1> HIDE DEF c
<1>4. TypeOK /\ DatasetInv /\ WorkerInv(p) /\ proc[p] \in Worker
  BY DEF RunInv, TypeOK
<1>5. /\ proc'[p].pc = "crashed" /\ proc'[p].todo = proc[p].todo
      /\ proc'[p].snapshot = proc[p].snapshot /\ proc'[p].expected = proc[p].expected
      /\ proc'[p].metrics = proc[p].metrics /\ proc'[p].row = proc[p].row
      /\ proc'[p].revision = proc[p].revision /\ proc'[p].status = proc[p].status
      /\ proc'[p].left = proc[p].left /\ proc'[p].hashed = proc[p].hashed
      /\ proc'[p].cancelled = proc[p].cancelled
      /\ proc'[p] = [f \in Fields |-> proc'[p][f]]
  BY <1>1, <1>2, <1>3, <1>4, Becoming DEF Fields
<1>6. proc'[p] \in Worker
  BY <1>3, <1>4, <1>5, WorkerFields, WorkerTyped DEF Places
<1>7. WorkerInv(p)'
  <2>1. PlanInv(p)'
    BY <1>3, <1>4, <1>5 DEF WorkerInv, PlanInv, Copying
  <2>2. TempInv(p)'
    BY <1>3, <1>4, <1>5 DEF WorkerInv, TempInv
  <2>3. RowInv(p)'
    BY <1>3, <1>4, <1>5 DEF WorkerInv, RowInv, Open, Run
  <2>4. DescribedInv(p)'
    BY <1>3, <1>4, <1>5 DEF WorkerInv, DescribedInv, Ended, Run, outside
  <2>5. OutputInv(p)'
    BY <1>3, <1>4, <1>5 DEF WorkerInv, OutputInv, Run, Output, Unhashed
  <2>6. StoppedInv(p)'
    BY <1>5 DEF StoppedInv, At
  <2> QED BY <2>1, <2>2, <2>3, <2>4, <2>5, <2>6 DEF WorkerInv
<1> QED BY <1>2, <1>3, <1>4, <1>6, <1>7, BacktestRunAssumption, LocalStep DEF TypeOK

\* A cancellation is noticed only by later steps.
LEMMA CancelKeeps ==
    ASSUME RunInv, NEW p \in Process, Cancel(p)
    PROVE  RunInv'
<1> DEFINE c == [cancelled |-> TRUE]
<1>1. DOMAIN c = {"cancelled"} /\ c.cancelled = TRUE
  OBVIOUS
<1>2. DOMAIN c \subseteq Fields
  BY <1>1 DEF Fields
<1>3. /\ Become(p, c)
      /\ Spend("cancel", MaxCancels) /\ proc[p].pc # "stopped"
      /\ UNCHANGED <<outside, files, temps, rows, artifacts>>
  BY DEF Cancel, Working, At
<1> HIDE DEF c
<1>4. TypeOK /\ DatasetInv /\ WorkerInv(p) /\ proc[p] \in Worker
  BY DEF RunInv, TypeOK
<1>5. /\ proc'[p].pc = proc[p].pc /\ proc'[p].todo = proc[p].todo
      /\ proc'[p].snapshot = proc[p].snapshot /\ proc'[p].expected = proc[p].expected
      /\ proc'[p].metrics = proc[p].metrics /\ proc'[p].row = proc[p].row
      /\ proc'[p].revision = proc[p].revision /\ proc'[p].status = proc[p].status
      /\ proc'[p].left = proc[p].left /\ proc'[p].hashed = proc[p].hashed
      /\ proc'[p].cancelled = TRUE
      /\ proc'[p] = [f \in Fields |-> proc'[p][f]]
  BY <1>1, <1>2, <1>3, <1>4, Becoming DEF Fields
<1>6. proc'[p] \in Worker
  BY <1>3, <1>4, <1>5, WorkerFields, WorkerTyped DEF Places
<1>7. WorkerInv(p)'
  <2>1. PlanInv(p)'
    BY <1>3, <1>4, <1>5 DEF WorkerInv, PlanInv
  <2>2. TempInv(p)'
    BY <1>3, <1>4, <1>5 DEF WorkerInv, TempInv, NextKind
  <2>3. RowInv(p)'
    BY <1>3, <1>4, <1>5 DEF WorkerInv, RowInv, Run
  <2>4. DescribedInv(p)'
    BY <1>3, <1>4, <1>5 DEF WorkerInv, DescribedInv, Run, outside
  <2>5. OutputInv(p)'
    BY <1>3, <1>4, <1>5 DEF WorkerInv, OutputInv, Run, Output, Unhashed
  <2>6. StoppedInv(p)'
    BY <1>3, <1>5 DEF StoppedInv, At
  <2> QED BY <2>1, <2>2, <2>3, <2>4, <2>5, <2>6 DEF WorkerInv
<1> QED BY <1>2, <1>3, <1>4, <1>6, <1>7, BacktestRunAssumption, LocalStep DEF TypeOK

\* A step of one process that changes the database or the directories.
LEMMA WorkerStep ==
    ASSUME RunInv, NEW p \in Process, UNCHANGED <<outside, used>>, Grows,
           DOMAIN proc' = Process, \A q \in Process \ {p} : proc'[q] = proc[q],
           temps' \subseteq Process \X Kind,
           \A q \in Process \ {p}, k \in Kind : <<q, k>> \in temps' => <<q, k>> \in temps,
           files' \in [Dirs -> [Kind -> Content]],
           DOMAIN rows' \subseteq RowId, \A id \in DOMAIN rows' : rows'[id] \in Row,
           artifacts' \subseteq Artifact, StoredInv',
           proc'[p] \in Worker, WorkerInv(p)'
    PROVE  RunInv'
<1>1. TypeOK'
  BY DEF RunInv, TypeOK, outside
<1>2. DatasetInv'
  BY DEF RunInv, DatasetInv, outside
<1>3. ASSUME NEW q \in Process \ {p} PROVE WorkerInv(q)'
  BY OthersKeep DEF RunInv
<1> QED BY <1>1, <1>2, <1>3 DEF RunInv

\* An end that is not stored stops the process: the row is closed by another, its
\* artifacts' ids are taken, or the database failed.
LEMMA FinishFailsKeeps ==
    ASSUME RunInv, NEW p \in Process, FinishFails(p)
    PROVE  RunInv'
<1> DEFINE c == [pc |-> "stopped"]
<1>1. DOMAIN c = {"pc"} /\ c.pc = "stopped"
  OBVIOUS
<1>2. DOMAIN c \subseteq Fields
  BY <1>1 DEF Fields
<1>3. /\ Become(p, c)
      /\ proc[p].pc = "finish"
      /\ \/ UNCHANGED used /\ (~Claims(p) \/ KeyTaken(p))
         \/ Spend("fault", MaxFaults)
      /\ UNCHANGED <<outside, files, temps, rows, artifacts>>
  BY DEF FinishFails, At, FaultHappens, FinishContextLives
<1> HIDE DEF c
<1>4. TypeOK /\ DatasetInv /\ WorkerInv(p) /\ proc[p] \in Worker
  BY DEF RunInv, TypeOK
<1>5. /\ proc'[p].pc = "stopped" /\ proc'[p].todo = proc[p].todo
      /\ proc'[p].snapshot = proc[p].snapshot /\ proc'[p].expected = proc[p].expected
      /\ proc'[p].metrics = proc[p].metrics /\ proc'[p].row = proc[p].row
      /\ proc'[p].revision = proc[p].revision /\ proc'[p].status = proc[p].status
      /\ proc'[p].left = proc[p].left /\ proc'[p].hashed = proc[p].hashed
      /\ proc'[p].cancelled = proc[p].cancelled
      /\ proc'[p] = [f \in Fields |-> proc'[p][f]]
  BY <1>1, <1>2, <1>3, <1>4, Becoming DEF Fields
<1>6. proc'[p] \in Worker
  BY <1>3, <1>4, <1>5, WorkerFields, WorkerTyped DEF Places
<1>7. WorkerInv(p)'
  <2>1. PlanInv(p)'
    BY <1>3, <1>4, <1>5 DEF WorkerInv, PlanInv, Copying
  <2>2. TempInv(p)'
    BY <1>3, <1>4, <1>5 DEF WorkerInv, TempInv
  <2>3. RowInv(p)'
    BY <1>3, <1>4, <1>5 DEF WorkerInv, RowInv, Open, Run
  <2>4. DescribedInv(p)'
    BY <1>3, <1>4, <1>5 DEF WorkerInv, DescribedInv, Ended, Run, outside
  <2>5. OutputInv(p)'
    BY <1>3, <1>4, <1>5 DEF WorkerInv, OutputInv, Run, Output, Unhashed
  <2>6. StoppedInv(p)'
    <3>1. CASE Spend("fault", MaxFaults)
      BY <3>1, <1>4, Spending DEF StoppedInv
    <3>2. CASE KeyTaken(p)
      <4>1. ArtifactsOf(p)' = ArtifactsOf(p)
        BY <1>5 DEF ArtifactsOf, Run, Output
      <4> QED BY <3>2, <4>1, <1>3 DEF KeyTaken, StoppedInv
    <3>3. CASE ~Claims(p)
      BY <3>3, <1>3, <1>4, <1>5 DEF Claims, StoppedInv, WorkerInv, RowInv
    <3> QED BY <3>1, <3>2, <3>3, <1>3
  <2> QED BY <2>1, <2>2, <2>3, <2>4, <2>5, <2>6 DEF WorkerInv
<1> QED BY <1>2, <1>3, <1>4, <1>6, <1>7, BacktestRunAssumption, LocalStep DEF TypeOK

\* A process returns from a run whose row is closed: to the next one, or for good.
LEMMA Returning ==
    ASSUME RunInv, NEW p \in Process, At(p, "finish"), Return(p), Grows,
           UNCHANGED <<outside, temps, files>>, rows'[proc[p].row].status # "running"
    PROVE  /\ DOMAIN proc' = Process /\ \A q \in Process \ {p} : proc'[q] = proc[q]
           /\ proc'[p] \in Worker /\ WorkerInv(p)'
<1>1. TypeOK /\ WorkerInv(p) /\ proc[p] \in Worker /\ proc[p].pc = "finish"
  BY DEF RunInv, TypeOK, At
<1>2. /\ proc[p].todo \in Seq(Configured) /\ proc[p].todo # <<>>
      /\ Tail(proc[p].todo) \in Seq(Configured)
  BY <1>1, WorkerFields DEF WorkerInv, PlanInv
<1>3. CASE proc[p].status = "completed"
  <2> DEFINE next == IF Tail(proc[p].todo) = <<>> THEN "done" ELSE "idle"
             c == [pc |-> next, todo |-> Tail(proc[p].todo), status |-> "running", row |-> Nothing,
                   expected |-> Nothing, metrics |-> Nothing, revision |-> 0, hashed |-> <<>>]
  <2>1. /\ c.pc = next /\ c.todo = Tail(proc[p].todo) /\ c.status = "running" /\ c.row = Nothing
        /\ c.expected = Nothing /\ c.metrics = Nothing /\ c.revision = 0 /\ c.hashed = <<>>
    OBVIOUS
  <2>2. /\ DOMAIN c = {"pc", "todo", "status", "row", "expected", "metrics", "revision",
                       "hashed"}
        /\ DOMAIN c \subseteq Fields
    BY DEF Fields
  <2>3. Become(p, c)
    BY <1>3 DEF Return
  <2>4. next \in {"done", "idle"}
    OBVIOUS
  <2> HIDE DEF c, next
  <2>9. /\ DOMAIN proc' = Process /\ \A q \in Process \ {p} : proc'[q] = proc[q]
        /\ proc'[p] = [f \in Fields |-> proc'[p][f]]
        /\ \A f \in Fields : proc'[p][f] = IF f \in DOMAIN c THEN c[f] ELSE proc[p][f]
    BY <1>1, <2>2, <2>3, Becoming
  <2>5. /\ proc'[p].pc = next /\ proc'[p].todo = Tail(proc[p].todo)
        /\ proc'[p].snapshot = proc[p].snapshot /\ proc'[p].expected = Nothing
        /\ proc'[p].metrics = Nothing /\ proc'[p].row = Nothing /\ proc'[p].revision = 0
        /\ proc'[p].status = "running" /\ proc'[p].left = proc[p].left
        /\ proc'[p].hashed = <<>> /\ proc'[p].cancelled = proc[p].cancelled
    BY <2>1, <2>2, <2>9 DEF Fields
  <2>6. <<>> \in Hashes
    <3>1. <<>> \in [{} -> Content] /\ {} \in SUBSET Kind
      OBVIOUS
    <3> QED BY <3>1 DEF Hashes
  <2>7. proc'[p] \in Worker
    <3>1. /\ proc'[p].pc \in Places /\ proc'[p].status \in Status
          /\ proc'[p].hashed \in Hashes /\ proc'[p].todo \in Seq(Configured)
      BY <1>2, <2>4, <2>5, <2>6 DEF Places, Status
    <3>2. /\ proc'[p].snapshot \in Data \cup {Nothing} /\ proc'[p].expected \in Data \cup {Nothing}
          /\ proc'[p].metrics \in Data \cup {Nothing} /\ proc'[p].row \in RowId \cup {Nothing}
          /\ proc'[p].revision \in Nat /\ proc'[p].left \in SUBSET Kind
      BY <1>1, <2>5, WorkerFields
    <3>3. proc'[p].cancelled \in BOOLEAN
      BY <1>1, <2>5, WorkerFields
    <3> QED BY <2>9, <3>1, <3>2, <3>3, WorkerTyped
  <2>8. WorkerInv(p)'
    <3>1. PlanInv(p)'
      <4>1. \A i \in 1 .. Len(proc'[p].todo) : proc'[p].todo[i] \in ToSet(Plan[p])
        <5>1. \A i \in 1 .. Len(Tail(proc[p].todo)) :
                  /\ Tail(proc[p].todo)[i] = proc[p].todo[i + 1]
                  /\ i + 1 \in 1 .. Len(proc[p].todo)
          BY <1>2
        <5> QED BY <5>1, <1>1, <2>5 DEF WorkerInv, PlanInv
      <4>2. proc'[p].snapshot = Nothing
        BY <1>1, <2>5 DEF WorkerInv, PlanInv
      <4> QED BY <4>1, <4>2, <2>4, <2>5 DEF PlanInv, Copying
    <3>2. TempInv(p)'
      BY <1>1, <2>4, <2>5 DEF WorkerInv, TempInv
    <3>3. RowInv(p)'
      BY <2>4, <2>5 DEF RowInv, Open
    <3>4. DescribedInv(p)'
      BY <2>4, <2>5 DEF DescribedInv, Ended
    <3>5. OutputInv(p)'
      BY <2>4, <2>5 DEF OutputInv
    <3>6. StoppedInv(p)'
      BY <2>4, <2>5 DEF StoppedInv, At
    <3> QED BY <3>1, <3>2, <3>3, <3>4, <3>5, <3>6 DEF WorkerInv
  <2> QED BY <2>7, <2>8, <2>9
<1>4. CASE proc[p].status # "completed"
  <2> DEFINE c == [pc |-> "stopped"]
  <2>1. c.pc = "stopped" /\ DOMAIN c = {"pc"} /\ DOMAIN c \subseteq Fields
    BY DEF Fields
  <2>2. Become(p, c)
    BY <1>4 DEF Return
  <2> HIDE DEF c
  <2>3. /\ proc'[p].pc = "stopped" /\ proc'[p].todo = proc[p].todo
        /\ proc'[p].snapshot = proc[p].snapshot /\ proc'[p].expected = proc[p].expected
        /\ proc'[p].metrics = proc[p].metrics /\ proc'[p].row = proc[p].row
        /\ proc'[p].revision = proc[p].revision /\ proc'[p].status = proc[p].status
        /\ proc'[p].left = proc[p].left /\ proc'[p].hashed = proc[p].hashed
        /\ proc'[p].cancelled = proc[p].cancelled
        /\ proc'[p] = [f \in Fields |-> proc'[p][f]]
        /\ DOMAIN proc' = Process /\ \A q \in Process \ {p} : proc'[q] = proc[q]
    BY <1>1, <2>1, <2>2, Becoming DEF Fields
  <2>4. proc'[p] \in Worker
    BY <1>1, <2>3, WorkerFields, WorkerTyped DEF Places
  <2>5. WorkerInv(p)'
    <3>1. PlanInv(p)'
      BY <1>1, <2>3 DEF WorkerInv, PlanInv, Copying
    <3>2. TempInv(p)'
      BY <1>1, <2>3 DEF WorkerInv, TempInv
    <3>3. RowInv(p)'
      BY <1>1, <2>3 DEF WorkerInv, RowInv, Open, Grows
    <3>4. DescribedInv(p)'
      BY <1>1, <2>3 DEF WorkerInv, DescribedInv, Ended, outside
    <3>5. OutputInv(p)'
      BY <2>3 DEF OutputInv
    <3>6. StoppedInv(p)'
      BY <2>3 DEF StoppedInv
    <3> QED BY <3>1, <3>2, <3>3, <3>4, <3>5, <3>6 DEF WorkerInv
  <2> QED BY <2>3, <2>4, <2>5
<1> QED BY <1>3, <1>4

\* An end that is stored already needs nothing more.
LEMMA FinishedAlreadyKeeps ==
    ASSUME RunInv, NEW p \in Process, FinishedAlready(p)
    PROVE  RunInv'
<1>1. /\ At(p, "finish") /\ SameFinish(p) /\ Return(p)
      /\ UNCHANGED <<outside, files, temps, rows, artifacts, used>>
  BY DEF FinishedAlready
<1>2. Grows
  BY <1>1 DEF Grows, outside
<1>3. rows'[proc[p].row].status # "running"
  BY <1>1 DEF SameFinish, RunInv, WorkerInv, DescribedInv, At
<1>4. /\ DOMAIN proc' = Process /\ \A q \in Process \ {p} : proc'[q] = proc[q]
      /\ proc'[p] \in Worker /\ WorkerInv(p)'
  BY <1>1, <1>2, <1>3, Returning
<1>5. StoredInv'
  BY <1>1 DEF RunInv, StoredInv, CompletedOnDescribedData, outside
<1> QED BY <1>1, <1>2, <1>4, <1>5, WorkerStep DEF RunInv, TypeOK

\* The end of a run closes the row that was running, with the artifacts that are complete
\* and the described content.
LEMMA FinishKeeps ==
    ASSUME RunInv, NEW p \in Process, FinishBacktestRun(p)
    PROVE  RunInv'
<1> DEFINE r == proc[p].row
<1>1. /\ At(p, "finish") /\ Claims(p) /\ Return(p)
      /\ artifacts' = artifacts \cup ArtifactsOf(p)
      /\ UNCHANGED <<outside, files, temps, used>>
  BY DEF FinishBacktestRun
<1>2. PICK now \in Instant :
        rows' = [rows EXCEPT ![r] = Closed(p, rows[r], now)]
  BY DEF FinishBacktestRun
<1>3. /\ TypeOK /\ WorkerInv(p) /\ proc[p] \in Worker /\ proc[p].pc = "finish"
      /\ StoredInv /\ proc[p].status # "running" /\ proc[p].todo # <<>>
  BY <1>1 DEF RunInv, TypeOK, At, WorkerInv, DescribedInv, PlanInv
<1>4. /\ r \in RowId /\ r \in DOMAIN rows /\ r[1] = Run(p) /\ rows[r] \in Row
  BY <1>3, WorkerFields DEF WorkerInv, RowInv, Open, TypeOK
<1>5. rows[r].status = "running"
  BY <1>1 DEF Claims
<1>6. /\ DOMAIN rows' = DOMAIN rows /\ \A id \in DOMAIN rows \ {r} : rows'[id] = rows[id]
      /\ rows'[r] = Closed(p, rows[r], now)
  BY <1>2, <1>4
<1> HIDE DEF r
<1>7. /\ rows'[r].status = proc[p].status /\ rows'[r].data = rows[r].data /\ rows'[r] \in Row
  <2>1. proc[p].status \in Status /\ Metrics(p) \in Data \cup {Nothing}
    BY <1>3, WorkerFields DEF Metrics
  <2>2. /\ rows'[r].status = proc[p].status /\ rows'[r].data = rows[r].data
    BY <1>4, <1>6 DEF Row, Closed
  <2>3. rows'[r] \in Row
    <3>1. /\ rows[r].revision + 1 \in Nat /\ now \in Instant \cup {Nothing}
          /\ rows[r].data \in Data
      BY <1>4 DEF Row
    <3>2. rows'[r] = [data |-> rows[r].data, status |-> proc[p].status,
                      revision |-> rows[r].revision + 1, metrics |-> Metrics(p),
                      finished |-> now]
      BY <1>4, <1>6 DEF Row, Closed
    <3> QED BY <2>1, <3>1, <3>2 DEF Row
  <2> QED BY <2>2, <2>3
<1>8. Grows
  BY <1>1, <1>3, <1>4, <1>5, <1>6, <1>7 DEF Grows, outside
<1>9. /\ DOMAIN proc' = Process /\ \A q \in Process \ {p} : proc'[q] = proc[q]
      /\ proc'[p] \in Worker /\ WorkerInv(p)'
  BY <1>1, <1>3, <1>7, <1>8, Returning DEF r
<1>10. /\ Run(p) \in Configured /\ Output(p) \in Dirs
  BY <1>3, RunInHand DEF WorkerInv
<1>11. /\ DOMAIN proc[p].hashed \subseteq Kind
       /\ \A k \in DOMAIN proc[p].hashed : proc[p].hashed[k] \in Content
  BY <1>3, WorkerFields DEF Hashes
<1>12. ArtifactsOf(p) \subseteq Artifact
  BY <1>4, <1>10, <1>11 DEF ArtifactsOf, Artifact, r
<1>13. \A a \in ArtifactsOf(p) :
          /\ a.row = r /\ a.kind \in DOMAIN proc[p].hashed
          /\ a.content = proc[p].hashed[a.kind]
  BY DEF ArtifactsOf, r
<1>14. \A k \in DOMAIN proc[p].hashed : \E a \in ArtifactsOf(p) : a.row = r /\ a.kind = k
  <2> SUFFICES ASSUME NEW k \in DOMAIN proc[p].hashed
               PROVE  \E a \in ArtifactsOf(p) : a.row = r /\ a.kind = k
    OBVIOUS
  <2> DEFINE a == [run |-> Run(p), kind |-> k, content |-> proc[p].hashed[k],
                   row |-> proc[p].row, path |-> Output(p)]
  <2>1. a \in ArtifactsOf(p)
    BY DEF ArtifactsOf
  <2>2. a.row = r /\ a.kind = k
    BY DEF r
  <2> QED BY <2>1, <2>2
<1>15. StoredInv'
  <2>1. CompletedOnDescribedData'
    <3> SUFFICES ASSUME NEW id \in DOMAIN rows, rows'[id].status = "completed",
                        id[1] \in HasManifest
                 PROVE  rows'[id].data \in described'
      BY <1>6 DEF CompletedOnDescribedData
    <3>1. CASE id = r
      BY <3>1, <1>1, <1>3, <1>4, <1>7 DEF WorkerInv, DescribedInv, Ended, outside, r
    <3>2. CASE id # r
      BY <3>2, <1>1, <1>3, <1>6 DEF StoredInv, CompletedOnDescribedData, outside
    <3> QED BY <3>1, <3>2
  <2>2. ASSUME NEW a \in artifacts'
        PROVE  /\ a.row \in DOMAIN rows' /\ rows'[a.row].status = "completed"
               /\ a.content \notin {Partial, Nothing}
    <3>1. CASE a \in artifacts
      BY <3>1, <1>3, <1>5, <1>6 DEF StoredInv
    <3>2. CASE a \in ArtifactsOf(p)
      <4>1. a.row = r /\ a.content \notin {Partial, Nothing}
        BY <3>2, <1>3, <1>13 DEF WorkerInv, OutputInv
      <4>2. proc[p].status = "completed"
        BY <3>2, <1>3, <1>13 DEF WorkerInv, OutputInv
      <4> QED BY <4>1, <4>2, <1>4, <1>6, <1>7
    <3> QED BY <3>1, <3>2, <1>1
  <2>3. ASSUME NEW id \in DOMAIN rows', rows'[id].status = "completed", NEW k \in Kinds[id[1]]
        PROVE  \E a \in artifacts' : a.row = id /\ a.kind = k
    <3>1. CASE id = r
      <4>1. DOMAIN proc[p].hashed = Kinds[Run(p)]
        BY <3>1, <2>3, <1>3, <1>7 DEF WorkerInv, OutputInv
      <4> QED BY <3>1, <4>1, <1>1, <1>4, <1>14
    <3>2. CASE id # r
      <4>1. id \in DOMAIN rows /\ rows[id].status = "completed"
        BY <3>2, <2>3, <1>6
      <4>2. \E a \in artifacts : a.row = id /\ a.kind = k
        BY <4>1, <1>3 DEF StoredInv
      <4> QED BY <4>2, <1>1
    <3> QED BY <3>1, <3>2
  <2>4. \A d \in Dirs, k \in Kind : files'[d][k] # Partial
    BY <1>1, <1>3 DEF StoredInv
  <2> QED BY <2>1, <2>2, <2>3, <2>4 DEF StoredInv
<1>16. DOMAIN rows' \subseteq RowId /\ \A id \in DOMAIN rows' : rows'[id] \in Row
  BY <1>3, <1>6, <1>7 DEF TypeOK
<1>17. artifacts' \subseteq Artifact
  BY <1>1, <1>3, <1>12 DEF TypeOK
<1> QED
  <2>1. files' \in [Dirs -> [Kind -> Content]] /\ temps' \subseteq Process \X Kind
    BY <1>1, <1>3 DEF TypeOK
  <2>2. \A q \in Process \ {p}, k \in Kind : <<q, k>> \in temps' => <<q, k>> \in temps
    BY <1>1
  <2> QED BY <2>1, <2>2, <1>1, <1>8, <1>9, <1>15, <1>16, <1>17, WorkerStep

\* The row a process starts is new, or the one it stored under the same start.
LEMMA StartKeeps ==
    ASSUME RunInv, NEW p \in Process, NEW now \in Instant,
           NEW id, id = <<Run(p), Config[p], now>>,
           ~proc[p].cancelled, id \in DOMAIN rows => SameStart(p, id), At(p, "prepared"),
           rows' = With(rows, id, NewRow(p)),
           Become(p, [pc |-> "started", row |-> id, revision |-> rows'[id].revision]),
           UNCHANGED <<outside, files, temps, artifacts, used>>
    PROVE  RunInv'
<1> DEFINE c == [pc |-> "started", row |-> id, revision |-> rows'[id].revision]
<1>1. /\ DOMAIN c = {"pc", "row", "revision"}
      /\ c.pc = "started"
      /\ c.row = id
      /\ c.revision = rows'[id].revision
  OBVIOUS
<1>2. DOMAIN c \subseteq Fields
  BY <1>1 DEF Fields
<1>3. /\ Become(p, c)
      /\ proc[p].pc = "prepared"
      /\ UNCHANGED <<outside, files, temps, artifacts, used>>
  BY DEF At
<1> HIDE DEF c
<1>4. TypeOK /\ DatasetInv /\ WorkerInv(p) /\ proc[p] \in Worker
  BY DEF RunInv, TypeOK
<1>4a. proc[p].snapshot \in Data /\ proc[p].todo # <<>>
  BY <1>3, <1>4 DEF WorkerInv, PlanInv, Copying
<1>4b. /\ DOMAIN rows' = DOMAIN rows \cup {id}
       /\ \A i \in DOMAIN rows : rows'[i] = rows[i]
       /\ id \notin DOMAIN rows => rows'[id] = NewRow(p)
       /\ rows'[id].data = proc[p].snapshot
  <2>1. /\ DOMAIN rows' = DOMAIN rows \cup {id}
        /\ \A i \in DOMAIN rows : rows'[i] = rows[i]
        /\ id \notin DOMAIN rows => rows'[id] = NewRow(p)
    BY DEF With
  <2>2. CASE id \in DOMAIN rows
    BY <2>1, <2>2 DEF SameStart
  <2>3. CASE id \notin DOMAIN rows
    BY <2>1, <2>3 DEF NewRow
  <2> QED BY <2>1, <2>2, <2>3
<1>4c. /\ id \in RowId /\ id # Nothing /\ id[1] = Run(p)
       /\ \A i \in DOMAIN rows' : rows'[i] \in Row
       /\ rows'[id].revision \in Nat
  <2>1. Run(p) \in Configured
    BY <1>4, <1>4a, RunInHand DEF WorkerInv
  <2>2. id \in RowId /\ id # Nothing /\ id[1] = Run(p)
    BY <2>1, BacktestRunAssumption DEF RowId
  <2>3. NewRow(p) \in Row
    BY <1>4a DEF NewRow, Row, Status
  <2>4. \A i \in DOMAIN rows' : rows'[i] \in Row
    BY <2>3, <1>4, <1>4b DEF TypeOK
  <2>5. rows'[id].revision \in Nat
    BY <2>4, <1>4b DEF Row
  <2> QED BY <2>2, <2>4, <2>5
<1>5. /\ proc'[p].pc = "started" /\ proc'[p].todo = proc[p].todo
      /\ proc'[p].snapshot = proc[p].snapshot /\ proc'[p].expected = proc[p].expected
      /\ proc'[p].metrics = proc[p].metrics /\ proc'[p].row = id
      /\ proc'[p].revision = rows'[id].revision /\ proc'[p].status = proc[p].status
      /\ proc'[p].left = proc[p].left /\ proc'[p].hashed = proc[p].hashed
      /\ proc'[p].cancelled = proc[p].cancelled
      /\ proc'[p] = [f \in Fields |-> proc'[p][f]]
  BY <1>1, <1>2, <1>3, <1>4, Becoming DEF Fields
<1>6. proc'[p] \in Worker
  BY <1>3, <1>4, <1>5, <1>4c, WorkerFields, WorkerTyped DEF Places
<1>7. WorkerInv(p)'
  <2>1. PlanInv(p)'
    BY <1>3, <1>4, <1>5 DEF WorkerInv, PlanInv, Copying
  <2>2. TempInv(p)'
    BY <1>3, <1>4, <1>5 DEF WorkerInv, TempInv
  <2>3. RowInv(p)'
    <3>1. Run(p)' = Run(p)
      BY <1>5 DEF Run
    <3> QED BY <3>1, <1>5, <1>4b, <1>4c DEF RowInv, Open
  <2>4. DescribedInv(p)'
    BY <1>3, <1>4, <1>5 DEF WorkerInv, DescribedInv, Ended, Run, outside
  <2>5. OutputInv(p)'
    BY <1>3, <1>4, <1>5 DEF WorkerInv, OutputInv, Run, Output, Unhashed
  <2>6. StoppedInv(p)'
    BY <1>5 DEF StoppedInv, At
  <2> QED BY <2>1, <2>2, <2>3, <2>4, <2>5, <2>6 DEF WorkerInv
<1>8. Grows
  BY <1>3, <1>4b DEF Grows, outside
<1>9. StoredInv'
  <2>1. \A i \in DOMAIN rows' : rows'[i].status = "completed" =>
            i \in DOMAIN rows /\ rows[i].status = "completed" /\ rows'[i] = rows[i]
    BY <1>4b DEF NewRow
  <2>2. StoredInv
    BY DEF RunInv
  <2> QED BY <2>1, <2>2, <1>3, <1>4b DEF StoredInv, CompletedOnDescribedData, outside
<1>10. DOMAIN proc' = Process /\ \A q \in Process \ {p} : proc'[q] = proc[q]
  BY <1>2, <1>3, <1>4, Becoming
<1>11. DOMAIN rows' \subseteq RowId
  BY <1>4, <1>4b, <1>4c DEF TypeOK
<1> QED BY <1>3, <1>4, <1>6, <1>7, <1>4c, <1>8, <1>9, <1>10, <1>11, WorkerStep DEF TypeOK

\* A file gets its final name only with its whole content.
LEMMA PublishKeeps ==
    ASSUME RunInv, NEW p \in Process, Publish(p)
    PROVE  RunInv'
<1> DEFINE c == [pc |-> "write", left |-> proc[p].left \ {NextKind(p)}]
<1>1. DOMAIN c = {"pc", "left"} /\ c.pc = "write" /\ c.left = proc[p].left \ {NextKind(p)}
  OBVIOUS
<1>2. DOMAIN c \subseteq Fields
  BY <1>1 DEF Fields
<1>3. /\ Become(p, c)
      /\ proc[p].pc = "publish" /\ temps' = temps \ {<<p, NextKind(p)>>}
      /\ files' = [files EXCEPT ![Output(p)][NextKind(p)] = Rendered(p, NextKind(p))]
      /\ UNCHANGED <<outside, rows, artifacts, used>>
  BY DEF Publish, At
<1> HIDE DEF c
<1>4. TypeOK /\ DatasetInv /\ WorkerInv(p) /\ proc[p] \in Worker
  BY DEF RunInv, TypeOK
<1>5a. /\ proc[p].snapshot \in Data /\ Run(p) \in Configured /\ Output(p) \in Dirs
       /\ Kinds[Run(p)] \subseteq Kind /\ NextKind(p) \in Kind
  BY <1>3, <1>4, RunInHand DEF WorkerInv, PlanInv, Copying, NextKind, Kind
<1>5b. Rendered(p, NextKind(p)) \in Content \ {Nothing, Partial}
  <2>1. <<Run(p), Config[p], proc[p].snapshot>> \in
            Configured \X {Config[q] : q \in Process} \X Data
    BY <1>5a
  <2>2. Trades[proc[p].snapshot] \in {Trades[d] : d \in Data}
    BY <1>5a
  <2>3. \/ Rendered(p, NextKind(p)) = <<Run(p), Config[p], proc[p].snapshot>>
        \/ Rendered(p, NextKind(p)) = Trades[proc[p].snapshot]
    BY DEF Rendered, Executed
  <2> QED BY <2>1, <2>2, <2>3, BacktestRunAssumption DEF Content
<1>5c. /\ files' \in [Dirs -> [Kind -> Content]]
       /\ \A d \in Dirs, k \in Kind :
              files'[d][k] = IF d = Output(p) /\ k = NextKind(p)
                             THEN Rendered(p, NextKind(p)) ELSE files[d][k]
  <2>1. files \in [Dirs -> [Kind -> Content]]
    BY <1>4 DEF TypeOK
  <2> QED BY <2>1, <1>3, <1>5a, <1>5b
<1>5. /\ proc'[p].pc = "write" /\ proc'[p].todo = proc[p].todo
      /\ proc'[p].snapshot = proc[p].snapshot /\ proc'[p].expected = proc[p].expected
      /\ proc'[p].metrics = proc[p].metrics /\ proc'[p].row = proc[p].row
      /\ proc'[p].revision = proc[p].revision /\ proc'[p].status = proc[p].status
      /\ proc'[p].left = proc[p].left \ {NextKind(p)} /\ proc'[p].hashed = proc[p].hashed
      /\ proc'[p].cancelled = proc[p].cancelled
      /\ proc'[p] = [f \in Fields |-> proc'[p][f]]
  BY <1>1, <1>2, <1>3, <1>4, Becoming DEF Fields
<1>6. proc'[p] \in Worker
  BY <1>3, <1>4, <1>5, WorkerFields, WorkerTyped DEF Places
<1>7. WorkerInv(p)'
  <2>1. PlanInv(p)'
    BY <1>3, <1>4, <1>5 DEF WorkerInv, PlanInv, Copying
  <2>2. TempInv(p)'
    BY <1>3, <1>4, <1>5 DEF WorkerInv, TempInv
  <2>3. RowInv(p)'
    BY <1>3, <1>4, <1>5 DEF WorkerInv, RowInv, Open, Run
  <2>4. DescribedInv(p)'
    BY <1>3, <1>4, <1>5 DEF WorkerInv, DescribedInv, Ended, Run, outside
  <2>5. OutputInv(p)'
    <3>1. Run(p)' = Run(p) /\ Output(p)' = Output(p)
      BY <1>5 DEF Run, Output
    <3>2. ASSUME NEW k \in Kinds[Run(p)] \ (proc[p].left \ {NextKind(p)})
          PROVE  files'[Output(p)][k] # Nothing
      BY <1>3, <1>4, <1>5b, <1>5c DEF WorkerInv, OutputInv
    <3> QED BY <3>1, <3>2, <1>5 DEF OutputInv
  <2>6. StoppedInv(p)'
    BY <1>5 DEF StoppedInv, At
  <2> QED BY <2>1, <2>2, <2>3, <2>4, <2>5, <2>6 DEF WorkerInv
<1>8. Grows
  BY <1>3, <1>5b, <1>5c DEF Grows, outside
<1>9. StoredInv'
  <2>1. \A d \in Dirs, k \in Kind : files'[d][k] # Partial
    BY <1>5b, <1>5c DEF RunInv, StoredInv
  <2> QED BY <2>1, <1>3 DEF RunInv, StoredInv, CompletedOnDescribedData, outside
<1>10. DOMAIN proc' = Process /\ \A q \in Process \ {p} : proc'[q] = proc[q]
  BY <1>2, <1>3, <1>4, Becoming
<1> QED BY <1>3, <1>4, <1>5c, <1>6, <1>7, <1>8, <1>9, <1>10, WorkerStep DEF TypeOK

\* A file is hashed as it stands under its final name, which is complete.
LEMMA HashFileKeeps ==
    ASSUME RunInv, NEW p \in Process, At(p, "hash"), NEW kind \in Kind,
           kind = (IF "report" \in Unhashed(p) THEN "report" ELSE "trades"),
           Become(p, [hashed |-> With(proc[p].hashed, kind, files[Output(p)][kind]),
                      pc |-> IF Unhashed(p) = {kind} THEN "finish" ELSE "hash"]),
           UNCHANGED <<outside, files, temps, rows, artifacts, used>>
    PROVE  RunInv'
<1> DEFINE c == [hashed |-> With(proc[p].hashed, kind, files[Output(p)][kind]),
                 pc |-> IF Unhashed(p) = {kind} THEN "finish" ELSE "hash"]
<1>1. /\ DOMAIN c = {"hashed", "pc"}
      /\ c.hashed = With(proc[p].hashed, kind, files[Output(p)][kind])
      /\ c.pc = IF Unhashed(p) = {kind} THEN "finish" ELSE "hash"
  OBVIOUS
<1>2. DOMAIN c \subseteq Fields
  BY <1>1 DEF Fields
<1>3. /\ Become(p, c)
      /\ proc[p].pc = "hash"
      /\ UNCHANGED <<outside, files, temps, rows, artifacts, used>>
  BY DEF At
<1> HIDE DEF c
<1>4. TypeOK /\ DatasetInv /\ WorkerInv(p) /\ proc[p] \in Worker
  BY DEF RunInv, TypeOK
<1>5a. /\ Output(p) \in Dirs /\ Kinds[Run(p)] \subseteq Kind
       /\ kind \in Unhashed(p) /\ DOMAIN proc[p].hashed \subseteq Kinds[Run(p)]
  <2>1. Output(p) \in Dirs /\ Kinds[Run(p)] \subseteq Kind
    BY <1>3, <1>4, RunInHand DEF WorkerInv, PlanInv
  <2>2. Unhashed(p) # {} /\ DOMAIN proc[p].hashed \subseteq Kinds[Run(p)]
    BY <1>3, <1>4 DEF WorkerInv, OutputInv
  <2>3. kind \in Unhashed(p)
    BY <2>1, <2>2 DEF Unhashed, Kind
  <2> QED BY <2>1, <2>2, <2>3
<1>5b. LET h == With(proc[p].hashed, kind, files[Output(p)][kind])
       IN  /\ DOMAIN h = DOMAIN proc[p].hashed \cup {kind}
           /\ \A k \in DOMAIN proc[p].hashed : h[k] = proc[p].hashed[k]
           /\ h[kind] = files[Output(p)][kind]
  BY <1>5a DEF With, Unhashed
<1>5c. With(proc[p].hashed, kind, files[Output(p)][kind]) \in Hashes
  <2> DEFINE h == With(proc[p].hashed, kind, files[Output(p)][kind])
             K == DOMAIN proc[p].hashed \cup {kind}
  <2>1. proc[p].hashed \in Hashes
    BY <1>4, WorkerFields
  <2>2. K \in SUBSET Kind
    BY <2>1 DEF Hashes
  <2>3. files[Output(p)][kind] \in Content
    BY <1>4, <1>5a DEF TypeOK
  <2>4. h \in [K -> Content]
    BY <2>1, <2>3 DEF With, Hashes
  <2> QED BY <2>2, <2>4 DEF Hashes
<1>5d. files[Output(p)][kind] \notin {Nothing, Partial}
  BY <1>3, <1>4, <1>5a DEF WorkerInv, OutputInv, DescribedInv, RunInv, StoredInv, Unhashed
<1>5. /\ proc'[p].pc = IF Unhashed(p) = {kind} THEN "finish" ELSE "hash"
      /\ proc'[p].todo = proc[p].todo /\ proc'[p].snapshot = proc[p].snapshot
      /\ proc'[p].expected = proc[p].expected /\ proc'[p].metrics = proc[p].metrics
      /\ proc'[p].row = proc[p].row /\ proc'[p].revision = proc[p].revision
      /\ proc'[p].status = proc[p].status /\ proc'[p].left = proc[p].left
      /\ proc'[p].hashed = With(proc[p].hashed, kind, files[Output(p)][kind])
      /\ proc'[p].cancelled = proc[p].cancelled
      /\ proc'[p] = [f \in Fields |-> proc'[p][f]]
  BY <1>1, <1>2, <1>3, <1>4, Becoming DEF Fields
<1>6. proc'[p] \in Worker
  BY <1>3, <1>4, <1>5, <1>5c, WorkerFields, WorkerTyped DEF Places
<1>7. WorkerInv(p)'
  <2>1. PlanInv(p)'
    <3>1. proc'[p].pc \in {"hash", "finish"}
      BY <1>5
    <3> QED BY <3>1, <1>3, <1>4, <1>5 DEF WorkerInv, PlanInv, Copying
  <2>2. TempInv(p)'
    BY <1>3, <1>4, <1>5 DEF WorkerInv, TempInv
  <2>3. RowInv(p)'
    BY <1>3, <1>4, <1>5 DEF WorkerInv, RowInv, Open, Run
  <2>4. DescribedInv(p)'
    BY <1>3, <1>4, <1>5 DEF WorkerInv, DescribedInv, Ended, Run, outside
  <2>5. OutputInv(p)'
    <3>1. Run(p)' = Run(p) /\ Output(p)' = Output(p)
      BY <1>5 DEF Run, Output
    <3>2. Unhashed(p)' = Unhashed(p) \ {kind}
      BY <3>1, <1>5, <1>5b DEF Unhashed
    <3>3. proc'[p].pc = "finish" => DOMAIN proc'[p].hashed = Kinds[Run(p)]
      BY <1>4, <1>5, <1>5a, <1>5b DEF Unhashed
    <3>4. DOMAIN proc'[p].hashed \subseteq Kinds[Run(p)]
      BY <1>5, <1>5a, <1>5b DEF Unhashed
    <3>5. \A k \in DOMAIN proc'[p].hashed : proc'[p].hashed[k] \notin {Nothing, Partial}
      BY <1>3, <1>4, <1>5, <1>5a, <1>5b, <1>5d DEF WorkerInv, OutputInv
    <3>6. proc'[p].pc = "hash" => Unhashed(p)' # {}
      BY <3>2, <1>5, <1>5a
    <3>7. /\ proc'[p].pc \in {"hash", "finish"} /\ proc'[p].status = "completed"
          /\ \A k \in Kinds[Run(p)] : files'[Output(p)][k] # Nothing
      BY <1>3, <1>4, <1>5 DEF WorkerInv, OutputInv, DescribedInv
    <3> QED BY <3>1, <3>3, <3>4, <3>5, <3>6, <3>7 DEF OutputInv
  <2>6. StoppedInv(p)'
    BY <1>5 DEF StoppedInv, At
  <2> QED BY <2>1, <2>2, <2>3, <2>4, <2>5, <2>6 DEF WorkerInv
<1> QED BY <1>2, <1>3, <1>4, <1>6, <1>7, LocalStep DEF TypeOK

\* Any start: the row and its id are as StartKeeps has them.
LEMMA StartBacktestRunKeeps ==
    ASSUME RunInv, NEW p \in Process, StartBacktestRun(p)
    PROVE  RunInv'
<1>1. PICK now \in Instant :
         LET id == <<Run(p), Config[p], now>> IN
         /\ id \in DOMAIN rows => SameStart(p, id)
         /\ rows' = With(rows, id, NewRow(p))
         /\ Become(p, [pc |-> "started", row |-> id, revision |-> rows'[id].revision])
  BY DEF StartBacktestRun
<1>2. /\ At(p, "prepared") /\ ~proc[p].cancelled
      /\ UNCHANGED <<outside, files, temps, artifacts, used>>
  BY DEF StartBacktestRun
<1> QED BY <1>1, <1>2, StartKeeps

\* Any hashing of a file.
LEMMA HashKeeps ==
    ASSUME RunInv, NEW p \in Process, HashFile(p)
    PROVE  RunInv'
<1> DEFINE kind == IF "report" \in Unhashed(p) THEN "report" ELSE "trades"
<1>1. kind \in Kind
  BY DEF Kind
<1>2. /\ At(p, "hash") /\ UNCHANGED <<outside, files, temps, rows, artifacts, used>>
      /\ Become(p, [hashed |-> With(proc[p].hashed, kind, files[Output(p)][kind]),
                    pc |-> IF Unhashed(p) = {kind} THEN "finish" ELSE "hash"])
  BY DEF HashFile
<1> QED BY <1>1, <1>2, HashFileKeeps

\* A download changes what the dataset is, and describes only what it is.
LEMMA DownloadKeeps ==
    ASSUME RunInv, ReplaceData \/ ReplaceManifest \/ AbandonDownload \/ DownloadCrash
    PROVE  RunInv'
<1>1. UNCHANGED <<proc, files, temps, rows, artifacts>>
  BY DEF ReplaceData, ReplaceManifest, AbandonDownload, DownloadCrash
<1>2. /\ used' \in [{"download", "fault", "crash", "cancel"} -> Nat]
      /\ used'.fault = 0 => used.fault = 0
  <2>1. UNCHANGED used \/ \E e \in {"download", "fault", "crash"}, b \in Nat : Spend(e, b)
    BY BacktestRunAssumption
       DEF ReplaceData, ReplaceManifest, AbandonDownload, DownloadCrash, FaultHappens
  <2> QED BY <2>1, Spending DEF RunInv, DatasetInv
<1>3. /\ described \subseteq described' /\ described' \subseteq Data
      /\ source' \in Data \cup {Nothing} /\ manifest' \in Data \cup {Nothing}
      /\ downloading' \in BOOLEAN
      /\ downloading' => source' \in Data
      /\ manifest' \in described' \cup {Nothing}
  BY DEF ReplaceData, ReplaceManifest, AbandonDownload, DownloadCrash, RunInv, TypeOK, DatasetInv
<1>4. TypeOK'
  BY <1>1, <1>3 DEF RunInv, TypeOK
<1>5. DatasetInv'
  BY <1>2, <1>3 DEF DatasetInv
<1>6. StoredInv'
  BY <1>1, <1>3 DEF RunInv, StoredInv, CompletedOnDescribedData
<1>7. Grows
  BY <1>1, <1>2, <1>3 DEF Grows
<1>8. ASSUME NEW q \in Process PROVE WorkerInv(q)'
  BY <1>1, <1>7, OthersKeep DEF RunInv
<1> QED BY <1>4, <1>5, <1>6, <1>8 DEF RunInv

\* Every step keeps the invariant.
LEMMA StepKeepsRuns ==
    ASSUME RunInv, [Next]_vars
    PROVE  RunInv'
<1>1. CASE ReplaceData \/ ReplaceManifest \/ AbandonDownload \/ DownloadCrash
  BY <1>1, DownloadKeeps
<1>2. ASSUME NEW p \in Process, Step(p)
      PROVE  RunInv'
  BY <1>2, SnapshotKeeps, CannotBeginKeeps, ResolveKeeps, RefusedKeeps, StartBacktestRunKeeps,
     StartFailsKeeps, ExecuteKeeps, ExecutionFailsKeeps, WriteTempKeeps, PublishKeeps,
     WriteFailsKeeps, WritesDoneKeeps, CleanupKeeps, HashKeeps, HashFailsKeeps, FinishKeeps,
     FinishedAlreadyKeeps, FinishFailsKeeps
     DEF Step
<1>3. ASSUME NEW p \in Process, Cancel(p) \/ Crash(p)
      PROVE  RunInv'
  BY <1>3, CancelKeeps, CrashKeeps
<1>4. CASE UNCHANGED vars
  <2>1. Grows /\ UNCHANGED <<proc, files, temps, rows, artifacts, used, outside>>
    BY <1>4 DEF vars, Grows, outside
  <2>2. TypeOK' /\ DatasetInv' /\ StoredInv'
    BY <2>1 DEF RunInv, TypeOK, DatasetInv, StoredInv, CompletedOnDescribedData, outside
  <2>3. ASSUME NEW q \in Process PROVE WorkerInv(q)'
    BY <2>1, OthersKeep DEF RunInv
  <2> QED BY <2>2, <2>3 DEF RunInv
<1> QED BY <1>1, <1>2, <1>3, <1>4 DEF Next
-----------------------------------------------------------------------------
(* The theorems *)

\* A completed run that has a manifest was computed from a content some manifest
\* described, whatever downloads go on, and wherever one of them dies.
THEOREM RunsOnDescribedData == Spec => []CompletedOnDescribedData
<1>1. RunInv => CompletedOnDescribedData
  BY DEF RunInv, StoredInv
<1> QED BY RunInitially, StepKeepsRuns, <1>1, PTL DEF Spec

\* Artifacts are stored with the end of their run, all of them, and complete, also where
\* several processes publish to one directory.
THEOREM ArtifactsAndRunAgree == Spec => []ArtifactsWithTheirRun
<1>1. RunInv => ArtifactsWithTheirRun
  BY DEF RunInv, StoredInv, ArtifactsWithTheirRun
<1> QED BY RunInitially, StepKeepsRuns, <1>1, PTL DEF Spec

\* A process that ended on its own has removed its copy of the dataset and its temporary
\* files, and closed its row unless the database failed or an artifact's id was taken.
THEOREM EndsAreClean == Spec => []RunsEndCleanly
<1>1. RunInv => RunsEndCleanly
  <2> SUFFICES ASSUME RunInv, NEW p \in Process
               PROVE /\ proc[p].pc \in {"idle", "done", "stopped"} =>
                           proc[p].snapshot = Nothing /\ \A k \in Kind : <<p, k>> \notin temps
                     /\ At(p, "stopped") /\ proc[p].row # Nothing /\ used.fault = 0 /\ ~KeyTaken(p)
                           => rows[proc[p].row].status # "running"
    BY DEF RunsEndCleanly
  <2>1. WorkerInv(p)
    BY DEF RunInv
  <2>2. StoppedInv(p)
    BY <2>1 DEF WorkerInv
  <2>3. proc[p].pc \in {"idle", "done", "stopped"} =>
            proc[p].snapshot = Nothing /\ \A k \in Kind : <<p, k>> \notin temps
    BY <2>1 DEF WorkerInv, PlanInv, TempInv
  <2> QED BY <2>2, <2>3 DEF StoppedInv
<1> QED BY RunInitially, StepKeepsRuns, <1>1, PTL DEF Spec

\* Only the row that is running is ever rewritten.
LEMMA RowsStay ==
    ASSUME RunInv, [Next]_vars
    PROVE  \A id \in DOMAIN rows :
               rows[id].status # "running" => id \in DOMAIN rows' /\ rows'[id] = rows[id]
<1>1. CASE UNCHANGED rows
  BY <1>1
<1>2. ASSUME NEW p \in Process, StartBacktestRun(p)
      PROVE  \A id \in DOMAIN rows : id \in DOMAIN rows' /\ rows'[id] = rows[id]
  BY <1>2 DEF StartBacktestRun, With
<1>3. ASSUME NEW p \in Process, FinishBacktestRun(p)
      PROVE  \A id \in DOMAIN rows :
                 rows[id].status # "running" => id \in DOMAIN rows' /\ rows'[id] = rows[id]
  BY <1>3 DEF FinishBacktestRun, Claims
<1>4. UNCHANGED rows \/ \E p \in Process : StartBacktestRun(p) \/ FinishBacktestRun(p)
  BY DEF Next, Step, vars, ReplaceData, ReplaceManifest, AbandonDownload, DownloadCrash,
         SnapshotDataset, CannotBegin, ResolveMetadata, MetadataRefused, StartFails, Execute,
         ExecutionFails, WriteTemp, Publish, WriteFails, WritesDone, Cleanup, HashFile,
         HashFails, FinishedAlready, FinishFails, Cancel, Crash
<1> QED BY <1>1, <1>2, <1>3, <1>4

\* A row that is completed, failed or cancelled stays as it is, whoever started under its id.
THEOREM ClosedRowsStay == Spec => TerminalIsFinal
<1>1. RunInv /\ [Next]_vars =>
        [\A id \in DOMAIN rows :
            rows[id].status # "running" => id \in DOMAIN rows' /\ rows'[id] = rows[id]]_vars
  BY RowsStay
<1> QED BY RunInitially, StepKeepsRuns, <1>1, PTL DEF Spec, TerminalIsFinal
=============================================================================
