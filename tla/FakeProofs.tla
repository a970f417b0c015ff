----------------------------- MODULE FakeProofs -----------------------------
(***************************************************************************)
(* Theorems about module FakeExchange, for any number of clients and of     *)
(* orders.                                                                 *)
(***************************************************************************)
EXTENDS FakeExchange, Loops, FiniteSetTheorems, SequenceTheorems

-----------------------------------------------------------------------------
(* The inductive invariant.                                                *)

\* The n-th order of the account.
Listed(n) == heap[orders.arr][n]

\* The account lists orders that were created, each once.
OrdersListed ==
  /\ orders.len <= Len(book)
  /\ \A n \in 1..orders.len : Listed(n) \in 1..Len(book)
  /\ \A m, n \in 1..orders.len : Listed(m) = Listed(n) => m = n
  /\ \A c \in Clients : mine[c] \in 0..Len(book)

\* A slice that somebody holds is in its array, and only while somebody goes
\* through it.
ViewsHeld ==
  \A c \in Clients :
    /\ view[c].len <= Len(heap[view[c].arr])
    /\ pos[c] <= view[c].len + 1
    /\ pc[c] # "range" => view[c] = NilSlice /\ pos[c] = 1 /\ ~exist[c]

Undisturbed(c) == pc[c] = "range" /\ c \notin disturbed

\* While nobody cancels, the account only writes behind a slice it has handed out,
\* ...
WritesBehind ==
  \A c \in Clients :
    Undisturbed(c) /\ view[c].arr = orders.arr => view[c].len <= orders.len

\* ... so that an order that is open has been seen, or is still ahead.
SeenOrAhead ==
  \A c \in Clients :
    Undisturbed(c) /\ mine[c] \in Opened =>
      exist[c] \/ \E k \in pos[c]..view[c].len : heap[view[c].arr][k] = mine[c]

\* Without an overlap there is at most one open order of a side, and it is covered.
OnePerSide ==
  ~overlapped =>
    /\ \A i, j \in Opened : book[i].side = book[j].side => i = j
    /\ \A i \in Opened : Covered(book[i])
    /\ baseFree >= 0 /\ quotedFree >= 0

FakeInv ==
  TypeOK /\ OrdersListed /\ ViewsHeld /\ WritesBehind /\ SeenOrAhead /\ OnePerSide

-----------------------------------------------------------------------------
(* Slices.                                                                 *)

\* What a slice of an array holds.
LEMMA SliceIs ==
  ASSUME NEW S, NEW s \in Seq(S), NEW n \in 0..Len(s)
  PROVE  /\ SubSeq(s, 1, n) \in Seq(S) /\ Len(SubSeq(s, 1, n)) = n
         /\ \A k \in 1..n : SubSeq(s, 1, n)[k] = s[k]
         /\ ToSet(SubSeq(s, 1, n)) = {s[k] : k \in 1..n}
<1>1. Len(s) \in Nat /\ \A k \in 1..Len(s) : s[k] \in S
  BY ElementOfSeq, LenProperties
<1>2. n \in Nat /\ \A k \in 1..n : s[k] \in S
  BY <1>1
<1> DEFINE t == SubSeq(s, 1, n)
<1>3. t \in Seq(S) /\ Len(t) = n /\ \A k \in 1..n : t[k] = s[k]
  <2>1. /\ t \in Seq(S) /\ Len(t) = IF 1 <= n THEN n - 1 + 1 ELSE 0
        /\ \A k \in 1..(n - 1 + 1) : t[k] = s[1 + k - 1]
    BY <1>2, SubSeqProperties
  <2>2. (IF 1 <= n THEN n - 1 + 1 ELSE 0) = n /\ n - 1 + 1 = n
    BY <1>2
  <2>3. \A k \in 1..n : 1 + k - 1 = k
    BY <1>2
  <2> HIDE DEF t
  <2> QED
    BY <2>1, <2>2, <2>3
<1> HIDE DEF t
<1>4. DOMAIN t = 1..n
  BY <1>3, LenProperties
<1>5. ToSet(t) = {s[k] : k \in 1..n}
  BY <1>3, <1>4 DEF ToSet
<1> QED
  BY <1>3, <1>5 DEF t

\* Somewhere is an array that nobody refers to: there is one more than those who
\* may refer to one.
LEMMA NewArrayIs ==
  ASSUME TypeOK
  PROVE  NewArray \in Arrays /\ ~Refers(orders, view, NewArray)
<1> DEFINE V == {view[c].arr : c \in Clients}
           f == [c \in Clients |-> view[c].arr]
           R == V \cup {orders.arr}
<1>1. IsFiniteSet(Clients) /\ Cardinality(Clients) \in Nat
  BY FakeAssumption, FS_CardinalityType
<1>2. IsFiniteSet(V) /\ Cardinality(V) <= Cardinality(Clients)
  <2>1. f \in Surjection(Clients, V)
    BY DEF Surjection
  <2> HIDE DEF f, V
  <2> QED
    BY <1>1, <2>1, FS_Surjection
<1>3. IsFiniteSet(R) /\ Cardinality(R) <= Cardinality(Clients) + 1
  <2> HIDE DEF V
  <2>1. Cardinality(V) \in Nat
    BY <1>2, FS_CardinalityType
  <2>2. /\ IsFiniteSet(V \cup {orders.arr})
        /\ Cardinality(V \cup {orders.arr})
             = IF orders.arr \in V THEN Cardinality(V) ELSE Cardinality(V) + 1
    BY <1>2, FS_AddElement
  <2> QED
    BY <1>1, <1>2, <2>1, <2>2
<1>4. Cardinality(Arrays) = Cardinality(Clients) + 2
  <2>1. 0 \in Int /\ Cardinality(Clients) + 1 \in Int
    BY <1>1
  <2>2. Cardinality(0..(Cardinality(Clients) + 1))
          = IF 0 > Cardinality(Clients) + 1 THEN 0 ELSE Cardinality(Clients) + 1 - 0 + 1
    BY <2>1, FS_Interval
  <2> QED
    BY <1>1, <2>2 DEF Arrays
<1>5. ~(Arrays \subseteq R)
  <2> HIDE DEF R
  <2>1. Arrays \subseteq R => Cardinality(Arrays) <= Cardinality(R)
    BY <1>3, FS_Subset
  <2>2. Cardinality(R) \in Nat
    BY <1>3, FS_CardinalityType
  <2> QED
    BY <1>1, <1>3, <1>4, <2>1, <2>2
<1>6. \E a \in Arrays : ~Refers(orders, view, a)
  BY <1>5 DEF Refers
<1> QED
  BY <1>6 DEF NewArray

\* An array with zeros behind what is written in it.
LEMMA PaddedIs ==
  ASSUME NEW s \in Seq(OrderIds \cup {0}), NEW n \in Nat
  PROVE  /\ s \o Zeros(n) \in Seq(OrderIds \cup {0})
         /\ Len(s \o Zeros(n)) = Len(s) + n
         /\ \A k \in 1..Len(s) : (s \o Zeros(n))[k] = s[k]
<1>1. Zeros(n) \in Seq(OrderIds \cup {0}) /\ Len(Zeros(n)) = n
  BY DEF Zeros
<1>2. Len(s) \in Nat
  BY LenProperties
<1> DEFINE S == OrderIds \cup {0}
           z == Zeros(n)
<1>3. s \in Seq(S) /\ z \in Seq(S) /\ Len(z) = n
  BY <1>1
<1> HIDE DEF S, z
<1>4. /\ s \o z \in Seq(S) /\ Len(s \o z) = Len(s) + Len(z)
      /\ \A k \in 1..(Len(s) + Len(z)) : (s \o z)[k] = IF k <= Len(s) THEN s[k] ELSE z[k - Len(s)]
  BY <1>3, ConcatProperties
<1>5. \A k \in 1..Len(s) : (s \o z)[k] = s[k]
  BY <1>2, <1>3, <1>4
<1> QED
  BY <1>3, <1>4, <1>5 DEF S, z

-----------------------------------------------------------------------------
(* The loop of updateActiveOrders.                                         *)

Account == [kept : Seq(OrderIds), base : Int, quoted : Int]

\* An order that was created has a side, and a positive price and amount.
LEMMA OrderIs ==
  ASSUME TypeOK, NEW i \in 1..Len(book)
  PROVE  /\ i \in OrderIds /\ book[i] \in FakeOrder
         /\ book[i].amount \in Nat \ {0} /\ book[i].price \in Nat \ {0}
         /\ SumOf(book[i]) \in Nat /\ book[i].side \in {"BUY", "SELL"}
<1>1. book \in Seq(FakeOrder) /\ Len(book) <= MaxOrders /\ Len(book) \in Nat
  BY LenProperties DEF TypeOK
<1>2. book[i] \in FakeOrder
  BY <1>1, ElementOfSeq
<1>3. i \in OrderIds
  BY <1>1, FakeAssumption DEF OrderIds
<1>4. /\ book[i].amount \in Nat \ {0} /\ book[i].price \in Nat \ {0}
      /\ book[i].side \in {"BUY", "SELL"}
  BY <1>2, FakeAssumption DEF FakeOrder
<1>5. SumOf(book[i]) \in Nat
  BY <1>4 DEF SumOf
<1> QED
  BY <1>2, <1>3, <1>4, <1>5

\* A round keeps the order, or pays it by its side.
LEMMA SettledIs ==
  ASSUME TypeOK, NEW a \in Account, NEW i \in 1..Len(book)
  PROVE  /\ Settled(a, i) \in Account
         /\ ~Completes(i) =>
              /\ Settled(a, i).kept = Append(a.kept, i)
              /\ Settled(a, i).base = a.base /\ Settled(a, i).quoted = a.quoted
         /\ Completes(i) /\ book[i].side = "BUY" =>
              /\ Settled(a, i).kept = a.kept
              /\ Settled(a, i).base = a.base + book[i].amount
              /\ Settled(a, i).quoted = a.quoted - SumOf(book[i])
         /\ Completes(i) /\ book[i].side = "SELL" =>
              /\ Settled(a, i).kept = a.kept
              /\ Settled(a, i).base = a.base - book[i].amount
              /\ Settled(a, i).quoted = a.quoted + SumOf(book[i])
<1>1. /\ i \in OrderIds /\ book[i].amount \in Nat /\ SumOf(book[i]) \in Nat
      /\ book[i].side \in {"BUY", "SELL"}
  BY OrderIs
<1>2. a.kept \in Seq(OrderIds) /\ a.base \in Int /\ a.quoted \in Int
  BY DEF Account
<1>3. Append(a.kept, i) \in Seq(OrderIds)
  BY <1>1, <1>2
<1> DEFINE p == book[i].amount
           q == SumOf(book[i])
<1>4. p \in Nat /\ q \in Nat
  BY <1>1
<1>5. CASE ~Completes(i)
  <2>1. Settled(a, i) = [a EXCEPT !.kept = Append(@, i)]
    BY <1>5 DEF Settled
  <2> QED
    BY <1>2, <1>3, <1>5, <2>1 DEF Account
<1>6. CASE Completes(i) /\ book[i].side = "BUY"
  <2>1. Settled(a, i) = [a EXCEPT !.base = @ + p, !.quoted = @ - q]
    BY <1>6 DEF Settled
  <2>2. book[i].side # "SELL"
    BY <1>6
  <2> HIDE DEF p, q
  <2>3. Settled(a, i) = [kept |-> a.kept, base |-> a.base + p, quoted |-> a.quoted - q]
    BY <2>1 DEF Account
  <2>4. /\ Settled(a, i) \in Account
        /\ Settled(a, i).kept = a.kept
        /\ Settled(a, i).base = a.base + p
        /\ Settled(a, i).quoted = a.quoted - q
    BY <1>2, <1>4, <2>3 DEF Account
  <2> QED
    BY <1>6, <2>2, <2>4 DEF p, q
<1>7. CASE Completes(i) /\ book[i].side = "SELL"
  <2>1. Settled(a, i) = [a EXCEPT !.base = @ - p, !.quoted = @ + q]
    BY <1>7 DEF Settled
  <2>2. book[i].side # "BUY"
    BY <1>7
  <2> HIDE DEF p, q
  <2>3. Settled(a, i) = [kept |-> a.kept, base |-> a.base - p, quoted |-> a.quoted + q]
    BY <2>1 DEF Account
  <2>4. /\ Settled(a, i) \in Account
        /\ Settled(a, i).kept = a.kept
        /\ Settled(a, i).base = a.base - p
        /\ Settled(a, i).quoted = a.quoted + q
    BY <1>2, <1>4, <2>3 DEF Account
  <2> QED
    BY <1>7, <2>2, <2>4 DEF p, q
<1> QED
  BY <1>1, <1>5, <1>6, <1>7

\* The loop has a state after every round, though Settling is defined by recursion over
\* the account of the moment.
LEMMA SettlingDefined ==
  ASSUME TypeOK, OrdersListed
  PROVE  /\ Settling \in [0..orders.len -> Account]
         /\ Settling[0] = [kept |-> <<>>, base |-> baseFree, quoted |-> quotedFree]
         /\ \A n \in 1..orders.len : Settling[n] = Settled(Settling[n - 1], Listed(n))
<1> DEFINE N == orders.len
           start == [kept |-> <<>>, base |-> baseFree, quoted |-> quotedFree]
           step == [n \in 1..N |-> [a \in Account |-> Settled(a, Listed(n))]]
<1>1. N \in Nat
  BY FakeAssumption DEF TypeOK, Slice
<1>2. start \in Account
  BY DEF TypeOK, Account
<1>3. step \in [1..N -> [Account -> Account]]
  <2>1. \A n \in 1..N, a \in Account : Settled(a, Listed(n)) \in Account
    BY SettledIs DEF OrdersListed
  <2> HIDE DEF N
  <2> QED
    BY <2>1
<1>4. PICK f \in [0..N -> Account] : Rounds(f, N, start, step)
  <2> HIDE DEF N, start, step
  <2> QED
    BY <1>1, <1>2, <1>3, RoundsDefined
<1>5. f = [n \in 0..N |-> IF n = 0 THEN start ELSE Settled(f[n - 1], heap[orders.arr][n])]
  <2>1. f = [n \in 0..N |-> IF n = 0 THEN start ELSE step[n][f[n - 1]]]
    BY <1>4 DEF Rounds
  <2>2. ASSUME NEW n \in 1..N PROVE step[n][f[n - 1]] = Settled(f[n - 1], Listed(n))
    <3>1. f[n - 1] \in Account
      BY <1>1, <1>4
    <3> QED
      BY <3>1
  <2> HIDE DEF step
  <2>3. ASSUME NEW n \in 0..N
        PROVE  (IF n = 0 THEN start ELSE step[n][f[n - 1]])
                 = IF n = 0 THEN start ELSE Settled(f[n - 1], heap[orders.arr][n])
    <3>1. n = 0 \/ n \in 1..N
      BY <1>1
    <3> QED
      BY <2>2, <3>1 DEF Listed
  <2> QED
    BY <2>1, <2>3, Zenon
<1>6. Settling = [n \in 0..N |-> IF n = 0 THEN start
                                ELSE Settled(Settling[n - 1], heap[orders.arr][n])]
  BY <1>5 DEF Settling
<1>7. /\ Settling[0] = start
      /\ \A n \in 1..N : Settling[n] = Settled(Settling[n - 1], Listed(n))
  <2> HIDE DEF N, start
  <2> QED
    BY <1>1, <1>6 DEF Listed
<1>8. \A n \in 0..N : Settling[n] \in Account
  <2> DEFINE S == {n \in 0..N : Settling[n] \in Account}
  <2>1. 0 \in S
    BY <1>1, <1>2, <1>7
  <2>2. ASSUME NEW n \in 0..(N - 1), n \in S PROVE n + 1 \in S
    <3>1. Listed(n + 1) \in 1..Len(book) /\ n + 1 \in 1..N /\ Settling[n] \in Account
      BY <1>1, <2>2 DEF OrdersListed
    <3>2. Settling[n + 1] = Settled(Settling[n], Listed(n + 1))
      BY <1>1, <1>7, <3>1
    <3> QED
      BY <1>1, <3>1, <3>2, SettledIs
  <2> HIDE DEF S
  <2>3. \A n \in 0..N : n \in S
    BY <1>1, <2>1, <2>2, LoopInduction
  <2> QED
    BY <2>3 DEF S
<1> QED
  BY <1>6, <1>7, <1>8, Zenon

\* After n rounds the orders kept are those of the first n that do not complete.
LEMMA KeptAre ==
  ASSUME TypeOK, OrdersListed, NEW n \in 0..orders.len
  PROVE  LET kept == Settling[n].kept IN
         /\ kept \in Seq(OrderIds) /\ Len(kept) <= n
         /\ \A k \in 1..Len(kept) :
              \E m \in 1..n : kept[k] = Listed(m) /\ ~Completes(Listed(m))
         /\ \A m \in 1..n :
              ~Completes(Listed(m)) => \E k \in 1..Len(kept) : kept[k] = Listed(m)
         /\ \A j, k \in 1..Len(kept) : kept[j] = kept[k] => j = k
<1> DEFINE Right(kept, r) ==
             /\ kept \in Seq(OrderIds) /\ Len(kept) <= r
             /\ \A k \in 1..Len(kept) :
                  \E m \in 1..r : kept[k] = Listed(m) /\ ~Completes(Listed(m))
             /\ \A m \in 1..r :
                  ~Completes(Listed(m)) => \E k \in 1..Len(kept) : kept[k] = Listed(m)
             /\ \A j, k \in 1..Len(kept) : kept[j] = kept[k] => j = k
           N == orders.len
           S == {r \in 0..N : Right(Settling[r].kept, r)}
<1>1. N \in Nat
  BY FakeAssumption DEF TypeOK, Slice
<1>2. 0 \in S
  <2>1. Settling[0].kept = <<>>
    BY SettlingDefined
  <2>2. Right(<<>>, 0)
    OBVIOUS
  <2> HIDE DEF Right
  <2> QED
    BY <1>1, <2>1, <2>2
<1>3. ASSUME NEW r \in 0..(N - 1), r \in S PROVE r + 1 \in S
  <2> DEFINE kept == Settling[r].kept
             next == Settling[r + 1].kept
             i == Listed(r + 1)
  <2>1. /\ r \in Nat /\ r + 1 \in 1..N /\ r + 1 \in 0..N /\ r \in 0..N
        /\ Right(kept, r) /\ i \in 1..Len(book)
    BY <1>1, <1>3 DEF OrdersListed
  <2>2. Settling[r] \in Account /\ Settling[r + 1] = Settled(Settling[r], i)
    BY <1>1, <2>1, SettlingDefined
  <2>3. Right(next, r + 1)
    <3>1. i \in OrderIds /\ book[i].side \in {"BUY", "SELL"}
      BY <2>1, OrderIs
    <3>2. \A m \in 1..(r + 1) : m \in 1..r \/ m = r + 1
      BY <2>1
    <3>3. \A m \in 1..r : m \in 1..(r + 1) /\ m \in 1..N /\ m # r + 1
      BY <1>1, <2>1
    <3>4. \A m \in 1..r : Listed(m) # i
      BY <2>1, <3>3 DEF OrdersListed
    <3>5. CASE Completes(i)
      <4>1. next = kept
        BY <2>1, <2>2, <3>1, <3>5, SettledIs
      <4> HIDE DEF next, kept, N
      <4>2. \A m \in 1..(r + 1) :
              ~Completes(Listed(m)) => \E k \in 1..Len(kept) : kept[k] = Listed(m)
        BY <2>1, <3>2, <3>5
      <4>3. \A k \in 1..Len(kept) :
              \E m \in 1..(r + 1) : kept[k] = Listed(m) /\ ~Completes(Listed(m))
        BY <2>1, <3>3
      <4>4. Len(kept) \in Nat /\ Len(kept) <= r + 1
        BY <2>1, LenProperties
      <4> QED
        BY <2>1, <4>1, <4>2, <4>3, <4>4
    <3>6. CASE ~Completes(i)
      <4>1. next = Append(kept, i)
        <5>1. Settled(Settling[r], i).kept = Append(Settling[r].kept, i)
          <6> HIDE DEF i
          <6> QED
            BY <2>1, <2>2, <3>6, SettledIs
        <5> QED
          BY <2>2, <5>1
      <4> HIDE DEF next, kept, N, i
      <4>2. Len(kept) \in Nat
        BY <2>1, LenProperties
      <4>3. /\ next \in Seq(OrderIds) /\ Len(next) = Len(kept) + 1
            /\ \A k \in 1..Len(kept) : next[k] = kept[k]
            /\ next[Len(kept) + 1] = i
        <5> HIDE DEF OrderIds
        <5> QED
          BY <2>1, <3>1, <4>1, AppendProperties
      <4>4. \A k \in 1..Len(next) : k \in 1..Len(kept) \/ k = Len(kept) + 1
        BY <4>2, <4>3
      <4>5. \A k \in 1..Len(kept) : k \in 1..Len(next) /\ kept[k] # i
        BY <2>1, <3>4, <4>2, <4>3
      <4>6. Len(kept) + 1 \in 1..Len(next)
        BY <4>2, <4>3
      <4>7. \A m \in 1..(r + 1) :
              ~Completes(Listed(m)) => \E k \in 1..Len(next) : next[k] = Listed(m)
        <5>1. ASSUME NEW m \in 1..r, ~Completes(Listed(m))
              PROVE  \E k \in 1..Len(next) : next[k] = Listed(m)
          BY <2>1, <4>3, <4>5, <5>1
        <5> QED
          BY <3>2, <4>3, <4>6, <5>1 DEF i
      <4>8. \A k \in 1..Len(next) :
              \E m \in 1..(r + 1) : next[k] = Listed(m) /\ ~Completes(Listed(m))
        <5>1. ASSUME NEW k \in 1..Len(kept)
              PROVE  \E m \in 1..(r + 1) : next[k] = Listed(m) /\ ~Completes(Listed(m))
          BY <2>1, <3>3, <4>3
        <5>2. r + 1 \in 1..(r + 1)
          BY <2>1
        <5> QED
          BY <3>6, <4>3, <4>4, <5>1, <5>2 DEF i
      <4>9. \A j, k \in 1..Len(next) : next[j] = next[k] => j = k
        <5> SUFFICES ASSUME NEW j \in 1..Len(next), NEW k \in 1..Len(next),
                            next[j] = next[k]
                     PROVE  j = k
          OBVIOUS
        <5>1. CASE j \in 1..Len(kept) /\ k \in 1..Len(kept)
          <6>1. kept[j] = kept[k]
            BY <4>3, <5>1
          <6> QED
            BY <2>1, <5>1, <6>1
        <5>2. CASE j \in 1..Len(kept) /\ k = Len(kept) + 1
          BY <4>3, <4>5, <5>2
        <5>3. CASE j = Len(kept) + 1 /\ k \in 1..Len(kept)
          BY <4>3, <4>5, <5>3
        <5> QED
          BY <4>4, <5>1, <5>2, <5>3
      <4>10. Len(next) <= r + 1
        BY <2>1, <4>2, <4>3
      <4> QED
        BY <4>3, <4>7, <4>8, <4>9, <4>10
    <3> QED
      BY <3>5, <3>6
  <2> HIDE DEF Right
  <2> QED
    BY <2>1, <2>3
<1>4. \A r \in 0..N : r \in S
  <2> HIDE DEF S, N
  <2> QED
    BY <1>1, <1>2, <1>3, LoopInduction
<1>5. Right(Settling[n].kept, n)
  BY <1>4
<1> QED
  BY <1>5, Zenon

\* What the account lists.
LEMMA OpenedIs ==
  ASSUME TypeOK
  PROVE  /\ orders.len \in Nat /\ Len(heap[orders.arr]) \in Nat
         /\ Opened = {Listed(k) : k \in 1..orders.len}
<1>1. /\ orders.arr \in Arrays /\ orders.len \in Nat /\ orders.len <= Len(heap[orders.arr])
      /\ heap[orders.arr] \in Seq(OrderIds \cup {0})
  BY FakeAssumption DEF TypeOK, Slice
<1> DEFINE S == OrderIds \cup {0}
           s == heap[orders.arr]
           n == orders.len
<1>2. Len(s) \in Nat /\ n \in 0..Len(s) /\ s \in Seq(S)
  BY <1>1, LenProperties
<1>3. ToSet(SubSeq(s, 1, n)) = {s[k] : k \in 1..n}
  <2> HIDE DEF S, s, n
  <2> QED
    BY <1>2, SliceIs
<1> QED
  BY <1>1, <1>2, <1>3 DEF Opened, Elements, Listed

\* What a completed order takes from the balances after n rounds, when there is at
\* most one open order of a side.
LEMMA BalancesAre ==
  ASSUME TypeOK, OrdersListed, OnePerSide, ~overlapped, NEW n \in 0..orders.len
  PROVE  LET done(m, side) == Completes(Listed(m)) /\ book[Listed(m)].side = side IN
         /\ Settling[n].base \in Int /\ Settling[n].quoted \in Int
         /\ (\A m \in 1..n : ~done(m, "SELL")) => Settling[n].base >= baseFree
         /\ \A m \in 1..n :
              done(m, "SELL") => Settling[n].base >= baseFree - book[Listed(m)].amount
         /\ (\A m \in 1..n : ~done(m, "BUY")) => Settling[n].quoted >= quotedFree
         /\ \A m \in 1..n :
              done(m, "BUY") => Settling[n].quoted >= quotedFree - SumOf(book[Listed(m)])
<1> DEFINE done(m, side) == Completes(Listed(m)) /\ book[Listed(m)].side = side
           Right(base, quoted, r) ==
             /\ base \in Int /\ quoted \in Int
             /\ (\A m \in 1..r : ~done(m, "SELL")) => base >= baseFree
             /\ \A m \in 1..r : done(m, "SELL") => base >= baseFree - book[Listed(m)].amount
             /\ (\A m \in 1..r : ~done(m, "BUY")) => quoted >= quotedFree
             /\ \A m \in 1..r :
                  done(m, "BUY") => quoted >= quotedFree - SumOf(book[Listed(m)])
           N == orders.len
           S == {r \in 0..N : Right(Settling[r].base, Settling[r].quoted, r)}
<1>1. N \in Nat /\ baseFree \in Int /\ quotedFree \in Int
  BY FakeAssumption DEF TypeOK, Slice
<1>2. 0 \in S
  <2>1. Settling[0].base = baseFree /\ Settling[0].quoted = quotedFree
    BY SettlingDefined
  <2>2. Right(baseFree, quotedFree, 0)
    BY <1>1
  <2> HIDE DEF Right
  <2> QED
    BY <1>1, <2>1, <2>2
<1>3. ASSUME NEW r \in 0..(N - 1), r \in S PROVE r + 1 \in S
  <2> DEFINE a == Settling[r]
             b == Settling[r + 1]
             i == Listed(r + 1)
             p == book[i].amount
             q == SumOf(book[i])
  <2>1. /\ r \in Nat /\ r + 1 \in 1..N /\ r + 1 \in 0..N /\ r \in 0..N
        /\ Right(a.base, a.quoted, r) /\ i \in 1..Len(book)
    <3>1. r \in Nat /\ r + 1 \in 1..N /\ r + 1 \in 0..N /\ r \in 0..N
      BY <1>1
    <3>2. i \in 1..Len(book)
      BY <3>1 DEF OrdersListed
    <3>3. Right(a.base, a.quoted, r)
      <4> HIDE DEF Right
      <4> QED
        BY <1>3
    <3> HIDE DEF Right, i, a, N
    <3> QED
      BY <3>1, <3>2, <3>3
  <2>2. a \in Account /\ b = Settled(a, i)
    <3>1. r + 1 - 1 = r
      BY <2>1
    <3>2. Settling[r + 1] = Settled(Settling[r + 1 - 1], Listed(r + 1))
      BY <2>1, SettlingDefined
    <3> QED
      BY <2>1, <3>1, <3>2, SettlingDefined
  <2>3. /\ i \in OrderIds /\ book[i].side \in {"BUY", "SELL"} /\ p \in Nat /\ q \in Nat
    BY <2>1, OrderIs
  <2>4. \A m \in 1..(r + 1) : m \in 1..r \/ m = r + 1
    BY <2>1
  <2>5. \A m \in 1..r : m \in 1..(r + 1) /\ m \in 1..N /\ m # r + 1
    BY <1>1, <2>1
  <2>6. r + 1 \in 1..(r + 1)
    BY <2>1
  <2>7. \A m \in 1..r : book[Listed(m)].side # book[i].side
    <3>1. ASSUME NEW m \in 1..r PROVE Listed(m) \in Opened /\ i \in Opened /\ Listed(m) # i
      BY <2>1, <2>5, OpenedIs DEF OrdersListed
    <3> QED
      BY <3>1 DEF OnePerSide
  <2>8. \A m \in 1..r : book[Listed(m)].amount \in Nat /\ SumOf(book[Listed(m)]) \in Nat
    <3>1. \A m \in 1..r : Listed(m) \in 1..Len(book)
      BY <2>5 DEF OrdersListed
    <3> QED
      BY <3>1, OrderIs
  <2>9. CASE ~Completes(i)
    <3>1. b.base = a.base /\ b.quoted = a.quoted
      <4> HIDE DEF i, a, b
      <4> QED
        BY <2>1, <2>2, <2>9, SettledIs
    <3>2. \A m \in 1..(r + 1), side \in {"BUY", "SELL"} : done(m, side) => m \in 1..r
      BY <2>4, <2>9
    <3> HIDE DEF done, i, a, b, N
    <3>3. Right(b.base, b.quoted, r + 1)
      BY <2>1, <2>5, <3>1, <3>2
    <3> HIDE DEF Right
    <3> QED
      BY <2>1, <3>3 DEF b
  <2>10. CASE Completes(i) /\ book[i].side = "BUY"
    <3>1. b.base = a.base + p /\ b.quoted = a.quoted - q
      <4> HIDE DEF i, a, b
      <4> QED
        BY <2>1, <2>2, <2>10, SettledIs DEF p, q
    <3>2. done(r + 1, "BUY") /\ ~done(r + 1, "SELL") /\ \A m \in 1..r : ~done(m, "BUY")
      BY <2>7, <2>10
    <3>3. SumOf(book[Listed(r + 1)]) = q
      OBVIOUS
    <3> HIDE DEF done, i, a, b, p, q, N
    <3>4. /\ b.base \in Int /\ b.quoted \in Int /\ b.base >= a.base
          /\ b.quoted >= quotedFree - q
      <4>1. a.base \in Int /\ a.quoted \in Int /\ a.quoted >= quotedFree
        BY <2>1, <3>2
      <4> QED
        BY <1>1, <2>3, <3>1, <4>1
    <3>5. (\A m \in 1..(r + 1) : ~done(m, "SELL")) => b.base >= baseFree
      BY <1>1, <2>1, <2>5, <3>4
    <3>6. \A m \in 1..(r + 1) :
            done(m, "SELL") => b.base >= baseFree - book[Listed(m)].amount
      <4>1. ASSUME NEW m \in 1..(r + 1), done(m, "SELL")
            PROVE  b.base >= baseFree - book[Listed(m)].amount
        <5>1. m \in 1..r
          BY <2>4, <3>2, <4>1
        <5> DEFINE x == book[Listed(m)].amount
        <5>2. a.base >= baseFree - x
          BY <2>1, <4>1, <5>1
        <5>3. x \in Nat
          BY <2>8, <5>1
        <5>4. a.base \in Int
          BY <2>1
        <5> HIDE DEF x
        <5>5. b.base >= baseFree - x
          BY <1>1, <3>4, <5>2, <5>3, <5>4
        <5> QED
          BY <5>5 DEF x
      <4> QED
        BY <4>1
    <3>7. \A m \in 1..(r + 1) :
            done(m, "BUY") => b.quoted >= quotedFree - SumOf(book[Listed(m)])
      BY <2>4, <3>2, <3>3, <3>4
    <3>8. Right(b.base, b.quoted, r + 1)
      BY <2>6, <3>2, <3>4, <3>5, <3>6, <3>7
    <3> HIDE DEF Right
    <3> QED
      BY <2>1, <3>8 DEF b
  <2>11. CASE Completes(i) /\ book[i].side = "SELL"
    <3>1. b.base = a.base - p /\ b.quoted = a.quoted + q
      <4> HIDE DEF i, a, b
      <4> QED
        BY <2>1, <2>2, <2>11, SettledIs DEF p, q
    <3>2. done(r + 1, "SELL") /\ ~done(r + 1, "BUY") /\ \A m \in 1..r : ~done(m, "SELL")
      BY <2>7, <2>11
    <3>3. book[Listed(r + 1)].amount = p
      OBVIOUS
    <3> HIDE DEF done, i, a, b, p, q, N
    <3>4. /\ b.base \in Int /\ b.quoted \in Int /\ b.quoted >= a.quoted
          /\ b.base >= baseFree - p
      <4>1. a.base \in Int /\ a.quoted \in Int /\ a.base >= baseFree
        BY <2>1, <3>2
      <4> QED
        BY <1>1, <2>3, <3>1, <4>1
    <3>5. (\A m \in 1..(r + 1) : ~done(m, "BUY")) => b.quoted >= quotedFree
      BY <1>1, <2>1, <2>5, <3>4
    <3>6. \A m \in 1..(r + 1) :
            done(m, "BUY") => b.quoted >= quotedFree - SumOf(book[Listed(m)])
      <4>1. ASSUME NEW m \in 1..(r + 1), done(m, "BUY")
            PROVE  b.quoted >= quotedFree - SumOf(book[Listed(m)])
        <5>1. m \in 1..r
          BY <2>4, <3>2, <4>1
        <5> DEFINE x == SumOf(book[Listed(m)])
        <5>2. a.quoted >= quotedFree - x
          BY <2>1, <4>1, <5>1
        <5>3. x \in Nat
          BY <2>8, <5>1
        <5>4. a.quoted \in Int
          BY <2>1
        <5> HIDE DEF x
        <5>5. b.quoted >= quotedFree - x
          BY <1>1, <3>4, <5>2, <5>3, <5>4
        <5> QED
          BY <5>5 DEF x
      <4> QED
        BY <4>1
    <3>7. \A m \in 1..(r + 1) :
            done(m, "SELL") => b.base >= baseFree - book[Listed(m)].amount
      BY <2>4, <3>2, <3>3, <3>4
    <3>8. Right(b.base, b.quoted, r + 1)
      BY <2>6, <3>2, <3>4, <3>5, <3>6, <3>7
    <3> HIDE DEF Right
    <3> QED
      BY <2>1, <3>8 DEF b
  <2> HIDE DEF i
  <2> QED
    BY <2>3, <2>9, <2>10, <2>11
<1>4. \A r \in 0..N : r \in S
  <2> HIDE DEF S, N
  <2> QED
    BY <1>1, <1>2, <1>3, LoopInduction
<1>5. Right(Settling[n].base, Settling[n].quoted, n)
  BY <1>4
<1> QED
  BY <1>5, Zenon

-----------------------------------------------------------------------------
(* Every action keeps the invariant.                                       *)

\* What the account lists after a step.
LEMMA OpenedAfter ==
  ASSUME TypeOK'
  PROVE  orders'.len \in Nat /\ Opened' = {Listed(k)' : k \in 1..orders'.len}
<1>1. /\ orders'.arr \in Arrays /\ orders'.len \in Nat /\ orders'.len <= Len(heap'[orders'.arr])
      /\ heap'[orders'.arr] \in Seq(OrderIds \cup {0})
  BY FakeAssumption DEF TypeOK, Slice
<1> DEFINE S == OrderIds \cup {0}
           s == heap'[orders'.arr]
           n == orders'.len
<1>2. Len(s) \in Nat /\ n \in 0..Len(s) /\ s \in Seq(S)
  BY <1>1, LenProperties
<1>3. ToSet(SubSeq(s, 1, n)) = {s[k] : k \in 1..n}
  <2> HIDE DEF S, s, n
  <2> QED
    BY <1>2, SliceIs
<1> QED
  BY <1>1, <1>3 DEF Opened, Elements, Listed

\* The invariant holds at the start.
LEMMA InitInv ==
  ASSUME Init
  PROVE  FakeInv
<1>1. Cardinality(Clients) \in Nat
  BY FakeAssumption, FS_CardinalityType
<1>2. 0 \in Arrays /\ NilSlice \in Slice
  BY <1>1, FakeAssumption DEF Arrays, Slice, NilSlice
<1>3. orders.len = 0 /\ Len(book) = 0 /\ heap[orders.arr] = <<>>
  BY <1>2 DEF Init, NilSlice
<1>4. TypeOK
  <2>1. heap \in [Arrays -> Seq(OrderIds \cup {0})] /\ Len(heap[orders.arr]) = 0
    BY <1>3 DEF Init
  <2>2. view \in [Clients -> Slice] /\ orders \in Slice
    BY <1>2 DEF Init
  <2>3. pos \in [Clients -> 1..(MaxOrders + 1)] /\ book \in Seq(FakeOrder)
    BY FakeAssumption DEF Init
  <2>4. orders.len <= Len(heap[orders.arr]) /\ Len(book) <= MaxOrders
    BY <1>3, <2>1, FakeAssumption
  <2>5. baseFree \in Int /\ quotedFree \in Int
    BY FakeAssumption DEF Init
  <2>6. mine \in [Clients -> OrderIds \cup {0}] /\ exist \in [Clients -> BOOLEAN]
    BY DEF Init
  <2>7. /\ price \in Prices \cup {0} /\ disturbed \subseteq Clients /\ overlapped \in BOOLEAN
        /\ pc \in [Clients -> {"idle", "check", "range", "cancel"}]
    BY DEF Init
  <2> QED
    BY <2>1, <2>2, <2>3, <2>4, <2>5, <2>6, <2>7, Zenon DEF TypeOK
<1>5. Opened = {}
  BY <1>3, <1>4, OpenedIs
<1>6. OrdersListed
  BY <1>3 DEF OrdersListed, Init
<1>7. ViewsHeld
  <2>1. ASSUME NEW c \in Clients
        PROVE  view[c] = NilSlice /\ view[c].len = 0 /\ Len(heap[view[c].arr]) = 0 /\ pos[c] = 1
    BY <1>2 DEF Init, NilSlice
  <2> QED
    BY <2>1 DEF ViewsHeld, Init
<1>8. WritesBehind /\ SeenOrAhead
  BY DEF WritesBehind, SeenOrAhead, Undisturbed, Init
<1>9. OnePerSide
  BY <1>5, FakeAssumption DEF OnePerSide, Init
<1> QED
  BY <1>4, <1>6, <1>7, <1>8, <1>9 DEF FakeInv

\* An order is added behind the ones that are listed, and nobody's slice changes
\* within the part the account has handed out.
LEMMA AppendedIs ==
  ASSUME FakeInv, NEW id \in OrderIds, orders.len < MaxOrders, Append1(id)
  PROVE  /\ heap' \in [Arrays -> Seq(OrderIds \cup {0})]
         /\ orders' \in Slice /\ orders'.len = orders.len + 1
         /\ orders'.len <= Len(heap'[orders'.arr])
         /\ \A k \in 1..orders.len : Listed(k)' = Listed(k)
         /\ heap'[orders'.arr][orders.len + 1] = id
         /\ \A c \in Clients :
              /\ view[c].len <= Len(heap'[view[c].arr])
              /\ view[c].arr = orders'.arr => view[c].arr = orders.arr
              /\ \A k \in 1..view[c].len :
                   view[c].arr # orders.arr \/ k <= orders.len
                     => heap'[view[c].arr][k] = heap[view[c].arr][k]
<1> DEFINE n == orders.len
           S == OrderIds \cup {0}
           s == heap[orders.arr]
<1>1. /\ TypeOK /\ ViewsHeld /\ heap \in [Arrays -> Seq(S)] /\ orders \in Slice
      /\ orders.arr \in Arrays /\ n \in Nat /\ n <= Len(s) /\ Len(s) \in Nat /\ s \in Seq(S)
      /\ MaxOrders \in Nat /\ id \in S
  BY FakeAssumption, LenProperties DEF FakeInv, TypeOK, Slice
<1>2. \A c \in Clients :
        /\ view[c].arr \in Arrays /\ view[c].len \in Nat
        /\ heap[view[c].arr] \in Seq(S) /\ view[c].len <= Len(heap[view[c].arr])
  BY FakeAssumption DEF FakeInv, TypeOK, Slice, ViewsHeld
<1>3. CASE HasRoom(orders)
  <2>1. /\ heap' = [heap EXCEPT ![orders.arr] = [s EXCEPT ![n + 1] = id]]
        /\ orders' = [orders EXCEPT !.len = n + 1]
    BY <1>3 DEF Append1
  <2>2. n + 1 \in 1..Len(s)
    BY <1>1, <1>3 DEF HasRoom
  <2> DEFINE t == [s EXCEPT ![n + 1] = id]
  <2>3. /\ t \in Seq(S) /\ Len(t) = Len(s) /\ t[n + 1] = id
        /\ \A k \in 1..Len(s) : k # n + 1 => t[k] = s[k]
    <3> HIDE DEF S, s
    <3> QED
      BY <1>1, <2>2, ExceptSeq
  <2> HIDE DEF t, S
  <2>4. /\ heap' \in [Arrays -> Seq(S)] /\ heap'[orders.arr] = t
        /\ \A a \in Arrays : a # orders.arr => heap'[a] = heap[a]
    BY <1>1, <2>1, <2>3 DEF t
  <2>5. orders' \in Slice /\ orders'.arr = orders.arr /\ orders'.len = n + 1
    BY <1>1, <2>1 DEF Slice
  <2>6. \A k \in 1..n : t[k] = s[k]
    BY <1>1, <2>2, <2>3
  <2>7. ASSUME NEW c \in Clients
        PROVE  /\ view[c].len <= Len(heap'[view[c].arr])
               /\ \A k \in 1..view[c].len :
                    view[c].arr # orders.arr \/ k <= n
                      => heap'[view[c].arr][k] = heap[view[c].arr][k]
    <3>1. CASE view[c].arr = orders.arr
      BY <1>1, <1>2, <2>3, <2>4, <2>6, <3>1
    <3>2. CASE view[c].arr # orders.arr
      BY <1>2, <2>4, <3>2
    <3> QED
      BY <3>1, <3>2
  <2> QED
    BY <1>1, <2>2, <2>3, <2>4, <2>5, <2>6, <2>7 DEF Listed, S
<1>4. CASE ~HasRoom(orders)
  <2> DEFINE e == Elements(orders)
             zeros == IF n = 0 THEN 0 ELSE n - 1
             grown == (e \o <<id>>) \o Zeros(zeros)
  <2>1. /\ orders' = [arr |-> NewArray, len |-> n + 1]
        /\ heap' = Collected([heap EXCEPT ![NewArray] = grown], orders', view)
    BY <1>4 DEF Append1
  <2>2. NewArray \in Arrays /\ ~Refers(orders, view, NewArray)
    BY <1>1, NewArrayIs
  <2>3. e \in Seq(S) /\ Len(e) = n /\ \A k \in 1..n : e[k] = s[k]
    <3>1. n \in 0..Len(s)
      BY <1>1
    <3>2. e = SubSeq(s, 1, n)
      BY DEF Elements
    <3> HIDE DEF S, s, n, e
    <3> QED
      BY <1>1, <3>1, <3>2, SliceIs
  <2> DEFINE g == Append(e, id)
  <2>4. /\ g \in Seq(S) /\ Len(g) = n + 1 /\ g[n + 1] = id
        /\ \A k \in 1..n : g[k] = s[k]
    <3> HIDE DEF S, s, n, e
    <3> QED
      BY <1>1, <2>3, AppendProperties
  <2>5. e \o <<id>> = g
    <3> HIDE DEF S, s, n, e
    <3> QED
      BY <1>1, <2>3, AppendIsConcat
  <2>6. zeros \in Nat
    BY <1>1
  <2>7. /\ grown \in Seq(S) /\ Len(grown) = n + 1 + zeros
        /\ \A k \in 1..(n + 1) : grown[k] = g[k]
    <3> HIDE DEF e, g, zeros, n
    <3>1. grown = g \o Zeros(zeros)
      BY <2>5
    <3> HIDE DEF grown
    <3>2. /\ g \o Zeros(zeros) \in Seq(S) /\ Len(g \o Zeros(zeros)) = Len(g) + zeros
          /\ \A k \in 1..Len(g) : (g \o Zeros(zeros))[k] = g[k]
      BY <2>4, <2>6, PaddedIs
    <3> HIDE DEF S
    <3> QED
      BY <2>4, <3>1, <3>2
  <2> HIDE DEF e, g, zeros, grown, S
  <2>8. Refers(orders', view, NewArray) /\ \A c \in Clients : Refers(orders', view, view[c].arr)
    BY <2>1 DEF Refers
  <2>9. \A c \in Clients : view[c].arr # NewArray
    BY <2>2 DEF Refers
  <2>10. /\ heap' \in [Arrays -> Seq(S)] /\ heap'[NewArray] = grown
         /\ \A c \in Clients : heap'[view[c].arr] = heap[view[c].arr]
    <3> DEFINE h == [heap EXCEPT ![NewArray] = grown]
    <3>1. h \in [Arrays -> Seq(S)] /\ h[NewArray] = grown
      BY <1>1, <2>2, <2>7
    <3>2. \A c \in Clients : h[view[c].arr] = heap[view[c].arr]
      BY <1>1, <1>2, <2>9
    <3>3. heap' = [a \in Arrays |-> IF Refers(orders', view, a) THEN h[a] ELSE <<>>]
      BY <2>1 DEF Collected
    <3> HIDE DEF h
    <3> QED
      BY <1>2, <2>2, <2>8, <3>1, <3>2, <3>3
  <2>11. orders'.arr = NewArray /\ orders'.len = n + 1 /\ orders' \in Slice
    BY <1>1, <2>1, <2>2 DEF Slice
  <2>12. n + 1 <= Len(grown)
    BY <1>1, <2>6, <2>7
  <2>13. grown[n + 1] = id /\ \A k \in 1..n : grown[k] = s[k]
    <3>1. n + 1 \in 1..(n + 1) /\ \A k \in 1..n : k \in 1..(n + 1)
      BY <1>1
    <3> HIDE DEF n, s
    <3> QED
      BY <2>4, <2>7, <3>1
  <2> QED
    BY <1>2, <2>9, <2>10, <2>11, <2>12, <2>13 DEF Listed, S
<1> QED
  BY <1>3, <1>4

\* The new order is the only one that is added, behind all slices of clients that
\* nobody disturbed.
LEMMA CreateOrderStep ==
  ASSUME FakeInv, NEW c \in Clients, NEW order \in FakeOrder, CreateOrder(c, order)
  PROVE  FakeInv' /\ Opened \subseteq Opened'
<1> DEFINE n == orders.len
           id == Len(book) + 1
           t == heap'[orders'.arr]
<1>1. /\ TypeOK /\ OrdersListed /\ ViewsHeld /\ WritesBehind /\ SeenOrAhead /\ OnePerSide
      /\ MaxOrders \in Nat /\ book \in Seq(FakeOrder) /\ Len(book) \in Nat /\ n \in Nat
  BY FakeAssumption, LenProperties, OpenedIs DEF FakeInv, TypeOK
<1>2. id \in OrderIds /\ n < MaxOrders /\ id \in Nat
  BY <1>1 DEF CreateOrder, OrderIds, OrdersListed
<1>3. /\ book' = Append(book, order) /\ Append1(id)
      /\ mine' = [mine EXCEPT ![c] = id] /\ pc' = [pc EXCEPT ![c] = "check"] /\ pc[c] = "idle"
      /\ overlapped' = (overlapped \/ \E i \in Opened : book[i].side = order.side)
      /\ UNCHANGED <<baseFree, quotedFree, price, view, pos, exist, disturbed>>
      /\ Covered(order)
  BY DEF CreateOrder
<1>4. /\ book' \in Seq(FakeOrder) /\ Len(book') = id /\ book'[id] = order
      /\ \A i \in 1..Len(book) : book'[i] = book[i]
  BY <1>1, <1>3, AppendProperties
<1> HIDE DEF id
<1>5. /\ heap' \in [Arrays -> Seq(OrderIds \cup {0})]
      /\ orders' \in Slice /\ orders'.len = n + 1
      /\ orders'.len <= Len(heap'[orders'.arr])
      /\ \A k \in 1..n : t[k] = Listed(k)
      /\ t[n + 1] = id
  <2>1. /\ heap' \in [Arrays -> Seq(OrderIds \cup {0})]
        /\ orders' \in Slice /\ orders'.len = n + 1
        /\ orders'.len <= Len(heap'[orders'.arr])
        /\ t[n + 1] = id
    BY <1>2, <1>3, AppendedIs
  <2>2. \A k \in 1..n : Listed(k)' = Listed(k)
    BY <1>2, <1>3, AppendedIs
  <2>3. \A k \in 1..n : t[k] = Listed(k)
    BY <2>2 DEF Listed
  <2> QED
    BY <2>1, <2>3
<1>6. \A d \in Clients :
        /\ view[d].len <= Len(heap'[view[d].arr])
        /\ view[d].arr = orders'.arr => view[d].arr = orders.arr
        /\ \A k \in 1..view[d].len :
             view[d].arr # orders.arr \/ k <= n => heap'[view[d].arr][k] = heap[view[d].arr][k]
  BY <1>2, <1>3, AppendedIs
<1>7. \A d \in Clients : /\ d # c => mine'[d] = mine[d] /\ pc'[d] = pc[d]
                         /\ mine'[c] = id /\ pc'[c] = "check"
  BY <1>1, <1>3 DEF TypeOK
<1>8. TypeOK'
  <2>1. mine' \in [Clients -> OrderIds \cup {0}] /\ pc' \in [Clients -> {"idle", "check", "range", "cancel"}]
    BY <1>1, <1>2, <1>3 DEF TypeOK
  <2>2. overlapped' \in BOOLEAN
    BY <1>3
  <2>3. Len(book') <= MaxOrders
    BY <1>2, <1>4 DEF OrderIds
  <2>4. /\ baseFree' \in Int /\ quotedFree' \in Int /\ price' \in Prices \cup {0}
        /\ view' \in [Clients -> Slice] /\ pos' \in [Clients -> 1..(MaxOrders + 1)]
        /\ exist' \in [Clients -> BOOLEAN] /\ disturbed' \subseteq Clients
    BY <1>1, <1>3 DEF TypeOK
  <2> QED
    BY <1>4, <1>5, <2>1, <2>2, <2>3, <2>4 DEF TypeOK
<1>9. \A k \in 1..(n + 1) : k \in 1..n \/ k = n + 1
  BY <1>1
<1>10. \A k \in 1..n : Listed(k) \in 1..Len(book) /\ Listed(k) # id /\ Listed(k) \in Opened
  BY <1>1, OpenedIs DEF OrdersListed, id
<1>11. Opened' \subseteq Opened \cup {id} /\ Opened \subseteq Opened'
  <2>1. Opened' = {t[k] : k \in 1..(n + 1)}
    BY <1>5, <1>8, OpenedAfter DEF Listed
  <2>2. ASSUME NEW k \in 1..(n + 1) PROVE t[k] \in Opened \cup {id}
    BY <1>5, <1>9, <1>10
  <2>3. ASSUME NEW i \in Opened PROVE i \in Opened'
    <3>1. PICK k \in 1..n : i = Listed(k)
      BY <1>1, OpenedIs
    <3>2. i = t[k] /\ k \in 1..(n + 1)
      BY <1>1, <1>5, <3>1
    <3> QED
      BY <2>1, <3>2
  <2> HIDE DEF n
  <2> QED
    BY <2>1, <2>2, <2>3
<1>12. \A i \in Opened : i \in 1..Len(book) /\ book'[i] = book[i]
  BY <1>1, <1>4, OpenedIs DEF OrdersListed
<1>13. OrdersListed'
  <2>1. \A k \in 1..(n + 1) : t[k] \in 1..Len(book')
    BY <1>1, <1>4, <1>5, <1>9, <1>10 DEF id
  <2>2. ASSUME NEW j \in 1..(n + 1), NEW k \in 1..(n + 1), t[j] = t[k]
        PROVE  j = k
    <3>1. CASE j \in 1..n /\ k \in 1..n
      BY <1>1, <1>5, <2>2, <3>1 DEF OrdersListed
    <3>2. CASE j = n + 1 /\ k \in 1..n
      BY <1>5, <1>10, <2>2, <3>2
    <3>3. CASE k = n + 1 /\ j \in 1..n
      BY <1>5, <1>10, <2>2, <3>3
    <3> QED
      BY <1>9, <3>1, <3>2, <3>3
  <2>3. \A d \in Clients : mine'[d] \in 0..Len(book')
    BY <1>1, <1>4, <1>7 DEF OrdersListed, id
  <2>4. orders'.len = n + 1 /\ orders'.len <= Len(book')
    BY <1>1, <1>4, <1>5 DEF OrdersListed, id
  <2> HIDE DEF n
  <2> QED
    BY <2>1, <2>2, <2>3, <2>4 DEF OrdersListed, Listed
<1>14. ViewsHeld'
  BY <1>1, <1>3, <1>6, <1>7 DEF ViewsHeld
<1>15. \A d \in Clients :
         Undisturbed(d)' => Undisturbed(d) /\ mine'[d] = mine[d]
  BY <1>3, <1>7 DEF Undisturbed
<1>16. WritesBehind'
  <2>1. ASSUME NEW d \in Clients, Undisturbed(d)', view[d].arr = orders'.arr
        PROVE  view[d].len <= orders'.len
    <3>1. view[d].len <= n /\ view[d].len \in Nat
      BY <1>1, <1>6, <1>15, <2>1, FakeAssumption DEF WritesBehind, TypeOK, Slice
    <3> QED
      BY <1>1, <1>5, <3>1
  <2> QED
    BY <1>3, <2>1 DEF WritesBehind
<1>17. SeenOrAhead'
  <2> SUFFICES ASSUME NEW d \in Clients, Undisturbed(d)', mine'[d] \in Opened', ~exist[d]
               PROVE  \E k \in pos[d]..view[d].len : heap'[view[d].arr][k] = mine'[d]
    BY <1>3 DEF SeenOrAhead
  <2>1. Undisturbed(d) /\ mine'[d] = mine[d]
    BY <1>15
  <2>2. mine[d] \in Opened
    BY <1>1, <1>11, <2>1 DEF OrdersListed, id
  <2>3. PICK k \in pos[d]..view[d].len : heap[view[d].arr][k] = mine[d]
    BY <1>1, <2>1, <2>2 DEF SeenOrAhead
  <2>4. k \in 1..view[d].len /\ view[d].len \in Nat
    BY <1>1, FakeAssumption DEF TypeOK, Slice
  <2>5. view[d].arr # orders.arr \/ k <= n
    BY <1>1, <2>1, <2>4 DEF WritesBehind
  <2> QED
    BY <1>6, <2>1, <2>3, <2>4, <2>5
<1>18. OnePerSide'
  <2> SUFFICES ASSUME ~overlapped'
               PROVE  /\ \A i, j \in Opened' : book'[i].side = book'[j].side => i = j
                      /\ \A i \in Opened' : Covered(book[i])'
                      /\ baseFree' >= 0 /\ quotedFree' >= 0
    BY DEF OnePerSide
  <2>1. ~overlapped /\ \A i \in Opened : book[i].side # order.side
    BY <1>3
  <2>2. \A i \in Opened' : Covered(book[i])'
    BY <1>1, <1>3, <1>4, <1>11, <1>12, <2>1 DEF OnePerSide, Covered
  <2>3. \A i, j \in Opened' : book'[i].side = book'[j].side => i = j
    BY <1>1, <1>4, <1>11, <1>12, <2>1 DEF OnePerSide
  <2> QED
    BY <1>1, <1>3, <2>1, <2>2, <2>3 DEF OnePerSide
<1> QED
  BY <1>8, <1>11, <1>13, <1>14, <1>16, <1>17, <1>18 DEF FakeInv

\* A step that leaves the account's orders and balances alone.
LEMMA SameOrders ==
  ASSUME FakeInv, TypeOK', heap'[orders.arr] = heap[orders.arr], mine' \in [Clients -> 0..Len(book)],
         UNCHANGED <<orders, book, baseFree, quotedFree, overlapped>>
  PROVE  OrdersListed' /\ OnePerSide' /\ Opened' = Opened
<1>1. Opened' = Opened
  BY DEF Opened, Elements
<1>2. TypeOK /\ OrdersListed /\ OnePerSide
  BY DEF FakeInv
<1>3. OrdersListed'
  BY <1>2 DEF OrdersListed, Listed
<1>4. \A i \in Opened : Covered(book[i])' <=> Covered(book[i])
  BY DEF Covered
<1> QED
  BY <1>1, <1>2, <1>3, <1>4 DEF OnePerSide

\* A client that begins has everything ahead.
LEMMA OpenedOrdersStep ==
  ASSUME FakeInv, NEW c \in Clients, OpenedOrders(c)
  PROVE  FakeInv'
<1>1. /\ TypeOK /\ OrdersListed /\ ViewsHeld /\ WritesBehind /\ SeenOrAhead
      /\ orders.len \in Nat
  BY OpenedIs DEF FakeInv
<1>2. /\ pc[c] = "check" /\ view' = [view EXCEPT ![c] = orders]
      /\ pc' = [pc EXCEPT ![c] = "range"]
      /\ UNCHANGED <<heap, orders, book, baseFree, quotedFree, price>>
      /\ UNCHANGED <<mine, pos, exist, disturbed, overlapped>>
  BY DEF OpenedOrders, accountVars
<1>3. TypeOK'
  BY <1>1, <1>2 DEF TypeOK
<1>4. OrdersListed' /\ OnePerSide' /\ Opened' = Opened
  <2>1. mine' \in [Clients -> 0..Len(book)]
    BY <1>1, <1>2 DEF TypeOK, OrdersListed
  <2> QED
    BY <1>2, <1>3, <2>1, SameOrders
<1>5. /\ view'[c] = orders /\ pc'[c] = "range" /\ pos[c] = 1
      /\ \A d \in Clients : d # c => view'[d] = view[d] /\ pc'[d] = pc[d]
  BY <1>1, <1>2 DEF TypeOK, ViewsHeld
<1>6. ViewsHeld'
  <2>1. orders.len <= Len(heap[orders.arr]) /\ 1 <= orders.len + 1
    BY <1>1 DEF TypeOK
  <2> QED
    BY <1>1, <1>2, <1>5, <2>1 DEF ViewsHeld
<1>7. WritesBehind'
  BY <1>1, <1>2, <1>5 DEF WritesBehind, Undisturbed
<1>8. SeenOrAhead'
  <2> SUFFICES ASSUME NEW d \in Clients, Undisturbed(d)', mine[d] \in Opened, ~exist[d]
               PROVE  \E k \in pos[d]..view'[d].len : heap[view'[d].arr][k] = mine[d]
    BY <1>2, <1>4 DEF SeenOrAhead
  <2>1. CASE d = c
    <3>1. PICK k \in 1..orders.len : Listed(k) = mine[d]
      BY <1>1, OpenedIs
    <3> QED
      BY <1>5, <2>1, <3>1 DEF Listed
  <2>2. CASE d # c
    BY <1>1, <1>2, <1>5, <2>2 DEF SeenOrAhead, Undisturbed
  <2> QED
    BY <2>1, <2>2
<1> QED
  BY <1>3, <1>4, <1>6, <1>7, <1>8 DEF FakeInv

\* The element a client goes past is its order, or is not.
LEMMA LooksStep ==
  ASSUME FakeInv, NEW c \in Clients, Looks(c)
  PROVE  FakeInv'
<1>1. TypeOK /\ OrdersListed /\ ViewsHeld /\ WritesBehind /\ SeenOrAhead
  BY DEF FakeInv
<1>2. /\ pc[c] = "range" /\ pos[c] <= view[c].len
      /\ exist' = [exist EXCEPT ![c] = @ \/ heap[view[c].arr][pos[c]] = mine[c]]
      /\ pos' = [pos EXCEPT ![c] = @ + 1]
      /\ UNCHANGED <<heap, orders, book, baseFree, quotedFree, price>>
      /\ UNCHANGED <<pc, mine, view, disturbed, overlapped>>
  BY DEF Looks, accountVars
<1>3. /\ view[c].len \in Nat /\ view[c].len <= MaxOrders /\ MaxOrders \in Nat
      /\ \A d \in Clients : pos[d] \in Nat \ {0}
  BY <1>1, FakeAssumption DEF TypeOK, Slice
<1>4. /\ exist'[c] = (exist[c] \/ heap[view[c].arr][pos[c]] = mine[c])
      /\ pos'[c] = pos[c] + 1
      /\ \A d \in Clients : d # c => exist'[d] = exist[d] /\ pos'[d] = pos[d]
  BY <1>1, <1>2 DEF TypeOK
<1>5. TypeOK'
  <2>1. pos' \in [Clients -> 1..(MaxOrders + 1)]
    <3>1. pos[c] + 1 \in 1..(MaxOrders + 1)
      BY <1>2, <1>3
    <3> QED
      BY <1>1, <1>2, <3>1 DEF TypeOK
  <2>2. exist' \in [Clients -> BOOLEAN]
    <3> DEFINE seen == exist[c] \/ heap[view[c].arr][pos[c]] = mine[c]
    <3>1. seen \in BOOLEAN /\ exist' = [exist EXCEPT ![c] = seen]
      BY <1>2
    <3> HIDE DEF seen
    <3> QED
      BY <1>1, <3>1 DEF TypeOK
  <2> QED
    BY <1>1, <1>2, <2>1, <2>2 DEF TypeOK
<1>6. OrdersListed' /\ OnePerSide' /\ Opened' = Opened
  <2>1. mine' \in [Clients -> 0..Len(book)]
    BY <1>1, <1>2 DEF TypeOK, OrdersListed
  <2> QED
    BY <1>2, <1>5, <2>1, SameOrders
<1>7. ViewsHeld'
  <2>1. pos[c] + 1 <= view[c].len + 1
    BY <1>2, <1>3
  <2> QED
    BY <1>1, <1>2, <1>4, <2>1 DEF ViewsHeld
<1>8. WritesBehind'
  BY <1>1, <1>2 DEF WritesBehind, Undisturbed
<1>9. SeenOrAhead'
  <2> SUFFICES ASSUME NEW d \in Clients, Undisturbed(d), mine[d] \in Opened, ~exist'[d]
               PROVE  \E k \in pos'[d]..view[d].len : heap[view[d].arr][k] = mine[d]
    BY <1>2, <1>6 DEF SeenOrAhead, Undisturbed
  <2>1. ~exist[d] /\ (d = c => heap[view[c].arr][pos[c]] # mine[c])
    BY <1>4
  <2>2. PICK k \in pos[d]..view[d].len : heap[view[d].arr][k] = mine[d]
    BY <1>1, <2>1 DEF SeenOrAhead
  <2>3. CASE d = c
    <3>1. k # pos[c]
      BY <2>1, <2>2, <2>3
    <3>2. k \in pos'[c]..view[c].len
      BY <1>3, <1>4, <2>2, <2>3, <3>1
    <3> QED
      BY <2>2, <2>3, <3>2
  <2>4. CASE d # c
    BY <1>4, <2>2, <2>4
  <2> QED
    BY <2>3, <2>4
<1> QED
  BY <1>5, <1>6, <1>7, <1>8, <1>9 DEF FakeInv

\* A client's list goes out of scope, and its pc becomes something else.
LEMMA DropsListStep ==
  ASSUME FakeInv, NEW c \in Clients, DropsList(c), NEW next \in {"idle", "check", "cancel"},
         pc' = [pc EXCEPT ![c] = next], mine' \in [Clients -> 0..Len(book)],
         \A d \in Clients : d # c => mine'[d] = mine[d],
         UNCHANGED <<orders, book, baseFree, quotedFree, price, overlapped>>
  PROVE  FakeInv'
<1>1. TypeOK /\ OrdersListed /\ ViewsHeld /\ WritesBehind /\ SeenOrAhead
  BY DEF FakeInv
<1>2. /\ view' = [view EXCEPT ![c] = NilSlice] /\ heap' = Collected(heap, orders, view')
      /\ pos' = [pos EXCEPT ![c] = 1] /\ exist' = [exist EXCEPT ![c] = FALSE]
      /\ disturbed' = disturbed \ {c}
  BY DEF DropsList
<1>3. /\ view'[c] = NilSlice /\ pos'[c] = 1 /\ exist'[c] = FALSE /\ pc'[c] = next
      /\ \A d \in Clients : d # c => /\ view'[d] = view[d] /\ pos'[d] = pos[d]
                                     /\ exist'[d] = exist[d] /\ pc'[d] = pc[d]
  BY <1>1, <1>2 DEF TypeOK
<1>4. 0 \in Arrays /\ NilSlice \in Slice /\ NilSlice.len = 0 /\ NilSlice.arr = 0
  <2>1. Cardinality(Clients) \in Nat
    BY FakeAssumption, FS_CardinalityType
  <2> QED
    BY <2>1, FakeAssumption DEF Arrays, Slice, NilSlice
<1>5. /\ heap' \in [Arrays -> Seq(OrderIds \cup {0})] /\ heap'[orders.arr] = heap[orders.arr]
      /\ \A d \in Clients : d # c => heap'[view[d].arr] = heap[view[d].arr]
  <2>1. heap' = [a \in Arrays |-> IF Refers(orders, view', a) THEN heap[a] ELSE <<>>]
    BY <1>2 DEF Collected
  <2>2. orders.arr \in Arrays /\ \A d \in Clients : view[d].arr \in Arrays
    BY <1>1 DEF TypeOK, Slice
  <2>3. /\ Refers(orders, view', orders.arr)
        /\ \A d \in Clients : d # c => Refers(orders, view', view[d].arr)
    BY <1>3 DEF Refers
  <2>4. \A a \in Arrays : heap[a] \in Seq(OrderIds \cup {0})
    BY <1>1 DEF TypeOK
  <2>5. \A a \in Arrays : heap'[a] \in Seq(OrderIds \cup {0})
    BY <2>1, <2>4
  <2> QED
    BY <2>1, <2>2, <2>3, <2>5
<1>6. TypeOK'
  <2>1. orders.len <= Len(heap'[orders.arr])
    BY <1>1, <1>5 DEF TypeOK
  <2>2. mine' \in [Clients -> OrderIds \cup {0}]
    BY <1>1, LenProperties, FakeAssumption DEF TypeOK, OrderIds
  <2>3. /\ view' \in [Clients -> Slice] /\ exist' \in [Clients -> BOOLEAN]
        /\ pos' \in [Clients -> 1..(MaxOrders + 1)] /\ disturbed' \subseteq Clients
        /\ pc' \in [Clients -> {"idle", "check", "range", "cancel"}]
    BY <1>1, <1>2, <1>4, FakeAssumption DEF TypeOK
  <2> QED
    BY <1>1, <1>5, <2>1, <2>2, <2>3 DEF TypeOK
<1>7. OrdersListed' /\ OnePerSide' /\ Opened' = Opened
  BY <1>5, <1>6, SameOrders
<1>8. ViewsHeld'
  <2>1. ASSUME NEW d \in Clients
        PROVE  /\ view'[d].len <= Len(heap'[view'[d].arr]) /\ pos'[d] <= view'[d].len + 1
               /\ pc'[d] # "range" => view'[d] = NilSlice /\ pos'[d] = 1 /\ ~exist'[d]
    <3>1. CASE d = c
      <4>1. Len(heap'[0]) \in Nat
        BY <1>4, <1>5, LenProperties
      <4> QED
        BY <1>3, <1>4, <3>1, <4>1
    <3>2. CASE d # c
      BY <1>1, <1>3, <1>5, <3>2 DEF ViewsHeld
    <3> QED
      BY <3>1, <3>2
  <2> QED
    BY <2>1 DEF ViewsHeld
<1>9. \A d \in Clients : Undisturbed(d)' => d # c /\ Undisturbed(d)
  BY <1>2, <1>3 DEF Undisturbed
<1>10. WritesBehind'
  BY <1>1, <1>3, <1>9 DEF WritesBehind
<1>11. SeenOrAhead'
  <2> SUFFICES ASSUME NEW d \in Clients, Undisturbed(d)', mine'[d] \in Opened'
               PROVE  \/ exist'[d]
                      \/ \E k \in pos'[d]..view'[d].len : heap'[view'[d].arr][k] = mine'[d]
    BY DEF SeenOrAhead
  <2>1. d # c /\ Undisturbed(d) /\ mine[d] \in Opened /\ mine'[d] = mine[d]
    BY <1>7, <1>9
  <2>2. exist[d] \/ \E k \in pos[d]..view[d].len : heap[view[d].arr][k] = mine[d]
    BY <1>1, <2>1 DEF SeenOrAhead
  <2> QED
    BY <1>3, <1>5, <2>1, <2>2
<1> QED
  BY <1>6, <1>7, <1>8, <1>10, <1>11 DEF FakeInv

\* A client that found its order drops the list.
LEMMA ExistsStep ==
  ASSUME FakeInv, NEW c \in Clients, Exists(c)
  PROVE  FakeInv'
<1>1. PICK next \in {"check", "cancel"} : pc' = [pc EXCEPT ![c] = next]
  BY DEF Exists
<1>2. mine' \in [Clients -> 0..Len(book)] /\ mine' = mine
  BY DEF Exists, FakeInv, TypeOK, OrdersListed
<1> QED
  BY <1>1, <1>2, DropsListStep DEF Exists

\* A client that missed its order drops the list and forgets the order.
LEMMA FinishedStep ==
  ASSUME FakeInv, NEW c \in Clients, Finished(c)
  PROVE  FakeInv'
<1>1. /\ mine' \in [Clients -> 0..Len(book)]
      /\ \A d \in Clients : d # c => mine'[d] = mine[d]
  <2>1. /\ mine' = [mine EXCEPT ![c] = 0] /\ mine \in [Clients -> 0..Len(book)]
        /\ Len(book) \in Nat
    BY LenProperties DEF Finished, FakeInv, TypeOK, OrdersListed
  <2> QED
    BY <2>1
<1> QED
  BY <1>1, DropsListStep DEF Finished

\* The invariant does not depend on the price.
LEMMA UpdatePriceStep ==
  ASSUME FakeInv, UpdatePrice
  PROVE  FakeInv'
<1>1. TypeOK /\ OrdersListed /\ ViewsHeld /\ WritesBehind /\ SeenOrAhead
  BY DEF FakeInv
<1>2. /\ price' \in Prices
      /\ UNCHANGED <<heap, orders, book, baseFree, quotedFree, pc, mine, view, pos, exist>>
      /\ UNCHANGED <<disturbed, overlapped>>
  BY DEF UpdatePrice, accountVars, clientVars
<1>3. TypeOK'
  BY <1>1, <1>2 DEF TypeOK
<1>4. OrdersListed' /\ OnePerSide' /\ Opened' = Opened
  <2>1. mine' \in [Clients -> 0..Len(book)]
    BY <1>1, <1>2 DEF TypeOK, OrdersListed
  <2> QED
    BY <1>2, <1>3, <2>1, SameOrders
<1>5. ViewsHeld' /\ WritesBehind' /\ SeenOrAhead'
  BY <1>1, <1>2, <1>4 DEF ViewsHeld, WritesBehind, SeenOrAhead, Undisturbed
<1> QED
  BY <1>3, <1>4, <1>5 DEF FakeInv

\* A stuttering step.
LEMMA StutterStep ==
  ASSUME FakeInv, UNCHANGED vars
  PROVE  FakeInv'
<1>1. /\ UNCHANGED <<heap, orders, book, baseFree, quotedFree, price>>
      /\ UNCHANGED <<pc, mine, view, pos, exist, disturbed, overlapped>>
  BY DEF vars, accountVars, clientVars
<1>2. TypeOK'
  BY <1>1 DEF FakeInv, TypeOK
<1>3. OrdersListed' /\ OnePerSide' /\ Opened' = Opened
  <2>1. mine' \in [Clients -> 0..Len(book)]
    BY <1>1 DEF FakeInv, TypeOK, OrdersListed
  <2> QED
    BY <1>1, <1>2, <2>1, SameOrders
<1>4. ViewsHeld' /\ WritesBehind' /\ SeenOrAhead'
  BY <1>1, <1>3 DEF FakeInv, ViewsHeld, WritesBehind, SeenOrAhead, Undisturbed
<1> QED
  BY <1>2, <1>3, <1>4 DEF FakeInv

\* The cancelled order's element and the last one change places and the last one is
\* cut off: exactly the client's own order leaves the list.
LEMMA CancelOrderStep ==
  ASSUME FakeInv, NEW c \in Clients, CancelOrder(c)
  PROVE  FakeInv' /\ Opened \ Opened' \subseteq {mine[c]}
<1> DEFINE n == orders.len
           S == OrderIds \cup {0}
           s == heap[orders.arr]
<1>1. /\ TypeOK /\ OrdersListed /\ ViewsHeld /\ OnePerSide
      /\ n \in Nat /\ n <= Len(s) /\ Len(s) \in Nat /\ s \in Seq(S)
      /\ orders.arr \in Arrays /\ heap \in [Arrays -> Seq(S)]
      /\ Opened = {s[k] : k \in 1..n}
  BY OpenedIs DEF FakeInv, TypeOK, Slice, Listed
<1>2. PICK k \in 1..n : /\ s[k] = mine[c]
                        /\ heap' = [heap EXCEPT ![orders.arr] = SwapToEnd(@, k, n)]
  BY DEF CancelOrder
<1>3. /\ orders' = [orders EXCEPT !.len = @ - 1] /\ pc[c] = "cancel"
      /\ pc' = [pc EXCEPT ![c] = "idle"] /\ mine' = [mine EXCEPT ![c] = 0]
      /\ disturbed' = disturbed \cup {d \in Clients : pc[d] = "range"}
      /\ UNCHANGED <<book, baseFree, quotedFree, price, view, pos, exist, overlapped>>
  BY DEF CancelOrder
<1> DEFINE first == [s EXCEPT ![k] = s[n]]
           t == SwapToEnd(s, k, n)
<1>4. n \in 1..Len(s) /\ k \in 1..Len(s) /\ n >= 1
  BY <1>1, <1>2
<1>5. /\ t \in Seq(S) /\ Len(t) = Len(s)
      /\ \A j \in 1..(n - 1) : t[j] = IF j = k THEN s[n] ELSE s[j]
  <2>1. s[n] \in S /\ s[k] \in S
    <3> HIDE DEF S, s, n
    <3> QED
      BY <1>1, <1>4, ElementOfSeq
  <2>2. /\ first \in Seq(S) /\ Len(first) = Len(s)
        /\ \A j \in 1..Len(s) : first[j] = IF j = k THEN s[n] ELSE s[j]
    <3> HIDE DEF S, s, n
    <3> QED
      BY <1>1, <1>4, <2>1, ExceptSeq
  <2>3. t = [first EXCEPT ![n] = s[k]]
    BY DEF SwapToEnd
  <2> HIDE DEF S, s, n, first, t
  <2>4. /\ t \in Seq(S) /\ Len(t) = Len(s)
        /\ \A j \in 1..Len(s) : t[j] = IF j = n THEN s[k] ELSE first[j]
    BY <1>4, <2>1, <2>2, <2>3, ExceptSeq
  <2>5. \A j \in 1..(n - 1) : j \in 1..Len(s) /\ j # n
    BY <1>1, <1>4
  <2> QED
    BY <2>2, <2>4, <2>5
<1>6. /\ heap' \in [Arrays -> Seq(S)] /\ heap'[orders.arr] = t
      /\ \A a \in Arrays : Len(heap'[a]) = Len(heap[a])
  <2>1. heap' = [heap EXCEPT ![orders.arr] = t]
    BY <1>1, <1>2
  <2> HIDE DEF S, t
  <2> QED
    BY <1>1, <1>5, <2>1
<1>7. orders' \in Slice /\ orders'.arr = orders.arr /\ orders'.len = n - 1 /\ n - 1 <= Len(t)
  <2>1. orders' \in Slice /\ orders'.arr = orders.arr /\ orders'.len = n - 1
    <3>1. orders \in Slice /\ MaxOrders \in Nat
      BY <1>1, FakeAssumption DEF TypeOK
    <3>2. n <= MaxOrders /\ n - 1 \in 0..MaxOrders
      BY <1>1, <1>4, <3>1 DEF Slice
    <3> QED
      BY <1>3, <3>1, <3>2 DEF Slice
  <2> HIDE DEF t, s, n
  <2>2. n - 1 <= Len(t)
    BY <1>1, <1>5
  <2> QED
    BY <2>1, <2>2
<1>8. /\ mine'[c] = 0 /\ pc'[c] = "idle"
      /\ \A d \in Clients : d # c => mine'[d] = mine[d] /\ pc'[d] = pc[d]
  BY <1>1, <1>3 DEF TypeOK
<1>9. TypeOK'
  <2>1. /\ mine' \in [Clients -> OrderIds \cup {0}] /\ disturbed' \subseteq Clients
        /\ pc' \in [Clients -> {"idle", "check", "range", "cancel"}]
    BY <1>1, <1>3 DEF TypeOK
  <2>2. /\ book' \in Seq(FakeOrder) /\ Len(book') <= MaxOrders
        /\ baseFree' \in Int /\ quotedFree' \in Int /\ price' \in Prices \cup {0}
        /\ view' \in [Clients -> Slice] /\ pos' \in [Clients -> 1..(MaxOrders + 1)]
        /\ exist' \in [Clients -> BOOLEAN] /\ overlapped' \in BOOLEAN
    BY <1>1, <1>3 DEF TypeOK
  <2> HIDE DEF t
  <2> QED
    BY <1>6, <1>7, <2>1, <2>2 DEF TypeOK
<1>10. Opened' = {t[j] : j \in 1..(n - 1)}
  <2> HIDE DEF t
  <2> QED
    BY <1>6, <1>7, <1>9, OpenedAfter DEF Listed
<1>11. \A j \in 1..(n - 1) : j \in 1..n /\ j # n
  BY <1>1
<1>12. \A j \in 1..n : s[j] \in 1..Len(book) /\ \A m \in 1..n : s[j] = s[m] => j = m
  BY <1>1 DEF OrdersListed, Listed
<1> HIDE DEF t, s, n
<1>13. Opened' \subseteq Opened /\ Opened \ Opened' \subseteq {mine[c]}
  <2>1. ASSUME NEW j \in 1..(n - 1) PROVE t[j] \in Opened
    BY <1>1, <1>4, <1>5, <1>11
  <2>2. ASSUME NEW j \in 1..n, s[j] # mine[c] PROVE s[j] \in Opened'
    <3>1. CASE j = n
      <4>1. k # n /\ k \in 1..(n - 1)
        BY <1>1, <1>2, <2>2, <3>1
      <4>2. t[k] = s[j]
        BY <1>5, <3>1, <4>1
      <4> QED
        BY <1>10, <4>1, <4>2
    <3>2. CASE j # n
      <4>1. j \in 1..(n - 1) /\ j # k
        BY <1>1, <1>2, <2>2, <3>2
      <4> QED
        BY <1>5, <1>10, <4>1
    <3> QED
      BY <3>1, <3>2
  <2> QED
    BY <1>1, <1>10, <2>1, <2>2
<1>14. OrdersListed'
  <2>1. \A j \in 1..(n - 1) : t[j] \in 1..Len(book)
    BY <1>4, <1>5, <1>11, <1>12
  <2>2. ASSUME NEW i \in 1..(n - 1), NEW j \in 1..(n - 1), t[i] = t[j]
        PROVE  i = j
    BY <1>4, <1>5, <1>11, <1>12, <2>2
  <2>3. \A d \in Clients : mine'[d] \in 0..Len(book)
    BY <1>1, <1>8, LenProperties DEF OrdersListed, TypeOK
  <2>4. orders'.len <= Len(book) /\ book' = book
    <3>1. n <= Len(book) /\ Len(book) \in Nat
      BY <1>1, LenProperties DEF OrdersListed, TypeOK, n
    <3> QED
      BY <1>1, <1>3, <1>7, <3>1
  <2> QED
    BY <1>6, <1>7, <2>1, <2>2, <2>3, <2>4 DEF OrdersListed, Listed
<1>15. ViewsHeld'
  <2>1. \A d \in Clients : view[d].arr \in Arrays
    BY <1>1 DEF TypeOK, Slice
  <2> QED
    BY <1>1, <1>3, <1>6, <1>8, <2>1 DEF ViewsHeld
<1>16. \A d \in Clients : ~Undisturbed(d)'
  BY <1>3, <1>8 DEF Undisturbed
<1>17. WritesBehind' /\ SeenOrAhead'
  BY <1>16 DEF WritesBehind, SeenOrAhead
<1>18. OnePerSide'
  BY <1>1, <1>3, <1>13 DEF OnePerSide, Covered
<1> QED
  BY <1>9, <1>13, <1>14, <1>15, <1>17, <1>18 DEF FakeInv

\* The orders that do not complete move to a new array, and the balances stay
\* covered: of each side at most one order has completed.
LEMMA UpdateActiveOrdersStep ==
  ASSUME FakeInv, UpdateActiveOrders
  PROVE  FakeInv' /\ \A i \in Opened \ Opened' : Completes(i)
<1> DEFINE n == orders.len
           S == OrderIds \cup {0}
           s == heap[orders.arr]
           account == Settling[n]
           kept == account.kept
           zeros == n - Len(kept)
           padded == kept \o Zeros(zeros)
<1>1. /\ TypeOK /\ OrdersListed /\ ViewsHeld /\ WritesBehind /\ SeenOrAhead /\ OnePerSide
      /\ n \in Nat /\ n \in 0..n /\ heap \in [Arrays -> Seq(S)]
      /\ orders.arr \in Arrays /\ n <= MaxOrders /\ MaxOrders \in Nat
      /\ Opened = {Listed(k) : k \in 1..n}
  BY OpenedIs, FakeAssumption DEF FakeInv, TypeOK, Slice
<1>2. account \in Account
  BY <1>1, SettlingDefined
<1>3. /\ kept \in Seq(OrderIds) /\ Len(kept) <= n /\ Len(kept) \in Nat
      /\ \A k \in 1..Len(kept) : \E m \in 1..n : kept[k] = Listed(m) /\ ~Completes(Listed(m))
      /\ \A m \in 1..n :
           ~Completes(Listed(m)) => \E k \in 1..Len(kept) : kept[k] = Listed(m)
      /\ \A j, k \in 1..Len(kept) : kept[j] = kept[k] => j = k
  <2>1. LET all == Settling[n].kept IN
        /\ all \in Seq(OrderIds) /\ Len(all) <= n
        /\ \A k \in 1..Len(all) : \E m \in 1..n : all[k] = Listed(m) /\ ~Completes(Listed(m))
        /\ \A m \in 1..n :
             ~Completes(Listed(m)) => \E k \in 1..Len(all) : all[k] = Listed(m)
        /\ \A j, k \in 1..Len(all) : all[j] = all[k] => j = k
    BY <1>1, KeptAre
  <2> HIDE DEF n
  <2> QED
    BY <2>1, LenProperties
<1>4. /\ orders' = [arr |-> NewArray, len |-> Len(kept)]
      /\ heap' = Collected([heap EXCEPT ![NewArray] = padded], orders', view)
      /\ baseFree' = account.base /\ quotedFree' = account.quoted
      /\ UNCHANGED <<book, price, pc, mine, view, pos, exist, disturbed, overlapped>>
  BY DEF UpdateActiveOrders, NewOrders, clientVars
<1>5. NewArray \in Arrays /\ ~Refers(orders, view, NewArray)
  BY <1>1, NewArrayIs
<1> HIDE DEF account
<1>6. zeros \in Nat
  <2> HIDE DEF kept, n
  <2> QED
    BY <1>1, <1>3
<1>7. /\ padded \in Seq(S) /\ Len(kept) <= Len(padded)
      /\ \A k \in 1..Len(kept) : padded[k] = kept[k]
  <2> HIDE DEF zeros
  <2>1. kept \in Seq(S)
    <3> HIDE DEF kept
    <3> QED
      BY <1>3
  <2>2. /\ padded \in Seq(S) /\ Len(padded) = Len(kept) + zeros
        /\ \A k \in 1..Len(kept) : padded[k] = kept[k]
    BY <1>6, <2>1, PaddedIs
  <2> HIDE DEF padded, kept
  <2> QED
    BY <1>3, <1>6, <2>2
<1> HIDE DEF padded, kept, zeros
<1>8. /\ heap' \in [Arrays -> Seq(S)] /\ heap'[NewArray] = padded
      /\ \A c \in Clients : heap'[view[c].arr] = heap[view[c].arr]
  <2> DEFINE h == [heap EXCEPT ![NewArray] = padded]
  <2> HIDE DEF S
  <2>1. \A c \in Clients : view[c].arr \in Arrays /\ view[c].arr # NewArray
    BY <1>1, <1>5 DEF TypeOK, Slice, Refers
  <2>2. h \in [Arrays -> Seq(S)] /\ h[NewArray] = padded
    BY <1>1, <1>5, <1>7
  <2>3. \A c \in Clients : h[view[c].arr] = heap[view[c].arr]
    BY <1>1, <2>1
  <2>4. Refers(orders', view, NewArray) /\ \A c \in Clients : Refers(orders', view, view[c].arr)
    BY <1>4 DEF Refers
  <2>5. heap' = [a \in Arrays |-> IF Refers(orders', view, a) THEN h[a] ELSE <<>>]
    BY <1>4 DEF Collected
  <2>6. <<>> \in Seq(S)
    OBVIOUS
  <2> HIDE DEF h
  <2>7. \A a \in Arrays : heap'[a] = IF Refers(orders', view, a) THEN h[a] ELSE <<>>
    BY <2>5
  <2>8. \A a \in Arrays : heap'[a] \in Seq(S)
    BY <2>2, <2>6, <2>7
  <2> QED
    BY <1>5, <2>1, <2>2, <2>3, <2>4, <2>5, <2>7, <2>8
<1>9. orders'.arr = NewArray /\ orders'.len = Len(kept) /\ orders' \in Slice
  <2>1. Len(kept) \in 0..MaxOrders
    BY <1>1, <1>3
  <2> QED
    BY <1>4, <1>5, <2>1 DEF Slice
<1>10. TypeOK'
  <2>1. baseFree' \in Int /\ quotedFree' \in Int
    BY <1>2, <1>4 DEF Account
  <2>2. orders'.len <= Len(heap'[orders'.arr])
    BY <1>7, <1>8, <1>9
  <2> QED
    BY <1>1, <1>4, <1>8, <1>9, <2>1, <2>2 DEF TypeOK
<1>11. Opened' = {kept[k] : k \in 1..Len(kept)}
  <2>1. Opened' = {padded[k] : k \in 1..Len(kept)}
    BY <1>8, <1>9, <1>10, OpenedAfter DEF Listed
  <2> QED
    BY <1>7, <2>1
<1> HIDE DEF n
<1>12. Opened' \subseteq Opened
  BY <1>1, <1>3, <1>11
<1>13. \A i \in Opened \ Opened' : Completes(i)
  BY <1>1, <1>3, <1>11
<1>14. OrdersListed'
  <2>1. \A k \in 1..Len(kept) : kept[k] \in 1..Len(book)
    BY <1>1, <1>3 DEF OrdersListed, n
  <2>2. Len(kept) <= Len(book)
    BY <1>1, <1>3, LenProperties DEF OrdersListed, TypeOK, n
  <2>3. \A k \in 1..Len(kept) : heap'[orders'.arr][k] = kept[k]
    BY <1>7, <1>8, <1>9
  <2>4. \A j, k \in 1..Len(kept) :
          heap'[orders'.arr][j] = heap'[orders'.arr][k] => j = k
    BY <1>3, <2>3
  <2>5. \A c \in Clients : mine'[c] \in 0..Len(book')
    BY <1>1, <1>4 DEF OrdersListed
  <2> QED
    BY <1>4, <1>9, <2>1, <2>2, <2>3, <2>4, <2>5 DEF OrdersListed, Listed
<1>15. ViewsHeld'
  BY <1>1, <1>4, <1>8 DEF ViewsHeld
<1>16. WritesBehind'
  BY <1>4, <1>5, <1>9 DEF WritesBehind, Refers
<1>17. SeenOrAhead'
  <2> SUFFICES ASSUME NEW d \in Clients, Undisturbed(d), mine[d] \in Opened', ~exist[d]
               PROVE  \E k \in pos[d]..view[d].len : heap'[view[d].arr][k] = mine[d]
    BY <1>4 DEF SeenOrAhead, Undisturbed
  <2>1. PICK k \in pos[d]..view[d].len : heap[view[d].arr][k] = mine[d]
    BY <1>1, <1>12 DEF SeenOrAhead
  <2> QED
    BY <1>8, <2>1
<1>18. OnePerSide'
  <2> SUFFICES ASSUME ~overlapped
               PROVE  /\ \A i, j \in Opened' : book[i].side = book[j].side => i = j
                      /\ \A i \in Opened' : Covered(book[i])'
                      /\ baseFree' >= 0 /\ quotedFree' >= 0
    BY <1>4 DEF OnePerSide
  <2> DEFINE done(m, side) == Completes(Listed(m)) /\ book[Listed(m)].side = side
  <2>1. /\ baseFree' \in Int /\ quotedFree' \in Int
        /\ (\A m \in 1..n : ~done(m, "SELL")) => baseFree' >= baseFree
        /\ \A m \in 1..n :
             done(m, "SELL") => baseFree' >= baseFree - book[Listed(m)].amount
        /\ (\A m \in 1..n : ~done(m, "BUY")) => quotedFree' >= quotedFree
        /\ \A m \in 1..n :
             done(m, "BUY") => quotedFree' >= quotedFree - SumOf(book[Listed(m)])
    <3>1. LET finished(m, side) == Completes(Listed(m)) /\ book[Listed(m)].side = side IN
          /\ Settling[n].base \in Int /\ Settling[n].quoted \in Int
          /\ (\A m \in 1..n : ~finished(m, "SELL")) => Settling[n].base >= baseFree
          /\ \A m \in 1..n :
               finished(m, "SELL") => Settling[n].base >= baseFree - book[Listed(m)].amount
          /\ (\A m \in 1..n : ~finished(m, "BUY")) => Settling[n].quoted >= quotedFree
          /\ \A m \in 1..n :
               finished(m, "BUY") => Settling[n].quoted >= quotedFree - SumOf(book[Listed(m)])
      BY <1>1, BalancesAre DEF n
    <3>2. baseFree' = Settling[n].base /\ quotedFree' = Settling[n].quoted
      BY <1>4 DEF account
    <3> QED
      BY <3>1, <3>2, Zenon
  <2>2. /\ \A i, j \in Opened : book[i].side = book[j].side => i = j
        /\ \A i \in Opened : Covered(book[i])
        /\ baseFree >= 0 /\ quotedFree >= 0 /\ baseFree \in Int /\ quotedFree \in Int
    BY <1>1 DEF OnePerSide, TypeOK
  <2>3. \A m \in 1..n : /\ Listed(m) \in Opened
                        /\ book[Listed(m)].amount \in Nat /\ SumOf(book[Listed(m)]) \in Nat
                        /\ book[Listed(m)].side \in {"BUY", "SELL"}
    <3>1. \A m \in 1..n : Listed(m) \in Opened /\ Listed(m) \in 1..Len(book)
      BY <1>1 DEF OrdersListed, n
    <3> QED
      BY <1>1, <3>1, OrderIs
  <2>4. baseFree' >= 0
    <3>1. CASE \A m \in 1..n : ~done(m, "SELL")
      <4> HIDE DEF done
      <4> QED
        BY <2>1, <2>2, <3>1
    <3>2. CASE \E m \in 1..n : done(m, "SELL")
      <4>1. PICK m \in 1..n : done(m, "SELL")
        BY <3>2
      <4>2. baseFree - book[Listed(m)].amount >= 0
        BY <2>2, <2>3, <4>1 DEF Covered
      <4>3. baseFree' >= baseFree - book[Listed(m)].amount
        BY <2>1, <4>1
      <4> QED
        BY <2>1, <2>2, <2>3, <4>2, <4>3
    <3> QED
      BY <3>1, <3>2
  <2>5. quotedFree' >= 0
    <3>1. CASE \A m \in 1..n : ~done(m, "BUY")
      <4> HIDE DEF done
      <4> QED
        BY <2>1, <2>2, <3>1
    <3>2. CASE \E m \in 1..n : done(m, "BUY")
      <4>1. PICK m \in 1..n : done(m, "BUY")
        BY <3>2
      <4>2. quotedFree >= SumOf(book[Listed(m)])
        BY <2>2, <2>3, <4>1 DEF Covered
      <4>3. quotedFree' >= quotedFree - SumOf(book[Listed(m)])
        BY <2>1, <4>1
      <4> QED
        BY <2>1, <2>2, <2>3, <4>2, <4>3
    <3> QED
      BY <3>1, <3>2
  <2>6. ASSUME NEW i \in Opened' PROVE Covered(book[i])'
    <3>1. PICK k \in 1..n : i = Listed(k) /\ ~Completes(Listed(k))
      BY <1>3, <1>11
    <3>2. ASSUME NEW m \in 1..n, Completes(Listed(m)) PROVE book[Listed(m)].side # book[i].side
      BY <2>2, <2>3, <3>1, <3>2
    <3>3. Covered(book[i])
      BY <2>2, <2>3, <3>1
    <3>4. CASE book[i].side = "BUY"
      <4>1. \A m \in 1..n : ~done(m, "BUY")
        BY <3>2, <3>4
      <4>2. quotedFree' >= quotedFree
        <5> HIDE DEF done
        <5> QED
          BY <2>1, <4>1
      <4>3. quotedFree >= SumOf(book[i]) /\ SumOf(book[i]) \in Nat
        BY <2>3, <3>1, <3>3, <3>4 DEF Covered
      <4>4. quotedFree' >= SumOf(book[i])
        BY <2>1, <2>2, <4>2, <4>3
      <4> QED
        BY <1>4, <3>4, <4>4 DEF Covered, SumOf
    <3>5. CASE book[i].side # "BUY"
      <4>1. \A m \in 1..n : ~done(m, "SELL")
        BY <2>3, <3>1, <3>2, <3>5
      <4>2. baseFree' >= baseFree
        <5> HIDE DEF done
        <5> QED
          BY <2>1, <4>1
      <4>3. baseFree - book[i].amount >= 0 /\ book[i].amount \in Nat
        BY <2>3, <3>1, <3>3, <3>5 DEF Covered
      <4>4. baseFree' - book[i].amount >= 0
        BY <2>1, <2>2, <4>2, <4>3
      <4> QED
        BY <1>4, <3>5, <4>4 DEF Covered
    <3> QED
      BY <3>4, <3>5
  <2> QED
    BY <1>12, <2>2, <2>4, <2>5, <2>6
<1> QED
  BY <1>10, <1>13, <1>14, <1>15, <1>16, <1>17, <1>18 DEF FakeInv

-----------------------------------------------------------------------------
(* Theorems.                                                               *)

\* Every step keeps the invariant.
LEMMA StepInv ==
  ASSUME FakeInv, [Next]_vars
  PROVE  FakeInv'
<1>1. ASSUME NEW c \in Clients, NEW order \in FakeOrder, CreateOrder(c, order) PROVE FakeInv'
  BY <1>1, CreateOrderStep
<1>2. ASSUME NEW c \in Clients, OpenedOrders(c) PROVE FakeInv'
  BY <1>2, OpenedOrdersStep
<1>3. ASSUME NEW c \in Clients, Looks(c) PROVE FakeInv'
  BY <1>3, LooksStep
<1>4. ASSUME NEW c \in Clients, Exists(c) PROVE FakeInv'
  BY <1>4, ExistsStep
<1>5. ASSUME NEW c \in Clients, Finished(c) PROVE FakeInv'
  BY <1>5, FinishedStep
<1>6. ASSUME NEW c \in Clients, CancelOrder(c) PROVE FakeInv'
  BY <1>6, CancelOrderStep
<1>7. CASE UpdatePrice
  BY <1>7, UpdatePriceStep
<1>8. CASE UpdateActiveOrders
  BY <1>8, UpdateActiveOrdersStep
<1>9. CASE UNCHANGED vars
  BY <1>9, StutterStep
<1> QED
  BY <1>1, <1>2, <1>3, <1>4, <1>5, <1>6, <1>7, <1>8, <1>9 DEF Next

\* The invariant holds in every state: what the account lists, what the clients hold
\* of it and the balances fit together, whoever runs in between (fake/api.go:86-201).
THEOREM FakeInvariant == Spec => []FakeInv
<1>1. Init => FakeInv
  BY InitInv
<1>2. FakeInv /\ [Next]_vars => FakeInv'
  BY StepInv
<1> QED
  BY <1>1, <1>2, PTL DEF Spec

\* Every variable keeps its type; in particular the account's slice stays within its
\* array and no client goes further than one element behind its own
\* (fake/api.go:86-201).
THEOREM FakeTypeCorrect == Spec => []TypeOK
<1>1. FakeInv => TypeOK
  BY DEF FakeInv
<1> QED
  BY <1>1, FakeInvariant, PTL

\* A client misses its open order only when another one cancelled while it went
\* through the list (fake/api.go:91-122, 161, 184, 194; bot.go:217-233).
THEOREM MissedOnlyBehindACancelHolds == Spec => []MissedOnlyBehindACancel
<1>1. FakeInv => MissedOnlyBehindACancel
  <2> SUFFICES ASSUME FakeInv, NEW c \in Clients, Ranged(c), ~exist[c], mine[c] \in Opened,
                      c \notin disturbed
               PROVE  FALSE
    BY DEF MissedOnlyBehindACancel
  <2>1. Undisturbed(c) /\ pos[c] > view[c].len
    BY DEF Ranged, Undisturbed
  <2>2. PICK k \in pos[c]..view[c].len : heap[view[c].arr][k] = mine[c]
    BY <2>1 DEF FakeInv, SeenOrAhead
  <2>3. pos[c] \in Nat /\ view[c].len \in Nat
    BY FakeAssumption DEF FakeInv, TypeOK, Slice
  <2> QED
    BY <2>1, <2>2, <2>3
<1> QED
  BY <1>1, FakeInvariant, PTL

\* Without two open orders of one side at once no balance is ever overdrawn, although
\* the cover is looked at only when an order is created (fake/api.go:103-114, 149-153).
THEOREM OverdraftNeedsOverlapHolds == Spec => []OverdraftNeedsOverlap
<1>1. FakeInv => OverdraftNeedsOverlap
  <2> SUFFICES ASSUME FakeInv, ~overlapped
               PROVE  ~(baseFree < 0) /\ ~(quotedFree < 0)
    BY DEF OverdraftNeedsOverlap
  <2>1. /\ baseFree \in Int /\ quotedFree \in Int
        /\ baseFree >= 0 /\ quotedFree >= 0
    BY DEF FakeInv, OnePerSide, TypeOK
  <2> QED
    BY <2>1
<1> QED
  BY <1>1, FakeInvariant, PTL

\* An order leaves the list by completing or by its own client's cancel, never because
\* another one does, or because the list moves to another array
\* (fake/api.go:102-120, 191-199).
THEOREM OrdersLeaveForAReasonHolds == Spec => OrdersLeaveForAReason
<1> DEFINE Reason(i) == Completes(i) \/ \E c \in Clients : mine[c] = i /\ pc[c] = "cancel"
<1>1. ASSUME FakeInv, [Next]_vars
      PROVE  \A i \in Opened \ Opened' : Reason(i)
  <2>1. CASE UpdateActiveOrders
    BY <1>1, <2>1, UpdateActiveOrdersStep
  <2>2. ASSUME NEW c \in Clients, CancelOrder(c)
        PROVE  \A i \in Opened \ Opened' : Reason(i)
    BY <1>1, <2>2, CancelOrderStep DEF CancelOrder
  <2>3. ASSUME NEW c \in Clients, NEW order \in FakeOrder, CreateOrder(c, order)
        PROVE  Opened \subseteq Opened'
    BY <1>1, <2>3, CreateOrderStep
  <2>4. CASE \/ \E c \in Clients : OpenedOrders(c) \/ Looks(c) \/ Exists(c) \/ Finished(c)
             \/ UpdatePrice \/ UNCHANGED vars
    <3>1. CASE UNCHANGED <<heap, orders>>
      BY <3>1 DEF Opened, Elements
    <3>2. ASSUME NEW c \in Clients, DropsList(c), UNCHANGED orders PROVE Opened' = Opened
      <4>1. heap' = Collected(heap, orders, view') /\ orders.arr \in Arrays
        BY <1>1, <3>2 DEF DropsList, FakeInv, TypeOK, Slice
      <4>2. heap'[orders.arr] = heap[orders.arr]
        BY <4>1 DEF Collected, Refers
      <4> QED
        BY <3>2, <4>2 DEF Opened, Elements
    <3> QED
      BY <2>4, <3>1, <3>2 DEF OpenedOrders, Looks, Exists, Finished, UpdatePrice, vars,
                             accountVars
  <2> QED
    BY <1>1, <2>1, <2>2, <2>3, <2>4 DEF Next
<1>2. FakeInv /\ [Next]_vars => [\A i \in Opened \ Opened' : Reason(i)]_vars
  BY <1>1
<1> QED
  BY <1>2, FakeInvariant, PTL DEF Spec, OrdersLeaveForAReason
=============================================================================
